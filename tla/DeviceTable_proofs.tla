-------------------------- MODULE DeviceTable_proofs --------------------------
(* Proofs about DeviceTable, for any number of threads, disks and volumes  *)
(* and any set of calls that may fail: what the builds allocate and open,  *)
(* and what they put in the table.                                         *)
EXTENDS DeviceTable, PosixNames_proofs, FiniteSetTheorems

(* Where a thread is in BuildDeviceList.                                   *)
HoldsEntry == {"query", "layout", "store"}
HoldsDevice == {"number"} \cup HoldsEntry
Working == {"detail", "open"} \cup HoldsDevice
Building == {"classDevs", "enum", "exit"} \cup Working

Types ==
  /\ inited \in BOOLEAN /\ builds \in Nat
  /\ table \in [0 .. Slots - 1 -> Ids \cup {Null}]
  /\ alloc \subseteq Ids /\ osOpen \subseteq Ids
  /\ pc \in [Threads -> Labels]
  /\ index \in [Threads -> 0 .. Len(Present)]
  /\ hDevice \in [Threads -> Ids \cup {Null}] /\ raw \in [Threads -> Ids \cup {Null}]

(* A thread holds what it made for the device it is at, where the code has *)
(* it, and Error_Exit finds nothing else.                                  *)
Names == \A t \in Threads :
  /\ raw[t] # Null => raw[t] = <<t, index[t]>> /\ pc[t] \in HoldsEntry \cup {"exit"}
  /\ hDevice[t] # Null => hDevice[t] = <<t, index[t]>> /\ pc[t] \in HoldsDevice \cup {"exit"}
  /\ pc[t] \in HoldsEntry => raw[t] # Null
  /\ pc[t] \in HoldsDevice => hDevice[t] # Null
  /\ pc[t] \in Working => index[t] # 0

(* A thread enters BuildDeviceList once: the flag never goes back.         *)
Once ==
  /\ ~inited => alloc = {}
  /\ \A t \in Threads : pc[t] = "set" => \A e \in alloc : e[1] # t
  /\ \A t \in Threads : pc[t] \in Building => inited

(* What a thread allocated is of a device it has been past, or is at.      *)
Past == \A e \in alloc :
  /\ e[2] <= index[e[1]]
  /\ pc[e[1]] \in {"detail", "open", "number"} => e[2] < index[e[1]]

(* An entry is in the slot of its device number.                           *)
InPlace == \A n \in 0 .. Slots - 1 :
  table[n] # Null => Present[table[n][2]].number = n

(* Until a second build begins, everything is of the one that builds.      *)
Single ==
  /\ ~inited <=> builds = 0
  /\ builds <= 1 => \A t \in Threads : pc[t] \in Building =>
       /\ \A u \in Threads : pc[u] \in Building => u = t
       /\ \A e \in alloc : e[1] = t

(* The inductive invariant.                                                *)
TableInv == Types /\ Names /\ Once /\ Past /\ InPlace /\ Single /\ Owned /\ NothingLost

----------------------------------------------------------------------------
LEMMA Tables ==
  /\ Slots \in Nat \ {0} /\ Len(Present) \in Nat /\ Null \notin Ids
  /\ \A i, j \in 1 .. Len(Present) : Present[i].number = Present[j].number => i = j
  /\ \A i \in 1 .. Len(Present) : Present[i].number \in Nat
BY TableAssumption DEF TableAssumption, Ids

(* Names of entries, and the one a working thread is at.                   *)
LEMMA IdParts ==
  ASSUME NEW e \in Ids
  PROVE  e[1] \in Threads /\ e[2] \in 1 .. Len(Present) /\ e[2] \in Nat /\ e = <<e[1], e[2]>>
BY Tables DEF Ids

LEMMA AtIds ==
  ASSUME TableInv, NEW t \in Threads
  PROVE  /\ index[t] \in Nat /\ index[t] <= Len(Present)
         /\ pc[t] \in Working => <<t, index[t]>> \in Ids
<1>1. index[t] \in 0 .. Len(Present)
  BY DEF TableInv, Types
<1>2. pc[t] \in Working => index[t] # 0
  BY DEF TableInv, Names
<1>3. pc[t] \in Working => index[t] \in 1 .. Len(Present)
  BY <1>1, <1>2, Tables
<1> QED BY <1>1, <1>3, Tables DEF Ids

LEMMA AllocParts ==
  ASSUME TableInv, NEW e \in alloc
  PROVE  e \in Ids /\ e[1] \in Threads /\ e[2] \in Nat
BY IdParts DEF TableInv, Types

(* What a step leaves alone when it only moves one thread on, to a place   *)
(* that asks for nothing the thread does not have.                         *)
Keeps == UNCHANGED <<inited, table, alloc, osOpen, builds, index, hDevice, raw>>

(* What two threads hold is not the same.                                  *)
LEMMA HeldApart ==
  ASSUME Owned, NEW t \in Threads, NEW u \in Threads, t # u
  PROVE  (raw[t] # Null => raw[t] # raw[u]) /\ (hDevice[t] # Null => hDevice[t] # hDevice[u])
BY Zenon DEF Owned

LEMMA KeptStored ==
  ASSUME UNCHANGED table
  PROVE  Stored' = Stored
BY DEF Stored, Used

LEMMA MovesOn ==
  ASSUME TableInv, Keeps, NEW t \in Threads, NEW l \in Labels, Goto(t, l),
         l \in Building => pc[t] \in Building,
         l \in {"set"} => ~inited,
         l \in HoldsEntry => pc[t] \in HoldsEntry,
         l \in HoldsDevice => pc[t] \in HoldsDevice,
         l \in Working => pc[t] \in Working,
         l \in {"detail", "open", "number"} => pc[t] \in {"detail", "open", "number"},
         l \in HoldsEntry \cup {"exit"} \/ pc[t] \notin HoldsEntry \cup {"exit"},
         l \in HoldsDevice \cup {"exit"} \/ pc[t] \notin HoldsDevice \cup {"exit"}
  PROVE  TableInv'
<1>0. /\ pc' = [pc EXCEPT ![t] = l] /\ pc \in [Threads -> Labels]
      /\ \A u \in Threads : pc'[u] = IF u = t THEN l ELSE pc[u]
  BY DEF TableInv, Types, Goto
<1>1. Types'
  BY <1>0 DEF TableInv, Types, Keeps, Ids
<1>2. Names'
  BY <1>0 DEF TableInv, Names, Keeps, HoldsEntry, HoldsDevice, Working
<1>3. Once'
  BY <1>0 DEF TableInv, Once, Keeps
<1>4. Past'
  <2>1. \A e \in alloc : e[1] \in Threads
    BY DEF TableInv, Types, Ids
  <2> QED BY <1>0, <2>1 DEF TableInv, Past, Keeps
<1>5. InPlace' /\ Owned' /\ NothingLost'
  BY KeptStored DEF TableInv, InPlace, Owned, NothingLost, Keeps
<1>6. Single'
  BY <1>0 DEF TableInv, Single, Keeps
<1> QED BY <1>1, <1>2, <1>3, <1>4, <1>5, <1>6 DEF TableInv

(* A call that fails leaves the enumeration.                               *)
LEMMA FailsKeeps ==
  ASSUME TableInv, NEW t \in Threads, pc[t] \in Building, Fails(t)
  PROVE  TableInv'
<1>1. Keeps /\ Goto(t, "exit") /\ "exit" \in Labels
  BY DEF Fails, Keeps, shared, locals, Labels
<1> QED BY <1>1, MovesOn DEF Building, HoldsEntry, HoldsDevice, Working

----------------------------------------------------------------------------
LEMMA InitSetKeeps ==
  ASSUME TableInv, NEW t \in Threads, InitSet(t)
  PROVE  TableInv'
<1>0. /\ pc[t] = "set" /\ inited' /\ builds' = builds + 1 /\ builds \in Nat
      /\ UNCHANGED <<table, alloc, osOpen, hDevice, raw>>
      /\ \A u \in Threads : pc'[u] = IF u = t THEN "classDevs" ELSE pc[u]
      /\ \A u \in Threads : index'[u] = IF u = t THEN 0 ELSE index[u]
      /\ \A e \in alloc : e[1] \in Threads /\ e[1] # t
      /\ raw[t] = Null /\ hDevice[t] = Null
  BY DEF InitSet, TableInv, Types, Names, Once, Goto, Ids, HoldsEntry, HoldsDevice, Working
<1>1. Types'
  BY Tables DEF TableInv, Types, InitSet, Goto, Labels, Ids
<1>2. Names'
  BY <1>0 DEF TableInv, Names, HoldsEntry, HoldsDevice, Working
<1>3. Once'
  BY <1>0 DEF TableInv, Once
<1>4. Past'
  BY <1>0 DEF TableInv, Past
<1>5. InPlace' /\ Owned'
  BY <1>0, KeptStored DEF TableInv, InPlace, Owned
<1>6. NothingLost'
  BY <1>0, KeptStored DEF TableInv, NothingLost
<1>7. Single'
  BY <1>0 DEF TableInv, Single, Once
<1> QED BY <1>1, <1>2, <1>3, <1>4, <1>5, <1>6, <1>7 DEF TableInv

LEMMA EnumKeeps ==
  ASSUME TableInv, NEW t \in Threads, EnumDeviceInterfaces(t)
  PROVE  TableInv'
<1>1. CASE ~Fails(t)
  <2>n. index[t] < Len(Present) /\ Succeeds(t, "detail")
    BY <1>1 DEF EnumDeviceInterfaces
  <2>0. /\ pc[t] = "enum"
        /\ UNCHANGED <<inited, builds, table, alloc, osOpen, hDevice, raw>>
        /\ \A u \in Threads : pc'[u] = IF u = t THEN "detail" ELSE pc[u]
        /\ \A u \in Threads : index'[u] = IF u = t THEN index[u] + 1 ELSE index[u]
        /\ \A e \in alloc : e[1] \in Threads /\ e[2] \in Nat
        /\ \A u \in Threads : index[u] \in Nat
        /\ raw[t] = Null /\ hDevice[t] = Null
    BY <1>1, <2>n, AtIds, AllocParts DEF EnumDeviceInterfaces, Succeeds, TableInv, Types, Names,
       Goto, shared, HoldsEntry, HoldsDevice, Working
  <2>1. Types'
    <3>0. index[t] \in Nat /\ Len(Present) \in Nat
      BY AtIds, Tables
    <3>1. index[t] + 1 \in 0 .. Len(Present)
      BY <2>n, <3>0
    <3> QED BY <1>1, <2>n, <3>1 DEF TableInv, Types, EnumDeviceInterfaces, Succeeds, Goto, Labels, Ids,
            shared
  <2>2. Names'
    BY <2>0 DEF TableInv, Names, HoldsEntry, HoldsDevice, Working
  <2>3. Once'
    BY <2>0 DEF TableInv, Once, Building
  <2>4. Past'
    BY <2>0 DEF TableInv, Past
  <2>5. InPlace' /\ Owned' /\ NothingLost'
    BY <2>0, KeptStored DEF TableInv, InPlace, Owned, NothingLost
  <2>6. Single'
    BY <2>0 DEF TableInv, Single, Building
  <2> QED BY <2>1, <2>2, <2>3, <2>4, <2>5, <2>6 DEF TableInv
<1>2. CASE Fails(t)
  BY <1>2, FailsKeeps DEF EnumDeviceInterfaces, Building
<1> QED BY <1>1, <1>2

LEMMA OpenKeeps ==
  ASSUME TableInv, NEW t \in Threads, OpenDevice(t)
  PROVE  TableInv'
<1>1. CASE Fails(t)
  BY <1>1, FailsKeeps DEF OpenDevice, Building, Working
<1>2. CASE ~Fails(t)
  <2> DEFINE h == <<t, index[t]>>
  <2>0. /\ pc[t] = "open" /\ h \in Ids
        /\ UNCHANGED <<inited, builds, table, alloc, index, raw>>
        /\ osOpen' = osOpen \cup {h}
        /\ \A u \in Threads : hDevice'[u] = IF u = t THEN h ELSE hDevice[u]
        /\ \A u \in Threads : pc'[u] = IF u = t THEN "number" ELSE pc[u]
        /\ \A e \in alloc : e[1] \in Threads
        /\ raw[t] = Null /\ hDevice[t] = Null
    BY <1>2, AtIds, AllocParts DEF OpenDevice, Succeeds, TableInv, Types, Names, Goto,
       HoldsEntry, HoldsDevice, Working
  <2>1. Types'
    BY <1>2, <2>0 DEF TableInv, Types, OpenDevice, Succeeds, Goto, Labels, Ids
  <2>2. Names'
    BY <2>0, Tables DEF TableInv, Names, HoldsEntry, HoldsDevice, Working
  <2>3. Once'
    BY <2>0 DEF TableInv, Once, Building, Working
  <2>4. Past'
    BY <2>0 DEF TableInv, Past
  <2>5. InPlace' /\ Owned'
    <3>1. \A u \in Threads : u # t => hDevice[u] # h
      BY <2>0, Tables DEF TableInv, Names
    <3>o. Owned
      BY DEF TableInv
    <3>2. \A u, v \in Threads : u # v => /\ raw[u] # Null => raw[u] # raw[v]
                                         /\ hDevice'[u] # Null => hDevice'[u] # hDevice'[v]
      BY <2>0, <3>1, <3>o, HeldApart
    <3> HIDE DEF h
    <3>3. \A u \in Threads : hDevice'[u] # Null => hDevice'[u] \in osOpen'
      BY <2>0 DEF TableInv, Owned
    <3> QED BY <2>0, <3>2, <3>3, KeptStored DEF TableInv, InPlace, Owned
  <2>6. NothingLost'
    BY <2>0, KeptStored, Tables DEF TableInv, NothingLost
  <2>7. Single'
    BY <2>0 DEF TableInv, Single, Building, Working
  <2> QED BY <2>1, <2>2, <2>3, <2>4, <2>5, <2>6, <2>7 DEF TableInv
<1> QED BY <1>1, <1>2

LEMMA NumberKeeps ==
  ASSUME TableInv, NEW t \in Threads, GetDeviceNumber(t)
  PROVE  TableInv'
<1>1. CASE Fails(t)
  BY <1>1, FailsKeeps DEF GetDeviceNumber, Building, Working, HoldsDevice
<1>2. CASE ~Fails(t)
  <2> DEFINE e == <<t, index[t]>>
  <2>0. /\ pc[t] = "number" /\ e \in Ids
        /\ UNCHANGED <<inited, builds, table, osOpen, index, hDevice>>
        /\ alloc' = alloc \cup {e}
        /\ \A u \in Threads : raw'[u] = IF u = t THEN e ELSE raw[u]
        /\ \A u \in Threads : pc'[u] = IF u = t THEN "query" ELSE pc[u]
        /\ \A f \in alloc : f[1] \in Threads /\ f[2] \in Nat
        /\ \A u \in Threads : index[u] \in Nat
        /\ raw[t] = Null
    BY <1>2, AtIds, AllocParts DEF GetDeviceNumber, Succeeds, TableInv, Types, Names, Goto,
       HoldsEntry, HoldsDevice, Working
  <2>e. e \notin alloc
    <3> SUFFICES ASSUME e \in alloc PROVE FALSE
      OBVIOUS
    <3>1. e[2] < index[t]
      BY <2>0 DEF TableInv, Past
    <3> QED BY <3>1, <2>0
  <2>1. Types'
    BY <1>2, <2>0 DEF TableInv, Types, GetDeviceNumber, Succeeds, Goto, Labels, Ids
  <2>2. Names'
    BY <2>0, Tables DEF TableInv, Names, HoldsEntry, HoldsDevice, Working
  <2>3. Once'
    BY <2>0 DEF TableInv, Once, Building, Working, HoldsDevice
  <2>4. Past'
    BY <2>0 DEF TableInv, Past
  <2>5. InPlace'
    BY <2>0 DEF TableInv, InPlace
  <2>6. Owned'
    <3>1. \A u \in Threads : u # t /\ raw[u] # Null => raw[u] \in alloc
      BY DEF TableInv, Owned
    <3> QED BY <2>0, <2>e, <3>1, KeptStored, Tables DEF TableInv, Owned
  <2>7. NothingLost'
    BY <2>0, KeptStored, Tables DEF TableInv, NothingLost
  <2>8. Single'
    BY <2>0 DEF TableInv, Single, Building, Working, HoldsDevice
  <2> QED BY <2>1, <2>2, <2>3, <2>4, <2>5, <2>6, <2>7, <2>8 DEF TableInv
<1> QED BY <1>1, <1>2

(* The entry a thread has filled in belongs in no slot yet, and the slot   *)
(* it goes to is free, unless a second build is under way.                 *)
LEMMA SlotFree ==
  ASSUME TableInv, NEW t \in Threads, pc[t] = "store", builds <= 1,
         Storable(Present[index[t]].number)
  PROVE  table[Present[index[t]].number] = Null
<1> DEFINE n == Present[index[t]].number
           e == table[n]
<1>1. n \in 0 .. Slots - 1 /\ <<t, index[t]>> \in Ids /\ index[t] \in 1 .. Len(Present)
  <2>1. index[t] \in 1 .. Len(Present) /\ <<t, index[t]>> \in Ids
    BY AtIds, IdParts DEF Working, HoldsDevice, HoldsEntry
  <2> QED BY <2>1, Tables DEF Storable
<1>2. SUFFICES ASSUME e # Null PROVE FALSE
  OBVIOUS
<1>3. e \in Ids /\ e \in Stored
  BY <1>1, <1>2 DEF TableInv, Types, Stored, Used
<1>4. e \in alloc
  BY <1>3 DEF TableInv, Owned
<1>5. e[1] = t
  BY <1>4 DEF TableInv, Single, Building, Working, HoldsDevice, HoldsEntry
<1>6. e[2] = index[t]
  <2>1. Present[e[2]].number = Present[index[t]].number
    BY <1>1, <1>2 DEF TableInv, InPlace
  <2>2. e[2] \in 1 .. Len(Present)
    BY <1>3, IdParts
  <2> QED BY <1>1, <2>1, <2>2, Tables
<1>7. e = raw[t]
  <2>1. raw[t] = <<t, index[t]>>
    BY DEF TableInv, Names, HoldsEntry
  <2> QED BY <1>3, <1>5, <1>6, <2>1, IdParts
<1> QED BY <1>2, <1>3, <1>7 DEF TableInv, Owned

LEMMA StoreKeeps ==
  ASSUME TableInv, NEW t \in Threads, Store(t)
  PROVE  TableInv'
<1> DEFINE n == Present[index[t]].number
           e == <<t, index[t]>>
<1>0. /\ pc[t] = "store" /\ e \in Ids /\ raw[t] = e /\ hDevice[t] = e
      /\ UNCHANGED <<inited, builds, index>>
      /\ osOpen' = osOpen \ {e}
      /\ \A u \in Threads : raw'[u] = IF u = t THEN Null ELSE raw[u]
      /\ \A u \in Threads : hDevice'[u] = IF u = t THEN Null ELSE hDevice[u]
      /\ \A u \in Threads : pc'[u] = IF u = t THEN "enum" ELSE pc[u]
      /\ \A u \in Threads : u # t => raw[u] # e /\ hDevice[u] # e
      /\ e \in alloc /\ e \notin Stored
  <2>1. pc[t] = "store" /\ e \in Ids /\ raw[t] = e /\ hDevice[t] = e
    BY AtIds DEF Store, TableInv, Names, Working, HoldsDevice, HoldsEntry
  <2>2. \A u \in Threads : u # t => raw[u] # e /\ hDevice[u] # e
    BY <2>1, Tables DEF TableInv, Names
  <2>3. e \in alloc /\ e \notin Stored
    BY <2>1, Tables DEF TableInv, Owned
  <2> QED BY <2>1, <2>2, <2>3 DEF Store, Goto, TableInv, Types
<1>2. Names'
  BY <1>0 DEF TableInv, Names, HoldsEntry, HoldsDevice, Working
<1>3. \A f \in alloc : f[1] \in Threads /\ f[2] \in Nat
  BY AllocParts
<1>4. CASE Storable(n)
  <2>0. /\ alloc' = alloc /\ table' = [table EXCEPT ![n] = e] /\ n \in 0 .. Slots - 1
        /\ table \in [0 .. Slots - 1 -> Ids \cup {Null}]
        /\ Present[e[2]].number = n
    <3>1. index[t] \in 1 .. Len(Present)
      BY <1>0, IdParts
    <3> QED BY <1>0, <1>4, <3>1, Tables DEF Store, Storable, TableInv, Types
  <2>1. Types'
    BY <1>0, <2>0 DEF TableInv, Types, Store, Goto, Labels
  <2>2. Once' /\ Past' /\ Single'
    BY <1>0, <1>3, <2>0 DEF TableInv, Once, Past, Single, Building, Working, HoldsDevice, HoldsEntry
  <2>3. InPlace'
    BY <2>0 DEF TableInv, InPlace
  <2>4. Stored' \subseteq Stored \cup {e} /\ e \in Stored'
    BY <1>0, <2>0, Tables DEF Stored, Used
  <2>5. Owned'
    <3>1. \A u \in Threads : /\ raw[u] # Null => raw[u] \in alloc \ Stored
                             /\ hDevice[u] # Null => hDevice[u] \in osOpen
      BY DEF TableInv, Owned
    <3>2. \A u \in Threads : /\ raw'[u] # Null => raw'[u] \in alloc' \ Stored'
                             /\ hDevice'[u] # Null => hDevice'[u] \in osOpen'
      BY <1>0, <2>0, <2>4, <3>1
    <3>3. \A u, v \in Threads : u # v => /\ raw'[u] # Null => raw'[u] # raw'[v]
                                         /\ hDevice'[u] # Null => hDevice'[u] # hDevice'[v]
      <4> HIDE DEF e, n
      <4>1. Owned
        BY DEF TableInv
      <4> QED BY <1>0, <4>1, HeldApart
    <3>4. Stored' \subseteq alloc'
      BY <1>0, <2>0, <2>4 DEF TableInv, Owned
    <3>5. \A m \in 0 .. Slots - 1 : table[m] # e
      BY <1>0, Tables DEF Stored, Used
    <3>6. \A l, m \in 0 .. Slots - 1 : l # m /\ table'[l] # Null => table'[l] # table'[m]
      BY <2>0, <3>5 DEF TableInv, Owned
    <3> QED BY <3>2, <3>3, <3>4, <3>6 DEF Owned
  <2>6. builds <= 1 => Stored' = Stored \cup {e}
    <3>1. builds <= 1 => table[n] = Null
      BY <1>0, <1>4, SlotFree
    <3> QED BY <1>0, <2>0, <2>4, <3>1 DEF Stored, Used
  <2>7. NothingLost'
    <3>1. osOpen' = {hDevice'[u] : u \in Threads} \ {Null}
      BY <1>0, Tables DEF TableInv, NothingLost
    <3>2. builds <= 1 => alloc' = Stored' \cup ({raw'[u] : u \in Threads} \ {Null})
      BY <1>0, <2>0, <2>6, Tables DEF TableInv, NothingLost
    <3> QED BY <1>0, <3>1, <3>2 DEF NothingLost
  <2> QED BY <1>2, <2>1, <2>2, <2>3, <2>5, <2>7 DEF TableInv
<1>5. CASE ~Storable(n)
  <2>0. alloc' = alloc \ {e} /\ table' = table
    BY <1>0, <1>5 DEF Store
  <2>1. Types'
    BY <1>0, <2>0 DEF TableInv, Types, Store, Goto, Labels
  <2>2. Once' /\ Past' /\ Single'
    BY <1>0, <1>3, <2>0 DEF TableInv, Once, Past, Single, Building, Working, HoldsDevice, HoldsEntry
  <2>3. InPlace' /\ Owned'
    BY <1>0, <2>0, KeptStored, Tables DEF TableInv, InPlace, Owned
  <2>4. NothingLost'
    BY <1>0, <2>0, KeptStored, Tables DEF TableInv, NothingLost
  <2> QED BY <1>2, <2>1, <2>2, <2>3, <2>4 DEF TableInv
<1> QED BY <1>4, <1>5

(* Error_Exit: what it frees and closes was this thread's, and all of it.  *)
LEMMA ExitKeeps ==
  ASSUME TableInv, NEW t \in Threads, Exit(t)
  PROVE  TableInv'
<1>0. /\ pc[t] = "exit" /\ Looked(call[t]) \in {"count", "answer"}
      /\ UNCHANGED <<inited, table, builds, index>>
      /\ alloc' = alloc \ {raw[t]} /\ osOpen' = osOpen \ {hDevice[t]}
      /\ \A u \in Threads : raw'[u] = IF u = t THEN Null ELSE raw[u]
      /\ \A u \in Threads : hDevice'[u] = IF u = t THEN Null ELSE hDevice[u]
      /\ \A u \in Threads : pc'[u] = IF u = t THEN Looked(call[t]) ELSE pc[u]
  BY DEF Exit, Looked, Goto, TableInv, Types
<1>1. Types'
  BY <1>0 DEF TableInv, Types, Exit, Goto, Labels
<1>2. Names'
  BY <1>0 DEF TableInv, Names, HoldsEntry, HoldsDevice, Working
<1>3. \A f \in alloc : f[1] \in Threads /\ f[2] \in Nat
  BY AllocParts
<1>4. Once' /\ Past'
  BY <1>0, <1>3 DEF TableInv, Once, Past, Building, Working, HoldsDevice, HoldsEntry
<1>5. Single'
  BY <1>0, <1>3 DEF TableInv, Single, Building, Working, HoldsDevice, HoldsEntry
<1>6. \A u \in Threads : u # t =>
        (raw[u] # Null => raw[u] # raw[t]) /\ (hDevice[u] # Null => hDevice[u] # hDevice[t])
  BY DEF TableInv, Names
<1>7. raw[t] \notin Stored
  BY Tables DEF TableInv, Owned, Types, Stored, Used
<1>8. InPlace' /\ Owned'
  <2>1. Owned
    BY DEF TableInv
  <2>2. \A u, v \in Threads : u # v => /\ raw'[u] # Null => raw'[u] # raw'[v]
                                       /\ hDevice'[u] # Null => hDevice'[u] # hDevice'[v]
    BY <1>0, <2>1, HeldApart
  <2>3. \A u \in Threads : /\ raw'[u] # Null => raw'[u] \in alloc' \ Stored
                           /\ hDevice'[u] # Null => hDevice'[u] \in osOpen'
    BY <1>0, <1>6 DEF TableInv, Owned
  <2>4. Stored \subseteq alloc'
    BY <1>0, <1>7 DEF TableInv, Owned
  <2> QED BY <1>0, <2>2, <2>3, <2>4, KeptStored DEF TableInv, InPlace, Owned
<1>9. NothingLost'
  BY <1>0, <1>6, <1>7, KeptStored, Tables DEF TableInv, NothingLost
<1> QED BY <1>1, <1>2, <1>4, <1>5, <1>8, <1>9 DEF TableInv

----------------------------------------------------------------------------
(* The steps of BuildDeviceList that change nothing shared but the         *)
(* contents of an entry.                                                   *)
LEMMA AsksKeep ==
  ASSUME TableInv, NEW t \in Threads,
         GetClassDevs(t) \/ GetInterfaceDetail(t) \/ QueryDevice(t) \/ GetLayout(t)
  PROVE  TableInv'
<1>1. CASE Fails(t)
  BY <1>1, FailsKeeps DEF GetClassDevs, GetInterfaceDetail, QueryDevice, GetLayout,
     Building, Working, HoldsDevice, HoldsEntry
<1>2. CASE ~Fails(t) /\ GetClassDevs(t)
  <2>1. Keeps /\ Goto(t, "enum") /\ pc[t] = "classDevs" /\ "enum" \in Labels
    BY <1>2 DEF GetClassDevs, Succeeds, Keeps, shared, locals, Labels
  <2> QED BY <2>1, MovesOn DEF Building, HoldsEntry, HoldsDevice, Working
<1>3. CASE ~Fails(t) /\ GetInterfaceDetail(t)
  <2>1. Keeps /\ Goto(t, "open") /\ pc[t] = "detail" /\ "open" \in Labels
    BY <1>3 DEF GetInterfaceDetail, Succeeds, Keeps, shared, locals, Labels
  <2> QED BY <2>1, MovesOn DEF Building, HoldsEntry, HoldsDevice, Working
<1>4. CASE ~Fails(t) /\ QueryDevice(t)
  <2>1. Keeps /\ Goto(t, "layout") /\ pc[t] = "query" /\ "layout" \in Labels
    BY <1>4 DEF QueryDevice, Succeeds, Keeps, shared, locals, Labels
  <2> QED BY <2>1, MovesOn DEF Building, HoldsEntry, HoldsDevice, Working
<1>5. CASE ~Fails(t) /\ GetLayout(t)
  <2>1. Keeps /\ Goto(t, "store") /\ pc[t] = "layout" /\ "store" \in Labels
    BY <1>5 DEF GetLayout, Succeeds, Keeps, Labels
  <2> QED BY <2>1, MovesOn DEF Building, HoldsEntry, HoldsDevice, Working
<1> QED BY <1>1, <1>2, <1>3, <1>4, <1>5

(* The steps outside BuildDeviceList, but for the setting of the flag.     *)
LEMMA CallsKeep ==
  ASSUME TableInv, NEW t \in Threads,
         (\E c : Begin(t, c)) \/ InitCheck(t) \/ CountDrives(t) \/ Answer(t)
  PROVE  TableInv'
<1>1. ASSUME NEW c, Begin(t, c) PROVE TableInv'
  <2> DEFINE l == IF c.api = "path" THEN "answer" ELSE "check"
  <2>1. Keeps /\ Goto(t, l) /\ pc[t] = "idle" /\ l \in Labels /\ l \in {"answer", "check"}
    BY <1>1 DEF Begin, Keeps, shared, locals, Labels
  <2> HIDE DEF l
  <2> QED BY <2>1, MovesOn DEF Building, HoldsEntry, HoldsDevice, Working
<1>2. CASE InitCheck(t)
  <2> DEFINE l == IF inited THEN Looked(call[t]) ELSE "set"
  <2>1. /\ Keeps /\ Goto(t, l) /\ pc[t] = "check" /\ l \in Labels
        /\ l \in {"count", "answer", "set"} /\ (l = "set" => ~inited)
    BY <1>2 DEF InitCheck, Keeps, shared, locals, Labels, Looked
  <2> HIDE DEF l
  <2>2. l \notin Building /\ pc[t] \notin HoldsEntry \cup {"exit"} /\ pc[t] \notin HoldsDevice \cup {"exit"}
    BY <2>1 DEF Building, HoldsEntry, HoldsDevice, Working
  <2>3. l \notin HoldsEntry /\ l \notin HoldsDevice /\ l \notin Working
    BY <2>2 DEF Building, HoldsDevice, Working
  <2> QED BY <2>1, <2>2, <2>3, MovesOn
<1>3. CASE CountDrives(t)
  <2>1. Keeps /\ Goto(t, "answer") /\ pc[t] = "count" /\ "answer" \in Labels
    BY <1>3 DEF CountDrives, Keeps, shared, Labels
  <2> QED BY <2>1, MovesOn DEF Building, HoldsEntry, HoldsDevice, Working
<1>4. CASE Answer(t)
  <2>1. Keeps /\ Goto(t, "idle") /\ pc[t] = "answer" /\ "idle" \in Labels
    BY <1>4 DEF Answer, Keeps, shared, Labels
  <2> QED BY <2>1, MovesOn DEF Building, HoldsEntry, HoldsDevice, Working
<1> QED BY <1>1, <1>2, <1>3, <1>4

LEMMA TableStart == ASSUME Init PROVE TableInv
<1>1. Types
  <2>1. 0 \in 0 .. Len(Present)
    BY Tables
  <2> QED BY <2>1 DEF Init, Types, Labels
<1>2. Stored = {}
  BY DEF Init, Stored, Used
<1>3. Names /\ Once /\ Past /\ InPlace /\ Single
  BY DEF Init, Names, Once, Past, InPlace, Single, Building, Working, HoldsDevice, HoldsEntry
<1>4. Owned /\ NothingLost
  BY <1>2 DEF Init, Owned, NothingLost
<1> QED BY <1>1, <1>3, <1>4 DEF TableInv

LEMMA StaysKept == ASSUME TableInv, UNCHANGED vars PROVE TableInv'
<1>1. UNCHANGED <<inited, table, alloc, osOpen, builds, index, hDevice, raw, pc>>
  BY DEF vars, shared, locals
<1>2. Types' /\ Names' /\ Once' /\ Past' /\ InPlace' /\ Single'
  BY <1>1 DEF TableInv, Types, Names, Once, Past, InPlace, Single
<1>3. Owned' /\ NothingLost'
  BY <1>1, KeptStored DEF TableInv, Owned, NothingLost
<1> QED BY <1>2, <1>3 DEF TableInv

LEMMA StepsKeep ==
  ASSUME TableInv, NEW t \in Threads, (\E c : Begin(t, c)) \/ Continue(t)
  PROVE  TableInv'
BY CallsKeep, InitSetKeeps, AsksKeep, EnumKeeps, OpenKeeps, NumberKeeps, StoreKeeps,
   ExitKeeps DEF Continue, BuildStep

----------------------------------------------------------------------------
(* However many threads run BuildDeviceList, and whichever call fails      *)
(* where, the invariant of the builds holds.                               *)
THEOREM TableInductive == Spec => []TableInv
<1>1. Init => TableInv
  BY TableStart
<1>2. TableInv /\ [Next]_vars => TableInv'
  BY StaysKept, StepsKeep DEF Next
<1> QED BY <1>1, <1>2, PTL DEF Spec

(* However many threads found g_bIsInited clear, the entry Error_Exit      *)
(* would free (windevblk_list.c:540-549) is allocated, in no slot of the   *)
(* table and not the one another build would free; the handle it would     *)
(* close is open and not the one another build would close; the table      *)
(* points to allocated entries, and no two slots to the same one.          *)
THEOREM BuildsOwn == Spec => []Owned
<1>1. TableInv => Owned
  BY DEF TableInv
<1> QED BY <1>1, TableInductive, PTL

(* With any number of builds, no device handle is open but those that      *)
(* threads hold, so one that ended left none; and while no more than one   *)
(* build was entered, no entry is allocated but those of the table and the *)
(* one the build is at.                                                    *)
THEOREM BuildsLoseNothing == Spec => []NothingLost
<1>1. TableInv => NothingLost
  BY DEF TableInv
<1> QED BY <1>1, TableInductive, PTL

----------------------------------------------------------------------------
(* What an enumeration puts in the entries.                                *)

Contents == [slots : Partitions, minor : Nat]

LEMMA Drives ==
  ASSUME NEW i \in 1 .. Len(Present)
  PROVE  /\ Present[i].number \in Nat /\ Present[i].size \in Nat
         /\ Present[i].removable \in BOOLEAN
         /\ Len(Present[i].parts) \in Nat /\ DOMAIN Present[i].parts = 1 .. Len(Present[i].parts)
         /\ \A k \in 1 .. Len(Present[i].parts) :
              /\ Present[i].parts[k].number \in 0 .. PartSlots - 1
              /\ Present[i].parts[k].start \in Nat /\ Present[i].parts[k].size \in Nat
<1>1. DOMAIN Present = 1 .. Len(Present) /\ i \in DOMAIN Present
  BY TableAssumption DEF TableAssumption
<1> QED BY <1>1, TableAssumption DEF TableAssumption

LEMMA Bounds ==
  /\ PartSlots \in Nat \ {0} /\ BlkPerMajor \in Nat /\ MajorBit \in Nat \ {0}
  /\ Slots \in Nat \ {0} /\ Slots <= BlkPerMajor
BY TableAssumption DEF TableAssumption

LEMMA SlotsNameable ==
  ASSUME NEW n \in Nat, n < Slots
  PROVE  n \in Nameable
<1>1. /\ Slots \in Nat /\ Slots <= BlkPerMajor
      /\ BlkPerMajor \in Nat /\ BlkPerMajor <= 262144
  BY TableAssumption, SMT DEF TableAssumption
<1> QED BY <1>1, SMT DEF Nameable

(* The search stops at the first volume that can be asked and has the      *)
(* bytes.                                                                  *)
On(d, s, z) == {v \in DOMAIN Volumes :
  Volumes[v].readable /\ [disk |-> d, start |-> s, size |-> z] \in Volumes[v].extents}

LEMMA VolumeFound ==
  ASSUME NEW d, NEW s, NEW z
  PROVE  \/ FindVolume(d, s, z) = Null /\ On(d, s, z) = {}
         \/ /\ FindVolume(d, s, z) \in On(d, s, z)
            /\ \A w \in On(d, s, z) : FindVolume(d, s, z) <= w
<1> DEFINE here == [disk |-> d, start |-> s, size |-> z]
           on == On(d, s, z)
           first == CHOOSE v \in on : \A w \in on : v <= w
<1> DEFINE found == {v \in DOMAIN Volumes : Volumes[v].readable
                       /\ \E x \in Volumes[v].extents : IsExtent(x, d, s, z)}
<1>1. found = on
  BY DEF On, IsExtent
<1>2. FindVolume(d, s, z) = IF on = {} THEN Null ELSE first
  <2>1. FindVolume(d, s, z) = IF found = {} THEN Null ELSE CHOOSE v \in found : \A w \in found : v <= w
    BY DEF FindVolume
  <2> HIDE DEF found, on
  <2> QED BY <1>1, <2>1
<1>3. CASE on = {}
  BY <1>2, <1>3
<1>4. CASE on # {}
  <2>1. on \subseteq Nat
    BY TableAssumption DEF TableAssumption, On
  <2> HIDE DEF on, here
  <2>2. \E v \in on : \A w \in on : v <= w
    BY <1>4, <2>1, LeastNumber
  <2>3. first \in on /\ \A w \in on : first <= w
    BY <2>2
  <2> HIDE DEF first
  <2> QED BY <1>2, <1>4, <2>3 DEF on
<1> QED BY <1>3, <1>4

LEMMA InfoTyped ==
  ASSUME NEW i \in 1 .. Len(Present), NEW p \in Nat, NEW m \in Nat
  PROVE  /\ PosixInfo(Present[i], p, m) \in
              [path : (Seq(Int) \X Nat) \cup {Null}, rootDev : Nat]
         /\ NextMinor(Present[i], m) \in Nat /\ m <= NextMinor(Present[i], m)
<1>0. MajorBit \in Nat /\ Present[i].number \in Nat
  BY Bounds, Drives
<1>1. MakeDev(m) \in Nat
  BY <1>0 DEF MakeDev
<1>2. Letters(Present[i].number) \in Seq(Int)
  BY <1>0, LettersSeq
<1>3. <<Letters(Present[i].number), p>> \in Seq(Int) \X Nat
  BY <1>2
<1>4. PosixInfo(Present[i], p, m) \in [path : (Seq(Int) \X Nat) \cup {Null}, rootDev : Nat]
  BY <1>1, <1>3 DEF PosixInfo
<1>5. NextMinor(Present[i], m) \in Nat /\ m <= NextMinor(Present[i], m)
  BY DEF NextMinor
<1> QED BY <1>4, <1>5

LEMMA ExtentTyped ==
  ASSUME NEW i \in 1 .. Len(Present), NEW p \in Nat, NEW m \in Nat, NEW s \in Nat, NEW z \in Nat,
         NEW v \in DOMAIN Volumes \cup {Null}, NEW w \in DOMAIN Volumes \cup {Null}
  PROVE  Extent(s, z, PosixInfo(Present[i], p, m), v, w) \in Extents
<1> DEFINE info == PosixInfo(Present[i], p, m)
<1>1. info \in [path : (Seq(Int) \X Nat) \cup {Null}, rootDev : Nat]
  BY InfoTyped
<1>2. s + z \in Nat
  OBVIOUS
<1> HIDE DEF info
<1>3. [start |-> s, end |-> s + z, posix |-> info, volume |-> v, mount |-> w] \in Extents
  BY <1>1, <1>2, Zenon DEF Extents
<1> QED BY <1>3 DEF Extent, info

LEMMA WholeTyped ==
  ASSUME NEW i \in 1 .. Len(Present), NEW m \in Nat
  PROVE  Whole(Present[i], m) \in Contents
<1> DEFINE dev == Present[i]
           whole == Extent(0, dev.size, PosixInfo(dev, 0, m), Null, Null)
<1>1. whole \in Extents
  BY Drives, ExtentTyped
<1>2. NextMinor(dev, m) \in Nat
  BY InfoTyped
<1> HIDE DEF whole
<1>3. [p \in 0 .. PartSlots - 1 |-> IF p = 0 THEN whole ELSE Null] \in Partitions
  BY <1>1 DEF Partitions
<1>4. Whole(dev, m) = [slots |-> [p \in 0 .. PartSlots - 1 |-> IF p = 0 THEN whole ELSE Null],
                       minor |-> NextMinor(dev, m)]
  BY DEF Whole, whole
<1> QED BY <1>2, <1>3, <1>4 DEF Contents

LEMMA ScannedParts ==
  ASSUME NEW i \in 1 .. Len(Present)
  PROVE  /\ Scanned(Present[i]) \in Nat /\ Scanned(Present[i]) <= PartSlots - 1
         /\ Scanned(Present[i]) <= Len(Present[i].parts)
BY Drives, Bounds DEF Scanned

LEMMA SlotTyped ==
  ASSUME NEW i \in 1 .. Len(Present), NEW k \in 1 .. Scanned(Present[i])
  PROVE  /\ SlotOf(Present[i], k) \in 0 .. PartSlots - 1 /\ SlotOf(Present[i], k) \in Nat
         /\ k \in 1 .. Len(Present[i].parts)
         /\ Present[i].parts[k].start \in Nat /\ Present[i].parts[k].size \in Nat
<1>1. k \in 1 .. Len(Present[i].parts) /\ k \in 0 .. PartSlots - 1
  BY ScannedParts, Drives, Bounds
<1>2. SlotOf(Present[i], k) \in 0 .. PartSlots - 1
  BY <1>1, Drives DEF SlotOf
<1> QED BY <1>1, <1>2, Drives

LEMMA PartitionIs ==
  ASSUME NEW i \in 1 .. Len(Present), NEW k \in 1 .. Scanned(Present[i]), NEW got \in Contents
  PROVE  /\ Partition(Present[i], k, got) \in Contents
         /\ Present[i].parts[k].size = 0 => Partition(Present[i], k, got) = got
         /\ Present[i].parts[k].size # 0 =>
              /\ Partition(Present[i], k, got).minor = NextMinor(Present[i], got.minor)
              /\ \A p \in 0 .. PartSlots - 1 : Partition(Present[i], k, got).slots[p] =
                   IF p = SlotOf(Present[i], k) THEN PartOf(Present[i], k, got)
                   ELSE got.slots[p]
         /\ PartOf(Present[i], k, got) \in Extents
<1> DEFINE dev == Present[i]
           piece == PartOf(dev, k, got)
           slot == SlotOf(dev, k)
           next == NextMinor(dev, got.minor)
           made == [slots |-> [got.slots EXCEPT ![slot] = piece], minor |-> next]
<1>0. got.minor \in Nat /\ got.slots \in [0 .. PartSlots - 1 -> Extents \cup {Null}]
  BY DEF Contents, Partitions
<1>1. slot \in 0 .. PartSlots - 1 /\ slot \in Nat
      /\ dev.parts[k].start \in Nat /\ dev.parts[k].size \in Nat
  BY SlotTyped
<1>3. piece \in Extents
  <2> DEFINE held == IF got.slots[slot] = Null THEN [volume |-> Null, mount |-> Null] ELSE got.slots[slot]
             found == FindVolume(dev.number, dev.parts[k].start, dev.parts[k].size)
             v == Copied(found, Recognised, held.volume)
             w == Copied(found, Reachable, held.mount)
  <2>1. held.volume \in DOMAIN Volumes \cup {Null} /\ held.mount \in DOMAIN Volumes \cup {Null}
    <3>1. got.slots[slot] \in Extents \cup {Null}
      BY <1>0, <1>1
    <3> QED BY <3>1 DEF Extents
  <2>2. Recognised \subseteq DOMAIN Volumes /\ Reachable \subseteq DOMAIN Volumes
    BY DEF Recognised, Reachable
  <2> HIDE DEF held, found
  <2>3. v \in DOMAIN Volumes \cup {Null} /\ w \in DOMAIN Volumes \cup {Null}
    BY <2>1, <2>2 DEF Copied
  <2>4. piece = Extent(dev.parts[k].start, dev.parts[k].size, PosixInfo(dev, slot, got.minor), v, w)
    BY DEF PartOf, held, found
  <2> HIDE DEF v, w, piece
  <2> QED BY <1>0, <1>1, <2>3, <2>4, ExtentTyped
<1>4. next \in Nat
  BY <1>0, InfoTyped
<1>5. Partition(dev, k, got) = IF dev.parts[k].size = 0 THEN got ELSE made
  BY DEF Partition
<1> HIDE DEF piece, next, slot
<1>6. made \in Contents
  BY <1>0, <1>1, <1>3, <1>4 DEF Contents, Partitions
<1>7. /\ made.minor = next
      /\ \A p \in 0 .. PartSlots - 1 : made.slots[p] = IF p = slot THEN piece ELSE got.slots[p]
  BY <1>0, <1>1
<1> HIDE DEF made
<1>8. /\ Partition(dev, k, got) \in Contents
      /\ dev.parts[k].size = 0 => Partition(dev, k, got) = got
      /\ dev.parts[k].size # 0 =>
           /\ Partition(dev, k, got).minor = next
           /\ \A p \in 0 .. PartSlots - 1 :
                Partition(dev, k, got).slots[p] = IF p = slot THEN piece ELSE got.slots[p]
  BY <1>5, <1>6, <1>7
<1> QED BY <1>3, <1>8 DEF piece, next, slot

(* The recursive definition has a solution, and so is one.                 *)
LEMMA FillingIs ==
  ASSUME NEW i \in 1 .. Len(Present), NEW m \in Nat
  PROVE  /\ Filling(Present[i], m) \in [0 .. Scanned(Present[i]) -> Contents]
         /\ Filling(Present[i], m)[0] = Whole(Present[i], m)
         /\ \A k \in 1 .. Scanned(Present[i]) :
              Filling(Present[i], m)[k] = Partition(Present[i], k, Filling(Present[i], m)[k - 1])
<1> DEFINE dev == Present[i]
           n == Scanned(dev)
           Fills(f) == f = [k \in 0 .. n |-> IF k = 0 THEN Whole(dev, m)
                                             ELSE Partition(dev, k, f[k - 1])]
           after == CHOOSE f : Fills(f)
           step == [kx \in (1 .. n) \X Contents |-> Partition(dev, kx[1], kx[2])]
<1>1. n \in Nat
  BY ScannedParts
<1>2. step \in [(1 .. n) \X Contents -> Contents]
  BY PartitionIs
<1>3. \A k \in 1 .. n, x \in Contents : step[<<k, x>>] = Partition(dev, k, x)
  OBVIOUS
<1>4. Whole(dev, m) \in Contents
  BY WholeTyped
<1>5. Filling(dev, m) = after
  BY DEF Filling
<1> HIDE DEF step, n, dev
<1>6. PICK f : Iterates(f, n, Contents, Whole(dev, m), step)
  BY <1>1, <1>2, <1>4, Iteration
<1>7. /\ f \in [0 .. n -> Contents] /\ f[0] = Whole(dev, m)
      /\ \A k \in 1 .. n : f[k] = Partition(dev, k, f[k - 1])
  <2>1. \A k \in 1 .. n : k - 1 \in 0 .. n
    BY <1>1
  <2> QED BY <1>3, <1>6, <2>1 DEF Iterates
<1>8. Fills(f)
  <2>1. \A k \in 0 .. n : f[k] = IF k = 0 THEN Whole(dev, m) ELSE Partition(dev, k, f[k - 1])
    <3>1. \A k \in 0 .. n : k # 0 => k \in 1 .. n
      BY <1>1
    <3> QED BY <1>7, <3>1
  <2> QED BY <1>7, <2>1
<1>9. Fills(after)
  <2> HIDE DEF Fills
  <2> QED BY <1>8, Zenon
<1> HIDE DEF after
<1>10. /\ DOMAIN after = 0 .. n
       /\ \A k \in 0 .. n : after[k] = IF k = 0 THEN Whole(dev, m) ELSE Partition(dev, k, after[k - 1])
       /\ after = [k \in 0 .. n |-> after[k]]
  BY <1>9
<1> HIDE DEF Fills
<1>11. 0 \in 0 .. n /\ \A k \in 1 .. n : k \in 0 .. n /\ k # 0 /\ k - 1 \in 0 .. n
  BY <1>1
<1>12. \A k \in 0 .. n : after[k] \in Contents
  <2> DEFINE T == {k \in 0 .. n : after[k] \in Contents}
  <2>1. 0 \in T
    BY <1>4, <1>10, <1>11
  <2>2. ASSUME NEW k \in 0 .. n - 1, k \in T PROVE k + 1 \in T
    <3>1. k + 1 \in 1 .. n /\ k + 1 \in 0 .. n /\ (k + 1) - 1 = k /\ k + 1 # 0
      BY <1>1
    <3>2. after[k + 1] = Partition(dev, k + 1, after[k])
      BY <1>10, <3>1
    <3>3. after[k] \in Contents
      BY <2>2
    <3>4. Partition(dev, k + 1, after[k]) \in Contents
      BY <3>1, <3>3, PartitionIs DEF dev, n
    <3> QED BY <3>1, <3>2, <3>4
  <2>3. 0 .. n \subseteq T
    <3> HIDE DEF T
    <3>1. \A k \in 0 .. n - 1 : k \in T => k + 1 \in T
      BY <2>2
    <3> QED BY <1>1, <2>1, <3>1, Induction
  <2> QED BY <2>3
<1>13. after \in [0 .. n -> Contents]
  BY <1>10, <1>12
<1>14. after[0] = Whole(dev, m) /\ \A k \in 1 .. n : after[k] = Partition(dev, k, after[k - 1])
  BY <1>10, <1>11
<1> QED BY <1>5, <1>13, <1>14 DEF dev, n

(* What the enumeration puts in the i-th entry, and the minor after it.    *)
Enumerated ==
  LET after[i \in 0 .. Len(Present)] ==
        IF i = 0 THEN [slots |-> [p \in 0 .. PartSlots - 1 |-> Null], minor |-> 0]
        ELSE Filling(Present[i], after[i - 1].minor)[Scanned(Present[i])]
  IN  after

LEMMA FilledTyped ==
  ASSUME NEW i \in 1 .. Len(Present), NEW got \in Contents
  PROVE  Filling(Present[i], got.minor)[Scanned(Present[i])] \in Contents
<1>1. got.minor \in Nat
  BY DEF Contents
<1>2. Scanned(Present[i]) \in 0 .. Scanned(Present[i])
  BY ScannedParts
<1> QED BY <1>1, <1>2, FillingIs

LEMMA EnumeratedIs ==
  /\ Enumerated \in [0 .. Len(Present) -> Contents]
  /\ Enumerated[0].minor = 0
  /\ \A i \in 1 .. Len(Present) : Enumerated[i] =
       Filling(Present[i], Enumerated[i - 1].minor)[Scanned(Present[i])]
<1> DEFINE n == Len(Present)
           first == [slots |-> [p \in 0 .. PartSlots - 1 |-> Null], minor |-> 0]
           Fill(i, got) == Filling(Present[i], got.minor)[Scanned(Present[i])]
           Fills(f) == f = [i \in 0 .. n |-> IF i = 0 THEN first ELSE Fill(i, f[i - 1])]
           after == CHOOSE f : Fills(f)
           step == [kx \in (1 .. n) \X Contents |-> Fill(kx[1], kx[2])]
<1>1. n \in Nat
  BY Tables
<1>2. step \in [(1 .. n) \X Contents -> Contents]
  BY FilledTyped
<1>3. \A k \in 1 .. n, x \in Contents : step[<<k, x>>] = Fill(k, x)
  OBVIOUS
<1>4. first \in Contents /\ first.minor = 0
  BY DEF Contents, Partitions
<1>5. Enumerated = after
  BY DEF Enumerated
<1>t. \A k \in 1 .. n, x \in Contents : Fill(k, x) \in Contents
  BY FilledTyped
<1> HIDE DEF step, n, first, Fill
<1>6. PICK f : Iterates(f, n, Contents, first, step)
  BY <1>1, <1>2, <1>4, Iteration
<1>7. /\ f \in [0 .. n -> Contents] /\ f[0] = first
      /\ \A k \in 1 .. n : f[k] = Fill(k, f[k - 1])
  <2>1. \A k \in 1 .. n : k - 1 \in 0 .. n
    BY <1>1
  <2> QED BY <1>3, <1>6, <2>1 DEF Iterates
<1>8. Fills(f)
  <2>1. \A k \in 0 .. n : f[k] = IF k = 0 THEN first ELSE Fill(k, f[k - 1])
    <3>1. \A k \in 0 .. n : k # 0 => k \in 1 .. n
      BY <1>1
    <3> QED BY <1>7, <3>1
  <2> QED BY <1>7, <2>1
<1>9. Fills(after)
  <2> HIDE DEF Fills
  <2> QED BY <1>8, Zenon
<1> HIDE DEF after
<1>10. /\ DOMAIN after = 0 .. n
       /\ \A k \in 0 .. n : after[k] = IF k = 0 THEN first ELSE Fill(k, after[k - 1])
       /\ after = [k \in 0 .. n |-> after[k]]
  BY <1>9
<1> HIDE DEF Fills
<1>11. 0 \in 0 .. n /\ \A k \in 1 .. n : k \in 0 .. n /\ k # 0 /\ k - 1 \in 0 .. n
  BY <1>1
<1>12. \A k \in 0 .. n : after[k] \in Contents
  <2> DEFINE T == {k \in 0 .. n : after[k] \in Contents}
  <2>1. 0 \in T
    BY <1>4, <1>10, <1>11
  <2>2. ASSUME NEW k \in 0 .. n - 1, k \in T PROVE k + 1 \in T
    <3>1. k + 1 \in 1 .. n /\ k + 1 \in 0 .. n /\ (k + 1) - 1 = k /\ k + 1 # 0
      BY <1>1
    <3>2. after[k + 1] = Fill(k + 1, after[k])
      BY <1>10, <3>1
    <3>3. after[k] \in Contents
      BY <2>2
    <3> QED BY <1>t, <3>1, <3>2, <3>3
  <2>3. 0 .. n \subseteq T
    <3> HIDE DEF T
    <3>1. \A k \in 0 .. n - 1 : k \in T => k + 1 \in T
      BY <2>2
    <3> QED BY <1>1, <2>1, <3>1, Induction
  <2> QED BY <2>3
<1>13. after \in [0 .. n -> Contents]
  BY <1>10, <1>12
<1>14. after[0] = first /\ \A k \in 1 .. n : after[k] = Fill(k, after[k - 1])
  BY <1>10, <1>11
<1> QED BY <1>4, <1>5, <1>13, <1>14 DEF n, Fill

LEMMA EnumeratedTyped ==
  ASSUME NEW i \in 0 .. Len(Present)
  PROVE  Enumerated[i].minor \in Nat /\ Enumerated[i].slots \in Partitions
BY EnumeratedIs DEF Contents

----------------------------------------------------------------------------
(* Where the names in an entry come from.                                  *)

(* After k partitions: slot p holds the whole disk, or the partition of    *)
(* the layout that goes there, with the minor of its turn.                 *)
Origin(dev, F, k, p) ==
  \/ p = 0 /\ F[k].slots[p] = F[0].slots[0]
  \/ \E j \in 1 .. k : /\ dev.parts[j].size # 0 /\ SlotOf(dev, j) = p
                       /\ F[k].slots[p] = PartOf(dev, j, F[j - 1])

LEMMA Origins ==
  ASSUME NEW i \in 1 .. Len(Present), NEW m \in Nat, NEW k \in 0 .. Scanned(Present[i]),
         NEW p \in 0 .. PartSlots - 1, Filling(Present[i], m)[k].slots[p] # Null
  PROVE  Origin(Present[i], Filling(Present[i], m), k, p)
<1> DEFINE dev == Present[i]
           n == Scanned(dev)
           F == Filling(dev, m)
           T == {l \in 0 .. n : \A q \in 0 .. PartSlots - 1 :
                   F[l].slots[q] # Null => Origin(dev, F, l, q)}
<1>0. n \in Nat /\ PartSlots \in Nat
  BY ScannedParts, Bounds
<1>1. /\ F \in [0 .. n -> Contents] /\ F[0] = Whole(dev, m)
      /\ \A l \in 1 .. n : F[l] = Partition(dev, l, F[l - 1])
  BY FillingIs
<1>2. \A l \in 1 .. n, got \in Contents :
        /\ dev.parts[l].size = 0 => Partition(dev, l, got) = got
        /\ dev.parts[l].size # 0 => \A q \in 0 .. PartSlots - 1 :
             Partition(dev, l, got).slots[q] =
               IF q = SlotOf(dev, l) THEN PartOf(dev, l, got) ELSE got.slots[q]
  BY PartitionIs
<1> HIDE DEF F, n
<1>3. 0 \in T
  <2>1. ASSUME NEW q \in 0 .. PartSlots - 1, F[0].slots[q] # Null PROVE q = 0
    BY <1>1, <2>1 DEF Whole
  <2>2. ASSUME NEW q \in 0 .. PartSlots - 1, F[0].slots[q] # Null PROVE Origin(dev, F, 0, q)
    <3>1. q = 0
      BY <2>1, <2>2
    <3> QED BY <3>1 DEF Origin
  <2>3. 0 \in 0 .. n
    BY <1>0
  <2> QED BY <2>2, <2>3
<1>4. ASSUME NEW l \in 0 .. n - 1, l \in T PROVE l + 1 \in T
  <2>1. l + 1 \in 1 .. n /\ l + 1 \in 0 .. n /\ (l + 1) - 1 = l
        /\ 1 .. l \subseteq 1 .. l + 1 /\ l + 1 \in 1 .. l + 1
    BY <1>0
  <2>2. F[l + 1] = Partition(dev, l + 1, F[l]) /\ F[l] \in Contents
    <3>1. F[l + 1] = Partition(dev, l + 1, F[(l + 1) - 1])
      BY <1>1, <2>1
    <3>2. l \in 0 .. n
      BY <1>0
    <3> QED BY <1>1, <2>1, <3>1, <3>2
  <2> DEFINE next == l + 1
  <2>3. ASSUME NEW q \in 0 .. PartSlots - 1, F[next].slots[q] # Null
        PROVE  Origin(dev, F, next, q)
    <3>1. CASE F[next].slots[q] = F[l].slots[q]
      <4>1. Origin(dev, F, l, q)
        BY <1>4, <2>3, <3>1
      <4> QED BY <2>1, <3>1, <4>1 DEF Origin
    <3>2. CASE F[next].slots[q] # F[l].slots[q]
      <4>1. /\ dev.parts[next].size # 0 /\ q = SlotOf(dev, next)
            /\ F[next].slots[q] = PartOf(dev, next, F[l])
        BY <1>2, <2>1, <2>2, <3>2
      <4> QED BY <2>1, <4>1 DEF Origin
    <3> QED BY <3>1, <3>2
  <2> QED BY <2>1, <2>3
<1>5. 0 .. n \subseteq T
  <2> HIDE DEF T
  <2>1. \A l \in 0 .. n - 1 : l \in T => l + 1 \in T
    BY <1>4
  <2> QED BY <1>0, <1>3, <2>1, Induction
<1>6. k \in T
  BY <1>5 DEF n
<1> QED BY <1>6 DEF F

(* Each name in an entry took a minor of its own.                          *)
HasName(i) == Present[i].number < BlkPerMajor

LEMMA MinorsTaken ==
  ASSUME NEW i \in 1 .. Len(Present), NEW m \in Nat, HasName(i)
  PROVE  LET dev == Present[i]
             F == Filling(dev, m)
         IN  /\ F[0].minor = m + 1 /\ F[0].slots[0].posix = PosixInfo(dev, 0, m)
             /\ \A k \in 0 .. Scanned(dev) : F[k].minor \in Nat
             /\ \A k \in 1 .. Scanned(dev) : dev.parts[k].size # 0 => F[k].minor = F[k - 1].minor + 1
             /\ \A k, l \in 0 .. Scanned(dev) : k <= l => F[k].minor <= F[l].minor
<1> DEFINE dev == Present[i]
           n == Scanned(dev)
           F == Filling(dev, m)
<1>0. n \in Nat /\ dev.number \in Nat /\ BlkPerMajor \in Nat /\ 0 \in 0 .. PartSlots - 1
  BY ScannedParts, Bounds, Drives
<1>1. /\ F \in [0 .. n -> Contents] /\ F[0] = Whole(dev, m)
      /\ \A l \in 1 .. n : F[l] = Partition(dev, l, F[l - 1])
  BY FillingIs
<1>2. \A l \in 1 .. n, got \in Contents :
        /\ dev.parts[l].size = 0 => Partition(dev, l, got) = got
        /\ dev.parts[l].size # 0 => Partition(dev, l, got).minor = NextMinor(dev, got.minor)
  BY PartitionIs
<1>3. \A x : NextMinor(dev, x) = x + 1
  BY <1>0 DEF NextMinor, HasName
<1> HIDE DEF F
<1>4. F[0].minor = m + 1 /\ F[0].slots[0].posix = PosixInfo(dev, 0, m)
  BY <1>0, <1>1, <1>3 DEF Whole, Extent
<1> HIDE DEF n, dev
<1>5. \A k \in 0 .. n : F[k] \in Contents /\ F[k].minor \in Nat
  BY <1>1 DEF Contents
<1>6. ASSUME NEW k \in 1 .. n
      PROVE  /\ F[k - 1].minor <= F[k].minor
             /\ dev.parts[k].size # 0 => F[k].minor = F[k - 1].minor + 1
  <2>1. k - 1 \in 0 .. n
    BY <1>0
  <2>2. F[k] = Partition(dev, k, F[k - 1]) /\ F[k - 1] \in Contents /\ F[k - 1].minor \in Nat
    BY <1>1, <1>5, <2>1
  <2>3. dev.parts[k].size # 0 => F[k].minor = F[k - 1].minor + 1
    BY <1>2, <1>3, <2>2
  <2>4. dev.parts[k].size = 0 => F[k] = F[k - 1]
    BY <1>2, <2>2
  <2> QED BY <2>2, <2>3, <2>4
<1>7. \A k, l \in 0 .. n : k <= l => F[k].minor <= F[l].minor
  <2> DEFINE f == [k \in 0 .. n |-> F[k].minor]
  <2>0. \A k \in 1 .. n : k \in 0 .. n /\ k - 1 \in 0 .. n
    BY <1>0
  <2>1. \A k \in 0 .. n : f[k] = F[k].minor
    OBVIOUS
  <2>2. \A k \in 0 .. n : f[k] \in Nat
    BY <1>5
  <2>3. \A k \in 1 .. n : f[k - 1] <= f[k]
    BY <1>6, <2>0
  <2> HIDE DEF f
  <2>4. \A k, l \in 0 .. n : k <= l => f[k] <= f[l]
    BY <1>0, <2>2, <2>3, Growing
  <2> QED BY <2>1, <2>4
<1> QED BY <1>4, <1>5, <1>6, <1>7 DEF F, n, dev

Turn(i, p, x) ==
  /\ x \in Nat /\ Enumerated[i - 1].minor <= x /\ x < Enumerated[i].minor
  /\ Enumerated[i].slots[p].posix = PosixInfo(Present[i], p, x)

LEMMA TurnOf ==
  ASSUME NEW i \in 1 .. Len(Present), NEW p \in 0 .. PartSlots - 1, HasName(i),
         NEW q \in 0 .. PartSlots - 1, Enumerated[i].slots[p] # Null, Enumerated[i].slots[q] # Null
  PROVE  \E x, y : Turn(i, p, x) /\ Turn(i, q, y) /\ (p # q => x # y)
<1> DEFINE dev == Present[i]
           n == Scanned(dev)
           m == Enumerated[i - 1].minor
           F == Filling(dev, m)
<1>0. n \in Nat /\ n \in 0 .. n /\ 0 \in 0 .. n
  BY ScannedParts
<1>1. m \in Nat /\ Enumerated[i] = F[n]
  <2>1. i - 1 \in 0 .. Len(Present)
    BY Tables
  <2> QED BY <2>1, EnumeratedIs, EnumeratedTyped
<1>2. /\ F[0].minor = m + 1 /\ F[0].slots[0].posix = PosixInfo(dev, 0, m)
      /\ \A k \in 0 .. n : F[k].minor \in Nat
      /\ \A k \in 1 .. n : dev.parts[k].size # 0 => F[k].minor = F[k - 1].minor + 1
      /\ \A k, l \in 0 .. n : k <= l => F[k].minor <= F[l].minor
  BY <1>1, MinorsTaken
<1>3. Origin(dev, F, n, p) /\ Origin(dev, F, n, q)
  BY <1>0, <1>1, Origins
<1> HIDE DEF F, n, m
<1> DEFINE At(r, x) == r = 0 /\ x = m /\ F[n].slots[r].posix = PosixInfo(dev, 0, m)
           In(r, j, x) == /\ dev.parts[j].size # 0 /\ SlotOf(dev, j) = r /\ x = F[j - 1].minor
                          /\ F[n].slots[r].posix = PosixInfo(dev, r, x)
<1>4. ASSUME NEW r \in 0 .. PartSlots - 1, Origin(dev, F, n, r)
      PROVE  At(r, m) \/ \E j \in 1 .. n : In(r, j, F[j - 1].minor)
  <2>1. CASE r = 0 /\ F[n].slots[r] = F[0].slots[0]
    BY <1>2, <2>1
  <2>2. ASSUME NEW j \in 1 .. n, dev.parts[j].size # 0, SlotOf(dev, j) = r,
               F[n].slots[r] = PartOf(dev, j, F[j - 1])
        PROVE  In(r, j, F[j - 1].minor)
    BY <2>2 DEF PartOf, Extent
  <2> QED BY <1>4, <2>1, <2>2 DEF Origin
<1>5. ASSUME NEW j \in 1 .. n, dev.parts[j].size # 0
      PROVE  /\ F[j - 1].minor \in Nat /\ m < F[j - 1].minor
             /\ F[j - 1].minor < F[j].minor /\ F[j - 1].minor < F[n].minor
  <2>1. j \in 0 .. n /\ j - 1 \in 0 .. n /\ 0 <= j - 1 /\ j <= n
    BY <1>0
  <2>2. F[0].minor <= F[j - 1].minor /\ F[j].minor <= F[n].minor
    BY <1>0, <1>2, <2>1
  <2>3. /\ F[0].minor = m + 1 /\ F[j].minor = F[j - 1].minor + 1
        /\ F[j - 1].minor \in Nat /\ F[n].minor \in Nat
    BY <1>0, <1>2, <1>5, <2>1
  <2> HIDE DEF At, In
  <2> QED BY <1>1, <2>2, <2>3
<1>6. m < F[n].minor
  BY <1>0, <1>1, <1>2
<1>7. \A r, x : At(r, x) => Turn(i, r, x)
  BY <1>1, <1>6 DEF Turn, m
<1>8. \A r, x : \A j \in 1 .. n : In(r, j, x) => Turn(i, r, x)
  BY <1>1, <1>5 DEF Turn, m
<1>9. CASE At(p, m)
  <2>1. CASE At(q, m)
    BY <1>7, <1>9, <2>1
  <2>2. ASSUME NEW j \in 1 .. n, In(q, j, F[j - 1].minor)
        PROVE  \E x, y : Turn(i, p, x) /\ Turn(i, q, y) /\ (p # q => x # y)
    <3>1. m # F[j - 1].minor
      BY <1>1, <1>5, <2>2
    <3>2. Turn(i, p, m) /\ Turn(i, q, F[j - 1].minor)
      BY <1>7, <1>8, <1>9, <2>2
    <3> QED BY <3>1, <3>2
  <2> QED BY <1>3, <1>4, <2>1, <2>2
<1>10. ASSUME NEW k \in 1 .. n, In(p, k, F[k - 1].minor)
       PROVE  \E x, y : Turn(i, p, x) /\ Turn(i, q, y) /\ (p # q => x # y)
  <2>1. CASE At(q, m)
    <3>1. m # F[k - 1].minor
      BY <1>1, <1>5, <1>10
    <3>2. Turn(i, q, m) /\ Turn(i, p, F[k - 1].minor)
      BY <1>7, <1>8, <1>10, <2>1
    <3> QED BY <3>1, <3>2
  <2>2. ASSUME NEW j \in 1 .. n, In(q, j, F[j - 1].minor)
        PROVE  \E x, y : Turn(i, p, x) /\ Turn(i, q, y) /\ (p # q => x # y)
    <3>1. Turn(i, p, F[k - 1].minor) /\ Turn(i, q, F[j - 1].minor)
      BY <1>8, <1>10, <2>2
    <3>2. ASSUME p # q PROVE F[k - 1].minor # F[j - 1].minor
      <4>0. k \in Nat /\ j \in Nat /\ k \in 0 .. n /\ j \in 0 .. n
            /\ k - 1 \in 0 .. n /\ j - 1 \in 0 .. n /\ k # j
        BY <1>0, <1>10, <2>2, <3>2
      <4>1. F[k - 1].minor < F[k].minor /\ F[j - 1].minor < F[j].minor
            /\ F[k - 1].minor \in Nat /\ F[j - 1].minor \in Nat
            /\ F[k].minor \in Nat /\ F[j].minor \in Nat
        BY <1>2, <1>5, <1>10, <2>2, <4>0
      <4>2. k < j => F[k].minor <= F[j - 1].minor
        BY <1>2, <4>0
      <4>3. j < k => F[j].minor <= F[k - 1].minor
        BY <1>2, <4>0
      <4> QED BY <4>0, <4>1, <4>2, <4>3
    <3> QED BY <3>1, <3>2
  <2> QED BY <1>3, <1>4, <2>1, <2>2
<1> QED BY <1>3, <1>4, <1>9, <1>10

(* The layouts the code copes with: partitions that fit, with numbers of   *)
(* their own that are not 0.                                               *)
LayoutsSound == \A i \in DOMAIN Present :
  LET dev == Present[i]
      InUse == {k \in DOMAIN dev.parts : dev.parts[k].size # 0}
  IN  /\ Len(dev.parts) < PartSlots
      /\ ~dev.removable => \A j, k \in InUse :
           dev.parts[k].number # 0 /\ (dev.parts[j].number = dev.parts[k].number => j = k)

LEMMA SlotsApart ==
  ASSUME LayoutsSound, NEW i \in 1 .. Len(Present)
  PROVE  /\ Scanned(Present[i]) = Len(Present[i].parts)
         /\ \A j, k \in 1 .. Scanned(Present[i]) :
              Present[i].parts[j].size # 0 /\ Present[i].parts[k].size # 0 =>
                /\ SlotOf(Present[i], k) # 0
                /\ SlotOf(Present[i], j) = SlotOf(Present[i], k) => j = k
<1> DEFINE dev == Present[i]
<1>1. i \in DOMAIN Present
  BY TableAssumption DEF TableAssumption
<1>2. DOMAIN dev.parts = 1 .. Len(dev.parts) /\ Len(dev.parts) \in Nat /\ Len(dev.parts) < PartSlots
  BY <1>1, Drives DEF LayoutsSound
<1>3. Scanned(dev) = Len(dev.parts)
  BY <1>2 DEF Scanned
<1>4. ~dev.removable => \A j, k \in 1 .. Len(dev.parts) :
        dev.parts[j].size # 0 /\ dev.parts[k].size # 0 =>
          dev.parts[k].number # 0 /\ (dev.parts[j].number = dev.parts[k].number => j = k)
  BY <1>1, <1>2 DEF LayoutsSound
<1> HIDE DEF dev
<1>5. \A j, k \in 1 .. Scanned(dev) :
        dev.parts[j].size # 0 /\ dev.parts[k].size # 0 =>
          SlotOf(dev, k) # 0 /\ (SlotOf(dev, j) = SlotOf(dev, k) => j = k)
  BY <1>2, <1>3, <1>4 DEF SlotOf
<1> QED BY <1>3, <1>5 DEF dev

LEMMA InItsSlot ==
  ASSUME LayoutsSound, NEW i \in 1 .. Len(Present), NEW m \in Nat
  PROVE  LET dev == Present[i]
             n == Scanned(dev)
             F == Filling(dev, m)
         IN  /\ F[n].slots[0] = F[0].slots[0]
             /\ \A j \in 1 .. n : dev.parts[j].size # 0 =>
                  F[n].slots[SlotOf(dev, j)] = PartOf(dev, j, F[j - 1])
<1> DEFINE dev == Present[i]
           n == Scanned(dev)
           F == Filling(dev, m)
           Placed(k) ==
             /\ F[k].slots[0] = F[0].slots[0]
             /\ \A j \in 1 .. k : dev.parts[j].size # 0 =>
                  F[k].slots[SlotOf(dev, j)] = PartOf(dev, j, F[j - 1])
           T == {k \in 0 .. n : Placed(k)}
<1>0. n \in Nat /\ 0 \in 0 .. PartSlots - 1
  BY ScannedParts, Bounds
<1>1. F \in [0 .. n -> Contents] /\ \A l \in 1 .. n : F[l] = Partition(dev, l, F[l - 1])
  BY FillingIs
<1>2. \A l \in 1 .. n, got \in Contents :
        /\ dev.parts[l].size = 0 => Partition(dev, l, got) = got
        /\ dev.parts[l].size # 0 => \A q \in 0 .. PartSlots - 1 :
             Partition(dev, l, got).slots[q] =
               IF q = SlotOf(dev, l) THEN PartOf(dev, l, got) ELSE got.slots[q]
  BY PartitionIs
<1>3. \A j, k \in 1 .. n : dev.parts[j].size # 0 /\ dev.parts[k].size # 0 =>
        SlotOf(dev, k) # 0 /\ (SlotOf(dev, j) = SlotOf(dev, k) => j = k)
  BY SlotsApart
<1>4. \A j \in 1 .. n : SlotOf(dev, j) \in 0 .. PartSlots - 1
  BY SlotTyped
<1> HIDE DEF F, n, dev
<1>5. 0 \in T
  <2>1. Placed(0) /\ 0 \in 0 .. n
    BY <1>0
  <2> HIDE DEF Placed
  <2> QED BY <2>1
<1>6. ASSUME NEW l \in 0 .. n - 1, l \in T PROVE l + 1 \in T
  <2> DEFINE next == l + 1
  <2>1. /\ next \in 1 .. n /\ next \in 0 .. n /\ next - 1 = l /\ l \in 0 .. n
        /\ \A j \in 1 .. next : j \in 1 .. n /\ (j = next \/ j \in 1 .. l)
    BY <1>0
  <2> HIDE DEF next
  <2>2. F[next] = Partition(dev, next, F[l]) /\ F[l] \in Contents
    <3>1. F[next] = Partition(dev, next, F[next - 1])
      BY <1>1, <2>1
    <3> QED BY <1>1, <2>1, <3>1
  <2>3. Placed(l)
    BY <1>6
  <2>4. Placed(next)
    <3>1. CASE dev.parts[next].size = 0
      <4>1. F[next] = F[l]
        BY <1>2, <2>1, <2>2, <3>1
      <4> QED BY <2>1, <2>3, <3>1, <4>1
    <3>2. CASE dev.parts[next].size # 0
      <4>1. \A q \in 0 .. PartSlots - 1 : F[next].slots[q] =
              IF q = SlotOf(dev, next) THEN PartOf(dev, next, F[l]) ELSE F[l].slots[q]
        BY <1>2, <2>1, <2>2, <3>2
      <4>2. F[next].slots[0] = F[l].slots[0]
        <5>1. SlotOf(dev, next) # 0
          BY <1>3, <2>1, <3>2
        <5> QED BY <1>0, <4>1, <5>1
      <4>3. ASSUME NEW j \in 1 .. next, dev.parts[j].size # 0
            PROVE  F[next].slots[SlotOf(dev, j)] = PartOf(dev, j, F[j - 1])
        <5>0. j \in 1 .. n /\ SlotOf(dev, j) \in 0 .. PartSlots - 1
          BY <1>4, <2>1
        <5>1. CASE j = next
          BY <2>1, <4>1, <5>0, <5>1
        <5>2. CASE j # next
          <6>1. j \in 1 .. l /\ SlotOf(dev, j) # SlotOf(dev, next)
            BY <1>3, <2>1, <3>2, <4>3, <5>0, <5>2
          <6> QED BY <2>3, <4>1, <4>3, <5>0, <6>1
        <5> QED BY <5>1, <5>2
      <4> QED BY <2>3, <4>2, <4>3
    <3> QED BY <3>1, <3>2
  <2> HIDE DEF Placed
  <2>5. next \in T
    BY <2>1, <2>4
  <2> QED BY <2>5 DEF next
<1>7. 0 .. n \subseteq T
  <2> HIDE DEF T
  <2>1. \A l \in 0 .. n - 1 : l \in T => l + 1 \in T
    BY <1>6
  <2> QED BY <1>0, <1>5, <2>1, Induction
<1>8. n \in T
  BY <1>0, <1>7
<1>9. Placed(n)
  BY <1>8
<1> QED BY <1>9 DEF F, n, dev

----------------------------------------------------------------------------
(* Whoever enumerates, the i-th entry is filled in the same way.           *)
Filled ==
  /\ filled \in [Ids -> Partitions \cup {Null}] /\ minor \in [Threads -> Nat]
Counting == \A t \in Threads :
  /\ pc[t] \in {"classDevs", "enum", "store"} => minor[t] = Enumerated[index[t]].minor
  /\ pc[t] \in Working \ {"store"} => minor[t] = Enumerated[index[t] - 1].minor
  /\ pc[t] = "classDevs" => index[t] = 0
  /\ pc[t] = "store" => filled[raw[t]] = Enumerated[index[t]].slots
InSlots == \A e \in Stored : filled[e] = Enumerated[e[2]].slots
InOrder == Filled /\ Counting /\ InSlots

(* Steps that only move a thread on.                                       *)
LEMMA OrderMoves ==
  ASSUME TableInv, InOrder, NEW t \in Threads, NEW l, Goto(t, l),
         UNCHANGED <<filled, minor, index, table>>,
         \A u \in Threads : u # t => raw'[u] = raw[u],
         l \notin {"store", "classDevs"}, l = "enum" => pc[t] = "classDevs",
         l \in Working => pc[t] \in Working \ {"store"}
  PROVE  InOrder'
<1>1. \A u \in Threads : pc'[u] = IF u = t THEN l ELSE pc[u]
  BY DEF Goto, TableInv, Types
<1>2. Filled' /\ InSlots'
  BY KeptStored DEF InOrder, Filled, InSlots
<1>3. Counting'
  BY <1>1 DEF InOrder, Counting
<1> QED BY <1>2, <1>3 DEF InOrder

LEMMA OrderFails ==
  ASSUME TableInv, InOrder, NEW t \in Threads, Fails(t)
  PROVE  InOrder'
<1>1. Goto(t, "exit") /\ UNCHANGED <<filled, minor, index, table, raw>>
  BY DEF Fails, shared, locals
<1> QED BY <1>1, OrderMoves DEF Working, HoldsDevice, HoldsEntry

LEMMA OrderCalls ==
  ASSUME TableInv, InOrder, NEW t \in Threads,
         (\E c : Begin(t, c)) \/ InitCheck(t) \/ CountDrives(t) \/ Answer(t) \/ Exit(t)
  PROVE  InOrder'
<1>1. PICK l \in {"answer", "check", "set", "count", "idle"} :
        /\ Goto(t, l) /\ UNCHANGED <<filled, minor, index, table>>
        /\ \A u \in Threads : u # t => raw'[u] = raw[u]
  <2>1. CASE \E c : Begin(t, c)
    BY <2>1 DEF Begin, shared, locals
  <2>2. CASE InitCheck(t)
    BY <2>2 DEF InitCheck, Looked, shared, locals
  <2>3. CASE CountDrives(t)
    BY <2>3 DEF CountDrives, shared
  <2>4. CASE Answer(t)
    BY <2>4 DEF Answer, shared
  <2>5. CASE Exit(t)
    BY <2>5 DEF Exit, Looked, TableInv, Types
  <2> QED BY <2>1, <2>2, <2>3, <2>4, <2>5
<1> QED BY <1>1, OrderMoves DEF Working, HoldsDevice, HoldsEntry

LEMMA OrderAsks ==
  ASSUME TableInv, InOrder, NEW t \in Threads,
         GetClassDevs(t) \/ GetInterfaceDetail(t) \/ OpenDevice(t) \/ GetDeviceNumber(t)
           \/ QueryDevice(t)
  PROVE  InOrder'
<1>1. CASE Fails(t)
  BY <1>1, OrderFails
<1>2. CASE GetClassDevs(t) /\ ~Fails(t)
  <2>1. Goto(t, "enum") /\ pc[t] = "classDevs" /\ UNCHANGED <<filled, minor, index, table, raw>>
    BY <1>2 DEF GetClassDevs, Succeeds, shared, locals
  <2> QED BY <2>1, OrderMoves DEF Working, HoldsDevice, HoldsEntry
<1>3. CASE GetInterfaceDetail(t) /\ ~Fails(t)
  <2>1. Goto(t, "open") /\ pc[t] = "detail" /\ UNCHANGED <<filled, minor, index, table, raw>>
    BY <1>3 DEF GetInterfaceDetail, Succeeds, shared, locals
  <2> QED BY <2>1, OrderMoves DEF Working, HoldsDevice, HoldsEntry
<1>4. CASE OpenDevice(t) /\ ~Fails(t)
  <2>1. Goto(t, "number") /\ pc[t] = "open" /\ UNCHANGED <<filled, minor, index, table, raw>>
    BY <1>4 DEF OpenDevice, Succeeds
  <2> QED BY <2>1, OrderMoves DEF Working, HoldsDevice, HoldsEntry
<1>5. CASE GetDeviceNumber(t) /\ ~Fails(t)
  <2>1. /\ Goto(t, "query") /\ pc[t] = "number" /\ UNCHANGED <<filled, minor, index, table>>
        /\ \A u \in Threads : u # t => raw'[u] = raw[u]
    BY <1>5 DEF GetDeviceNumber, Succeeds, TableInv, Types
  <2> QED BY <2>1, OrderMoves DEF Working, HoldsDevice, HoldsEntry
<1>6. CASE QueryDevice(t) /\ ~Fails(t)
  <2>1. Goto(t, "layout") /\ pc[t] = "query" /\ UNCHANGED <<filled, minor, index, table, raw>>
    BY <1>6 DEF QueryDevice, Succeeds, shared, locals
  <2> QED BY <2>1, OrderMoves DEF Working, HoldsDevice, HoldsEntry
<1> QED BY <1>1, <1>2, <1>3, <1>4, <1>5, <1>6

LEMMA OrderSet ==
  ASSUME TableInv, InOrder, NEW t \in Threads, InitSet(t)
  PROVE  InOrder'
<1>1. /\ \A u \in Threads : pc'[u] = IF u = t THEN "classDevs" ELSE pc[u]
      /\ \A u \in Threads : index'[u] = IF u = t THEN 0 ELSE index[u]
      /\ \A u \in Threads : minor'[u] = IF u = t THEN 0 ELSE minor[u]
      /\ UNCHANGED <<filled, table, raw>>
  BY DEF InitSet, Goto, TableInv, Types, InOrder, Filled
<1>2. Filled'
  BY DEF InitSet, InOrder, Filled
<1>3. InSlots'
  BY <1>1, KeptStored DEF InOrder, InSlots
<1>4. Counting'
  BY <1>1, EnumeratedIs DEF InOrder, Counting, Working, HoldsDevice, HoldsEntry
<1> QED BY <1>2, <1>3, <1>4 DEF InOrder

LEMMA OrderEnum ==
  ASSUME TableInv, InOrder, NEW t \in Threads, EnumDeviceInterfaces(t)
  PROVE  InOrder'
<1>1. CASE ~Fails(t)
  <2>1. /\ pc[t] = "enum" /\ UNCHANGED <<filled, table, raw, minor>>
        /\ \A u \in Threads : pc'[u] = IF u = t THEN "detail" ELSE pc[u]
        /\ \A u \in Threads : index'[u] = IF u = t THEN index[u] + 1 ELSE index[u]
    BY <1>1 DEF EnumDeviceInterfaces, Succeeds, Goto, TableInv, Types, shared
  <2>2. Filled' /\ InSlots'
    BY <2>1, KeptStored DEF InOrder, Filled, InSlots
  <2>3. index'[t] - 1 = index[t]
    <3>1. index'[t] = index[t] + 1
      BY <2>1
    <3>2. index[t] \in Nat
      BY AtIds
    <3> QED BY <3>1, <3>2
  <2>4. Counting'
    BY <2>1, <2>3 DEF InOrder, Counting, Working, HoldsDevice, HoldsEntry
  <2> QED BY <2>2, <2>4 DEF InOrder
<1>2. CASE Fails(t)
  BY <1>2, OrderFails
<1> QED BY <1>1, <1>2

LEMMA OrderLayout ==
  ASSUME TableInv, InOrder, NEW t \in Threads, GetLayout(t)
  PROVE  InOrder'
<1>1. CASE Fails(t)
  BY <1>1, OrderFails
<1>2. CASE ~Fails(t)
  <2> DEFINE i == index[t]
             full == Filling(Present[i], minor[t])[Scanned(Present[i])]
             e == raw[t]
  <2>0. /\ pc[t] = "layout" /\ i \in 1 .. Len(Present) /\ e \in Ids
        /\ e \notin Stored /\ \A u \in Threads : u # t => raw[u] # e
    <3>1. pc[t] = "layout"
      BY DEF GetLayout
    <3>2. i \in 1 .. Len(Present)
      BY <3>1, AtIds, IdParts DEF Working, HoldsDevice, HoldsEntry
    <3>3. e # Null
      BY <3>1 DEF TableInv, Names, HoldsEntry
    <3>4. e \in Ids /\ e \notin Stored
      BY <3>3 DEF TableInv, Types, Owned
    <3>o. Owned
      BY DEF TableInv
    <3>5. \A u \in Threads : u # t => raw[u] # e
      BY <3>3, <3>o, HeldApart
    <3> QED BY <3>1, <3>2, <3>4, <3>5
  <2>1. full = Enumerated[i] /\ full \in Contents
    <3>1. minor[t] = Enumerated[i - 1].minor
      BY <2>0 DEF InOrder, Counting, Working, HoldsDevice, HoldsEntry
    <3>2. full = Enumerated[i]
      BY <2>0, <3>1, EnumeratedIs
    <3>3. i \in 0 .. Len(Present)
      BY <2>0
    <3> HIDE DEF full, i
    <3> QED BY <3>2, <3>3, EnumeratedIs
  <2>2. /\ filled' = [filled EXCEPT ![e] = full.slots]
        /\ minor' = [minor EXCEPT ![t] = full.minor]
        /\ pc' = [pc EXCEPT ![t] = "store"]
        /\ UNCHANGED <<table, index, raw>>
    BY <1>2 DEF GetLayout, Succeeds, Goto
  <2> HIDE DEF full, i, e
  <2>3. full.slots \in Partitions /\ full.minor \in Nat
    BY <2>1 DEF Contents
  <2>4. Filled'
    BY <2>2, <2>3 DEF InOrder, Filled
  <2>5. InSlots'
    <3>1. \A f \in Stored : filled'[f] = filled[f]
      BY <2>0, <2>2 DEF InOrder, Filled, TableInv, Types, Stored, Used
    <3> QED BY <2>2, <3>1, KeptStored DEF InOrder, InSlots
  <2>6. Counting'
    <3>1. /\ \A u \in Threads : pc'[u] = IF u = t THEN "store" ELSE pc[u]
          /\ \A u \in Threads : minor'[u] = IF u = t THEN full.minor ELSE minor[u]
          /\ filled'[e] = full.slots
          /\ \A u \in Threads : u # t => filled'[raw[u]] = filled[raw[u]]
      BY <2>0, <2>2 DEF InOrder, Filled, TableInv, Types
    <3> QED BY <2>1, <2>2, <3>1 DEF InOrder, Counting, i, e
  <2> QED BY <2>4, <2>5, <2>6 DEF InOrder
<1> QED BY <1>1, <1>2

LEMMA OrderStore ==
  ASSUME TableInv, InOrder, NEW t \in Threads, Store(t)
  PROVE  InOrder'
<1> DEFINE e == raw[t]
           n == Present[index[t]].number
<1>1. /\ pc[t] = "store" /\ UNCHANGED <<filled, minor, index>>
      /\ \A u \in Threads : pc'[u] = IF u = t THEN "enum" ELSE pc[u]
      /\ \A u \in Threads : u # t => raw'[u] = raw[u]
      /\ table' = table \/ table' = [table EXCEPT ![n] = e]
  BY DEF Store, Goto, TableInv, Types
<1>2. e[2] = index[t] /\ filled[e] = Enumerated[index[t]].slots
  BY <1>1 DEF InOrder, Counting, TableInv, Names, HoldsEntry
<1> HIDE DEF e, n
<1>3. Filled'
  BY <1>1 DEF InOrder, Filled
<1>4. Stored' \subseteq Stored \cup {e}
  BY <1>1 DEF Stored, Used, TableInv, Types
<1>5. InSlots'
  BY <1>1, <1>2, <1>4 DEF InOrder, InSlots
<1>6. Counting'
  BY <1>1 DEF InOrder, Counting, Working, HoldsDevice, HoldsEntry
<1> QED BY <1>3, <1>5, <1>6 DEF InOrder

LEMMA OrderKept ==
  ASSUME TableInv, InOrder, NEW t \in Threads, (\E c : Begin(t, c)) \/ Continue(t)
  PROVE  InOrder'
BY OrderCalls, OrderAsks, OrderSet, OrderEnum, OrderLayout, OrderStore DEF Continue, BuildStep

LEMMA OrderStart == ASSUME Init PROVE InOrder
<1>1. Stored = {}
  BY DEF Init, Stored, Used
<1> QED BY <1>1 DEF Init, InOrder, Filled, Counting, InSlots, Working, HoldsDevice, HoldsEntry

LEMMA OrderStays == ASSUME InOrder, UNCHANGED vars PROVE InOrder'
<1>1. UNCHANGED <<table, filled, pc, index, minor, raw>>
  BY DEF vars, shared, locals
<1> QED BY <1>1, KeptStored DEF InOrder, Filled, Counting, InSlots

----------------------------------------------------------------------------
(* What the table shows of a drive.                                        *)

LEMMA EntryIs ==
  ASSUME TableInv, InOrder, NEW n \in Used
  PROVE  /\ DriveAt(n) \in 1 .. Len(Present) /\ Present[DriveAt(n)].number = n
         /\ n \in Nat /\ n < Slots /\ HasName(DriveAt(n))
         /\ \A p \in 0 .. PartSlots - 1 : Entry(n, p) = Enumerated[DriveAt(n)].slots[p]
<1> DEFINE i == table[n][2]
<1>1. n \in 0 .. Slots - 1 /\ table[n] \in Ids /\ table[n] \in Stored
  BY DEF Used, Stored, TableInv, Types
<1>2. i \in 1 .. Len(Present) /\ Present[i].number = n
  BY <1>1, IdParts DEF TableInv, InPlace, Used
<1>3. DriveAt(n) = i
  <2>1. DOMAIN Present = 1 .. Len(Present)
    BY TableAssumption DEF TableAssumption
  <2> HIDE DEF i
  <2>2. \A j \in DOMAIN Present : Present[j].number = n => j = i
    BY <1>2, <2>1, Tables
  <2> QED BY <1>2, <2>1, <2>2 DEF DriveAt
<1>4. n \in Nat /\ n < Slots /\ n < BlkPerMajor
  BY <1>1, Bounds
<1>5. \A p \in 0 .. PartSlots - 1 : Entry(n, p) = Enumerated[i].slots[p]
  BY <1>1 DEF Entry, InOrder, InSlots
<1> QED BY <1>2, <1>3, <1>4, <1>5 DEF HasName

(* An entry's contents are what the enumeration made of its drive.         *)
LEMMA SlotsAre ==
  ASSUME NEW i \in 1 .. Len(Present)
  PROVE  /\ Enumerated[i - 1].minor \in Nat
         /\ Enumerated[i] = Filling(Present[i], Enumerated[i - 1].minor)[Scanned(Present[i])]
<1>1. i - 1 \in 0 .. Len(Present)
  BY Tables
<1> QED BY <1>1, EnumeratedIs, EnumeratedTyped

LEMMA WholeShown ==
  ASSUME LayoutsSound, TableInv, InOrder
  PROVE  WholeDevice
<1> SUFFICES ASSUME NEW n \in Used
             PROVE  Entry(n, 0).start = 0 /\ Entry(n, 0).end = Present[DriveAt(n)].size
  BY DEF WholeDevice
<1> DEFINE i == DriveAt(n)
           dev == Present[i]
           m == Enumerated[i - 1].minor
           F == Filling(dev, m)
<1>0. i \in 1 .. Len(Present) /\ 0 \in 0 .. PartSlots - 1 /\ dev.size \in Nat
  BY EntryIs, Bounds, Drives
<1>1. Entry(n, 0) = Enumerated[i].slots[0] /\ m \in Nat
      /\ Enumerated[i] = F[Scanned(dev)]
  BY <1>0, EntryIs, SlotsAre
<1>2. F[0] = Whole(dev, m) /\ F[Scanned(dev)].slots[0] = F[0].slots[0]
  BY <1>0, <1>1, FillingIs, InItsSlot
<1>3. Entry(n, 0) = Extent(0, dev.size, PosixInfo(dev, 0, m), Null, Null)
  <2> HIDE DEF F, m, dev, i
  <2> QED BY <1>0, <1>1, <1>2 DEF Whole
<1> HIDE DEF m
<1> QED BY <1>0, <1>3 DEF Extent

LEMMA PartsShown ==
  ASSUME LayoutsSound, TableInv, InOrder
  PROVE  Faithful
<1> SUFFICES ASSUME NEW n \in Used, NEW k \in DOMAIN Present[DriveAt(n)].parts,
                    Present[DriveAt(n)].parts[k].size > 0
             PROVE  LET dev == Present[DriveAt(n)]
                        p == SlotOf(dev, k)
                    IN  /\ Entry(n, p) # Null
                        /\ Entry(n, p).start = dev.parts[k].start
                        /\ Entry(n, p).end = dev.parts[k].start + dev.parts[k].size
  BY DEF Faithful, SlotOf
<1> DEFINE i == DriveAt(n)
           dev == Present[i]
           m == Enumerated[i - 1].minor
           F == Filling(dev, m)
           p == SlotOf(dev, k)
           x == F[k - 1]
<1>0. i \in 1 .. Len(Present)
  BY EntryIs
<1>1. k \in 1 .. Scanned(dev) /\ Scanned(dev) \in Nat /\ dev.parts[k].size # 0
  BY <1>0, SlotsApart, ScannedParts, Drives
<1>2. p \in 0 .. PartSlots - 1 /\ m \in Nat /\ Enumerated[i] = F[Scanned(dev)]
  BY <1>0, <1>1, SlotTyped, SlotsAre
<1>3. Entry(n, p) = F[Scanned(dev)].slots[p]
  BY <1>2, EntryIs
<1>4. F[Scanned(dev)].slots[p] = PartOf(dev, k, x)
  BY <1>0, <1>1, <1>2, InItsSlot
<1>5. PartOf(dev, k, x) \in Extents
  <2>1. k - 1 \in 0 .. Scanned(dev)
    BY <1>1
  <2>2. F[k - 1] \in Contents
    BY <1>0, <1>2, <2>1, FillingIs
  <2> HIDE DEF F
  <2> QED BY <1>0, <1>1, <2>2, PartitionIs DEF x
<1>6. Entry(n, p) = PartOf(dev, k, x) /\ Entry(n, p) # Null
  BY <1>3, <1>4, <1>5, TableAssumption DEF TableAssumption
<1> HIDE DEF x, i
<1>7. PartOf(dev, k, x).start = dev.parts[k].start
      /\ PartOf(dev, k, x).end = dev.parts[k].start + dev.parts[k].size
  BY DEF PartOf, Extent
<1> QED BY <1>6, <1>7 DEF i

LEMMA VolumesShown ==
  ASSUME LayoutsSound, TableInv, InOrder
  PROVE  VolumesTheirs
<1> SUFFICES ASSUME NEW np \in Entries, np[2] # 0
             PROVE  LET entry == Entry(np[1], np[2])
                        on == On(np[1], entry.start, entry.end - entry.start)
                        Theirs(shown, givers) ==
                          IF shown = Null THEN on = {} \/ \E v \in on \ givers : \A w \in on : v <= w
                                          ELSE shown \in on \cap givers
                    IN  Theirs(entry.volume, Recognised) /\ Theirs(entry.mount, Reachable)
  BY DEF VolumesTheirs, On
<1> DEFINE n == np[1]
           p == np[2]
           i == DriveAt(n)
           dev == Present[i]
           m == Enumerated[i - 1].minor
           F == Filling(dev, m)
<1>0. n \in Used /\ p \in 0 .. PartSlots - 1 /\ Entry(n, p) # Null
  BY DEF Entries
<1>1. /\ i \in 1 .. Len(Present) /\ dev.number = n /\ m \in Nat
      /\ Entry(n, p) = F[Scanned(dev)].slots[p]
  BY <1>0, EntryIs, SlotsAre
<1>2. Origin(dev, F, Scanned(dev), p)
  <2>1. Scanned(dev) \in 0 .. Scanned(dev)
    BY <1>1, ScannedParts
  <2> QED BY <1>0, <1>1, <2>1, Origins
<1>3. PICK j \in 1 .. Scanned(dev) : /\ dev.parts[j].size # 0 /\ SlotOf(dev, j) = p
                                     /\ Entry(n, p) = PartOf(dev, j, F[j - 1])
  BY <1>1, <1>2 DEF Origin
<1> DEFINE s == dev.parts[j].start
           z == dev.parts[j].size
           v == FindVolume(n, s, z)
           on == On(n, s, z)
<1>4. s \in Nat /\ z \in Nat
  BY <1>1, SlotTyped
<1>5. F[j - 1].slots[p] = Null
  <2> SUFFICES ASSUME F[j - 1].slots[p] # Null PROVE FALSE
    OBVIOUS
  <2>1. /\ j - 1 \in 0 .. Scanned(dev)
        /\ \A k \in 1 .. j - 1 : k \in 1 .. Scanned(dev) /\ k # j
    BY <1>1, ScannedParts
  <2>2. Origin(dev, F, j - 1, p)
    BY <1>0, <1>1, <2>1, Origins
  <2>3. PICK k \in 1 .. j - 1 : dev.parts[k].size # 0 /\ SlotOf(dev, k) = p
    BY <2>2 DEF Origin
  <2> QED BY <1>1, <1>3, <2>1, <2>3, SlotsApart
<1>6. /\ Entry(n, p).start = s /\ Entry(n, p).end = s + z
      /\ Entry(n, p).volume = Copied(v, Recognised, Null)
      /\ Entry(n, p).mount = Copied(v, Reachable, Null)
  <2> DEFINE got == F[j - 1]
             x == got.minor
             vol == Copied(v, Recognised, Null)
             mnt == Copied(v, Reachable, Null)
  <2>1. got.slots[SlotOf(dev, j)] = Null
    BY <1>3, <1>5
  <2> HIDE DEF got
  <2>2. PartOf(dev, j, got) = Extent(s, z, PosixInfo(dev, SlotOf(dev, j), x), vol, mnt)
    BY <1>1, <2>1 DEF PartOf
  <2> HIDE DEF x, vol, mnt, s, z
  <2>3. Entry(n, p) = Extent(s, z, PosixInfo(dev, SlotOf(dev, j), x), vol, mnt)
    BY <1>3, <2>2 DEF got
  <2> QED BY <2>3 DEF Extent, vol, mnt
<1>7. Entry(n, p).end - Entry(n, p).start = z
  BY <1>4, <1>6
<1>8. (v = Null /\ on = {}) \/ (v \in on /\ \A w \in on : v <= w)
  BY VolumeFound
<1>9. Null \notin Recognised /\ Null \notin Reachable /\ Null \notin on
  BY TableAssumption DEF TableAssumption, Recognised, Reachable, On
<1> HIDE DEF v, on
<1>10. ASSUME NEW givers, Null \notin givers, NEW shown, shown = Copied(v, givers, Null)
       PROVE  IF shown = Null THEN on = {} \/ \E w \in on \ givers : \A u \in on : w <= u
                              ELSE shown \in on \cap givers
  BY <1>8, <1>9, <1>10 DEF Copied
<1>11. On(n, Entry(n, p).start, Entry(n, p).end - Entry(n, p).start) = on
  BY <1>6, <1>7 DEF on
<1> QED BY <1>6, <1>9, <1>10, <1>11

(* The minors of all the names stay below the bit makedev ors to them.     *)
MinorsFit == Enumerated[Len(Present)].minor <= MajorBit

LEMMA DevOfMinor ==
  ASSUME NEW x \in Nat, x < MajorBit
  PROVE  MakeDev(x) = x + MajorBit
<1>1. MajorBit \in Nat /\ MajorBit > 0
  BY Bounds
<1>2. x \div MajorBit = 0
  BY <1>1
<1> QED BY <1>2 DEF MakeDev

LEMMA MinorsRise ==
  \A a, b \in 0 .. Len(Present) : a <= b => Enumerated[a].minor <= Enumerated[b].minor
<1> DEFINE n == Len(Present)
           f == [k \in 0 .. n |-> Enumerated[k].minor]
<1>0. n \in Nat
  BY Tables
<1>1. \A k \in 0 .. n : f[k] = Enumerated[k].minor /\ f[k] \in Nat
  BY EnumeratedTyped
<1>2. ASSUME NEW k \in 1 .. n PROVE f[k - 1] <= f[k]
  <2> DEFINE dev == Present[k]
             m == Enumerated[k - 1].minor
             F == Filling(dev, m)
  <2>1. m \in Nat /\ Enumerated[k] = F[Scanned(dev)]
    BY SlotsAre
  <2>2. k \in 0 .. n /\ k - 1 \in 0 .. n
    BY <1>0
  <2>3. m <= F[Scanned(dev)].minor
    <3> DEFINE g == [l \in 0 .. Scanned(dev) |-> F[l].minor]
    <3>0. Scanned(dev) \in Nat /\ 0 \in 0 .. Scanned(dev) /\ Scanned(dev) \in 0 .. Scanned(dev)
      BY ScannedParts
    <3>1. \A l \in 0 .. Scanned(dev) : g[l] = F[l].minor /\ g[l] \in Nat /\ F[l] \in Contents
      BY <2>1, FillingIs DEF Contents
    <3>2. ASSUME NEW l \in 1 .. Scanned(dev) PROVE g[l - 1] <= g[l]
      <4>1. l - 1 \in 0 .. Scanned(dev) /\ l \in 0 .. Scanned(dev)
        BY <3>0
      <4> DEFINE got == F[l - 1]
      <4>2. F[l] = Partition(dev, l, got) /\ got \in Contents
        BY <2>1, <3>1, <4>1, FillingIs
      <4> HIDE DEF got
      <4>3. Partition(dev, l, got).minor = got.minor
            \/ Partition(dev, l, got).minor = NextMinor(dev, got.minor)
        BY <4>2, PartitionIs
      <4>4. got.minor \in Nat /\ got.minor <= NextMinor(dev, got.minor)
        BY <4>2, InfoTyped DEF Contents
      <4>5. got.minor <= F[l].minor
        BY <4>2, <4>3, <4>4
      <4> QED BY <3>1, <4>1, <4>5 DEF got
    <3>3. m <= g[0]
      <4>1. F[0] = Whole(dev, m)
        BY <2>1, FillingIs
      <4>2. Whole(dev, m).minor = NextMinor(dev, m)
        BY DEF Whole
      <4>3. m <= NextMinor(dev, m)
        BY <2>1, InfoTyped
      <4> QED BY <3>0, <3>1, <4>1, <4>2, <4>3
    <3> DEFINE top == Scanned(dev)
    <3>4. g[0] <= g[top]
      <4>1. /\ top \in Nat /\ 0 \in 0 .. top /\ top \in 0 .. top /\ 0 <= top
            /\ \A l \in 0 .. top : g[l] \in Nat
        BY <3>0, <3>1
      <4>2. \A l \in 1 .. top : g[l - 1] <= g[l]
        BY <3>2
      <4> HIDE DEF top, g
      <4> QED BY <4>1, <4>2, Growing
    <3> HIDE DEF g, m, F, dev
    <3>5. g[0] \in Nat /\ g[Scanned(dev)] \in Nat /\ g[Scanned(dev)] = F[Scanned(dev)].minor
      BY <3>0, <3>1
    <3> QED BY <2>1, <3>3, <3>4, <3>5
  <2> QED BY <1>1, <2>1, <2>2, <2>3
<1> HIDE DEF f, n
<1>3. \A a, b \in 0 .. n : a <= b => f[a] <= f[b]
  BY <1>0, <1>1, <1>2, Growing
<1> QED BY <1>1, <1>3 DEF n

LEMMA NamesTold ==
  ASSUME MinorsFit, TableInv, InOrder
  PROVE  PosixUnique
<1> DEFINE Info(np) == Entry(np[1], np[2]).posix
           Drive(np) == DriveAt(np[1])
<1>1. \A a \in Entries : /\ a[1] \in Used /\ a[2] \in 0 .. PartSlots - 1
                         /\ Entry(a[1], a[2]) # Null /\ a = <<a[1], a[2]>>
  BY DEF Entries
<1>2. ASSUME NEW a \in Entries
      PROVE  /\ Drive(a) \in 1 .. Len(Present) /\ Present[Drive(a)].number = a[1]
             /\ HasName(Drive(a)) /\ a[1] \in Nameable
             /\ Enumerated[Drive(a)].slots[a[2]] = Entry(a[1], a[2])
  BY <1>1, EntryIs, SlotsNameable
<1>3. ASSUME NEW a \in Entries, NEW b \in Entries, Info(a).path = Info(b).path
      PROVE  a = b
  <2>1. \A c \in Entries : Info(c).path = <<Letters(c[1]), c[2]>>
    <3> SUFFICES ASSUME NEW c \in Entries PROVE Info(c).path = <<Letters(c[1]), c[2]>>
      OBVIOUS
    <3>1. \E x : Info(c) = PosixInfo(Present[Drive(c)], c[2], x)
      BY <1>1, <1>2, TurnOf DEF Turn
    <3>2. /\ Present[Drive(c)].number = c[1] /\ Present[Drive(c)].number < BlkPerMajor
          /\ Present[Drive(c)].number \in Nat
      BY <1>2, Drives DEF HasName
    <3>3. ~(Present[Drive(c)].number >= BlkPerMajor)
      BY <3>2, Bounds
    <3> HIDE DEF Info, Drive
    <3> QED BY <3>1, <3>2, <3>3 DEF PosixInfo
  <2>2. <<Letters(a[1]), a[2]>> = <<Letters(b[1]), b[2]>>
    BY <1>3, <2>1
  <2>3. Letters(a[1]) = Letters(b[1]) /\ a[2] = b[2]
    BY <2>2
  <2>4. a[1] = b[1]
    BY <1>2, <2>3, LettersTell
  <2> QED BY <1>1, <2>3, <2>4
<1>4. ASSUME NEW a \in Entries, NEW b \in Entries, Info(a).rootDev = Info(b).rootDev
      PROVE  a = b
  <2> DEFINE i == Drive(a)
             j == Drive(b)
             p == a[2]
             q == b[2]
  <2>0. i \in 1 .. Len(Present) /\ j \in 1 .. Len(Present)
    BY <1>2
  <2>1. ASSUME NEW k \in 1 .. Len(Present), NEW r, NEW x, HasName(k), Turn(k, r, x)
        PROVE  x \in Nat /\ Enumerated[k].slots[r].posix.rootDev = x + MajorBit
    <3>1. k \in 0 .. Len(Present) /\ Len(Present) \in 0 .. Len(Present) /\ k <= Len(Present)
      BY Tables
    <3>2. Enumerated[k].minor <= Enumerated[Len(Present)].minor
      BY <3>1, MinorsRise
    <3>3. Enumerated[k].minor \in Nat /\ Enumerated[Len(Present)].minor \in Nat
      BY <3>1, EnumeratedTyped
    <3>4. x \in Nat /\ x < Enumerated[k].minor
          /\ Enumerated[k].slots[r].posix = PosixInfo(Present[k], r, x)
      BY <2>1 DEF Turn
    <3>5. x < MajorBit
      BY <3>2, <3>3, <3>4, Bounds DEF MinorsFit
    <3>6. MakeDev(x) = x + MajorBit
      BY <3>4, <3>5, DevOfMinor
    <3>7. Present[k].number \in Nat /\ BlkPerMajor \in Nat /\ Present[k].number < BlkPerMajor
      BY <2>1, Drives, Bounds DEF HasName
    <3> QED BY <3>4, <3>6, <3>7 DEF PosixInfo
  <2>2. \E x, y : Turn(i, p, x) /\ Turn(j, q, y) /\ (i # j \/ p # q => x # y)
    <3>1. CASE i = j
      BY <1>1, <1>2, <3>1, TurnOf
    <3>2. CASE i # j
      <4>1. \A c \in Entries : \E x : Turn(Drive(c), c[2], x)
        BY <1>1, <1>2, TurnOf
      <4>2. PICK x, y : Turn(i, p, x) /\ Turn(j, q, y)
        BY <4>1
      <4>3. /\ i - 1 \in 0 .. Len(Present) /\ j - 1 \in 0 .. Len(Present)
            /\ i \in 0 .. Len(Present) /\ j \in 0 .. Len(Present)
            /\ i < j => i <= j - 1
            /\ j < i => j <= i - 1
            /\ i < j \/ j < i
        BY <2>0, <3>2, Tables
      <4>4. /\ i < j => Enumerated[i].minor <= Enumerated[j - 1].minor
            /\ j < i => Enumerated[j].minor <= Enumerated[i - 1].minor
        BY <4>3, MinorsRise
      <4>5. /\ Enumerated[i].minor \in Nat /\ Enumerated[j].minor \in Nat
            /\ Enumerated[i - 1].minor \in Nat /\ Enumerated[j - 1].minor \in Nat
        BY <4>3, EnumeratedTyped
      <4>6. x \in Nat /\ Enumerated[i - 1].minor <= x /\ x < Enumerated[i].minor
            /\ y \in Nat /\ Enumerated[j - 1].minor <= y /\ y < Enumerated[j].minor
        BY <4>2 DEF Turn
      <4>7. x # y
        <5> HIDE DEF i, j
        <5>1. CASE i < j
          <6>1. Enumerated[i].minor <= Enumerated[j - 1].minor
            BY <4>4, <5>1
          <6> QED BY <4>5, <4>6, <6>1
        <5>2. CASE j < i
          <6>1. Enumerated[j].minor <= Enumerated[i - 1].minor
            BY <4>4, <5>2
          <6> QED BY <4>5, <4>6, <6>1
        <5> QED BY <4>3, <5>1, <5>2
      <4> QED BY <4>2, <4>7
    <3> QED BY <3>1, <3>2
  <2>3. PICK x, y : Turn(i, p, x) /\ Turn(j, q, y) /\ (i # j \/ p # q => x # y)
    BY <2>2
  <2>4. x \in Nat /\ y \in Nat /\ Info(a).rootDev = x + MajorBit /\ Info(b).rootDev = y + MajorBit
    BY <1>2, <2>0, <2>1, <2>3
  <2>5. x = y
    <3>1. MajorBit \in Nat
      BY Bounds
    <3>2. x + MajorBit = y + MajorBit
      BY <1>4, <2>4, Zenon
    <3>3. x \in Nat /\ y \in Nat
      BY <2>4
    <3> QED BY <3>1, <3>2, <3>3
  <2>6. i = j /\ p = q
    BY <2>3, <2>5
  <2>7. a[1] = b[1]
    BY <1>2, <2>6
  <2> QED BY <1>1, <2>6, <2>7
<1>5. \A a, b \in Entries : RootDev(a) = RootDev(b) => a = b
  BY <1>4 DEF RootDev
<1>6. \A a, b \in Entries : Path(a) = Path(b) => a = b
  BY <1>3 DEF Path
<1> QED BY <1>5, <1>6 DEF PosixUnique

----------------------------------------------------------------------------
(* The calls in progress and their counts.                                 *)
CallsTyped ==
  /\ call \in [Threads -> Calls \cup {NoCall}] /\ count \in [Threads -> 0 .. Slots]

LEMMA UsedCount == Cardinality(Used) \in 0 .. Slots /\ IsFiniteSet(Used)
<1>1. 0 \in Int /\ Slots - 1 \in Int /\ Slots \in Nat /\ Slots # 0
  BY Bounds
<1>2. IsFiniteSet(0 .. Slots - 1) /\ Cardinality(0 .. Slots - 1) = Slots
  <2>1. IsFiniteSet(0 .. Slots - 1)
        /\ Cardinality(0 .. Slots - 1) = IF 0 > Slots - 1 THEN 0 ELSE (Slots - 1) - 0 + 1
    BY <1>1, FS_Interval
  <2> QED BY <1>1, <2>1
<1>3. Used \subseteq 0 .. Slots - 1
  BY DEF Used
<1>4. IsFiniteSet(Used) /\ Cardinality(Used) <= Slots
  BY <1>2, <1>3, FS_Subset
<1>5. Cardinality(Used) \in Nat
  BY <1>4, FS_CardinalityType
<1> QED BY <1>1, <1>4, <1>5

LEMMA CallsTypedKept ==
  ASSUME CallsTyped, [Next]_vars
  PROVE  CallsTyped'
<1>1. CASE UNCHANGED vars
  BY <1>1 DEF vars, locals, CallsTyped
<1>2. ASSUME NEW t \in Threads, NEW c \in Calls, Begin(t, c) PROVE CallsTyped'
  BY <1>2 DEF Begin, locals, CallsTyped
<1>3. ASSUME NEW t \in Threads, BuildStep(t) \/ InitCheck(t) \/ InitSet(t) PROVE CallsTyped'
  <2>1. UNCHANGED <<call, count>>
    BY <1>3 DEF BuildStep, InitCheck, InitSet, GetClassDevs, EnumDeviceInterfaces,
       GetInterfaceDetail, OpenDevice, GetDeviceNumber, QueryDevice, GetLayout, Store, Exit,
       Succeeds, Fails, locals
  <2> QED BY <2>1 DEF CallsTyped
<1>4. ASSUME NEW t \in Threads, CountDrives(t) PROVE CallsTyped'
  BY <1>4, UsedCount DEF CountDrives, CallsTyped
<1>5. ASSUME NEW t \in Threads, Answer(t) PROVE CallsTyped'
  <2>1. 0 \in 0 .. Slots
    BY Bounds
  <2> QED BY <1>5, <2>1 DEF Answer, CallsTyped
<1> QED BY <1>1, <1>2, <1>3, <1>4, <1>5 DEF Next, Continue

LEMMA TypesHold ==
  ASSUME TableInv, InOrder, CallsTyped
  PROVE  TypeOK
<1>1. \A e \in Stored : filled[e] # Null
  <2> SUFFICES ASSUME NEW e \in Stored PROVE filled[e] # Null
    OBVIOUS
  <2>1. e \in Ids
    BY DEF Stored, Used, TableInv, Types
  <2>2. e[2] \in 0 .. Len(Present)
    BY <2>1, IdParts
  <2>3. Enumerated[e[2]].slots \in Partitions
    BY <2>2, EnumeratedTyped
  <2>4. filled[e] = Enumerated[e[2]].slots
    BY DEF InOrder, InSlots
  <2> QED BY <2>3, <2>4, TableAssumption DEF TableAssumption
<1>2. DOMAIN filled = Ids /\ minor \in [Threads -> Nat]
  BY DEF InOrder, Filled
<1> QED BY <1>1, <1>2 DEF TypeOK, TableInv, Types, CallsTyped

----------------------------------------------------------------------------
(* One thread, and drives that answer.                                     *)

OneThread == \A t, u \in Threads : t = u
BuildsSucceed ==
  /\ Faults \cap {"SetupDiGetClassDevs", "SetupDiEnumDeviceInterfaces",
                  "SetupDiGetDeviceInterfaceDetail", "CreateFile",
                  "IOCTL_STORAGE_GET_DEVICE_NUMBER", "IOCTL_DISK_GET_DRIVE_GEOMETRY_EX",
                  "IOCTL_DISK_GET_DRIVE_LAYOUT_EX"} = {}
  /\ \A i \in DOMAIN Present : Present[i].ready
(* No drive has the last number, for which Storable leaves no slot.        *)
NumbersFit == \A i \in DOMAIN Present : Present[i].number < Slots => Storable(Present[i].number)
(* Numbers in use without a gap.                                           *)
NumbersDense == \A i \in DOMAIN Present : \A n \in 0 .. Present[i].number :
  \E j \in DOMAIN Present : Present[j].number = n

Walked(k, S) == \A i \in 1 .. k : Present[i].number < Slots => Present[i].number \in S

(* The drives a thread is past are in the table; once the flag is set and  *)
(* the thread is out of BuildDeviceList, all are.                          *)
Detecting == \A t \in Threads :
  /\ pc[t] \in {"classDevs", "enum", "exit"} => Walked(index[t], Used)
  /\ pc[t] \in Working => Walked(index[t] - 1, Used)
  /\ pc[t] = "exit" => index[t] = Len(Present)
  /\ pc[t] = "classDevs" => index[t] = 0
  /\ pc[t] = "set" => ~inited
  /\ inited /\ pc[t] \notin Building => Walked(Len(Present), Used)
  /\ pc[t] = "count" => inited
  /\ pc[t] = "answer" /\ call[t].api # "path" => inited
  /\ pc[t] = "answer" /\ call[t].api = "drive" => count[t] = Cardinality(Used)

Calling == DOMAIN call = Threads /\ DOMAIN count = Threads

LEMMA CallingKept ==
  ASSUME Calling, NEW t \in Threads, (\E c : Begin(t, c)) \/ Continue(t)
  PROVE  Calling'
BY DEF Calling, Begin, Continue, BuildStep, InitCheck, InitSet, GetClassDevs,
   EnumDeviceInterfaces, GetInterfaceDetail, OpenDevice, GetDeviceNumber, QueryDevice, GetLayout,
   Store, Exit, CountDrives, Answer, Succeeds, Fails, locals

LEMMA NoneFails ==
  ASSUME BuildsSucceed, TableInv, NEW t \in Threads,
         GetClassDevs(t) \/ GetInterfaceDetail(t) \/ OpenDevice(t) \/ GetDeviceNumber(t)
           \/ QueryDevice(t) \/ GetLayout(t)
  PROVE  ~Fails(t)
<1> SUFFICES ASSUME Fails(t) PROVE FALSE
  OBVIOUS
<1>1. pc[t] = "query" => Present[index[t]].ready
  <2>1. pc[t] = "query" => index[t] \in 1 .. Len(Present)
    BY AtIds, IdParts DEF Working, HoldsDevice, HoldsEntry
  <2>2. DOMAIN Present = 1 .. Len(Present)
    BY TableAssumption DEF TableAssumption
  <2> QED BY <2>1, <2>2 DEF BuildsSucceed
<1>2. /\ pc' = [pc EXCEPT ![t] = "exit"] /\ pc'[t] = "exit"
      /\ UNCHANGED <<index, raw, hDevice, filled, osOpen, alloc>>
  BY DEF Fails, Goto, shared, locals, TableInv, Types
<1>3. ~GetClassDevs(t) /\ ~GetInterfaceDetail(t) /\ ~OpenDevice(t) /\ ~GetDeviceNumber(t)
      /\ ~QueryDevice(t) /\ ~GetLayout(t)
  BY <1>1, <1>2 DEF BuildsSucceed, GetClassDevs, GetInterfaceDetail, OpenDevice, GetDeviceNumber,
     QueryDevice, GetLayout, Succeeds, Goto, TableInv, Types
<1> QED BY <1>3

(* Steps of the one thread that leave the table, the flag and its index.   *)
LEMMA DetectMoves ==
  ASSUME OneThread, TableInv, Detecting, NEW t \in Threads, NEW l, Goto(t, l),
         UNCHANGED <<table, inited, index>>,
         l # "classDevs" /\ l # "exit",
         l = "enum" => pc[t] = "classDevs",
         l \in Working => pc[t] \in Working,
         l \notin Building => (inited => Walked(Len(Present), Used)),
         l = "set" => ~inited,
         l = "count" => inited,
         l = "answer" /\ call'[t].api # "path" => inited,
         l = "answer" /\ call'[t].api = "drive" => count'[t] = Cardinality(Used)
  PROVE  Detecting'
<1>1. \A u \in Threads : u = t /\ pc'[u] = l
  BY DEF OneThread, Goto, TableInv, Types
<1>3. Used' = Used
  BY DEF Used
<1> SUFFICES
      /\ pc'[t] \in {"classDevs", "enum", "exit"} => Walked(index'[t], Used')
      /\ pc'[t] \in Working => Walked(index'[t] - 1, Used')
      /\ pc'[t] = "exit" => index'[t] = Len(Present)
      /\ pc'[t] = "classDevs" => index'[t] = 0
      /\ pc'[t] = "set" => ~inited'
      /\ inited' /\ pc'[t] \notin Building => Walked(Len(Present), Used')
      /\ pc'[t] = "count" => inited'
      /\ pc'[t] = "answer" /\ call'[t].api # "path" => inited'
      /\ pc'[t] = "answer" /\ call'[t].api = "drive" => count'[t] = Cardinality(Used')
  BY <1>1 DEF Detecting
<1> QED BY <1>1, <1>3 DEF Detecting

LEMMA DetectKept ==
  ASSUME OneThread, BuildsSucceed, NumbersFit, TableInv, Calling, Detecting, NEW t \in Threads,
         (\E c : Begin(t, c)) \/ Continue(t)
  PROVE  Detecting'
<1>0. \A u \in Threads : u = t
  BY DEF OneThread
<1>1. ASSUME NEW c, Begin(t, c) PROVE Detecting'
  <2>1. /\ pc[t] = "idle" /\ UNCHANGED <<table, inited, index>>
        /\ \/ Goto(t, "answer") /\ call'[t].api = "path"
           \/ Goto(t, "check")
    BY <1>1 DEF Begin, shared, locals, Calling, Goto
  <2>2. inited => Walked(Len(Present), Used)
    BY <2>1 DEF Detecting, Building, Working, HoldsDevice, HoldsEntry
  <2> QED BY <2>1, <2>2, DetectMoves DEF Working, HoldsDevice, HoldsEntry
<1>2. CASE InitCheck(t)
  <2>1. /\ pc[t] = "check" /\ UNCHANGED <<table, inited, index, call>>
        /\ \/ inited /\ Goto(t, Looked(call[t]))
           \/ ~inited /\ Goto(t, "set")
    BY <1>2 DEF InitCheck, shared, locals
  <2>2. inited => Walked(Len(Present), Used)
    BY <2>1 DEF Detecting, Building, Working, HoldsDevice, HoldsEntry
  <2>3. Looked(call[t]) = "count" \/ (Looked(call[t]) = "answer" /\ call[t].api = "open")
    BY DEF Looked
  <2> QED BY <2>1, <2>2, <2>3, DetectMoves DEF Working, HoldsDevice, HoldsEntry
<1>3. CASE InitSet(t)
  <2>1. /\ pc'[t] = "classDevs" /\ index'[t] = 0 /\ inited'
    BY <1>3 DEF InitSet, Goto, TableInv, Types
  <2>2. Walked(0, Used')
    BY DEF Walked
  <2> QED BY <1>0, <2>1, <2>2 DEF Detecting, Working, Building, HoldsDevice, HoldsEntry
<1>4. CASE GetClassDevs(t)
  <2>1. Goto(t, "enum") /\ pc[t] = "classDevs" /\ UNCHANGED <<table, inited, index>>
    BY <1>4, NoneFails DEF GetClassDevs, Succeeds, shared, locals
  <2> QED BY <2>1, DetectMoves DEF Building, Working, HoldsDevice, HoldsEntry
<1>5. CASE GetInterfaceDetail(t)
  <2>1. Goto(t, "open") /\ pc[t] = "detail" /\ UNCHANGED <<table, inited, index>>
    BY <1>5, NoneFails DEF GetInterfaceDetail, Succeeds, shared, locals
  <2> QED BY <2>1, DetectMoves DEF Building, Working, HoldsDevice, HoldsEntry
<1>6. CASE OpenDevice(t)
  <2>1. Goto(t, "number") /\ pc[t] = "open" /\ UNCHANGED <<table, inited, index>>
    BY <1>6, NoneFails DEF OpenDevice, Succeeds
  <2> QED BY <2>1, DetectMoves DEF Building, Working, HoldsDevice, HoldsEntry
<1>7. CASE GetDeviceNumber(t)
  <2>1. Goto(t, "query") /\ pc[t] = "number" /\ UNCHANGED <<table, inited, index>>
    BY <1>7, NoneFails DEF GetDeviceNumber, Succeeds
  <2> QED BY <2>1, DetectMoves DEF Building, Working, HoldsDevice, HoldsEntry
<1>8. CASE QueryDevice(t)
  <2>1. Goto(t, "layout") /\ pc[t] = "query" /\ UNCHANGED <<table, inited, index>>
    BY <1>8, NoneFails DEF QueryDevice, Succeeds, shared, locals
  <2> QED BY <2>1, DetectMoves DEF Building, Working, HoldsDevice, HoldsEntry
<1>9. CASE GetLayout(t)
  <2>1. Goto(t, "store") /\ pc[t] = "layout" /\ UNCHANGED <<table, inited, index>>
    BY <1>9, NoneFails DEF GetLayout, Succeeds
  <2> QED BY <2>1, DetectMoves DEF Building, Working, HoldsDevice, HoldsEntry
<1>10. CASE EnumDeviceInterfaces(t)
  <2>0. pc[t] = "enum" /\ UNCHANGED <<table, inited>> /\ Walked(index[t], Used) /\ index[t] \in Nat
        /\ index[t] <= Len(Present) /\ Len(Present) \in Nat
    BY <1>10, AtIds, Tables DEF EnumDeviceInterfaces, Fails, shared, Detecting
  <2>1. CASE ~Fails(t)
    <3>1. pc'[t] = "detail" /\ index'[t] = index[t] + 1
      BY <1>10, <2>1 DEF EnumDeviceInterfaces, Succeeds, Goto, TableInv, Types
    <3>2. index'[t] - 1 = index[t]
      BY <2>0, <3>1
    <3>3. Walked(index'[t] - 1, Used')
      BY <2>0, <3>2 DEF Used
    <3> QED BY <1>0, <3>1, <3>3 DEF Detecting, Building, Working, HoldsDevice, HoldsEntry
  <2>2. CASE Fails(t)
    <3>0. pc'[t] = "exit" /\ index'[t] = index[t]
      BY <2>2 DEF Fails, Goto, locals, TableInv, Types
    <3>n. ~(index[t] < Len(Present))
      BY <1>10, <3>0 DEF EnumDeviceInterfaces, Succeeds, Goto, BuildsSucceed, TableInv, Types
    <3>1. pc'[t] = "exit" /\ index'[t] = index[t] /\ index[t] = Len(Present)
      BY <2>0, <3>0, <3>n
    <3>2. Walked(index'[t], Used')
      BY <2>0, <3>1 DEF Used
    <3> QED BY <1>0, <3>1, <3>2 DEF Detecting, Building, Working, HoldsDevice, HoldsEntry
  <2> QED BY <2>1, <2>2
<1>11. CASE Store(t)
  <2> DEFINE i == index[t]
             n == Present[i].number
  <2>0. /\ pc[t] = "store" /\ Walked(i - 1, Used) /\ i \in 1 .. Len(Present) /\ raw[t] # Null
        /\ i \in Nat /\ Len(Present) \in Nat
    BY <1>11, AtIds, IdParts, Tables DEF Store, Detecting, Working, HoldsDevice, HoldsEntry, TableInv, Names
  <2>1. pc'[t] = "enum" /\ index'[t] = i
    BY <1>11 DEF Store, Goto, TableInv, Types
  <2>2. n < Slots => table' = [table EXCEPT ![n] = raw[t]] /\ n \in 0 .. Slots - 1
    <3>1. DOMAIN Present = 1 .. Len(Present) /\ n \in Nat
      BY <2>0, TableAssumption, Drives DEF TableAssumption
    <3>2. n < Slots => Storable(n)
      BY <2>0, <3>1 DEF NumbersFit
    <3>3. n < Slots => n \in 0 .. Slots - 1
      BY <3>1, Bounds
    <3> QED BY <1>11, <3>2, <3>3 DEF Store
  <2>3. Used \subseteq Used' /\ (n < Slots => n \in Used')
    <3>1. Used \subseteq Used'
      BY <1>11, <2>0 DEF Store, Used, TableInv, Types
    <3>2. n < Slots => n \in Used'
      BY <2>0, <2>2 DEF Used, TableInv, Types
    <3> QED BY <3>1, <3>2
  <2>4. \A j \in 1 .. i : j \in 1 .. i - 1 \/ j = i
    BY <2>0
  <2>5. Walked(i, Used')
    <3> HIDE DEF i
    <3>1. ASSUME NEW j \in 1 .. i, Present[j].number < Slots PROVE Present[j].number \in Used'
      BY <2>0, <2>3, <2>4, <3>1 DEF Walked
    <3> QED BY <3>1 DEF Walked
  <2> HIDE DEF i
  <2>6. Walked(index'[t], Used')
    BY <2>1, <2>5
  <2> QED BY <1>0, <2>1, <2>6 DEF Detecting, Building, Working, HoldsDevice, HoldsEntry
<1>12. CASE Exit(t)
  <2>1. /\ pc[t] = "exit" /\ UNCHANGED <<table, inited, index, call>> /\ Goto(t, Looked(call[t]))
        /\ Walked(Len(Present), Used) /\ inited
    BY <1>12 DEF Exit, Detecting, TableInv, Once, Building
  <2>2. Looked(call[t]) = "count" \/ (Looked(call[t]) = "answer" /\ call[t].api = "open")
    BY DEF Looked
  <2> QED BY <2>1, <2>2, DetectMoves DEF Working, HoldsDevice, HoldsEntry
<1>13. CASE CountDrives(t)
  <2>1. /\ pc[t] = "count" /\ UNCHANGED <<table, inited, index, call>> /\ Goto(t, "answer")
        /\ inited /\ Walked(Len(Present), Used) /\ count' = [count EXCEPT ![t] = Cardinality(Used)]
    BY <1>13 DEF CountDrives, shared, Detecting, Building, Working, HoldsDevice, HoldsEntry
  <2>2. count'[t] = Cardinality(Used)
    BY <2>1 DEF Calling
  <2> QED BY <2>1, <2>2, DetectMoves DEF Working, HoldsDevice, HoldsEntry
<1>14. CASE Answer(t)
  <2>1. pc[t] = "answer" /\ UNCHANGED <<table, inited, index>> /\ Goto(t, "idle")
    BY <1>14 DEF Answer, shared
  <2>2. inited => Walked(Len(Present), Used)
    BY <2>1 DEF Detecting, Building, Working, HoldsDevice, HoldsEntry
  <2> QED BY <2>1, <2>2, DetectMoves DEF Working, HoldsDevice, HoldsEntry
<1> QED BY <1>1, <1>2, <1>3, <1>4, <1>5, <1>6, <1>7, <1>8, <1>9, <1>10, <1>11, <1>12, <1>13, <1>14
        DEF Continue, BuildStep

LEMMA DrivesDetected ==
  ASSUME Detecting
  PROVE  Detects
<1> SUFFICES ASSUME NEW t \in Threads, pc[t] \in {"count", "answer"}, call[t].api # "path",
                    NEW i \in DOMAIN Present, Present[i].number < Slots
             PROVE  Present[i].number \in Used
  BY DEF Detects
<1>1. DOMAIN Present = 1 .. Len(Present)
  BY TableAssumption DEF TableAssumption
<1>2. Walked(Len(Present), Used)
  BY DEF Detecting, Building, Working, HoldsDevice, HoldsEntry
<1> QED BY <1>1, <1>2 DEF Walked

(* The count is large enough for all the numbers in use.                   *)
LEMMA EnumAnswers ==
  ASSUME OneThread, NumbersDense, TableInv, Detecting, NEW t \in Threads,
         Answer(t), call[t].api = "drive", call[t].number \in Used, DOMAIN ret = Threads
  PROVE  ret'[t] # Null
<1> DEFINE n == call[t].number
           c == count[t]
<1>0. n \in Nat /\ n < Slots /\ n \in 0 .. Slots - 1 /\ Slots \in Nat
  BY Bounds DEF Used
<1>1. pc[t] = "answer" /\ ret' = [ret EXCEPT ![t] = Result(t, call[t])]
  BY DEF Answer
<1>2. c = Cardinality(Used) /\ Walked(Len(Present), Used)
  BY <1>1 DEF Detecting, Building, Working, HoldsDevice, HoldsEntry
<1>3. 0 .. n \subseteq Used
  <2>1. \E i \in DOMAIN Present : Present[i].number = n
    <3>1. table[n] \in Ids /\ Present[table[n][2]].number = n
      BY <1>0 DEF Used, TableInv, Types, InPlace
    <3> QED BY <3>1, IdParts, TableAssumption DEF TableAssumption
  <2>2. \A m \in 0 .. n : \E j \in DOMAIN Present : Present[j].number = m
    BY <2>1 DEF NumbersDense
  <2>3. \A m \in 0 .. n : m < Slots
    BY <1>0
  <2>4. DOMAIN Present = 1 .. Len(Present)
    BY TableAssumption DEF TableAssumption
  <2> HIDE DEF n
  <2> QED BY <1>2, <2>2, <2>3, <2>4 DEF Walked
<1>4. n + 1 <= c
  <2>1. IsFiniteSet(0 .. n) /\ Cardinality(0 .. n) = n + 1
    <3>1. 0 \in Int /\ n \in Int /\ ~(0 > n) /\ n - 0 + 1 = n + 1
      BY <1>0
    <3>2. IsFiniteSet(0 .. n) /\ Cardinality(0 .. n) = IF 0 > n THEN 0 ELSE n - 0 + 1
      BY <3>1, FS_Interval
    <3> QED BY <3>1, <3>2
  <2>2. Cardinality(0 .. n) <= Cardinality(Used)
    BY <1>3, UsedCount, FS_Subset
  <2> QED BY <1>2, <2>1, <2>2
<1>5. ~Beyond(n, c)
  <2>1. c \in Nat
    BY <1>2, UsedCount, Bounds
  <2> HIDE DEF n, c
  <2> QED BY <1>0, <1>4, <2>1 DEF Beyond
<1>6. Result(t, call[t]) = table[n]
  BY <1>5 DEF Result
<1>7. table[n] # Null
  BY DEF Used
<1> QED BY <1>1, <1>6, <1>7

LEMMA DetectStart == ASSUME Init PROVE Detecting /\ Calling
BY DEF Init, Detecting, Calling, Building, Working, HoldsDevice, HoldsEntry

LEMMA DetectStays == ASSUME UNCHANGED vars, Detecting, Calling PROVE Detecting' /\ Calling'
<1>1. UNCHANGED <<table, inited, pc, index, call, count>>
  BY DEF vars, shared, locals
<1> QED BY <1>1 DEF Detecting, Calling, Used, Walked

LEMMA RetKept ==
  ASSUME DOMAIN ret = Threads, NEW t \in Threads, (\E c : Begin(t, c)) \/ Continue(t)
  PROVE  DOMAIN ret' = Threads
BY DEF Begin, Continue, BuildStep, InitCheck, InitSet, GetClassDevs,
   EnumDeviceInterfaces, GetInterfaceDetail, OpenDevice, GetDeviceNumber, QueryDevice, GetLayout,
   Store, Exit, CountDrives, Answer, Succeeds, Fails

----------------------------------------------------------------------------
(* Whichever thread fills in an entry, and however many do, its contents   *)
(* are those of its place in the enumeration.                              *)
THEOREM OrderInductive == Spec => []InOrder
<1>1. Init => InOrder
  BY OrderStart
<1>2. TableInv /\ InOrder /\ [Next]_vars => InOrder'
  BY OrderKept, OrderStays DEF Next
<1> QED BY <1>1, <1>2, TableInductive, PTL DEF Spec

(* Slots hold entries that are filled in completely, and BuildDeviceList   *)
(* never goes past the devices there are.                                  *)
THEOREM TableTypeCorrect == Spec => []TypeOK
<1>1. Init => CallsTyped
  BY Bounds DEF Init, CallsTyped
<1>2. CallsTyped /\ [Next]_vars => CallsTyped'
  BY CallsTypedKept
<1>3. Spec => []CallsTyped
  BY <1>1, <1>2, PTL DEF Spec
<1>4. TableInv /\ InOrder /\ CallsTyped => TypeOK
  BY TypesHold
<1> QED BY <1>3, <1>4, TableInductive, OrderInductive, PTL

(* Each partition that is not empty is in its drive's entry, with the      *)
(* bytes of the layout, if the layout numbers its partitions.              *)
THEOREM PartsInEntries == ASSUME LayoutsSound PROVE Spec => []Faithful
<1>1. TableInv /\ InOrder => Faithful
  BY PartsShown
<1> QED BY <1>1, TableInductive, OrderInductive, PTL

(* "The index 0 corresponds to the whole device" (README.md:20), under the *)
(* same condition.                                                         *)
THEOREM WholeAtZero == ASSUME LayoutsSound PROVE Spec => []WholeDevice
<1>1. TableInv /\ InOrder => WholeDevice
  BY WholeShown
<1> QED BY <1>1, TableInductive, OrderInductive, PTL

(* A partition shows the first volume mounted from its bytes, the names    *)
(* that one does not give stay empty, or no volume is mounted from them,   *)
(* for layouts that fill no slot twice.                                    *)
THEOREM VolumesInEntries == ASSUME LayoutsSound PROVE Spec => []VolumesTheirs
<1>1. TableInv /\ InOrder => VolumesTheirs
  BY VolumesShown
<1> QED BY <1>1, TableInductive, OrderInductive, PTL

(* st_rdev tells all entries apart, and a path leads to one, as long as    *)
(* the names of all drives and partitions fit below 8 << 8.                *)
THEOREM NamesApart == ASSUME MinorsFit PROVE Spec => []PosixUnique
<1>1. TableInv /\ InOrder => PosixUnique
  BY NamesTold
<1> QED BY <1>1, TableInductive, OrderInductive, PTL

(* In a program of one thread, whose drives all answer, every drive is     *)
(* found once a call is past DevBlkInit.                                   *)
THEOREM AllDetected ==
  ASSUME OneThread, BuildsSucceed, NumbersFit PROVE Spec => []Detects
<1>1. Init => Detecting /\ Calling
  BY DetectStart
<1>2. TableInv /\ Detecting /\ Calling /\ [Next]_vars => Detecting' /\ Calling'
  BY DetectKept, CallingKept, DetectStays DEF Next
<1>3. Detecting => Detects
  BY DrivesDetected
<1> QED BY <1>1, <1>2, <1>3, TableInductive, PTL DEF Spec

(* There an enumeration by number comes across every drive that can be     *)
(* opened, if the numbers in use have no gap.                              *)
THEOREM EnumComplete ==
  ASSUME OneThread, BuildsSucceed, NumbersFit, NumbersDense PROVE Spec => EnumFindsAll
<1> DEFINE Inv == Detecting /\ Calling /\ DOMAIN ret = Threads
<1>1. Init => Inv
  BY DetectStart DEF Init
<1>2. TableInv /\ Inv /\ [Next]_vars => Inv'
  <2>1. ASSUME Inv, UNCHANGED vars PROVE Inv'
    BY <2>1, DetectStays DEF vars
  <2> QED BY <2>1, DetectKept, CallingKept, RetKept DEF Next
<1>3. TableInv /\ Inv => [\A t \in Threads :
        Answer(t) /\ call[t].api = "drive" /\ call[t].number \in Used => ret'[t] # Null]_vars
  BY EnumAnswers
<1> QED BY <1>1, <1>2, <1>3, TableInductive, PTL DEF Spec, EnumFindsAll
=============================================================================

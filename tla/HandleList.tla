------------------------------ MODULE HandleList ------------------------------
(* What the registry promises: per drive, the open handles in the order in *)
(* which they were opened.                                                 *)
EXTENDS SequencesExt

CONSTANTS Drives, Objs

VARIABLE list

Listed == UNION {ToSet(list[d]) : d \in Drives}

Init == list = [d \in Drives |-> <<>>]

Opened(d, o) ==
  /\ o \notin Listed
  /\ list' = [list EXCEPT ![d] = Append(@, o)]

Closed(d, o) ==
  /\ \E k \in DOMAIN list[d] :
       list[d][k] = o /\ list' = [list EXCEPT ![d] = RemoveAt(@, k)]

Next == \E d \in Drives, o \in Objs : Opened(d, o) \/ Closed(d, o)

Spec == Init /\ [][Next]_list
=============================================================================

------------------------------ MODULE FileTable ------------------------------
(* What the Posix layer promises: a descriptor opened by a Linux path is   *)
(* the partition Linux calls by that path until it is closed, whatever     *)
(* else is opened and closed meanwhile.                                    *)
EXTENDS PosixNames

CONSTANTS Fds, Numbers, Parts, Null

VARIABLES path, device   \* by descriptor, Null while it is closed

Init == path = [fd \in Fds |-> Null] /\ device = [fd \in Fds |-> Null]

Open(fd, n, p) ==
  /\ path[fd] = Null
  /\ path' = [path EXCEPT ![fd] = <<LinuxLetters(n), p>>]
  /\ device' = [device EXCEPT ![fd] = <<n, p>>]

Close(fd) ==
  /\ path[fd] # Null
  /\ path' = [path EXCEPT ![fd] = Null]
  /\ device' = [device EXCEPT ![fd] = Null]

Next == \E fd \in Fds : Close(fd) \/ \E n \in Numbers, p \in Parts : Open(fd, n, p)

Spec == Init /\ [][Next]_<<path, device>>
=============================================================================

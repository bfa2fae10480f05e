---------------------------- MODULE PartitionFile ----------------------------
(* What an HDEVBLK promises its caller: a file of Length bytes, the        *)
(* partition, with one position.  A call is asked, with its arguments, and *)
(* answered later.  A seek lands where those arguments say, or at the      *)
(* nearer end; a read returns as many of the bytes asked for as are left   *)
(* and moves past exactly those; a call that fails leaves the position     *)
(* alone, and only calls in MayFail fail once they are under way.          *)
EXTENDS Integers

CONSTANTS
  Length,      \* bytes in the file
  MayFail      \* the operations that may fail

VARIABLES
  pos,         \* the position, relative to the start
  call,        \* what the caller has asked for, or NoCall
  result       \* what the last call returned, -1 for a failure

vars == <<pos, call, result>>

NoCall == [op |-> "none"]
Calls ==
  [op : {"seek"}, origin : {"FILE_BEGIN", "FILE_CURRENT", "FILE_END", "other"}, by : Int]
    \cup [op : {"read"}, count : Nat]

(* Where a seek is told to go; a method that is none of the three rewinds. *)
Told(c) == CASE c.origin = "FILE_BEGIN"   -> c.by
             [] c.origin = "FILE_CURRENT" -> pos + c.by
             [] c.origin = "FILE_END"     -> Length + c.by
             [] OTHER                     -> 0
Within(p) == IF p < 0 THEN 0 ELSE IF p > Length THEN Length ELSE p
Left(n) == IF n < Length - pos THEN n ELSE Length - pos

Init == pos = 0 /\ call = NoCall /\ result = 0

Ask == call = NoCall /\ call' \in Calls /\ UNCHANGED <<pos, result>>

Answer(v) == call' = NoCall /\ result' = v

Seek == call.op = "seek" /\ pos' = Within(Told(call)) /\ Answer(pos')

Read == call.op = "read" /\ pos' = pos + Left(call.count) /\ Answer(Left(call.count))

Fail == call.op \in MayFail /\ Answer(-1) /\ UNCHANGED pos

(* Answered at once: the size, and a call that is refused.                 *)
GetSize == call = NoCall /\ Answer(Length) /\ UNCHANGED pos
Refuse == call = NoCall /\ Answer(-1) /\ UNCHANGED pos

Next == Ask \/ Seek \/ Read \/ Fail \/ GetSize \/ Refuse

Spec == Init /\ [][Next]_vars
=============================================================================

--------------------------- MODULE MCDriveStrings ---------------------------
(* A small instance of DriveStrings.                                       *)
EXTENDS DriveStrings

(* Device numbers around every change of length, up to 2^18 - 1.           *)
SomeNumbers == 0 .. 800 \cup 1370 .. 1390 \cup 18200 .. 19000 \cup 262100 .. 262143

(* Space, tab, a control code, digits that make characters, spaces, zeros  *)
(* and rejected bytes, both cases, and a letter that is no digit.          *)
Alphabet == {32, 9, 1, 48, 50, 55, 70, 97, 71}
SomeOffsets == {-1, 0, 8}
ShortTexts == BoundedSeq(Alphabet, 4)
=============================================================================

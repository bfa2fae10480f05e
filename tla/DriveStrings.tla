---------------------------- MODULE DriveStrings ----------------------------
(* The two conversions of strings BuildDeviceList makes for a drive        *)
(* (src/src/windevblk_list.c): SetPosixInfo names it, flipAndCodeBytes     *)
(* turns what the drive reports as its vendor, model, revision or serial   *)
(* number into text.  Some drives report text, some the hex codes of text; *)
(* the function tries the second reading first.                            *)
(*                                                                         *)
(* A string is a sequence of character codes without its final 0; a step   *)
(* is one turn of a loop.  iFlip is 0 in every call and is left out.       *)
EXTENDS PosixNames, SequencesExt

CONSTANTS
  Numbers,   \* device numbers
  Texts,     \* what drives report: sequences of codes in 1 .. 127
  Offsets    \* of the string in the descriptor: 0 or -1 when there is none

(* SetPosixInfo names drives below BLK_PER_MAJOR, 2^18; the codes are of   *)
(* characters that are not negative.                                       *)
ASSUME StringsAssumption ==
  /\ \A n \in Numbers : n \in Nat /\ n < 262144
  /\ Texts \subseteq Seq(1 .. 127) /\ Offsets \subseteq Int

VARIABLES
  pc,        \* "idle", "hex", "plain", "trim", or "named", "coded" on return
  number,    \* the device number to name
  text, iPos, \* arguments of flipAndCodeBytes
  iI,        \* how many characters the loop has passed
  high,      \* the first digit of a pair, when cP is 1
  buf        \* pcszBuf up to iK; the result on return

vars == <<pc, number, text, iPos, iI, high, buf>>

None == -1
IsSpace(c) == c \in 9 .. 13 \cup {32}
IsPrint(c) == c \in 32 .. 126

(* The value of a hex digit; a space counts as 0.                          *)
Digit(c) ==
  CASE IsSpace(c) -> 0 [] c \in 48 .. 57 -> c - 48
    [] c \in 65 .. 70 -> c - 55 [] c \in 97 .. 102 -> c - 87 [] OTHER -> None

(* A byte that is negative as a char, other than -1, ends the hex reading. *)
Rejected(byte) == byte \in 128 .. 254

Init ==
  /\ pc = "idle" /\ number = 0 /\ text = <<>> /\ iPos = 0
  /\ iI = 0 /\ high = None /\ buf = <<>>

SetPosixInfo(n) ==
  /\ pc = "idle"
  /\ number' = n
  /\ buf' = Letters(n)
  /\ pc' = "named"
  /\ UNCHANGED <<text, iPos, iI, high>>

FlipAndCodeBytes(s, p) ==
  /\ pc = "idle"
  /\ text' = s /\ iPos' = p
  /\ pc' = IF p <= 0 THEN "coded" ELSE "hex"
  /\ UNCHANGED <<number, iI, high, buf>>

(* Mutant of ReadAgain: what the hex reading left in the buffer stays.     *)
ReadAgainAppending ==
  /\ pc' = "plain" /\ iI' = 0 /\ high' = None
  /\ UNCHANGED buf

ReadAgain == pc' = "plain" /\ iI' = 0 /\ high' = None /\ buf' = <<>>

HexDigit ==
  LET d == Digit(text[iI + 1])
      byte == 16 * high + d
  IN
  /\ pc = "hex" /\ iI < Len(text)
  /\ IF d = None \/ (high # None /\ Rejected(byte)) THEN ReadAgain
     ELSE /\ iI' = iI + 1
          /\ IF high = None THEN high' = d /\ UNCHANGED buf
                            ELSE high' = None /\ buf' = Append(buf, byte)
          /\ UNCHANGED pc
  /\ UNCHANGED <<number, text, iPos>>

Plain ==
  LET c == text[iI + 1] IN
  /\ pc = "plain" /\ iI < Len(text)
  /\ IF IsPrint(c) THEN iI' = iI + 1 /\ buf' = Append(buf, c) /\ UNCHANGED pc
                   ELSE pc' = "trim" /\ buf' = <<>> /\ UNCHANGED iI
  /\ UNCHANGED <<number, text, iPos, high>>

(* The end of the loop: a digit without its pair is dropped.               *)
EndOfText ==
  /\ pc \in {"hex", "plain"} /\ iI = Len(text)
  /\ pc' = "trim" /\ high' = None
  /\ UNCHANGED <<number, text, iPos, iI, buf>>

(* Where the string in the buffer ends.                                    *)
CString(s) == SubSeq(s, 1, IF Contains(s, 0) THEN SelectInSeq(s, LAMBDA c : c = 0) - 1
                                            ELSE Len(s))

Blank(s) == \A i \in DOMAIN s : IsSpace(s[i])

(* Surrounding spaces go, but for a string of spaces, which stays.         *)
Trim ==
  LET s == CString(buf)
      black(c) == ~IsSpace(c)
  IN
  /\ pc = "trim"
  /\ buf' = IF Blank(s) THEN s
            ELSE SubSeq(s, SelectInSeq(s, black), SelectLastInSeq(s, black))
  /\ pc' = "coded"
  /\ UNCHANGED <<number, text, iPos, iI, high>>

(* The caller takes the result.                                            *)
Return ==
  /\ pc \in {"named", "coded"}
  /\ pc' = "idle" /\ number' = 0 /\ text' = <<>> /\ iPos' = 0
  /\ iI' = 0 /\ high' = None /\ buf' = <<>>

Next ==
  \/ \E n \in Numbers : SetPosixInfo(n)
  \/ \E s \in Texts, p \in Offsets : FlipAndCodeBytes(s, p)
  \/ HexDigit \/ Plain \/ EndOfText \/ Trim \/ Return

Spec == Init /\ [][Next]_vars

----------------------------------------------------------------------------
(* Properties                                                              *)

(* SetPosixInfo names every drive as Linux names it: bijective base 26, so *)
(* that no two drives have one name.                                       *)
NamesAsLinux == pc = "named" => buf = LinuxLetters(number)

Pairs(s) == [k \in 1 .. Len(s) \div 2 |-> 16 * Digit(s[2 * k - 1]) + Digit(s[2 * k])]

(* "Characters representing hex digits only" (windevblk_list.c:655) whose  *)
(* codes are characters.                                                   *)
IsHexText(s) ==
  /\ \A i \in DOMAIN s : Digit(s[i]) # None
  /\ \A k \in DOMAIN Pairs(s) : Pairs(s)[k] \notin 128 .. 254

IsPlainText(s) == \A i \in DOMAIN s : IsPrint(s[i])

(* r is s without its surrounding spaces.                                  *)
IsTrimmed(r, s) ==
  /\ r # <<>> => ~IsSpace(Head(r)) /\ ~IsSpace(Last(r))
  /\ \E i, j \in 0 .. Len(s) :
       /\ i + j <= Len(s)
       /\ r = SubSeq(s, i + 1, Len(s) - j)
       /\ Blank(SubSeq(s, 1, i)) /\ Blank(SubSeq(s, Len(s) - j + 1, Len(s)))

(* The text a drive reports comes out decoded if it is hex throughout and  *)
(* as it is otherwise, trimmed either way; nothing of a reading given up   *)
(* is left, whatever the character it was given up at.                     *)
Decodes == pc = "coded" =>
  IF iPos <= 0 THEN buf = <<>>
  ELSE LET s == IF IsHexText(text) THEN CString(Pairs(text))
                ELSE IF IsPlainText(text) THEN text ELSE <<>>
       IN  IF Blank(s) THEN buf = s ELSE IsTrimmed(buf, s)

(* "Trim any beginning and end space" (windevblk_list.c:729).              *)
TrimsAll == pc = "coded" /\ buf # <<>> => ~IsSpace(Head(buf)) /\ ~IsSpace(Last(buf))
=============================================================================

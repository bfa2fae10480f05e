-------------------------- MODULE DriveStrings_proofs --------------------------
(* Proofs about DriveStrings, for texts of any length: what the two        *)
(* readings of flipAndCodeBytes have in the buffer as they go along.       *)
EXTENDS DriveStrings, PosixNames_proofs

Chars == 1 .. 127

(* The k-th byte of a text in hex.                                         *)
Byte(s, k) == 16 * Digit(s[2 * k - 1]) + Digit(s[2 * k])

Types ==
  /\ pc \in {"idle", "hex", "plain", "trim", "named", "coded"}
  /\ number \in Nat /\ number < 262144
  /\ text \in Seq(Chars) /\ iPos \in Int /\ iI \in 0 .. Len(text)
  /\ buf \in Seq(Int)

(* The hex reading so far: digits only, a byte for each two of them.       *)
Hex == pc = "hex" =>
  /\ iPos > 0
  /\ \A i \in 1 .. iI : Digit(text[i]) # None
  /\ Len(buf) = iI \div 2
  /\ \A k \in 1 .. iI \div 2 : buf[k] = Byte(text, k) /\ buf[k] \notin 128 .. 254
  /\ high = IF iI % 2 = 0 THEN None ELSE Digit(text[iI])

(* The plain reading so far, which begins when the hex one is given up.    *)
AsItIs == pc = "plain" =>
  /\ iPos > 0 /\ ~IsHexText(text)
  /\ Len(buf) = iI
  /\ \A i \in 1 .. iI : buf[i] = text[i] /\ IsPrint(text[i])

(* What the reading that went through has left.                            *)
Read == IF IsHexText(text) THEN Pairs(text) ELSE IF IsPlainText(text) THEN text ELSE <<>>

Done == pc = "trim" => iPos > 0 /\ buf = Read

Fresh == pc = "idle" => iI = 0 /\ high = None /\ buf = <<>>

(* The inductive invariant.                                                *)
StringsInv == Types /\ Hex /\ AsItIs /\ Done /\ Fresh /\ NamesAsLinux /\ Decodes

----------------------------------------------------------------------------
(* Digits, bytes and strings.                                              *)
LEMMA Digits ==
  ASSUME NEW c \in Int
  PROVE  Digit(c) \in -1 .. 15
BY DEF Digit, None, IsSpace

LEMMA AsSequence ==
  ASSUME NEW n \in Nat, NEW S, NEW f \in [1 .. n -> S]
  PROVE  f \in Seq(S) /\ Len(f) = n /\ DOMAIN f = 1 .. n
<1>1. f \in Seq(S)
  BY SeqDef
<1>2. Len(f) \in Nat /\ DOMAIN f = 1 .. Len(f) /\ DOMAIN f = 1 .. n
  BY <1>1, LenProperties
<1> DEFINE m == Len(f)
<1>3. m \in Nat /\ 1 .. m = 1 .. n
  BY <1>2
<1> HIDE DEF m
<1>4. m = n
  <2>1. \A i \in Nat : i \in 1 .. m <=> i \in 1 .. n
    BY <1>3
  <2> QED BY <1>3, <2>1
<1> QED BY <1>1, <1>2, <1>4 DEF m

LEMMA CharsOf ==
  ASSUME NEW s \in Seq(Chars)
  PROVE  Len(s) \in Nat /\ DOMAIN s = 1 .. Len(s) /\ \A i \in 1 .. Len(s) : s[i] \in Int
<1>1. Chars \subseteq Int
  BY DEF Chars
<1> QED BY <1>1, LenProperties

LEMMA PairsTyped ==
  ASSUME NEW s \in Seq(Chars)
  PROVE  /\ Len(s) \in Nat /\ Len(s) \div 2 \in Nat
         /\ Pairs(s) \in Seq(Int) /\ Len(Pairs(s)) = Len(s) \div 2
         /\ DOMAIN Pairs(s) = 1 .. Len(s) \div 2
         /\ \A k \in 1 .. Len(s) \div 2 :
              /\ Pairs(s)[k] = Byte(s, k)
              /\ 2 * k - 1 \in 1 .. Len(s) /\ 2 * k \in 1 .. Len(s)
<1>1. Len(s) \in Nat /\ \A i \in 1 .. Len(s) : s[i] \in Int
  BY CharsOf
<1>2. Len(s) \div 2 \in Nat /\ \A k \in 1 .. Len(s) \div 2 :
         2 * k - 1 \in 1 .. Len(s) /\ 2 * k \in 1 .. Len(s)
  BY <1>1
<1>3. ASSUME NEW k \in 1 .. Len(s) \div 2 PROVE Byte(s, k) \in Int
  <2>1. Digit(s[2 * k - 1]) \in -1 .. 15 /\ Digit(s[2 * k]) \in -1 .. 15
    BY <1>1, <1>2, Digits
  <2> DEFINE a == Digit(s[2 * k - 1])
             b == Digit(s[2 * k])
  <2>2. Byte(s, k) = 16 * a + b /\ a \in Int /\ b \in Int
    BY <2>1 DEF Byte
  <2> HIDE DEF a, b
  <2> QED BY <2>2
<1>4. Pairs(s) = [k \in 1 .. Len(s) \div 2 |-> Byte(s, k)]
  BY DEF Pairs, Byte
<1> DEFINE p == Pairs(s)
<1>5. p \in [1 .. Len(s) \div 2 -> Int] /\ \A k \in 1 .. Len(s) \div 2 : p[k] = Byte(s, k)
  BY <1>3, <1>4
<1> HIDE DEF p
<1>6. p \in Seq(Int) /\ Len(p) = Len(s) \div 2 /\ DOMAIN p = 1 .. Len(s) \div 2
  BY <1>2, <1>5, AsSequence
<1> QED BY <1>1, <1>2, <1>5, <1>6 DEF p

LEMMA IsHex ==
  ASSUME NEW s \in Seq(Chars)
  PROVE  IsHexText(s) <=> /\ \A i \in 1 .. Len(s) : Digit(s[i]) # None
                          /\ \A k \in 1 .. Len(s) \div 2 : Byte(s, k) \notin 128 .. 254
<1>1. DOMAIN s = 1 .. Len(s)
  BY CharsOf
<1> QED BY <1>1, PairsTyped DEF IsHexText

(* The ends of a string.                                                   *)
Zeros(s) == {i \in 1 .. Len(s) : s[i] = 0}
Blacks(s) == {i \in 1 .. Len(s) : ~IsSpace(s[i])}

LEMMA LeastIn ==
  ASSUME NEW S \in SUBSET Nat, S # {}
  PROVE  Min(S) \in S /\ \A n \in S : Min(S) <= n
<1>1. \E m \in S : \A n \in S : m <= n
  BY LeastNumber
<1> QED BY <1>1 DEF Min

LEMMA GreatestIn ==
  ASSUME NEW l \in Nat, NEW S \in SUBSET (1 .. l), S # {}
  PROVE  Max(S) \in S /\ \A n \in S : n <= Max(S)
<1> DEFINE D == {l - n : n \in S}
<1>1. D \subseteq Nat /\ D # {}
  <2>1. \A n \in S : l - n \in Nat
    OBVIOUS
  <2> QED BY <2>1
<1>2. PICK d \in D : \A e \in D : d <= e
  <2> HIDE DEF D
  <2> QED BY <1>1, LeastNumber
<1>3. PICK m \in S : d = l - m
  OBVIOUS
<1>4. \A n \in S : m >= n
  <2> SUFFICES ASSUME NEW n \in S PROVE m >= n
    OBVIOUS
  <2>1. l - m <= l - n
    BY <1>2, <1>3
  <2> QED BY <2>1
<1>5. \E x \in S : \A y \in S : x >= y
  BY <1>4
<1>6. Max(S) \in S /\ \A n \in S : Max(S) >= n
  BY <1>5 DEF Max
<1> QED BY <1>6

LEMMA CStringTyped ==
  ASSUME NEW s \in Seq(Int)
  PROVE  /\ CString(s) \in Seq(Int)
         /\ (\A i \in 1 .. Len(s) : s[i] # 0) => CString(s) = s
<1>1. CString(s) = SubSeq(s, 1, IF Contains(s, 0) THEN Min(Zeros(s)) - 1 ELSE Len(s))
  <2>1. Contains(s, 0) => Zeros(s) # {}
    BY DEF Contains, Zeros
  <2> QED BY <2>1 DEF CString, SelectInSeq, Zeros
<1>2. Contains(s, 0) => Min(Zeros(s)) \in 1 .. Len(s)
  <2>1. Contains(s, 0) => Zeros(s) # {} /\ Zeros(s) \in SUBSET Nat /\ Zeros(s) \subseteq 1 .. Len(s)
    BY DEF Contains, Zeros
  <2> QED BY <2>1, LeastIn
<1>3. ASSUME NEW n \in 0 .. Len(s) PROVE SubSeq(s, 1, n) \in Seq(Int)
  <2>1. \A i \in 1 .. n : s[i] \in Int
    OBVIOUS
  <2> QED BY <2>1, SubSeqProperties
<1>4. (IF Contains(s, 0) THEN Min(Zeros(s)) - 1 ELSE Len(s)) \in 0 .. Len(s)
  BY <1>2
<1>5. CString(s) \in Seq(Int)
  BY <1>1, <1>3, <1>4
<1>6. (\A i \in 1 .. Len(s) : s[i] # 0) => ~Contains(s, 0)
  BY DEF Contains
<1> QED BY <1>1, <1>5, <1>6, SubSeqFull

(* What Trim takes off: the spaces before the first and after the last     *)
(* character that is none.                                                 *)
LEMMA Trims ==
  ASSUME NEW s \in Seq(Int), ~Blank(s)
  PROVE  /\ SubSeq(s, Min(Blacks(s)), Max(Blacks(s))) \in Seq(Int)
         /\ IsTrimmed(SubSeq(s, Min(Blacks(s)), Max(Blacks(s))), s)
<1> DEFINE l == Len(s)
           a == Min(Blacks(s))
           b == Max(Blacks(s))
           r == SubSeq(s, a, b)
<1>1. l \in Nat /\ DOMAIN s = 1 .. l /\ \A i \in 1 .. l : s[i] \in Int
  OBVIOUS
<1>2. Blacks(s) # {} /\ Blacks(s) \in SUBSET Nat /\ Blacks(s) \in SUBSET (1 .. l)
  BY <1>1 DEF Blacks, Blank
<1>3. /\ a \in Blacks(s) /\ \A n \in Blacks(s) : a <= n
      /\ b \in Blacks(s) /\ \A n \in Blacks(s) : n <= b
  BY <1>1, <1>2, LeastIn, GreatestIn
<1> HIDE DEF a, b
<1>4. a \in 1 .. l /\ b \in 1 .. l /\ a <= b /\ ~IsSpace(s[a]) /\ ~IsSpace(s[b])
  BY <1>1, <1>3 DEF Blacks
<1>5. \A i \in a .. b : s[i] \in Int
  BY <1>1, <1>4
<1>6. /\ r \in Seq(Int) /\ Len(r) = b - a + 1
      /\ \A i \in 1 .. b - a + 1 : r[i] = s[a + i - 1]
  BY <1>4, <1>5, SubSeqProperties
<1>7. r[1] = s[a] /\ r[b - a + 1] = s[b] /\ Head(r) = r[1]
  <2>1. 1 \in 1 .. b - a + 1 /\ b - a + 1 \in 1 .. b - a + 1
        /\ a + 1 - 1 = a /\ a + (b - a + 1) - 1 = b
    BY <1>4
  <2>2. r[1] = s[a] /\ r[b - a + 1] = s[b]
    BY <1>6, <2>1
  <2> HIDE DEF r
  <2>3. Head(r) = r[1]
    BY <1>6
  <2> QED BY <2>2, <2>3
<1>8. ~IsSpace(Head(r)) /\ ~IsSpace(Last(r))
  BY <1>4, <1>6, <1>7 DEF Last
<1>9. Blank(SubSeq(s, 1, a - 1)) /\ Blank(SubSeq(s, b + 1, l))
  <2>1. ASSUME NEW m \in 1 .. l + 1, NEW n \in 0 .. l, \A i \in m .. n : i \notin Blacks(s)
        PROVE  Blank(SubSeq(s, m, n))
    <3> DEFINE q == SubSeq(s, m, n)
    <3>1. \A i \in m .. n : s[i] \in Int /\ IsSpace(s[i])
      BY <1>1, <2>1 DEF Blacks
    <3>2. /\ q \in Seq(Int) /\ Len(q) = IF m <= n THEN n - m + 1 ELSE 0
          /\ \A i \in 1 .. n - m + 1 : q[i] = s[m + i - 1]
      BY <3>1, SubSeqProperties
    <3> HIDE DEF q
    <3>3. DOMAIN q = 1 .. Len(q)
      BY <3>2
    <3>4. ASSUME NEW i \in DOMAIN q PROVE IsSpace(q[i])
      <4>1. i \in 1 .. n - m + 1 /\ m + i - 1 \in m .. n
        BY <3>2, <3>3
      <4> QED BY <3>1, <3>2, <4>1
    <3>5. Blank(q)
      BY <3>4 DEF Blank
    <3> QED BY <3>5 DEF q
  <2>2. /\ 1 \in 1 .. l + 1 /\ a - 1 \in 0 .. l /\ b + 1 \in 1 .. l + 1 /\ l \in 0 .. l
        /\ \A i \in 1 .. a - 1 : i \notin Blacks(s)
        /\ \A i \in b + 1 .. l : i \notin Blacks(s)
    BY <1>1, <1>3, <1>4
  <2> HIDE DEF l
  <2> QED BY <2>1, <2>2
<1>10. IsTrimmed(r, s)
  <2> DEFINE i == a - 1
             j == l - b
  <2>1. /\ i \in 0 .. l /\ j \in 0 .. l /\ i + j <= l
        /\ i + 1 = a /\ l - j = b /\ l - j + 1 = b + 1
    BY <1>1, <1>4
  <2>2. r = SubSeq(s, i + 1, l - j) /\ Blank(SubSeq(s, 1, i)) /\ Blank(SubSeq(s, l - j + 1, l))
    BY <1>9, <2>1
  <2> HIDE DEF i, j, r
  <2> QED BY <1>8, <2>1, <2>2 DEF IsTrimmed
<1> QED BY <1>6, <1>10 DEF a, b

----------------------------------------------------------------------------
(* The steps.                                                              *)
LEMMA TypedText ==
  ASSUME StringsInv
  PROVE  /\ Len(text) \in Nat /\ iI \in Nat /\ iI <= Len(text)
         /\ DOMAIN text = 1 .. Len(text) /\ \A i \in 1 .. Len(text) : text[i] \in Int
BY CharsOf DEF StringsInv, Types

LEMMA StartStrings == ASSUME Init PROVE StringsInv
<1>1. <<>> \in Seq(Chars) /\ <<>> \in Seq(Int) /\ Len(<<>>) = 0
  BY EmptySeq
<1> QED BY <1>1 DEF Init, StringsInv, Types, Hex, AsItIs, Done, Fresh, NamesAsLinux, Decodes

LEMMA Naming ==
  ASSUME StringsInv, NEW n \in Numbers, SetPosixInfo(n)
  PROVE  StringsInv'
<1>1. n \in Nat /\ n < 262144
  BY StringsAssumption DEF StringsAssumption
<1>2. n \in Nameable
  <2>1. n < 475254
    BY <1>1, SMT
  <2> QED BY <1>1, <2>1 DEF Nameable
<1>3. Letters(n) \in Seq(Int) /\ Letters(n) = LinuxLetters(n)
  BY <1>1, <1>2, LettersSeq, LettersOfLinux
<1>4. /\ pc' = "named" /\ number' = n /\ buf' = Letters(n)
      /\ UNCHANGED <<text, iPos, iI, high>>
  BY DEF SetPosixInfo
<1>5. Types' /\ NamesAsLinux'
  BY <1>1, <1>3, <1>4 DEF StringsInv, Types, NamesAsLinux
<1>6. Hex' /\ AsItIs' /\ Done' /\ Fresh' /\ Decodes'
  BY <1>4 DEF Hex, AsItIs, Done, Fresh, Decodes
<1> QED BY <1>5, <1>6 DEF StringsInv

LEMMA Beginning ==
  ASSUME StringsInv, NEW s \in Texts, NEW p \in Offsets, FlipAndCodeBytes(s, p)
  PROVE  StringsInv'
<1>1. s \in Seq(Chars) /\ p \in Int
  BY StringsAssumption DEF StringsAssumption, Chars
<1>2. /\ pc = "idle" /\ text' = s /\ iPos' = p
      /\ pc' = IF p <= 0 THEN "coded" ELSE "hex"
      /\ UNCHANGED <<number, iI, high, buf>>
  BY DEF FlipAndCodeBytes
<1>3. iI = 0 /\ high = None /\ buf = <<>> /\ Len(s) \in Nat
  BY <1>1, <1>2, CharsOf DEF StringsInv, Fresh
<1>4. Types'
  BY <1>1, <1>2, <1>3 DEF StringsInv, Types
<1>5. Hex'
  <2>1. Len(<<>>) = 0 /\ 0 \div 2 = 0 /\ 0 % 2 = 0
    OBVIOUS
  <2> QED BY <1>1, <1>2, <1>3, <2>1 DEF Hex
<1>6. AsItIs' /\ Done' /\ Fresh' /\ NamesAsLinux'
  BY <1>2 DEF AsItIs, Done, Fresh, NamesAsLinux
<1>7. Decodes'
  BY <1>1, <1>2, <1>3 DEF Decodes
<1> QED BY <1>4, <1>5, <1>6, <1>7 DEF StringsInv

(* The hex reading is given up at a character that is no digit or at a     *)
(* byte that is no character: nothing of it is left.                       *)
LEMMA GivingUp ==
  ASSUME StringsInv, pc = "hex", ~IsHexText(text), ReadAgain, UNCHANGED <<number, text, iPos>>
  PROVE  StringsInv'
<1>1. /\ pc' = "plain" /\ iI' = 0 /\ buf' = <<>> /\ UNCHANGED <<number, text, iPos>>
      /\ <<>> \in Seq(Int) /\ Len(<<>>) = 0 /\ 0 \in 0 .. Len(text)
  BY TypedText, EmptySeq DEF ReadAgain
<1>2. Types'
  BY <1>1 DEF StringsInv, Types
<1>3. AsItIs'
  BY <1>1 DEF StringsInv, Hex, AsItIs, IsHexText, Pairs
<1>4. Hex' /\ Done' /\ Fresh' /\ NamesAsLinux' /\ Decodes'
  BY <1>1 DEF Hex, Done, Fresh, NamesAsLinux, Decodes
<1> QED BY <1>2, <1>3, <1>4 DEF StringsInv

LEMMA Halves ==
  ASSUME NEW n \in Nat
  PROVE  /\ n \div 2 \in Nat /\ (n % 2 = 0 \/ n % 2 = 1)
         /\ n % 2 = 0 => (n + 1) \div 2 = n \div 2 /\ (n + 1) % 2 = 1
         /\ n % 2 = 1 => (n + 1) \div 2 = n \div 2 + 1 /\ (n + 1) % 2 = 0 /\ n >= 1
OBVIOUS

LEMMA ReadingHex ==
  ASSUME StringsInv, HexDigit
  PROVE  StringsInv'
<1> DEFINE d == Digit(text[iI + 1])
           byte == 16 * high + d
           fails == d = None \/ (high # None /\ Rejected(byte))
<1>0. /\ pc = "hex" /\ iI < Len(text) /\ UNCHANGED <<number, text, iPos>>
      /\ fails => ReadAgain
      /\ ~fails => /\ iI' = iI + 1 /\ pc' = pc
                   /\ high = None => high' = d /\ buf' = buf
                   /\ high # None => high' = None /\ buf' = Append(buf, byte)
  BY DEF HexDigit
<1>1. /\ Len(text) \in Nat /\ iI \in Nat /\ iI + 1 \in 1 .. Len(text) /\ text \in Seq(Chars)
      /\ \A i \in 1 .. Len(text) : text[i] \in Int
      /\ iPos > 0 /\ \A i \in 1 .. iI : Digit(text[i]) # None
      /\ Len(buf) = iI \div 2 /\ buf \in Seq(Int)
      /\ \A k \in 1 .. iI \div 2 : buf[k] = Byte(text, k) /\ buf[k] \notin 128 .. 254
      /\ high = IF iI % 2 = 0 THEN None ELSE Digit(text[iI])
  BY <1>0, TypedText DEF StringsInv, Types, Hex
<1>2. d \in -1 .. 15
  BY <1>1, Digits
<1>f. fails <=> (d = None \/ (high # None /\ Rejected(byte)))
  OBVIOUS
<1> HIDE DEF fails
<1>h. /\ iI \div 2 \in Nat /\ (iI % 2 = 0 \/ iI % 2 = 1)
      /\ iI % 2 = 0 => (iI + 1) \div 2 = iI \div 2 /\ (iI + 1) % 2 = 1
      /\ iI % 2 = 1 => (iI + 1) \div 2 = iI \div 2 + 1 /\ (iI + 1) % 2 = 0 /\ iI >= 1
  BY <1>1, Halves
<1>3. high # None => /\ iI % 2 = 1 /\ iI \in 1 .. Len(text) /\ high = Digit(text[iI])
                     /\ high \in -1 .. 15
  <2>1. high # None => iI % 2 = 1 /\ high = Digit(text[iI])
    BY <1>1, <1>h
  <2>2. high # None => iI \in 1 .. Len(text)
    BY <1>1, <1>h, <2>1
  <2> QED BY <1>1, <2>1, <2>2, Digits
<1>4. high # None => /\ (iI + 1) \div 2 \in 1 .. Len(text) \div 2
                     /\ (iI + 1) \div 2 = iI \div 2 + 1
                     /\ Byte(text, iI \div 2 + 1) = byte
  <2> SUFFICES ASSUME high # None
               PROVE  /\ (iI + 1) \div 2 \in 1 .. Len(text) \div 2
                      /\ (iI + 1) \div 2 = iI \div 2 + 1
                      /\ Byte(text, iI \div 2 + 1) = byte
    OBVIOUS
  <2> DEFINE k == (iI + 1) \div 2
  <2>1. k \in 1 .. Len(text) \div 2 /\ 2 * k - 1 = iI /\ 2 * k = iI + 1
    BY <1>1, <1>3
  <2>2. k = iI \div 2 + 1
    BY <1>3, <1>h
  <2> HIDE DEF k
  <2>3. Byte(text, k) = byte
    BY <1>3, <2>1 DEF Byte
  <2> QED BY <2>1, <2>2, <2>3 DEF k
<1>5. CASE fails
  <2>1. ~IsHexText(text)
    <3>1. d = None => ~IsHexText(text)
      BY <1>1, IsHex
    <3>2. high # None /\ Rejected(byte) => ~IsHexText(text)
      <4>1. Rejected(byte) => byte \in 128 .. 254
        BY DEF Rejected
      <4> HIDE DEF byte
      <4> QED BY <1>1, <1>4, <4>1, IsHex
    <3> QED BY <1>5, <1>f, <3>1, <3>2
  <2> QED BY <1>0, <1>5, <2>1, GivingUp
<1>6. CASE ~fails
  <2>d. d = Digit(text[iI + 1]) /\ d # None
    BY <1>6, <1>f
  <2> HIDE DEF d
  <2>0. high # None => byte \in Int
    BY <1>2, <1>3
  <2> HIDE DEF byte
  <2>1. pc' = "hex" /\ iI' = iI + 1 /\ text' = text /\ iPos' = iPos /\ number' = number
    BY <1>0, <1>6
  <2>2. \A i \in 1 .. iI + 1 : Digit(text[i]) # None
    <3>1. \A i \in 1 .. iI + 1 : i \in 1 .. iI \/ i = iI + 1
      BY <1>1
    <3> QED BY <1>1, <2>d, <3>1
  <2>t. iI + 1 \in 0 .. Len(text)
    BY <1>1
  <2>u. AsItIs' /\ Done' /\ Fresh' /\ NamesAsLinux' /\ Decodes'
    BY <2>1 DEF AsItIs, Done, Fresh, NamesAsLinux, Decodes
  <2>3. CASE high = None
    <3>1. high' = d /\ buf' = buf
      BY <1>0, <1>6, <2>3
    <3>2. iI % 2 = 0
      <4>1. iI % 2 = 1 => Digit(text[iI]) = None /\ iI \in 1 .. iI
        BY <1>1, <1>h, <2>3
      <4> QED BY <1>1, <1>h, <4>1
    <3>3. (iI + 1) \div 2 = iI \div 2 /\ (iI + 1) % 2 = 1
      BY <1>h, <3>2
    <3> DEFINE half == iI \div 2
    <3>4. /\ Len(buf') = (iI + 1) \div 2
          /\ \A k \in 1 .. (iI + 1) \div 2 : buf'[k] = Byte(text, k) /\ buf'[k] \notin 128 .. 254
          /\ high' = IF (iI + 1) % 2 = 0 THEN None ELSE Digit(text[iI + 1])
      <4>1. (iI + 1) % 2 # 0
        BY <3>3
      <4>2. high' = IF (iI + 1) % 2 = 0 THEN None ELSE Digit(text[iI + 1])
        BY <2>d, <3>1, <4>1, Zenon
      <4>3. Len(buf') = (iI + 1) \div 2
        BY <1>1, <3>1, <3>3, Zenon
      <4>4. \A k \in 1 .. (iI + 1) \div 2 : buf'[k] = Byte(text, k) /\ buf'[k] \notin 128 .. 254
        BY <1>1, <3>1, <3>3, Zenon
      <4> QED BY <4>2, <4>3, <4>4
    <3>5. Types'
      BY <2>1, <2>t, <3>1 DEF StringsInv, Types
    <3>6. Hex'
      BY <1>1, <2>1, <2>2, <3>4, Zenon DEF Hex, Byte
    <3> QED BY <2>u, <3>5, <3>6 DEF StringsInv
  <2>4. CASE high # None
    <3>1. high' = None /\ buf' = Append(buf, byte) /\ byte \in Int
      BY <1>0, <1>6, <2>0, <2>4
    <3>2. (iI + 1) \div 2 = iI \div 2 + 1 /\ (iI + 1) % 2 = 0
      BY <1>3, <1>h, <2>4
    <3>3. /\ buf' \in Seq(Int) /\ Len(buf') = iI \div 2 + 1
          /\ \A k \in 1 .. iI \div 2 : buf'[k] = buf[k]
          /\ buf'[iI \div 2 + 1] = byte
      <4> DEFINE half == iI \div 2
      <4>1. buf \in Seq(Int) /\ Len(buf) = half
        BY <1>1
      <4> HIDE DEF half
      <4>2. /\ Append(buf, byte) \in Seq(Int) /\ Len(Append(buf, byte)) = half + 1
            /\ \A k \in 1 .. half : Append(buf, byte)[k] = buf[k]
            /\ Append(buf, byte)[half + 1] = byte
        BY <3>1, <4>1, AppendProperties
      <4>3. /\ buf' \in Seq(Int) /\ Len(buf') = half + 1
            /\ \A k \in 1 .. half : buf'[k] = buf[k]
            /\ buf'[half + 1] = byte
        BY <3>1, <4>2, Zenon
      <4> QED BY <4>3 DEF half
    <3>4. byte = Byte(text, iI \div 2 + 1) /\ byte \notin 128 .. 254
      <4>1. ~Rejected(byte)
        BY <1>6, <1>f, <2>4
      <4> QED BY <1>4, <2>4, <4>1 DEF Rejected
    <3>5. \A k \in 1 .. iI \div 2 + 1 : buf'[k] = Byte(text, k) /\ buf'[k] \notin 128 .. 254
      <4>1. \A k \in 1 .. iI \div 2 + 1 : k \in 1 .. iI \div 2 \/ k = iI \div 2 + 1
        BY <1>h
      <4>2. \A k \in 1 .. iI \div 2 : buf'[k] = Byte(text, k) /\ buf'[k] \notin 128 .. 254
        BY <1>1, <3>3, Zenon
      <4>3. ASSUME NEW k, k = iI \div 2 + 1
            PROVE  buf'[k] = Byte(text, k) /\ buf'[k] \notin 128 .. 254
        BY <3>3, <3>4, <4>3, Zenon
      <4> QED BY <4>1, <4>2, <4>3, Zenon
    <3>6. /\ Len(buf') = (iI + 1) \div 2
          /\ \A k \in 1 .. (iI + 1) \div 2 : buf'[k] = Byte(text, k) /\ buf'[k] \notin 128 .. 254
          /\ high' = IF (iI + 1) % 2 = 0 THEN None ELSE Digit(text[iI + 1])
      BY <3>1, <3>2, <3>3, <3>5, Zenon
    <3>7. Types'
      BY <2>1, <2>t, <3>3 DEF StringsInv, Types
    <3>8. Hex'
      BY <1>1, <2>1, <2>2, <3>6, Zenon DEF Hex, Byte
    <3> QED BY <2>u, <3>7, <3>8 DEF StringsInv
  <2> QED BY <2>3, <2>4
<1> QED BY <1>5, <1>6

LEMMA ReadingPlain ==
  ASSUME StringsInv, Plain
  PROVE  StringsInv'
<1> DEFINE c == text[iI + 1]
<1>0. /\ pc = "plain" /\ iI < Len(text) /\ UNCHANGED <<number, text, iPos>>
      /\ IsPrint(c) => iI' = iI + 1 /\ buf' = Append(buf, c) /\ pc' = pc
      /\ ~IsPrint(c) => pc' = "trim" /\ buf' = <<>> /\ iI' = iI
  BY DEF Plain
<1>1. /\ Len(text) \in Nat /\ iI \in Nat /\ iI + 1 \in 1 .. Len(text) /\ c \in Int
      /\ DOMAIN text = 1 .. Len(text)
      /\ iPos > 0 /\ ~IsHexText(text) /\ Len(buf) = iI /\ buf \in Seq(Int)
      /\ \A i \in 1 .. iI : buf[i] = text[i] /\ IsPrint(text[i])
  BY <1>0, TypedText DEF StringsInv, Types, AsItIs
<1>2. CASE ~IsPrint(c)
  <2>1. ~IsPlainText(text)
    BY <1>1, <1>2 DEF IsPlainText
  <2>2. Read = <<>> /\ Read' = Read
    BY <1>0, <1>1, <2>1 DEF Read, IsHexText, IsPlainText, Pairs
  <2>3. Types'
    BY <1>0, <1>2, EmptySeq DEF StringsInv, Types
  <2>4. Done'
    BY <1>0, <1>1, <1>2, <2>2 DEF Done
  <2>5. Hex' /\ AsItIs' /\ Fresh' /\ NamesAsLinux' /\ Decodes'
    BY <1>0, <1>2 DEF Hex, AsItIs, Fresh, NamesAsLinux, Decodes
  <2> QED BY <2>3, <2>4, <2>5 DEF StringsInv
<1>3. CASE IsPrint(c)
  <2>1. pc' = "plain" /\ iI' = iI + 1 /\ buf' = Append(buf, c) /\ iI + 1 \in 0 .. Len(text)
    BY <1>0, <1>1, <1>3
  <2>2. /\ buf' \in Seq(Int) /\ Len(buf') = iI + 1
        /\ \A i \in 1 .. iI : buf'[i] = buf[i]
        /\ buf'[iI + 1] = c
    BY <1>1, <2>1, AppendProperties
  <2>3. \A i \in 1 .. iI + 1 : buf'[i] = text[i] /\ IsPrint(text[i])
    <3>1. \A i \in 1 .. iI + 1 : i \in 1 .. iI \/ i = iI + 1
      BY <1>1
    <3> QED BY <1>1, <1>3, <2>2, <3>1
  <2>4. Types'
    BY <1>0, <2>1, <2>2 DEF StringsInv, Types
  <2>5. AsItIs'
    BY <1>0, <1>1, <2>1, <2>2, <2>3 DEF AsItIs, IsHexText, Pairs
  <2>6. Hex' /\ Done' /\ Fresh' /\ NamesAsLinux' /\ Decodes'
    BY <2>1 DEF Hex, Done, Fresh, NamesAsLinux, Decodes
  <2> QED BY <2>4, <2>5, <2>6 DEF StringsInv
<1> QED BY <1>2, <1>3

(* A reading that reached the end of the text is the one the text is for.  *)
LEMMA Ending ==
  ASSUME StringsInv, EndOfText
  PROVE  StringsInv'
<1>0. /\ pc \in {"hex", "plain"} /\ iI = Len(text) /\ pc' = "trim"
      /\ UNCHANGED <<number, text, iPos, iI, buf>>
  BY DEF EndOfText
<1>1. text \in Seq(Chars) /\ Len(text) \in Nat /\ DOMAIN text = 1 .. Len(text) /\ buf \in Seq(Int)
  BY TypedText DEF StringsInv, Types
<1>2. buf = Read /\ iPos > 0
  <2>1. CASE pc = "hex"
    <3> DEFINE half == Len(text) \div 2
    <3>1. /\ iPos > 0 /\ Len(buf) = half
          /\ \A i \in 1 .. Len(text) : Digit(text[i]) # None
          /\ \A k \in 1 .. half : buf[k] = Byte(text, k) /\ buf[k] \notin 128 .. 254
      BY <1>0, <2>1 DEF StringsInv, Hex
    <3>2. /\ Pairs(text) \in Seq(Int) /\ Len(Pairs(text)) = half
          /\ \A k \in 1 .. half : Pairs(text)[k] = Byte(text, k)
      BY <1>1, PairsTyped
    <3>3. IsHexText(text)
      BY <1>1, <3>1, IsHex
    <3> HIDE DEF half
    <3>4. buf = Pairs(text)
      BY <1>1, <3>1, <3>2, SeqEqual
    <3> QED BY <3>1, <3>3, <3>4 DEF Read
  <2>2. CASE pc = "plain"
    <3>1. /\ iPos > 0 /\ ~IsHexText(text) /\ Len(buf) = Len(text)
          /\ \A i \in 1 .. Len(text) : buf[i] = text[i] /\ IsPrint(text[i])
      BY <1>0, <2>2 DEF StringsInv, AsItIs
    <3>2. text \in Seq(Int)
      <4>1. Chars \subseteq Int
        BY DEF Chars
      <4> QED BY <1>1, <4>1, SeqMonotonic
    <3>3. buf = text
      BY <1>1, <3>1, <3>2, SeqEqual
    <3>4. IsPlainText(text)
      BY <1>1, <3>1 DEF IsPlainText
    <3> QED BY <3>1, <3>3, <3>4 DEF Read
  <2> QED BY <1>0, <2>1, <2>2
<1>3. Read' = Read
  BY <1>0 DEF Read, IsHexText, IsPlainText, Pairs
<1>4. Types'
  BY <1>0 DEF StringsInv, Types
<1>5. Done'
  BY <1>0, <1>2, <1>3 DEF Done
<1>6. Hex' /\ AsItIs' /\ Fresh' /\ NamesAsLinux' /\ Decodes'
  BY <1>0 DEF Hex, AsItIs, Fresh, NamesAsLinux, Decodes
<1> QED BY <1>4, <1>5, <1>6 DEF StringsInv

LEMMA Trimming ==
  ASSUME StringsInv, Trim
  PROVE  StringsInv'
<1> DEFINE s == CString(buf)
<1>0. /\ pc = "trim" /\ pc' = "coded" /\ UNCHANGED <<number, text, iPos, iI, high>>
      /\ Blank(s) => buf' = s
      /\ ~Blank(s) => buf' = SubSeq(s, Min(Blacks(s)), Max(Blacks(s)))
  <2>1. ~Blank(s) => Blacks(s) # {}
    <3>1. s \in Seq(Int) /\ DOMAIN s = 1 .. Len(s)
      BY CStringTyped DEF StringsInv, Types
    <3> HIDE DEF s
    <3> QED BY <3>1 DEF Blank, Blacks
  <2> QED BY <2>1 DEF Trim, SelectInSeq, SelectLastInSeq, Blacks
<1>1. iPos > 0 /\ buf = Read /\ text \in Seq(Chars) /\ s \in Seq(Int)
  BY <1>0, CStringTyped DEF StringsInv, Types, Done
<1>2. s = IF IsHexText(text) THEN CString(Pairs(text))
          ELSE IF IsPlainText(text) THEN text ELSE <<>>
  <2>1. CASE IsHexText(text)
    BY <1>1, <2>1 DEF Read
  <2>2. CASE ~IsHexText(text) /\ IsPlainText(text)
    <3>1. buf = text
      BY <1>1, <2>2 DEF Read
    <3>2. \A i \in 1 .. Len(text) : text[i] # 0
      <4>1. \A i \in 1 .. Len(text) : text[i] \in 32 .. 126
        BY <1>1, <2>2, CharsOf DEF IsPlainText, IsPrint
      <4>2. ~(0 \in 32 .. 126)
        BY SMT
      <4> QED BY <4>1, <4>2, Zenon
    <3>3. text \in Seq(Int)
      <4>1. Chars \subseteq Int
        BY DEF Chars
      <4> QED BY <1>1, <4>1, SeqMonotonic
    <3> QED BY <2>2, <3>1, <3>2, <3>3, CStringTyped
  <2>3. CASE ~IsHexText(text) /\ ~IsPlainText(text)
    <3>1. buf = <<>>
      BY <1>1, <2>3 DEF Read
    <3>2. <<>> \in Seq(Int) /\ \A i \in 1 .. Len(<<>>) : <<>>[i] # 0
      BY EmptySeq
    <3> QED BY <2>3, <3>1, <3>2, CStringTyped
  <2> QED BY <2>1, <2>2, <2>3
<1> HIDE DEF s
<1>3. buf' \in Seq(Int) /\ (IF Blank(s) THEN buf' = s ELSE IsTrimmed(buf', s))
  BY <1>0, <1>1, Trims, Zenon
<1>4. Types'
  BY <1>0, <1>3 DEF StringsInv, Types
<1>5. Decodes'
  <2>1. ~(iPos <= 0) /\ iPos \in Int
    BY <1>1 DEF StringsInv, Types
  <2>2. text' = text /\ iPos' = iPos
    BY <1>0
  <2>3. s = IF IsHexText(text') THEN CString(Pairs(text'))
            ELSE IF IsPlainText(text') THEN text' ELSE <<>>
    BY <1>2, <2>2
  <2>4. ~(iPos' <= 0)
    BY <2>1, <2>2
  <2> QED BY <1>3, <2>3, <2>4, Zenon DEF Decodes
<1>6. Hex' /\ AsItIs' /\ Fresh' /\ NamesAsLinux' /\ Done'
  BY <1>0 DEF Hex, AsItIs, Fresh, NamesAsLinux, Done
<1> QED BY <1>4, <1>5, <1>6 DEF StringsInv

LEMMA Returning ==
  ASSUME StringsInv, Return
  PROVE  StringsInv'
<1>1. <<>> \in Seq(Chars) /\ <<>> \in Seq(Int) /\ Len(<<>>) = 0
  BY EmptySeq
<1> QED BY <1>1 DEF Return, StringsInv, Types, Hex, AsItIs, Done, Fresh, NamesAsLinux, Decodes

LEMMA Standing ==
  ASSUME StringsInv, UNCHANGED vars
  PROVE  StringsInv'
<1>1. UNCHANGED <<pc, number, text, iPos, iI, high, buf>>
  BY DEF vars
<1>2. Types'
  BY <1>1 DEF StringsInv, Types
<1>3. Hex'
  BY <1>1 DEF StringsInv, Hex
<1>4. AsItIs'
  BY <1>1 DEF StringsInv, AsItIs
<1>5. Done' /\ Fresh'
  BY <1>1 DEF StringsInv, Done, Read, Fresh
<1>6. NamesAsLinux'
  BY <1>1 DEF StringsInv, NamesAsLinux
<1>7. Decodes'
  BY <1>1 DEF StringsInv, Decodes
<1> QED BY <1>2, <1>3, <1>4, <1>5, <1>6, <1>7 DEF StringsInv

----------------------------------------------------------------------------
(* The inductive invariant of flipAndCodeBytes and of SetPosixInfo: what   *)
(* each loop has read so far, and what is left of the buffer.              *)
THEOREM StringsInductive == Spec => []StringsInv
<1>1. Init => StringsInv
  BY StartStrings
<1>2. StringsInv /\ [Next]_vars => StringsInv'
  <2>1. StringsInv /\ Next => StringsInv'
    BY Naming, Beginning, ReadingHex, ReadingPlain, Ending, Trimming, Returning DEF Next
  <2>2. StringsInv /\ UNCHANGED vars => StringsInv'
    BY Standing
  <2> QED BY <2>1, <2>2
<1> QED BY <1>1, <1>2, PTL DEF Spec

(* Every drive below 2^18 is named as Linux names it.                      *)
THEOREM DrivesNamedAsLinux == Spec => []NamesAsLinux
<1>1. StringsInv => NamesAsLinux
  BY DEF StringsInv
<1> QED BY <1>1, StringsInductive, PTL

(* What a drive reports, of whatever length, comes out decoded and         *)
(* trimmed, with nothing of a reading that was given up.                   *)
THEOREM TextsDecoded == Spec => []Decodes
<1>1. StringsInv => Decodes
  BY DEF StringsInv
<1> QED BY <1>1, StringsInductive, PTL
=============================================================================

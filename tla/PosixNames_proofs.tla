--------------------------- MODULE PosixNames_proofs ---------------------------
(* The names SetPosixInfo gives are those of Linux, and different for      *)
(* different drives, for every number that four letters can name.          *)
EXTENDS PosixNames, NatRecursion, SequenceTheorems

(* 26 + 26^2 + 26^3 + 26^4 names have at most four letters.                *)
Nameable == {n \in Nat : n < 475254}

(* Putting a letter after others.                                          *)
LEMMA After0 == ASSUME NEW a \in Int PROVE <<>> \o <<a>> = <<a>>
BY ConcatEmptySeq

LEMMA After1 ==
  ASSUME NEW a \in Int, NEW b \in Int
  PROVE  <<a>> \o <<b>> = <<a, b>>
<1> DEFINE s == <<a>> \o <<b>>
<1>1. <<a>> \in Seq(Int) /\ <<b>> \in Seq(Int) /\ <<a, b>> \in Seq(Int)
  OBVIOUS
<1>2. s \in Seq(Int) /\ Len(s) = 2 /\ s[1] = a /\ s[2] = b
  BY <1>1, ConcatProperties
<1> HIDE DEF s
<1>3. s = <<a, b>>
  BY <1>1, <1>2, SeqEqual
<1> QED BY <1>3 DEF s

LEMMA After2 ==
  ASSUME NEW a \in Int, NEW b \in Int, NEW c \in Int
  PROVE  <<a, b>> \o <<c>> = <<a, b, c>>
<1> DEFINE s == <<a, b>> \o <<c>>
<1>1. <<a, b>> \in Seq(Int) /\ <<c>> \in Seq(Int) /\ <<a, b, c>> \in Seq(Int)
  OBVIOUS
<1>2. s \in Seq(Int) /\ Len(s) = 3 /\ s[1] = a /\ s[2] = b /\ s[3] = c
  BY <1>1, ConcatProperties
<1> HIDE DEF s
<1>3. s = <<a, b, c>>
  BY <1>1, <1>2, SeqEqual
<1> QED BY <1>3 DEF s

LEMMA After3 ==
  ASSUME NEW a \in Int, NEW b \in Int, NEW c \in Int, NEW d \in Int
  PROVE  <<a, b, c>> \o <<d>> = <<a, b, c, d>>
<1> DEFINE s == <<a, b, c>> \o <<d>>
<1>1. <<a, b, c>> \in Seq(Int) /\ <<d>> \in Seq(Int) /\ <<a, b, c, d>> \in Seq(Int)
  OBVIOUS
<1>2. s \in Seq(Int) /\ Len(s) = 4 /\ s[1] = a /\ s[2] = b /\ s[3] = c /\ s[4] = d
  BY <1>1, ConcatProperties
<1> HIDE DEF s
<1>3. s = <<a, b, c, d>>
  BY <1>1, <1>2, SeqEqual
<1> QED BY <1>3 DEF s

(* The letters of the code, by the length of the name.                     *)
Fourth(n) == ((n - 18278) \div 17576) % 26
Third(n) == ((n - 702) \div 676) % 26
Second(n) == ((n - 26) \div 26) % 26

LEMMA LettersTyped ==
  ASSUME NEW n \in Nat
  PROVE  Fourth(n) \in Int /\ Third(n) \in Int /\ Second(n) \in Int /\ n % 26 \in 0 .. 25
BY DEF Fourth, Third, Second

LEMMA ByLength ==
  ASSUME NEW n \in Nat
  PROVE  /\ n <= 25 => Letters(n) = << n % 26 >>
         /\ 26 <= n /\ n <= 701 => Letters(n) = << Second(n), n % 26 >>
         /\ 702 <= n /\ n <= 18277 => Letters(n) = << Third(n), Second(n), n % 26 >>
         /\ n > 18277 => Letters(n) = << Fourth(n), Third(n), Second(n), n % 26 >>
<1> DEFINE d4 == IF n > 18277 THEN << Fourth(n) >> ELSE <<>>
           d3 == IF n > 701 THEN << Third(n) >> ELSE <<>>
           d2 == IF n > 25 THEN << Second(n) >> ELSE <<>>
<1>1. Letters(n) = ((d4 \o d3) \o d2) \o << n % 26 >>
  BY DEF Letters, Fourth, Third, Second
<1>2. <<>> \o <<>> = <<>>
  <2>1. <<>> \in Seq(Int)
    OBVIOUS
  <2> QED BY <2>1, ConcatEmptySeq
<1> DEFINE l4 == Fourth(n)
           l3 == Third(n)
           l2 == Second(n)
           l1 == n % 26
<1>3. l4 \in Int /\ l3 \in Int /\ l2 \in Int /\ l1 \in Int
  BY LettersTyped
<1>4. n <= 25 => d4 = <<>> /\ d3 = <<>> /\ d2 = <<>>
  OBVIOUS
<1>5. 26 <= n /\ n <= 701 => d4 = <<>> /\ d3 = <<>> /\ d2 = << l2 >>
  OBVIOUS
<1>6. 702 <= n /\ n <= 18277 => d4 = <<>> /\ d3 = << l3 >> /\ d2 = << l2 >>
  OBVIOUS
<1>7. n > 18277 => d4 = << l4 >> /\ d3 = << l3 >> /\ d2 = << l2 >>
  OBVIOUS
<1>8. Letters(n) = ((d4 \o d3) \o d2) \o << l1 >>
  BY <1>1
<1> HIDE DEF d4, d3, d2, l4, l3, l2, l1
<1>9. d4 = <<>> /\ d3 = <<>> /\ d2 = <<>> => Letters(n) = << l1 >>
  BY <1>2, <1>3, <1>8, After0, Zenon
<1>10. d4 = <<>> /\ d3 = <<>> /\ d2 = << l2 >> => Letters(n) = << l2, l1 >>
  BY <1>2, <1>3, <1>8, After0, After1, Zenon
<1>11. d4 = <<>> /\ d3 = << l3 >> /\ d2 = << l2 >> => Letters(n) = << l3, l2, l1 >>
  <2> SUFFICES ASSUME d4 = <<>>, d3 = << l3 >>, d2 = << l2 >> PROVE Letters(n) = << l3, l2, l1 >>
    OBVIOUS
  <2>1. d4 \o d3 = << l3 >>
    BY <1>3, After0, Zenon
  <2>2. (d4 \o d3) \o d2 = << l3, l2 >>
    BY <1>3, <2>1, After1, Zenon
  <2>3. << l3, l2 >> \o << l1 >> = << l3, l2, l1 >>
    BY <1>3, After2
  <2> QED BY <1>8, <2>2, <2>3, Zenon
<1>12. d4 = << l4 >> /\ d3 = << l3 >> /\ d2 = << l2 >> => Letters(n) = << l4, l3, l2, l1 >>
  <2> SUFFICES ASSUME d4 = << l4 >>, d3 = << l3 >>, d2 = << l2 >>
               PROVE  Letters(n) = << l4, l3, l2, l1 >>
    OBVIOUS
  <2>1. d4 \o d3 = << l4, l3 >>
    BY <1>3, After1, Zenon
  <2>2. (d4 \o d3) \o d2 = << l4, l3, l2 >>
    <3>1. << l4, l3 >> \o << l2 >> = << l4, l3, l2 >>
      BY <1>3, After2
    <3> QED BY <2>1, <3>1, Zenon
  <2>3. << l4, l3, l2 >> \o << l1 >> = << l4, l3, l2, l1 >>
    BY <1>3, After3
  <2> QED BY <1>8, <2>2, <2>3, Zenon
<1>13. /\ n <= 25 => Letters(n) = << l1 >>
       /\ 26 <= n /\ n <= 701 => Letters(n) = << l2, l1 >>
       /\ 702 <= n /\ n <= 18277 => Letters(n) = << l3, l2, l1 >>
       /\ n > 18277 => Letters(n) = << l4, l3, l2, l1 >>
  BY <1>4, <1>5, <1>6, <1>7, <1>9, <1>10, <1>11, <1>12, SMT
<1> QED BY <1>13 DEF l4, l3, l2, l1

----------------------------------------------------------------------------
(* All letters but the last are those of n \div 26 - 1.                    *)
LEMMA LessOne ==
  ASSUME NEW n \in Nat, n >= 26
  PROVE  /\ n \div 26 - 1 \in Nat /\ (n - 26) \div 26 = n \div 26 - 1
         /\ n <= 701 => n \div 26 - 1 <= 25
         /\ 702 <= n /\ n <= 18277 => 26 <= n \div 26 - 1 /\ n \div 26 - 1 <= 701
         /\ 18278 <= n /\ n < 475254 => 702 <= n \div 26 - 1 /\ n \div 26 - 1 <= 18277
<1> DEFINE q == n \div 26
           r == n % 26
<1>1. q \in Nat /\ r \in 0 .. 25 /\ n = 26 * q + r
  BY SMT
<1>2. (n - 26) \div 26 = q - 1
  BY SMT
<1> HIDE DEF q, r
<1>3. q - 1 \in Nat
  BY <1>1, SMT
<1>4. n <= 701 => q - 1 <= 25
  BY <1>1, SMT
<1>5. 702 <= n /\ n <= 18277 => 26 <= q - 1 /\ q - 1 <= 701
  BY <1>1, SMT
<1>6. 18278 <= n /\ n < 475254 => 702 <= q - 1 /\ q - 1 <= 18277
  BY <1>1, SMT
<1>7. q = n \div 26
  BY DEF q
<1> QED BY <1>2, <1>3, <1>4, <1>5, <1>6, <1>7, SMT

LEMMA Quotients ==
  ASSUME NEW a \in Int, NEW k \in Int
  PROVE  /\ 676 * k <= a /\ a <= 676 * k + 675 => a \div 676 = k
         /\ 17576 * k <= a /\ a <= 17576 * k + 17575 => a \div 17576 = k
BY SMT

LEMMA LessTwo ==
  ASSUME NEW n \in Nat, n >= 702
  PROVE  (n - 702) \div 676 = ((n \div 26 - 1) - 26) \div 26
<1> DEFINE q == n \div 26
           k == (q - 27) \div 26
           s == (q - 27) % 26
           r == n % 26
<1>1. q \in Nat /\ r \in 0 .. 25 /\ n = 26 * q + r /\ q >= 27
  OBVIOUS
<1>2. k \in Nat /\ s \in 0 .. 25 /\ q - 27 = 26 * k + s
  BY <1>1
<1>3. ((n \div 26 - 1) - 26) \div 26 = k
  BY <1>1
<1> HIDE DEF q, k, s, r
<1>4. n - 702 = 676 * k + (26 * s + r) /\ 26 * s + r >= 0 /\ 26 * s + r <= 675
  BY <1>1, <1>2
<1>5. (n - 702) \div 676 = k
  <2>1. n - 702 \in Int /\ k \in Int
    BY <1>2, SMT
  <2>2. 676 * k <= n - 702 /\ n - 702 <= 676 * k + 675
    BY <1>1, <1>2, <1>4, SMT
  <2> QED BY <2>1, <2>2, Quotients
<1> QED BY <1>3, <1>5

LEMMA LessThree ==
  ASSUME NEW n \in Nat, n >= 18278
  PROVE  (n - 18278) \div 17576 = ((n \div 26 - 1) - 702) \div 676
<1> DEFINE q == n \div 26
           k == (q - 703) \div 676
           s == (q - 703) % 676
           r == n % 26
<1>1. q \in Nat /\ r \in 0 .. 25 /\ n = 26 * q + r /\ q >= 703
  OBVIOUS
<1>2. k \in Nat /\ s \in Nat /\ s <= 675 /\ q - 703 = 676 * k + s
  BY <1>1
<1>3. ((n \div 26 - 1) - 702) \div 676 = k
  BY <1>1
<1> HIDE DEF q, k, s, r
<1>4. n - 18278 = 17576 * k + (26 * s + r) /\ 26 * s + r >= 0 /\ 26 * s + r <= 17575
  BY <1>1, <1>2
<1>5. (n - 18278) \div 17576 = k
  <2>1. n - 18278 \in Int /\ k \in Int
    BY <1>2, SMT
  <2>2. 17576 * k <= n - 18278 /\ n - 18278 <= 17576 * k + 17575
    BY <1>1, <1>2, <1>4, SMT
  <2> QED BY <2>1, <2>2, Quotients
<1> QED BY <1>3, <1>5

LEMMA LettersStep ==
  ASSUME NEW n \in Nameable, n >= 26
  PROVE  /\ n \div 26 - 1 \in Nameable /\ n \div 26 - 1 < n
         /\ Letters(n) = Letters(n \div 26 - 1) \o << n % 26 >>
<1> DEFINE m == n \div 26 - 1
<1>0. n \in Nat /\ n < 475254 /\ n >= 26
  BY SMT DEF Nameable
<1>1. /\ m \in Nat /\ (n - 26) \div 26 = m
      /\ n <= 701 => m <= 25
      /\ 702 <= n /\ n <= 18277 => 26 <= m /\ m <= 701
      /\ 18278 <= n /\ n < 475254 => 702 <= m /\ m <= 18277
  BY <1>0, LessOne, SMT
<1>2. n >= 702 => (n - 702) \div 676 = (m - 26) \div 26
  BY <1>0, LessTwo, SMT
<1>3. n >= 18278 => (n - 18278) \div 17576 = (m - 702) \div 676
  BY <1>0, LessThree, SMT
<1> HIDE DEF m
<1>4. m \in Nameable /\ m < n
  BY <1>0, <1>1, SMT DEF Nameable
<1>5. /\ Second(n) = m % 26
      /\ n >= 702 => Third(n) = Second(m)
      /\ n >= 18278 => Fourth(n) = Third(m)
  <2>1. Second(n) = m % 26
    BY <1>1, SMT DEF Second
  <2>2. n >= 702 => Third(n) = Second(m)
    BY <1>2, SMT DEF Third, Second
  <2>3. n >= 18278 => Fourth(n) = Third(m)
    BY <1>3, SMT DEF Fourth, Third
  <2> QED BY <2>1, <2>2, <2>3
<1>6. n % 26 \in Int /\ m % 26 \in Int /\ Second(m) \in Int /\ Third(m) \in Int
  BY <1>0, <1>1, LettersTyped, SMT
<1>7. Letters(n) = Letters(m) \o << n % 26 >>
  <2>1. CASE n <= 701
    <3>1. 26 <= n /\ n <= 701 /\ m <= 25
      BY <1>0, <1>1, <2>1, SMT
    <3>2. Letters(n) = << m % 26, n % 26 >> /\ Letters(m) = << m % 26 >>
      BY <1>0, <1>1, <1>5, <3>1, ByLength, SMT
    <3> QED BY <1>6, <3>2, After1
  <2>2. CASE 702 <= n /\ n <= 18277
    <3>1. 26 <= m /\ m <= 701 /\ n >= 702
      BY <1>0, <1>1, <2>2, SMT
    <3>2. /\ Letters(n) = << Second(m), m % 26, n % 26 >>
          /\ Letters(m) = << Second(m), m % 26 >>
      BY <1>0, <1>1, <1>5, <2>2, <3>1, ByLength, SMT
    <3> QED BY <1>6, <3>2, After2
  <2>3. CASE n >= 18278
    <3>1. 702 <= m /\ m <= 18277 /\ n >= 702 /\ n > 18277
      BY <1>0, <1>1, <2>3, SMT
    <3>2. /\ Letters(n) = << Third(m), Second(m), m % 26, n % 26 >>
          /\ Letters(m) = << Third(m), Second(m), m % 26 >>
      BY <1>0, <1>1, <1>5, <2>3, <3>1, ByLength, SMT
    <3> QED BY <1>6, <3>2, After3
  <2> QED BY <1>0, <2>1, <2>2, <2>3, SMT
<1> QED BY <1>4, <1>7 DEF m

LEMMA LettersShort ==
  ASSUME NEW n \in Nat, n < 26
  PROVE  Letters(n) = <<>> \o << n % 26 >>
<1>1. n <= 25 /\ n % 26 \in Int
  BY SMT
<1> QED BY <1>1, ByLength, After0

(* The name SetPosixInfo gives a drive (windevblk_list.c:185-198) is the   *)
(* one Linux gives, for every number that is named.                        *)
THEOREM LettersOfLinux ==
  ASSUME NEW n \in Nameable
  PROVE  LinuxLetters(n) = Letters(n)
<1> DEFINE Spells(f) == f = [k \in 0 .. n |->
             (IF k < 26 THEN <<>> ELSE f[k \div 26 - 1]) \o << k % 26 >>]
           spell == CHOOSE f : Spells(f)
<1>0. n \in Nat /\ \A k \in 0 .. n : k \in Nameable /\ k \in Nat
  BY SMT DEF Nameable
<1>1. \A k \in 0 .. n : k >= 26 =>
        k \div 26 - 1 \in 0 .. n /\ Letters(k) = Letters(k \div 26 - 1) \o << k % 26 >>
  <2> SUFFICES ASSUME NEW k \in 0 .. n, k >= 26
               PROVE  k \div 26 - 1 \in 0 .. n /\ Letters(k) = Letters(k \div 26 - 1) \o << k % 26 >>
    OBVIOUS
  <2>1. /\ k \div 26 - 1 \in Nameable /\ k \div 26 - 1 < k
        /\ Letters(k) = Letters(k \div 26 - 1) \o << k % 26 >>
    BY <1>0, LettersStep
  <2>2. k \div 26 - 1 \in 0 .. n
    BY <1>0, <2>1, SMT DEF Nameable
  <2> QED BY <2>1, <2>2
<1>2. \A k \in 0 .. n : k < 26 => Letters(k) = <<>> \o << k % 26 >>
  BY <1>0, LettersShort
<1>3. Spells([k \in 0 .. n |-> Letters(k)])
  <2> DEFINE f == [k \in 0 .. n |-> Letters(k)]
  <2>1. ASSUME NEW k \in 0 .. n
        PROVE  Letters(k) = (IF k < 26 THEN <<>> ELSE f[k \div 26 - 1]) \o << k % 26 >>
    <3>1. CASE k < 26
      BY <1>2, <3>1
    <3>2. CASE ~(k < 26)
      <4>1. k >= 26
        BY <3>2, SMT
      <4>2. k \div 26 - 1 \in 0 .. n /\ Letters(k) = Letters(k \div 26 - 1) \o << k % 26 >>
        BY <1>1, <4>1
      <4>3. f[k \div 26 - 1] = Letters(k \div 26 - 1)
        BY <4>2
      <4> QED BY <3>2, <4>2, <4>3
    <3> QED BY <3>1, <3>2
  <2> QED BY <2>1
<1>4. Spells(spell)
  <2> HIDE DEF Spells
  <2> QED BY <1>3, Zenon
<1>5. LinuxLetters(n) = spell[n]
  BY DEF LinuxLetters
<1> HIDE DEF spell
<1>6. \A k \in 0 .. n :
        spell[k] = (IF k < 26 THEN <<>> ELSE spell[k \div 26 - 1]) \o << k % 26 >>
  BY <1>4
<1> HIDE DEF Spells
(* A name is spelled from that of a smaller number: none is the first to   *)
(* be spelled otherwise.                                                   *)
<1>7. \A k \in 0 .. n : spell[k] = Letters(k)
  <2> DEFINE Wrong == {k \in 0 .. n : spell[k] # Letters(k)}
  <2> SUFFICES ASSUME Wrong # {} PROVE FALSE
    OBVIOUS
  <2>1. Wrong \subseteq Nat
    BY <1>0
  <2>2. PICK k \in Wrong : \A j \in Wrong : k <= j
    <3> HIDE DEF Wrong
    <3> QED BY <2>1, LeastNumber
  <2>3. k \in 0 .. n /\ spell[k] # Letters(k) /\ k \in Nat
    BY <1>0
  <2>4. ~(k < 26)
    BY <1>2, <1>6, <2>3
  <2>5. k >= 26
    BY <2>3, <2>4, SMT
  <2>6. /\ k \div 26 - 1 \in 0 .. n
        /\ Letters(k) = Letters(k \div 26 - 1) \o << k % 26 >>
        /\ k \div 26 - 1 < k /\ k \div 26 - 1 \in Nat
    BY <1>0, <1>1, <2>3, <2>5, LettersStep, LessOne
  <2>7. spell[k \div 26 - 1] = Letters(k \div 26 - 1)
    <3>1. k \div 26 - 1 \notin Wrong
      <4> DEFINE j == k \div 26 - 1
      <4>1. ~(k <= j)
        BY <2>3, <2>6, SMT
      <4> HIDE DEF j
      <4>2. j \notin Wrong
        BY <2>2, <4>1
      <4> QED BY <4>2 DEF j
    <3> QED BY <2>6, <3>1
  <2> QED BY <1>6, <2>3, <2>4, <2>6, <2>7
<1>8. n \in 0 .. n
  BY <1>0, SMT
<1> QED BY <1>5, <1>7, <1>8

LEMMA LettersSeq ==
  ASSUME NEW n \in Nat
  PROVE  Letters(n) \in Seq(Int) /\ Len(Letters(n)) >= 1
<1> DEFINE l4 == Fourth(n)
           l3 == Third(n)
           l2 == Second(n)
           l1 == n % 26
<1>1. l4 \in Int /\ l3 \in Int /\ l2 \in Int /\ l1 \in Int
  BY LettersTyped
<1>2. \/ Letters(n) = << l1 >> \/ Letters(n) = << l2, l1 >>
      \/ Letters(n) = << l3, l2, l1 >> \/ Letters(n) = << l4, l3, l2, l1 >>
  <2>1. n <= 25 \/ (26 <= n /\ n <= 701) \/ (702 <= n /\ n <= 18277) \/ n > 18277
    BY SMT
  <2> QED BY <2>1, ByLength
<1> HIDE DEF l4, l3, l2, l1
<1>3. /\ << l1 >> \in Seq(Int) /\ Len(<< l1 >>) = 1
      /\ << l2, l1 >> \in Seq(Int) /\ Len(<< l2, l1 >>) = 2
      /\ << l3, l2, l1 >> \in Seq(Int) /\ Len(<< l3, l2, l1 >>) = 3
      /\ << l4, l3, l2, l1 >> \in Seq(Int) /\ Len(<< l4, l3, l2, l1 >>) = 4
  BY <1>1
<1>4. 1 >= 1 /\ 2 >= 1 /\ 3 >= 1 /\ 4 >= 1
  OBVIOUS
<1> QED BY <1>2, <1>3, <1>4, Zenon

(* SetPosixInfo gives no two drives one name: the least number that shares *)
(* its name would leave one still less.                                    *)
THEOREM LettersTell ==
  ASSUME NEW a \in Nameable, NEW b \in Nameable, Letters(a) = Letters(b)
  PROVE  a = b
<1> DEFINE Shared == {n \in Nameable : \E m \in Nameable : m # n /\ Letters(n) = Letters(m)}
<1> SUFFICES ASSUME Shared # {} PROVE FALSE
  OBVIOUS
<1>0. Nameable \subseteq Nat
  BY DEF Nameable
<1>1. PICK n \in Shared : \A k \in Shared : n <= k
  <2>1. Shared \subseteq Nat
    BY <1>0
  <2> HIDE DEF Shared
  <2> QED BY <2>1, LeastNumber
<1>2. PICK m \in Nameable : m # n /\ Letters(n) = Letters(m)
  OBVIOUS
<1>3. n \in Nameable /\ m \in Shared /\ n \in Nat /\ m \in Nat
  BY <1>0, <1>2
<1>4. n < m
  <2>1. n <= m
    BY <1>1, <1>3
  <2> QED BY <1>2, <1>3, <2>1, SMT
<1>5. m >= 26
  <2> SUFFICES ASSUME m < 26 PROVE FALSE
    BY <1>3, SMT
  <2>1. n % 26 = n /\ m % 26 = m /\ n <= 25 /\ m <= 25
    BY <1>3, <1>4, SMT
  <2>2. Letters(n) = << n >> /\ Letters(m) = << m >>
    BY <1>3, <2>1, ByLength
  <2>3. << n >>[1] = n /\ << m >>[1] = m
    OBVIOUS
  <2>4. << n >> = << m >>
    BY <1>2, <2>2
  <2>5. << n >>[1] = << m >>[1]
    BY <2>4, Zenon
  <2> QED BY <1>2, <2>3, <2>5
<1> DEFINE m1 == m \div 26 - 1
           n1 == n \div 26 - 1
<1>6. m1 \in Nameable /\ m1 \in Nat /\ Letters(m) = Letters(m1) \o << m % 26 >>
  BY <1>0, <1>5, LettersStep
<1>7. Letters(m1) \in Seq(Int) /\ Len(Letters(m1)) >= 1 /\ << m % 26 >> \in Seq(Int)
  <2>1. m % 26 \in Int
    BY <1>3
  <2> HIDE DEF m1
  <2> QED BY <1>6, <2>1, LettersSeq
<1>8. n >= 26
  <2> SUFFICES ASSUME n < 26 PROVE FALSE
    BY <1>3, SMT
  <2>1. n <= 25
    BY <1>3, SMT
  <2>2. Len(Letters(n)) = 1
    BY <1>3, <2>1, ByLength
  <2>3. Len(Letters(m)) = Len(Letters(m1)) + 1
    <3> HIDE DEF m1
    <3> QED BY <1>6, <1>7, ConcatProperties
  <2>4. Len(Letters(m1)) \in Nat
    BY <1>7, LenProperties
  <2> QED BY <1>2, <1>7, <2>2, <2>3, <2>4
<1>9. n1 \in Nameable /\ n1 \in Nat /\ n1 < n /\ Letters(n) = Letters(n1) \o << n % 26 >>
  BY <1>0, <1>3, <1>8, LettersStep
<1>10. Letters(n1) = Letters(m1) /\ n % 26 = m % 26
  <2>1. n % 26 \in Int /\ m % 26 \in Int
    BY <1>3
  <2>2. Letters(n1) \in Seq(Int)
    <3> HIDE DEF n1
    <3> QED BY <1>9, LettersSeq
  <2> DEFINE s == Letters(n1)
             u == Letters(m1)
             x == n % 26
             y == m % 26
  <2>3. s \in Seq(Int) /\ u \in Seq(Int) /\ x \in Int /\ y \in Int
    BY <1>7, <2>1, <2>2
  <2>4. s \o << x >> = u \o << y >>
    BY <1>2, <1>6, <1>9
  <2> HIDE DEF s, u, x, y
  <2>5. Append(s, x) = s \o << x >> /\ Append(u, y) = u \o << y >>
    BY <2>3, AppendIsConcat
  <2>6. s = u /\ x = y
    <3>1. Append(s, x) = Append(u, y)
      BY <2>4, <2>5
    <3> QED BY <2>3, <3>1, AppendInjective
  <2> QED BY <2>6 DEF s, u, x, y
<1>11. n1 # m1
  BY <1>3, <1>4, <1>10, SMT
<1>12. n1 \in Shared
  BY <1>6, <1>9, <1>10, <1>11
<1>13. ~(n <= n1)
  BY <1>3, <1>9, SMT
<1> HIDE DEF Shared, n1
<1> QED BY <1>1, <1>12, <1>13
=============================================================================

----------------------------- MODULE PosixNames -----------------------------
(* The Linux names SetPosixInfo gives drives and partitions: sda, sda1,    *)
(* ..., sdz, sdaa, ... (src/src/windevblk_list.c).                         *)
(*                                                                         *)
(* A name is the pair of its letters after "sd", as numbers 0 .. 25, and   *)
(* of the partition number in decimal after them; 0 stands for no number,  *)
(* the whole drive.  Letters end where digits begin, so two spelled names  *)
(* are equal exactly when the pairs are.                                   *)
EXTENDS Integers, Sequences

(* Mutant of Letters: a boundary between two lengths is one off.           *)
LettersLate(n) ==
  (IF n > 18278 THEN << ((n - 18278) \div 17576) % 26 >> ELSE <<>>)
    \o (IF n > 701 THEN << ((n - 702) \div 676) % 26 >> ELSE <<>>)
    \o (IF n > 25 THEN << ((n - 26) \div 26) % 26 >> ELSE <<>>)
    \o << n % 26 >>

(* The characters SetPosixInfo appends for a device number.                *)
Letters(n) ==
  (IF n > 18277 THEN << ((n - 18278) \div 17576) % 26 >> ELSE <<>>)
    \o (IF n > 701 THEN << ((n - 702) \div 676) % 26 >> ELSE <<>>)
    \o (IF n > 25 THEN << ((n - 26) \div 26) % 26 >> ELSE <<>>)
    \o << n % 26 >>

(* Reference: what Linux calls its n-th disk, in bijective base 26.        *)
LinuxLetters(n) ==
  LET spell[k \in 0 .. n] ==
        (IF k < 26 THEN <<>> ELSE spell[k \div 26 - 1]) \o << k % 26 >>
  IN  spell[n]
=============================================================================

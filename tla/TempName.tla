------------------------------ MODULE TempName ------------------------------
(***************************************************************************)
(* ArchiveExtractCallback::GetFileName: the temp file of an entry is named *)
(* by the first eight decimal digits of a 64 bit hash of the archive's     *)
(* file name and the entry's index.                                        *)
(*                                                                         *)
(* TLC's integers have 32 bits, so a UInt64 is a record of three decimal   *)
(* limbs, hi * 10^14 + mid * 10^7 + lo.                                    *)
(***************************************************************************)
EXTENDS Integers, SequencesExt

-----------------------------------------------------------------------------
(* UInt64 arithmetic. *)

Limb == 10000000
U64(n) == [hi |-> 0, mid |-> 0, lo |-> n]
TwoTo64 == [hi |-> 184467, mid |-> 4407370, lo |-> 9551616]

Carry(hi, mid, lo) ==
  LET m == mid + lo \div Limb
  IN  [hi |-> hi + m \div Limb, mid |-> m % Limb, lo |-> lo % Limb]

Minus(x, k) ==   \* x - k * 2^64
  Carry(x.hi - k * TwoTo64.hi, x.mid - k * TwoTo64.mid, x.lo - k * TwoTo64.lo)

(* 31 * x + n, modulo 2^64. *)
Times31Plus(x, n) ==
  LET y == Carry(31 * x.hi, 31 * x.mid, 31 * x.lo + n)
      Fits(k) == Minus(y, k).hi >= 0
  IN  Minus(y, CHOOSE k \in 0..31 : Fits(k) /\ ~Fits(k + 1))

-----------------------------------------------------------------------------
Mix(hashCode, char, index) == Times31Plus(hashCode, char + index)

HashCode(name, index) ==
  FoldLeft(LAMBDA hashCode, char : Mix(hashCode, char, index), U64(7), name)

Digits(n) == CHOOSE d \in 1..7 : 10^(d - 1) <= n /\ n < 10^d

(* The first eight digits of the number, or all of them. *)
Left8(x) ==
  LET Lead(a, b) == a * 10^(8 - Digits(a)) + b \div 10^(Digits(a) - 1)
  IN  IF x.hi > 0 THEN Lead(x.hi, x.mid)
      ELSE IF x.mid > 0 THEN Lead(x.mid, x.lo)
      ELSE x.lo

GetFileName(name, index) == Left8(HashCode(name, index))

(* The first entries of an archive, up to an index, have temp files of     *)
(* their own.                                                              *)
EntriesApart(name, last) ==
  \A i, j \in 0..last : GetFileName(name, i) = GetFileName(name, j) => i = j
=============================================================================

--------------------------- MODULE TempName_proof ---------------------------
(***************************************************************************)
(* Proofs about TempName: a turn of the hash is the unsigned 64 bit        *)
(* arithmetic of the program, at the wrap around too, and the name of a    *)
(* temp file consists of the leading digits of the hash.                   *)
(***************************************************************************)
EXTENDS TempName, NumberFacts

(* The number that three limbs stand for.                                  *)
Value(x) == (x.hi * Limb + x.mid) * Limb + x.lo
Modulus  == Value(TwoTo64)

Limbed(x) == x = [hi |-> x.hi, mid |-> x.mid, lo |-> x.lo]
             /\ x.hi \in Int /\ x.mid \in 0..(Limb - 1) /\ x.lo \in 0..(Limb - 1)
UInt64(x) == Limbed(x) /\ Value(x) \in 0..(Modulus - 1)

LEMMA LimbIs ==
  /\ Limb \in Nat \ {0}
  /\ TwoTo64.hi \in Nat /\ TwoTo64.mid \in Nat /\ TwoTo64.lo \in Nat \ {0}
BY SMT DEF TwoTo64, Limb

LEMMA LimbIsPower == Limb = 10^7
BY SMT DEF Limb

LEMMA SevenFits == 7 < Limb /\ 7 < Modulus
<1>1. Limb > 7 /\ TwoTo64.hi > 0 /\ TwoTo64.mid >= 0 /\ TwoTo64.lo > 7
  BY SMT DEF Limb, TwoTo64
<1> DEFINE a == TwoTo64.hi * Limb
           b == (a + TwoTo64.mid) * Limb
<1>2. a \in Nat
  BY LimbIs, TimesNat
<1> HIDE DEF a
<1>3. b \in Nat
  BY <1>2, LimbIs, TimesNat
<1> HIDE DEF b
<1>4. Modulus = b + TwoTo64.lo
  BY DEF Modulus, Value, a, b
<1> QED
  BY <1>1, <1>3, <1>4, LimbIs

LEMMA ModulusIs == Modulus \in Nat \ {0}
<1> DEFINE a == TwoTo64.hi * Limb
           b == (a + TwoTo64.mid) * Limb
<1>1. a \in Nat
  BY LimbIs, TimesNat
<1> HIDE DEF a
<1>2. b \in Nat
  BY <1>1, LimbIs, TimesNat
<1> HIDE DEF b
<1>3. Modulus = b + TwoTo64.lo
  BY DEF Modulus, Value, a, b
<1> QED
  BY <1>2, <1>3, LimbIs

(* Carrying does not change the number. *)
LEMMA CarryValue ==
  ASSUME NEW hi \in Int, NEW mid \in Int, NEW lo \in Int
  PROVE  /\ Limbed(Carry(hi, mid, lo))
         /\ Value(Carry(hi, mid, lo)) = (hi * Limb + mid) * Limb + lo
<1> DEFINE c == lo \div Limb
           m == mid + c
           d == m \div Limb
<1>1. c \in Int /\ lo = c * Limb + (lo % Limb) /\ lo % Limb \in 0..(Limb - 1)
  BY LimbIs, IntDivision
<1> HIDE DEF c
<1>2. m \in Int
  BY <1>1
<1> HIDE DEF m
<1>3. d \in Int /\ m = d * Limb + (m % Limb) /\ m % Limb \in 0..(Limb - 1)
  BY <1>2, LimbIs, IntDivision
<1>4. Carry(hi, mid, lo) = [hi |-> hi + d, mid |-> m % Limb, lo |-> lo % Limb]
  BY DEF Carry, c, m
<1> HIDE DEF d
<1>5. ((hi + d) * Limb + (m % Limb)) * Limb + (lo % Limb) = (hi * Limb + mid) * Limb + lo
  <2>1. (hi + d) * Limb + (m % Limb) = hi * Limb + m
    BY <1>3, LimbIs
  <2>2. hi * Limb + m = (hi * Limb + mid) + c /\ hi * Limb \in Int
    BY <1>1, LimbIs DEF m
  <2> DEFINE h == hi * Limb + mid
  <2>3. h \in Int /\ hi * Limb + m = h + c
    BY <2>2
  <2> HIDE DEF h
  <2>4. (h + c) * Limb + (lo % Limb) = h * Limb + lo
    BY <1>1, <2>3, LimbIs
  <2> QED
    BY <2>1, <2>3, <2>4 DEF h
<1> QED
  BY <1>1, <1>3, <1>4, <1>5 DEF Limbed, Value

LEMMA MinusValue ==
  ASSUME NEW x, Limbed(x), NEW k \in Int
  PROVE  /\ Limbed(Minus(x, k))
         /\ Value(Minus(x, k)) = Value(x) - k * Modulus
<1>1. /\ x.hi \in Int /\ x.mid \in Int /\ x.lo \in Int
      /\ x.hi - k * TwoTo64.hi \in Int /\ x.mid - k * TwoTo64.mid \in Int
      /\ x.lo - k * TwoTo64.lo \in Int
  BY LimbIs DEF Limbed
<1>2. ((x.hi - k * TwoTo64.hi) * Limb + (x.mid - k * TwoTo64.mid)) * Limb
        + (x.lo - k * TwoTo64.lo) = Value(x) - k * Modulus
  BY <1>1, LimbIs DEF Value, Modulus
<1> QED
  BY <1>1, <1>2, CarryValue DEF Minus

(* The sign of a number is that of its first limb. *)
LEMMA SignOfLimbs ==
  ASSUME NEW x, Limbed(x)
  PROVE  x.hi >= 0 <=> Value(x) >= 0
<1> DEFINE h == x.hi * Limb
           g == h + x.mid
           v == g * Limb
<1>1. x.hi \in Int /\ x.mid \in 0..(Limb - 1) /\ x.lo \in 0..(Limb - 1) /\ Limb \in Nat \ {0}
  BY LimbIs DEF Limbed
<1>2. CASE x.hi >= 0
  <2>1. h \in Nat
    BY <1>1, <1>2, TimesNat
  <2> HIDE DEF h
  <2>2. v \in Nat
    BY <1>1, <2>1, TimesNat
  <2> HIDE DEF v
  <2>3. Value(x) = v + x.lo
    BY DEF Value, v, h
  <2> QED
    BY <1>1, <1>2, <2>2, <2>3
<1>3. CASE x.hi < 0
  <2>1. (x.hi + 1) * Limb <= 0 * Limb /\ (x.hi + 1) * Limb = h + Limb
    BY <1>1, <1>3
  <2>2. h \in Int /\ h <= 0 - Limb
    BY <1>1, <2>1
  <2> HIDE DEF h
  <2>3. g + 1 <= 0 /\ g \in Int
    BY <1>1, <2>2
  <2> HIDE DEF g
  <2>4. (g + 1) * Limb <= 0 * Limb /\ (g + 1) * Limb = v + Limb
    BY <1>1, <2>3
  <2>5. v \in Int /\ v <= 0 - Limb
    BY <1>1, <2>3, <2>4
  <2> HIDE DEF v
  <2>6. Value(x) = v + x.lo
    BY DEF Value, v, g, h
  <2> QED
    BY <1>1, <1>3, <2>5, <2>6
<1> QED
  BY <1>1, <1>2, <1>3

(* A turn of the loop: hash_code * 31 + n in a UInt64, whether it wraps    *)
(* around or not, and however often.                                       *)
THEOREM TurnIsUInt64 ==
  ASSUME NEW x, UInt64(x), NEW n \in Nat, n < Modulus
  PROVE  /\ UInt64(Times31Plus(x, n))
         /\ Value(Times31Plus(x, n)) = (31 * Value(x) + n) % Modulus
<1> DEFINE y == Carry(31 * x.hi, 31 * x.mid, 31 * x.lo + n)
           Fits(k) == Minus(y, k).hi >= 0
           total == 31 * Value(x) + n
           j == CHOOSE k \in 0..31 : Fits(k) /\ ~Fits(k + 1)
<1>1. Modulus \in Nat \ {0}
  BY ModulusIs, SMT
<1>2. Limbed(y) /\ Value(y) = total
  <2>1. 31 * x.hi \in Int /\ 31 * x.mid \in Int /\ 31 * x.lo + n \in Int
    BY LimbIs DEF UInt64, Limbed
  <2>2. ((31 * x.hi) * Limb + 31 * x.mid) * Limb + (31 * x.lo + n) = total
    BY <2>1, LimbIs DEF UInt64, Limbed, Value
  <2> QED
    BY <2>1, <2>2, CarryValue
<1>3. total \in Nat /\ total < 32 * Modulus
  BY <1>1 DEF UInt64
<1> HIDE DEF y, total
<1>4. \A k \in Int : /\ Limbed(Minus(y, k)) /\ Value(Minus(y, k)) = total - k * Modulus
                     /\ Fits(k) <=> total - k * Modulus >= 0
  BY <1>2, MinusValue, SignOfLimbs, SMT
<1>5. Times31Plus(x, n) = Minus(y, j)
  BY DEF Times31Plus, y
<1> HIDE DEF Fits
<1>6. j \in 0..31 /\ Fits(j) /\ ~Fits(j + 1)
  <2> DEFINE q == total \div Modulus
  <2>1. q \in Nat /\ total = q * Modulus + (total % Modulus) /\ total % Modulus < Modulus
        /\ total % Modulus \in Nat
    BY <1>1, <1>3, Division
  <2> HIDE DEF q
  <2>2. q * Modulus < 32 * Modulus
    BY <1>1, <1>3, <2>1
  <2>3. q \in 0..31
    BY <1>1, <2>1, <2>2, TimesReflects, SMT
  <2>4. (q + 1) * Modulus = q * Modulus + Modulus
    BY <1>1, <2>1, SMT
  <2>5. total - q * Modulus >= 0 /\ ~(total - (q + 1) * Modulus >= 0)
    BY <1>1, <1>3, <2>1, <2>4
  <2>6. Fits(q) /\ ~Fits(q + 1)
    BY <1>4, <2>1, <2>5
  <2> QED
    BY <2>3, <2>6
<1> HIDE DEF j
<1> DEFINE r == total - j * Modulus
<1>7. Limbed(Minus(y, j)) /\ Value(Minus(y, j)) = r
  BY <1>4, <1>6
<1>8. r >= 0 /\ r < Modulus /\ r \in Int
  <2>1. r >= 0 /\ ~(total - (j + 1) * Modulus >= 0)
    BY <1>4, <1>6
  <2>2. (j + 1) * Modulus = j * Modulus + Modulus /\ j * Modulus \in Int
    BY <1>1, <1>6
  <2> QED
    BY <1>1, <1>3, <2>1, <2>2
<1>9. total % Modulus = r
  <2>1. r \in Nat /\ j \in Nat /\ total = j * Modulus + r
    BY <1>1, <1>3, <1>6, <1>8
  <2> QED
    BY <1>1, <1>3, <1>8, <2>1, Quotient
<1> HIDE DEF r
<1> QED
  BY <1>1, <1>5, <1>7, <1>8, <1>9 DEF UInt64, total

-----------------------------------------------------------------------------
(* Digits. *)

LEMMA DigitsAre ==
  ASSUME NEW n \in Nat \ {0}, n < Limb
  PROVE  Digits(n) \in 1..7 /\ 10^(Digits(n) - 1) <= n /\ n < 10^Digits(n)
<1>1. /\ 10^0 = 1 /\ 10^1 = 10 /\ 10^2 = 100 /\ 10^3 = 1000 /\ 10^4 = 10000
      /\ 10^5 = 100000 /\ 10^6 = 1000000 /\ 10^7 = 10000000
  BY SMT
<1>2. \E d \in 1..7 : 10^(d - 1) <= n /\ n < 10^d
  <2>1. CASE n < 10
    <3>1. 10^(1 - 1) <= n /\ n < 10^1
      BY <1>1, <2>1, SMT
    <3> QED
      BY <3>1
  <2>2. CASE 10 <= n /\ n < 100
    <3>1. 10^(2 - 1) <= n /\ n < 10^2
      BY <1>1, <2>2, SMT
    <3> QED
      BY <3>1
  <2>3. CASE 100 <= n /\ n < 1000
    <3>1. 10^(3 - 1) <= n /\ n < 10^3
      BY <1>1, <2>3, SMT
    <3> QED
      BY <3>1
  <2>4. CASE 1000 <= n /\ n < 10000
    <3>1. 10^(4 - 1) <= n /\ n < 10^4
      BY <1>1, <2>4, SMT
    <3> QED
      BY <3>1
  <2>5. CASE 10000 <= n /\ n < 100000
    <3>1. 10^(5 - 1) <= n /\ n < 10^5
      BY <1>1, <2>5, SMT
    <3> QED
      BY <3>1
  <2>6. CASE 100000 <= n /\ n < 1000000
    <3>1. 10^(6 - 1) <= n /\ n < 10^6
      BY <1>1, <2>6, SMT
    <3> QED
      BY <3>1
  <2>7. CASE 1000000 <= n
    <3>1. 10^(7 - 1) <= n /\ n < 10^7
      BY <1>1, <2>7, SMT DEF Limb
    <3> QED
      BY <3>1
  <2> QED
    BY <2>1, <2>2, <2>3, <2>4, <2>5, <2>6, <2>7
<1> QED
  BY <1>2 DEF Digits

(* The digits of a limb, and as many of the next one as eight have room    *)
(* for.                                                                    *)
Lead(a, b) == a * 10^(8 - Digits(a)) + b \div 10^(Digits(a) - 1)

(* Cutting digits off is dividing by one of these powers of ten.           *)
PowersOfTen == {10^d : d \in 0..6} \cup {10^d * Limb : d \in 0..6}

LEMMA LeadIs ==
  ASSUME NEW a \in Nat \ {0}, a < Limb, NEW b \in 0..(Limb - 1)
  PROVE  LET e == 10^(Digits(a) - 1)
         IN  /\ e \in Nat \ {0} /\ e \in PowersOfTen /\ e * Limb \in PowersOfTen
             /\ Lead(a, b) = (a * Limb + b) \div e
             /\ Lead(a, b) >= Limb /\ Lead(a, b) < 10 * Limb
<1> DEFINE n == Digits(a)
           e == 10^(n - 1)
           f == 10^(8 - n)
<1>1. n \in 1..7 /\ e <= a /\ a < 10^n
  BY DigitsAre
<1> HIDE DEF n
<1>2. e \in Nat \ {0} /\ f \in Nat \ {0} /\ e * f = Limb /\ 10^n = 10 * e
  <2>1. /\ 10^0 = 1 /\ 10^1 = 10 /\ 10^2 = 100 /\ 10^3 = 1000 /\ 10^4 = 10000
        /\ 10^5 = 100000 /\ 10^6 = 1000000 /\ 10^7 = 10000000
    BY SMT
  <2>0. Limb = 10^7
    BY LimbIsPower
  <2>2. CASE n = 1
    BY <2>0, <2>1, <2>2, SMT
  <2>3. CASE n = 2
    BY <2>0, <2>1, <2>3, SMT
  <2>4. CASE n = 3
    BY <2>0, <2>1, <2>4, SMT
  <2>5. CASE n = 4
    BY <2>0, <2>1, <2>5, SMT
  <2>6. CASE n = 5
    BY <2>0, <2>1, <2>6, SMT
  <2>7. CASE n = 6
    BY <2>0, <2>1, <2>7, SMT
  <2>8. CASE n = 7
    BY <2>0, <2>1, <2>8, SMT
  <2> QED
    BY <1>1, <2>2, <2>3, <2>4, <2>5, <2>6, <2>7, <2>8
<1>3. e \in PowersOfTen /\ e * Limb \in PowersOfTen
  <2>1. n - 1 \in 0..6
    BY <1>1
  <2> QED
    BY <2>1 DEF PowersOfTen
<1>4. Lead(a, b) = a * f + b \div e
  BY DEF Lead, n
<1>5. e <= a /\ a < 10 * e
  BY <1>1, <1>2
<1> HIDE DEF e, f
<1> DEFINE q == b \div e
           r == b % e
<1>6. b \in Nat /\ b < Limb /\ Limb \in Nat \ {0}
  BY LimbIs
<1>7. q \in Nat /\ r \in Nat /\ r < e /\ b = q * e + r
  BY <1>2, <1>6, Division
<1> HIDE DEF q, r
<1>8. a * f \in Nat /\ a * f >= Limb /\ a * f + f <= 10 * Limb
  <2>1. e * f <= a * f
    BY <1>2, <1>5, TimesMonotone
  <2>2. (a + 1) * f <= (10 * e) * f
    BY <1>2, <1>5, TimesMonotone
  <2>3. (a + 1) * f = a * f + f /\ (10 * e) * f = 10 * (e * f)
    BY <1>2
  <2> QED
    BY <1>2, <2>1, <2>2, <2>3, TimesNat
<1>9. q < f
  <2>1. q * e < f * e
    <3>1. f * e = Limb /\ q * e \in Nat
      BY <1>2, <1>7, TimesNat
    <3> QED
      BY <1>6, <1>7, <3>1
  <2> QED
    BY <1>2, <1>7, <2>1, TimesReflects
<1> DEFINE af == a * f
<1>10. a * Limb + b = (af + q) * e + r /\ af + q \in Nat
  <2>1. a * Limb = af * e
    BY <1>2
  <2>2. (af + q) * e = af * e + q * e
    BY <1>2, <1>7
  <2> HIDE DEF af
  <2> QED
    BY <1>2, <1>7, <1>8, <2>1, <2>2 DEF af
<1>11. a * Limb + b \in Nat
  BY <1>6, TimesNat
<1> HIDE DEF af
<1>12. (a * Limb + b) \div e = af + q
  BY <1>2, <1>7, <1>10, <1>11, Quotient
<1>13. af + q >= Limb /\ af + q < 10 * Limb
  BY <1>2, <1>6, <1>7, <1>8, <1>9 DEF af
<1> QED
  BY <1>2, <1>3, <1>4, <1>12, <1>13 DEF af, q, e, n

(* The name of a temp file is the leading eight digits of the hash, or all *)
(* of them if there are no more: the last ones, where the ends of names    *)
(* and the entries of short ones differ, are not in it.                    *)
THEOREM NameIsLeadingDigits ==
  ASSUME NEW x, UInt64(x)
  PROVE  \E scale \in PowersOfTen :
           /\ Left8(x) = Value(x) \div scale
           /\ Left8(x) < 10 * Limb
           /\ scale = 1 \/ Left8(x) >= Limb
<1>1. /\ x.hi \in Int /\ x.mid \in 0..(Limb - 1) /\ x.lo \in 0..(Limb - 1)
      /\ Value(x) \in Nat /\ Value(x) < Modulus /\ Limb \in Nat \ {0}
  BY LimbIs, ModulusIs DEF UInt64, Limbed
<1>2. x.hi >= 0
  BY <1>1, SignOfLimbs DEF UInt64
<1>3. Left8(x) = IF x.hi > 0 THEN Lead(x.hi, x.mid)
                 ELSE IF x.mid > 0 THEN Lead(x.mid, x.lo)
                 ELSE x.lo
  BY DEF Left8, Lead
<1>4. CASE x.hi > 0
  <2>1. x.hi < Limb
    <3> SUFFICES ASSUME x.hi >= Limb PROVE FALSE
      BY <1>1
    <3> DEFINE h == x.hi * Limb
               t == TwoTo64.hi * Limb
               hL == h * Limb
               tL == t * Limb
    <3>1. TwoTo64.hi + 1 <= x.hi /\ TwoTo64.mid < Limb /\ TwoTo64.lo < Limb
      <4>1. TwoTo64.hi + 1 <= Limb /\ TwoTo64.mid < Limb /\ TwoTo64.lo < Limb
        BY SMT DEF TwoTo64, Limb
      <4> QED
        BY <1>1, <4>1, LimbIs
    <3>2. (TwoTo64.hi + 1) * Limb <= h /\ (TwoTo64.hi + 1) * Limb = t + Limb
      <4>1. x.hi \in Nat /\ TwoTo64.hi + 1 \in Nat /\ Limb \in Nat
        BY <1>1, <1>2, LimbIs
      <4>2. (TwoTo64.hi + 1) * Limb <= x.hi * Limb
        BY <3>1, <4>1, TimesMonotone
      <4>3. (TwoTo64.hi + 1) * Limb = TwoTo64.hi * Limb + Limb
        BY <4>1, LimbIs
      <4> QED
        BY <4>2, <4>3
    <3>3. h \in Nat /\ t \in Nat
      BY <1>1, <1>2, LimbIs, TimesNat
    <3> HIDE DEF h, t
    <3>4. ((t + TwoTo64.mid) + 1) * Limb <= h * Limb
      BY <1>1, <3>1, <3>2, <3>3, LimbIs, TimesMonotone
    <3> DEFINE u == (t + TwoTo64.mid) * Limb
    <3>5. ((t + TwoTo64.mid) + 1) * Limb = u + Limb /\ u \in Nat /\ hL \in Nat
      BY <1>1, <3>3, LimbIs, TimesNat
    <3>6. (h + x.mid) * Limb >= hL
      BY <1>1, <3>3, TimesMonotone
    <3> DEFINE v == (h + x.mid) * Limb
    <3>7. Modulus = u + TwoTo64.lo /\ Value(x) = v + x.lo
      BY DEF Modulus, Value, u, v, h, t
    <3>8. v \in Nat
      BY <1>1, <3>3, TimesNat
    <3> HIDE DEF u, v, hL
    <3> QED
      BY <1>1, <3>1, <3>4, <3>5, <3>6, <3>7, <3>8, LimbIs DEF hL, v
  <2> DEFINE e == 10^(Digits(x.hi) - 1)
             N == x.hi * Limb + x.mid
             q == N \div e
             r == N % e
  <2>2. /\ e \in Nat \ {0} /\ e * Limb \in PowersOfTen
        /\ Lead(x.hi, x.mid) = q
        /\ q >= Limb /\ q < 10 * Limb
    BY <1>1, <1>4, <2>1, LeadIs
  <2> HIDE DEF e
  <2>3. N \in Nat
    BY <1>1, <1>2, TimesNat
  <2>4. Value(x) = N * Limb + x.lo
    BY DEF Value
  <2> HIDE DEF N
  <2>5. q \in Nat /\ r \in Nat /\ r < e /\ N = q * e + r
    BY <2>2, <2>3, Division
  <2> HIDE DEF q, r
  <2> DEFINE rest == r * Limb + x.lo
  <2>6. rest \in Nat /\ rest < e * Limb /\ e * Limb \in Nat \ {0}
    <3>1. (r + 1) * Limb <= e * Limb /\ (r + 1) * Limb = r * Limb + Limb
      BY <1>1, <2>2, <2>5, TimesMonotone
    <3>2. r * Limb \in Nat /\ e * Limb \in Nat
      BY <1>1, <2>2, <2>5, TimesNat
    <3> QED
      BY <1>1, <3>1, <3>2
  <2>7. Value(x) = q * (e * Limb) + rest
    <3>1. N * Limb = q * (e * Limb) + r * Limb
      BY <1>1, <2>2, <2>5
    <3> DEFINE s == q * (e * Limb)
               w == r * Limb
    <3>2. s \in Int /\ w \in Int
      BY <1>1, <2>2, <2>5
    <3> QED
      BY <1>1, <2>4, <3>1, <3>2
  <2> HIDE DEF rest
  <2>8. Value(x) \div (e * Limb) = q
    BY <1>1, <2>5, <2>6, <2>7, Quotient
  <2>9. Left8(x) = q
    BY <1>3, <1>4, <2>2
  <2> QED
    BY <2>2, <2>8, <2>9
<1>5. CASE x.hi = 0 /\ x.mid > 0
  <2>1. Value(x) = x.mid * Limb + x.lo
    BY <1>1, <1>5 DEF Value
  <2>2. Left8(x) = Lead(x.mid, x.lo)
    BY <1>3, <1>5
  <2>3. x.mid \in Nat \ {0} /\ x.mid < Limb
    BY <1>1, <1>5
  <2> QED
    BY <1>1, <2>1, <2>2, <2>3, LeadIs
<1>6. CASE x.hi = 0 /\ x.mid = 0
  <2>1. Value(x) = x.lo /\ Left8(x) = x.lo /\ x.lo \in Nat
    BY <1>1, <1>3, <1>6 DEF Value
  <2>2. 1 \in PowersOfTen
    <3>1. 10^0 = 1 /\ 0 \in 0..6
      OBVIOUS
    <3> QED
      BY <3>1 DEF PowersOfTen
  <2>3. x.lo \div 1 = x.lo
    BY <2>1
  <2>4. x.lo < 10 * Limb
    BY <1>1
  <2> QED
    BY <2>1, <2>2, <2>3, <2>4
<1> QED
  BY <1>1, <1>2, <1>4, <1>5, <1>6

-----------------------------------------------------------------------------
(* The loop over the name. *)

(* A set of places has a last one. *)
LEMMA MaxIs ==
  ASSUME NEW last \in Nat, NEW s \in SUBSET (1..last), s # {}
  PROVE  Max(s) \in s /\ \A i \in s : i <= Max(s)
<1> DEFINE Top(n) == \E m \in s : m <= n /\ \A i \in s : i <= n => i <= m
           S == {n \in Nat : (\E i \in s : i <= n) => Top(n)}
<1>1. 0 \in S
  OBVIOUS
<1>2. ASSUME NEW n \in S PROVE n + 1 \in S
  <2> SUFFICES ASSUME \E i \in s : i <= n + 1 PROVE Top(n + 1)
    OBVIOUS
  <2>1. CASE n + 1 \in s
    BY <2>1
  <2>2. CASE n + 1 \notin s
    <3>0. n \in Nat /\ \A i \in s : i \in Nat
      OBVIOUS
    <3>1. \A i \in s : i <= n + 1 => i <= n
      <4> HIDE DEF Top, S
      <4> SUFFICES ASSUME NEW i \in s, i <= n + 1 PROVE i <= n
        OBVIOUS
      <4>1. i # n + 1
        BY <2>2
      <4> QED
        BY <3>0, <4>1
    <3>2. PICK m \in s : m <= n /\ \A i \in s : i <= n => i <= m
      BY <3>1
    <3> QED
      BY <3>1, <3>2
  <2> QED
    BY <2>1, <2>2
<1>3. S = Nat
  <2> HIDE DEF S
  <2>1. S \in SUBSET Nat
    BY DEF S
  <2> QED
    BY <1>1, <1>2, <2>1, SetInduction
<1>4. \A i \in s : i \in Nat /\ i <= last
  OBVIOUS
<1>5. \E m \in s : \A i \in s : m >= i
  <2>1. Top(last)
    BY <1>3, <1>4
  <2> QED
    BY <1>4, <2>1
<1>6. Max(s) \in s /\ \A i \in s : Max(s) >= i
  BY <1>5, Zenon DEF Max
<1> QED
  BY <1>4, <1>6

(* The fold of HashCode satisfies this equation with itself: it mixes in   *)
(* the characters at a set of places, the last of them at last.            *)
Fold(name, index, h) ==
  [s \in SUBSET (DOMAIN name) |->
     IF s = {} THEN U64(7) ELSE Mix(h[s \ {Max(s)}], name[Max(s)], index)]

LEMMA FoldExists ==
  ASSUME NEW name \in Seq(Nat), NEW index \in Nat
  PROVE  \E h : h = Fold(name, index, h)
<1> DEFINE D == SUBSET (DOMAIN name)
           Good(h, k) == \A s \in D : Cardinality(s) < k =>
                           h[s] = IF s = {} THEN U64(7)
                                  ELSE Mix(h[s \ {Max(s)}], name[Max(s)], index)
           S == {k \in Nat : \E h : h = [s \in D |-> h[s]] /\ Good(h, k)}
<1>1. \A s \in D : /\ IsFiniteSet(s) /\ Cardinality(s) \in Nat
                   /\ Cardinality(s) < Len(name) + 1
  <2>1. DOMAIN name = 1..Len(name) /\ Len(name) \in Nat
    OBVIOUS
  <2>2. IsFiniteSet(1..Len(name)) /\ Cardinality(1..Len(name)) = Len(name)
    BY <2>1, FS_Interval
  <2>3. ASSUME NEW s \in D
        PROVE  IsFiniteSet(s) /\ Cardinality(s) \in Nat /\ Cardinality(s) <= Len(name)
    BY <2>1, <2>2, FS_Subset, FS_CardinalityType
  <2> QED
    BY <2>1, <2>3
<1>2. 0 \in S
  <2> DEFINE h == [s \in D |-> 0]
  <2>1. h = [s \in D |-> h[s]]
    OBVIOUS
  <2>2. Good(h, 0)
    BY <1>1
  <2> HIDE DEF h, Good
  <2> QED
    BY <2>1, <2>2
<1>3. ASSUME NEW k \in S PROVE k + 1 \in S
  <2>1. PICK h : h = [s \in D |-> h[s]] /\ Good(h, k)
    OBVIOUS
  <2> DEFINE g == Fold(name, index, h)
  <2>2. g = [s \in D |-> g[s]]
    BY DEF Fold
  <2>3. \A s \in D : Cardinality(s) < k => g[s] = h[s]
    BY <2>1 DEF Fold
  <2>4. ASSUME NEW s \in D, Cardinality(s) < k + 1
        PROVE  g[s] = IF s = {} THEN U64(7)
                      ELSE Mix(g[s \ {Max(s)}], name[Max(s)], index)
    <3>1. g[s] = IF s = {} THEN U64(7) ELSE Mix(h[s \ {Max(s)}], name[Max(s)], index)
      BY DEF Fold
    <3>2. CASE s # {}
      <4>1. Max(s) \in s
        <5>1. s \in SUBSET (1..Len(name)) /\ Len(name) \in Nat
          OBVIOUS
        <5> QED
          BY <3>2, <5>1, MaxIs
      <4>2. Cardinality(s \ {Max(s)}) = Cardinality(s) - 1 /\ s \ {Max(s)} \in D
        BY <1>1, <4>1, FS_RemoveElement
      <4>3. Cardinality(s \ {Max(s)}) < k
        <5>1. k \in Nat /\ Cardinality(s) \in Nat
          BY <1>1
        <5> QED
          BY <2>4, <4>2, <5>1
      <4>4. g[s \ {Max(s)}] = h[s \ {Max(s)}]
        BY <2>3, <4>2, <4>3
      <4> QED
        BY <3>1, <3>2, <4>4
    <3> QED
      BY <3>1, <3>2
  <2>5. Good(g, k + 1)
    BY <2>4
  <2> HIDE DEF g, Good
  <2> QED
    BY <2>2, <2>5
<1>4. Len(name) + 1 \in S
  <2> HIDE DEF S
  <2>1. S \in SUBSET Nat
    BY DEF S
  <2>2. S = Nat
    BY <1>2, <1>3, <2>1, SetInduction
  <2> QED
    BY <2>2
<1>5. PICK h : h = [s \in D |-> h[s]] /\ Good(h, Len(name) + 1)
  BY <1>4
<1> QED
  BY <1>1, <1>5, Zenon DEF Fold

LEMMA HashFold ==
  ASSUME NEW name \in Seq(Nat), NEW index \in Nat
  PROVE  \E h : h = Fold(name, index, h) /\ HashCode(name, index) = h[DOMAIN name]
<1> DEFINE c == CHOOSE h : h = Fold(name, index, h)
<1>1. c = Fold(name, index, c)
  BY FoldExists
<1>2. HashCode(name, index) = c[DOMAIN name]
  BY Zenon DEF HashCode, FoldLeft, MapThenFoldSet, Fold
<1> QED
  BY <1>1, <1>2, Zenon

(* The hash of a name is a UInt64, and its number is what the loop of      *)
(* GetFileName computes, 31 * hashCode + fileName[a] + index from 7 on,    *)
(* modulo 2^64, however long the name is.                                  *)
THEOREM HashIsLoop ==
  ASSUME NEW name \in Seq(Nat), NEW index \in Nat,
         \A i \in DOMAIN name : name[i] + index < Modulus
  PROVE  /\ UInt64(HashCode(name, index))
         /\ \E v : /\ v[0] = 7
                   /\ \A i \in 1..Len(name) :
                        v[i] = (31 * v[i - 1] + (name[i] + index)) % Modulus
                   /\ Value(HashCode(name, index)) = v[Len(name)]
<1>1. PICK h : h = Fold(name, index, h) /\ HashCode(name, index) = h[DOMAIN name]
  BY HashFold
<1> DEFINE L == Len(name)
           x(i) == h[1..i]
           v == [i \in 0..L |-> Value(x(i))]
<1>2. DOMAIN name = 1..L /\ L \in Nat
  OBVIOUS
<1>3. x(0) = U64(7)
  <2>1. 1..0 = {} /\ {} \in SUBSET (DOMAIN name)
    OBVIOUS
  <2> QED
    BY <1>1, <2>1, Zenon DEF Fold
<1>4. ASSUME NEW i \in 1..L PROVE x(i) = Times31Plus(x(i - 1), name[i] + index)
  <2>1. 1..i \in SUBSET (1..L) /\ 1..i # {} /\ i \in Nat
    <3>1. i \in Nat /\ 1 <= i /\ i <= L
      BY <1>2
    <3>2. i \in 1..i
      BY <3>1
    <3>3. \A j \in 1..i : j \in 1..L
      BY <1>2, <3>1
    <3> QED
      BY <3>1, <3>2, <3>3
  <2>2. Max(1..i) \in 1..i /\ \A j \in 1..i : j <= Max(1..i)
    BY <1>2, <2>1, MaxIs
  <2>3. Max(1..i) = i
    <3>1. i \in 1..i
      OBVIOUS
    <3>2. i <= Max(1..i) /\ Max(1..i) <= i /\ Max(1..i) \in Nat
      BY <2>2, <3>1
    <3> QED
      BY <3>2
  <2>4. (1..i) \ {i} = 1..(i - 1)
    BY <2>1
  <2>5. x(i) = Mix(h[(1..i) \ {Max(1..i)}], name[Max(1..i)], index)
    BY <1>1, <1>2, <2>1, Zenon DEF Fold
  <2> QED
    BY <2>3, <2>4, <2>5 DEF Mix
<1> HIDE DEF x
<1>5. UInt64(U64(7)) /\ Value(U64(7)) = 7
  <2>1. U64(7).hi = 0 /\ U64(7).mid = 0 /\ U64(7).lo = 7
        /\ U64(7) = [hi |-> U64(7).hi, mid |-> U64(7).mid, lo |-> U64(7).lo]
    BY DEF U64
  <2>2. Value(U64(7)) = 7
    BY <2>1, LimbIs DEF Value
  <2>3. 7 < Limb /\ 7 < Modulus
    BY SevenFits
  <2> QED
    BY <2>1, <2>2, <2>3, LimbIs, ModulusIs DEF UInt64, Limbed
<1> DEFINE S == {i \in Nat : i <= L => UInt64(x(i))}
<1>6. S = Nat
  <2>1. 0 \in S
    BY <1>3, <1>5
  <2>2. ASSUME NEW i \in S PROVE i + 1 \in S
    <3> SUFFICES ASSUME i + 1 <= L PROVE UInt64(x(i + 1))
      OBVIOUS
    <3>1. i + 1 \in 1..L /\ (i + 1) - 1 = i
      BY <1>2
    <3>2. x(i + 1) = Times31Plus(x(i), name[i + 1] + index)
      BY <1>4, <3>1
    <3>3. UInt64(x(i))
      BY <1>2
    <3>4. name[i + 1] + index \in Nat /\ name[i + 1] + index < Modulus
      BY <1>2, <3>1
    <3> QED
      BY <3>2, <3>3, <3>4, TurnIsUInt64
  <2>3. S \in SUBSET Nat
    OBVIOUS
  <2> HIDE DEF S
  <2> QED
    BY <2>1, <2>2, <2>3, SetInduction
<1>7. UInt64(x(L))
  BY <1>2, <1>6
<1>8. HashCode(name, index) = x(L)
  BY <1>1, <1>2 DEF x
<1>9. v[0] = 7 /\ v[L] = Value(x(L))
  BY <1>2, <1>3, <1>5
<1>10. ASSUME NEW i \in 1..L PROVE v[i] = (31 * v[i - 1] + (name[i] + index)) % Modulus
  <2>1. i - 1 \in 0..L /\ i \in 0..L /\ i - 1 <= L /\ i - 1 \in Nat
    BY <1>2
  <2>2. UInt64(x(i - 1))
    BY <1>6, <2>1
  <2>3. name[i] + index \in Nat /\ name[i] + index < Modulus
    BY <1>2
  <2>4. v[i] = Value(x(i)) /\ v[i - 1] = Value(x(i - 1))
    BY <2>1
  <2> HIDE DEF v
  <2> QED
    BY <1>4, <2>2, <2>3, <2>4, TurnIsUInt64
<1> HIDE DEF v
<1> QED
  BY <1>7, <1>8, <1>9, <1>10
=============================================================================

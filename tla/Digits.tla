------------------------------- MODULE Digits -------------------------------
(***************************************************************************)
(* The conversions of common/string.hpp, as functions: integers by a       *)
(* multiplication instead of a division, doubles by Grisu2.  The 32 or 64  *)
(* bits of an integer are scaled down to 8, those of a pointer too, the 64 *)
(* of a DiyFp and the 52 of a significand to 2 * Half and Dp.              *)
(***************************************************************************)
EXTENDS Integers, Sequences, FiniteSets, SequencesExt

CONSTANTS
  Half,      \* bits of half a DiyFp significand (32 in the code)
  Dp,        \* bits of a double's significand (52 in the code)
  MaxBiased, \* largest biased exponent of a finite double
  Powers     \* entries of kPow10 in DigitGen (10 in the code)

(* Characters: 0..9 are the digits, 10..15 the other hexadecimal ones.     *)
Minus == 16
Dot == 17
Exp == 18

(* static_cast<uiT>(0xcccccccd) and sizeof(T) * 8 + 3, for one byte.       *)
Magic == 205
Shift == 11

(* Defect: the product is shifted by sizeof(T) * 8 + 2.                    *)
DivTenShort(v) == (v * Magic) \div 2^(Shift - 1)

DivTen(v) == (v * Magic) \div 2^Shift

Room(maxlen, i) == 1 < maxlen - i

(* value > 0 ? value : -value, where the least int has no negative: the    *)
(* result is undefined.                                                    *)
Least8 == -128
Magnitudes(value) ==
  IF value = Least8 THEN 0..255 ELSE {IF value > 0 THEN value ELSE -value}

(* The text itoa leaves in a buffer of maxlen bytes, a NUL behind it, when *)
(* it takes abs for the magnitude of value.                                *)
Itoa(maxlen, value, abs) ==
  LET Low[v \in 0..255, i \in 0..8] ==
        IF v = 0 \/ ~Room(maxlen, i) THEN <<>>
        ELSE <<v - 10 * DivTen(v)>> \o Low[DivTen(v), i + 1]
      ds == Low[abs, 0]
  IN Reverse(ds \o IF value < 0 /\ maxlen - Len(ds) > 2 THEN <<Minus>> ELSE <<>>)

(* ptrtoa: the same loop, four bits at a time.                             *)
Ptrtoa(maxlen, value) ==
  LET Low[v \in 0..255, i \in 0..8] ==
        IF v = 0 \/ ~Room(maxlen, i) THEN <<>>
        ELSE <<v - 16 * (v \div 16)>> \o Low[v \div 16, i + 1]
  IN Reverse(Low[value, 0])
-----------------------------------------------------------------------------
(* DiyFp: the number f * 2^e.                                              *)
Fp(f, e) == [f |-> f, e |-> e]
Bits == 2 * Half
Hidden == 2^Dp
Bias == MaxBiased \div 2 + Dp

FromDouble(biased, significand) ==
  IF biased # 0 THEN Fp(significand + Hidden, biased - Bias)
  ELSE Fp(significand, 1 - Bias)

Mul(p, q) ==
  LET M == 2^Half
      a == p.f \div M
      b == p.f % M
      c == q.f \div M
      d == q.f % M
      tmp == (b * d) \div M + ((a * d) % M) + ((b * c) % M) + M \div 2
  IN Fp(a * c + (a * d) \div M + (b * c) \div M + tmp \div M, p.e + q.e + Bits)

(* f << s, where s brings the highest bit of f to the given one.           *)
Lifted(p, bit) ==
  LET s == CHOOSE n \in 0..bit : p.f * 2^n \in 2^bit..(2^(bit + 1) - 1)
  IN Fp(p.f * 2^s, p.e - s)

Normalize(p) == Lifted(p, Bits - 1)

NormalizeBoundary(p) ==
  LET res == Lifted(p, Dp + 1)
      s == Bits - Dp - 2
  IN Fp(res.f * 2^s, res.e - s)

Plus(v) == NormalizeBoundary(Fp(2 * v.f + 1, v.e - 1))

(* Defect: the closer predecessor of a power of two is forgotten.          *)
MinusWide(v) ==
  LET mi == Fp(2 * v.f - 1, v.e - 1)
  IN Fp(mi.f * 2^(mi.e - Plus(v).e), Plus(v).e)

MinusOf(v) ==
  LET mi == IF v.f = Hidden THEN Fp(4 * v.f - 1, v.e - 2) ELSE Fp(2 * v.f - 1, v.e - 1)
  IN Fp(mi.f * 2^(mi.e - Plus(v).e), Plus(v).e)

(* The exponents of the cached powers of ten, at full width.               *)
CachedPowersE == <<
  -1220, -1193, -1166, -1140, -1113, -1087, -1060, -1034, -1007, -980, -954,
  -927, -901, -874, -847, -821, -794, -768, -741, -715, -688, -661, -635, -608,
  -582, -555, -529, -502, -475, -449, -422, -396, -369, -343, -316, -289, -263,
  -236, -210, -183, -157, -130, -103, -77, -50, -24, 3, 30, 56, 83, 109, 136,
  162, 189, 216, 242, 269, 295, 322, 348, 375, 402, 428, 455, 481, 508, 534,
  561, 588, 614, 641, 667, 694, 720, 747, 774, 800, 827, 853, 880, 907, 933,
  960, 986, 1013, 1039, 1066>>

(* k is (-61 - e) * log10(2) + 347 rounded up.  For the e of a double the  *)
(* factor 30103 / 100000 rounds to the same integers as the code's.        *)
CachedIndex(e) ==
  LET k == 347 - ((61 + e) * 30103) \div 100000 IN k \div 8 + 1

GetCachedPower(e) ==
  [e |-> CachedPowersE[CachedIndex(e) + 1], K |-> 348 - 8 * CachedIndex(e)]
-----------------------------------------------------------------------------
CountDecimalDigit32(n) == 1 + Cardinality({i \in 1..9 : n >= 10^i})

(* Defect: a digit is taken off although it leaves the interval.           *)
GrisuRoundFar(ds, delta, rest, ten, wpw) ==
  LET Stops(j) == LET r == rest + j * ten
                  IN ~(r < wpw /\ (r + ten < wpw \/ wpw - r > r + ten - wpw))
      n == CHOOSE j \in 0..(wpw + 1) : Stops(j) /\ \A i \in 0..(j - 1) : ~Stops(i)
  IN [ds EXCEPT ![Len(ds)] = @ - n]

(* The last digit goes down while that brings the number closer to W and   *)
(* keeps it in the interval.                                               *)
GrisuRound(ds, delta, rest, ten, wpw) ==
  LET Stops(j) == LET r == rest + j * ten
                  IN ~(/\ r < wpw /\ delta - r >= ten
                       /\ r + ten < wpw \/ wpw - r > r + ten - wpw)
      n == CHOOSE j \in 0..(delta + 1) : Stops(j) /\ \A i \in 0..(j - 1) : ~Stops(i)
  IN [ds EXCEPT ![Len(ds)] = @ - n]

(* kPow10[i]: past the end of the table it may be any number.  GrisuRound  *)
(* only compares with it: one too small, the right one and one too large   *)
(* stand for all.                                                          *)
Pow10(i) == IF i < Powers THEN {10^i} ELSE {0, 1, 10^i, 10^(i + 1)}

PutDigit(ds, d) == IF d = 0 /\ ds = <<>> THEN ds ELSE Append(ds, d)

(* DigitGen for Mp = f / 2^p: the digits and exponents it may leave.       *)
DigitGen(f, p, delta, wpw) ==
  LET p2 == f % 2^p
      Frac[kappa \in Int, q \in Nat, dl \in Nat, ds \in Seq(Nat)] ==
        LET next == PutDigit(ds, (10 * q) \div 2^p)
            r == (10 * q) % 2^p
        IN IF r < 10 * dl
           THEN {[ds |-> GrisuRound(next, 10 * dl, r, 2^p, wpw * t), k |-> kappa - 1] :
                   t \in Pow10(1 - kappa)}
           ELSE Frac[kappa - 1, r, 10 * dl, next]
      Whole[kappa \in Nat, p1 \in Nat, ds \in Seq(Nat)] ==
        LET ten == 10^(kappa - 1)
            next == PutDigit(ds, p1 \div ten)
            tmp == (p1 % ten) * 2^p + p2
        IN IF kappa = 0 THEN Frac[0, p2, delta, ds]
           ELSE IF tmp <= delta
           THEN {[ds |-> GrisuRound(next, delta, tmp, ten * 2^p, wpw), k |-> kappa - 1]}
           ELSE Whole[kappa - 1, p1 % ten, next]
  IN Whole[CountDecimalDigit32(f \div 2^p), f \div 2^p, <<>>]
-----------------------------------------------------------------------------
Zeros(n) == [i \in 1..n |-> 0]

(* Two digits at a time from the table, three for an exponent over 99.     *)
WriteExponent(k) ==
  LET a == IF k < 0 THEN -k ELSE k
  IN (IF k < 0 THEN <<Minus>> ELSE <<>>)
     \o CASE a >= 100 -> <<a \div 100, (a % 100) \div 10, a % 10>>
          [] a \in 10..99 -> <<a \div 10, a % 10>>
          [] OTHER -> <<a>>

Prettify(ds, k) ==
  LET kk == Len(ds) + k
  IN CASE Len(ds) <= kk /\ kk <= 21 -> ds \o Zeros(k) \o <<Dot, 0>>
       [] 0 < kk /\ kk < Len(ds) /\ kk <= 21 ->
            SubSeq(ds, 1, kk) \o <<Dot>> \o SubSeq(ds, kk + 1, Len(ds))
       [] -6 < kk /\ kk <= 0 -> <<0, Dot>> \o Zeros(-kk) \o ds
       [] OTHER -> <<Head(ds)>> \o (IF Len(ds) = 1 THEN <<>> ELSE <<Dot>> \o Tail(ds))
                     \o <<Exp>> \o WriteExponent(kk - 1)

(* dtoa_grisu2 of 0 or of +-ds * 10^k: the text it writes, a NUL behind    *)
(* it, and the length it returns, which counts the sign and the digits.    *)
Dtoa(sign, ds, k) ==
  IF ds = <<0>> THEN [text |-> <<0, Dot, 0>>, len |-> 4]
  ELSE [text |-> sign \o Prettify(ds, k), len |-> Len(sign) + Len(ds)]
-----------------------------------------------------------------------------
VARIABLE q     \* a conversion: its kind, q.k, and its arguments

Number(ds) == FoldLeft(LAMBDA n, d : 10 * n + d, 0, ds)

(* A decimal number by its digits without outer zeros and its exponent.    *)
Decimal(ds, k) ==
  LET On == {i \in 1..Len(ds) : ds[i] # 0}
      lo == CHOOSE i \in On : \A j \in On : i <= j
      hi == CHOOSE i \in On : \A j \in On : i >= j
  IN <<SubSeq(ds, lo, hi), k + Len(ds) - hi>>

ReadText(t) ==
  LET Where(c) == {i \in 1..Len(t) : t[i] = c}
      e == IF Where(Exp) = {} THEN Len(t) + 1 ELSE CHOOSE i \in Where(Exp) : TRUE
      point == IF Where(Dot) = {} THEN e - 1 ELSE CHOOSE i \in Where(Dot) : TRUE
      tail == SubSeq(t, e + 1, Len(t))
      exponent == IF tail = <<>> THEN 0
                  ELSE IF Head(tail) = Minus THEN -Number(Tail(tail)) ELSE Number(tail)
  IN Decimal(SelectSeq(SubSeq(t, 1, e - 1), LAMBDA c : c # Dot),
             exponent - (e - 1 - point))

(* Properties.                                                             *)

(* The text of a number reads back as the number.  itoa and ptrtoa stay    *)
(* within maxlen bytes, the NUL included, whatever the number.  With the   *)
(* room LogStream asks for itoa loses nothing of a number that is neither  *)
(* zero nor the least one: the multiplication by 205 is the division by    *)
(* ten.  ptrtoa keeps the low digits, as many as there is room for.  What  *)
(* Prettify makes, plain or with an exponent, denotes the digits and       *)
(* exponent it was given, on both sides of each of its thresholds.         *)
TextReadsBack ==
  /\ q.k = "int" =>
       \A abs \in Magnitudes(q.value) :
         LET t == Itoa(q.maxlen, q.value, abs)
             n == Number(SelectSeq(t, LAMBDA c : c # Minus))
         IN /\ Len(t) < q.maxlen
            /\ q.maxlen > 5 /\ q.value \notin {0, Least8} =>
                 (IF Head(t) = Minus THEN -n ELSE n) = q.value
  /\ q.k = "ptr" =>
       LET t == Ptrtoa(q.maxlen, q.value)
       IN Len(t) < q.maxlen /\
          FoldLeft(LAMBDA n, d : 16 * n + d, 0, t) = q.value % 16^(q.maxlen - 1)
  /\ q.k = "pretty" => ReadText(Prettify(q.ds, q.K)) = Decimal(q.ds, q.K)

(* The product of two significands put together from their halves is the   *)
(* upper half of the exact product, rounded.                               *)
ProductRounded(f, g) ==
  Mul(Fp(f, 0), Fp(g, 0)) = Fp((f * g + 2^(Bits - 1)) \div 2^Bits, Bits)

(* The boundaries Grisu2 works between lie half way to the neighbouring    *)
(* doubles, only nearer below the smallest normal number, and have the     *)
(* exponent of the normalised number.                                      *)
BoundariesHalfway(biased, sig) ==
  LET v == FromDouble(biased, sig)
      u == IF sig = 0 THEN FromDouble(biased - 1, Hidden - 1)
           ELSE FromDouble(biased, sig - 1)
      pl == Plus(v)
      mi == MinusOf(v)
      w == Normalize(v)
      At(n) == n.f * 2^(n.e - pl.e)
  IN /\ w.e = pl.e /\ mi.e = pl.e /\ mi.f < w.f /\ w.f < pl.f
     /\ 2 * pl.f = 2 * At(v) + 2^(v.e - pl.e)
     /\ IF biased = 1 /\ sig = 0 THEN 2 * mi.f > At(v) + At(u)
        ELSE 2 * mi.f = At(v) + At(u)

(* The power of ten found for exponent e is in the table, is the power K   *)
(* says, and brings the product's exponent to -60..-32, where DigitGen's   *)
(* p1 has 32 bits and p2 * 10 does not overflow.                           *)
PowerFits(e) ==
  LET c == GetCachedPower(e)
  IN /\ CachedIndex(e) \in 0..86
     /\ e + c.e + 64 \in -60..-32
     /\ c.e = (-c.K * 3321928) \div 1000000 - 63

(* What Grisu2 gives DigitGen is what DigitGen needs: for all significands *)
(* the rounded product, for every double the interval that reads back as   *)
(* it, for every exponent a power that makes DigitGen's integers wide      *)
(* enough.  The assertions of DiyFp's operator- hold.                      *)
ReadyForDigitGen ==
  /\ q.k = "mul" => ProductRounded(q.f, q.g)
  /\ q.k = "double" => BoundariesHalfway(q.biased, q.sig)
  /\ q.k = "power" => PowerFits(q.e)

(* A result of DigitGen, the upper bound Mp and the width of the interval  *)
(* in units of which all three are multiples.                              *)
Tens(r) == IF r.k < 0 THEN 10^(-r.k) ELSE 1
Unit(r) == 2^q.p * IF r.k < 0 THEN 1 ELSE 10^r.k

(* DigitGen's digits are digits, and the number they stand for lies in the *)
(* interval that reads back as the double.  None with fewer digits does,   *)
(* save that the test behind the decimal point, < where the other is <=,   *)
(* may pass over one at the very end of the interval.  All this even where *)
(* kPow10 is read past its end; within the table, no number of as many     *)
(* digits in the interval is closer to the double than the one GrisuRound  *)
(* leaves.                                                                 *)
ShortestAndNearest ==
  q.k = "gen" =>
    \A r \in DigitGen(q.f, q.p, q.delta, q.wpw) :
      LET x == Number(r.ds) * Unit(r)
          top == q.f * Tens(r)
          bottom == (q.f - q.delta) * Tens(r)
          w == (q.f - q.wpw) * Tens(r)
          short == top % (10 * Unit(r))     \* from Mp down to fewer digits
          Off(y) == IF y > w THEN y - w ELSE w - y
      IN /\ \A i \in 1..Len(r.ds) : r.ds[i] \in 0..9
         /\ Head(r.ds) # 0
         /\ x \in bottom..top
         /\ \/ short > q.delta * Tens(r)
            \/ short = q.delta * Tens(r) /\ r.k < -1
         /\ r.k > -Powers =>
              \A y \in {x - Unit(r), x + Unit(r)} \cap (bottom..top) : Off(x) <= Off(y)
=============================================================================

----------------------------- MODULE BigIntegers -----------------------------
(***************************************************************************)
(* The big integers below RSA and elliptic curves, in words of 15 bits     *)
(* (src/src/bearssl/i15_*.c): a header with the announced length, and      *)
(* words, the least significant first.  The sizes of a word and of a byte  *)
(* are parameters.  Values decide nothing but what is computed: a          *)
(* conditional operation is done in either case, and its result dropped.   *)
(***************************************************************************)
EXTENDS Integers, Sequences

CONSTANTS W,         \* bits of a word (15)
          ByteBits,  \* bits of a byte (8)
          MaxWindow  \* most bits of an exponent that are processed together (5)

ASSUME BigIntegersAssumption == ByteBits \in 1 .. W - 1 /\ W < 2 * ByteBits /\ MaxWindow \in Nat \ {0}

Base == 2 ^ W

(* The header of k full words and r bits is (W + 1) * k + r.               *)
Words(h) == (h + W) \div (W + 1)
Bits(h) == h - (h \div (W + 1))
Blank(h) == [h |-> h, w |-> [i \in 1 .. Words(h) |-> 0]]

(* Every loop over words: digits that may be too large or negative, from   *)
(* the lowest to the highest, with the carry that goes from one to the     *)
(* next.                                                                   *)
RECURSIVE CarryFrom(_, _, _)
CarryFrom(digits, i, carry) ==
  IF i > Len(digits) THEN [w |-> <<>>, cc |-> carry]
  ELSE LET z == digits[i] + carry
           rest == CarryFrom(digits, i + 1, z \div Base)
       IN  [w |-> <<z % Base>> \o rest.w, cc |-> rest.cc]
Carry(digits) == CarryFrom(digits, 1, 0)

i15_add(x, y) == Carry([i \in DOMAIN x |-> x[i] + y[i]])

(* The carry is -1 where the code has a borrow of 1.                       *)
i15_sub(x, y) == Carry([i \in DOMAIN x |-> x[i] - y[i]])

BitLength(n) == CHOOSE k \in 0 .. W : n < 2 ^ k /\ (k = 0 \/ n >= 2 ^ (k - 1))

(* The header of the words w; a full top word counts one bit less than the *)
(* sum of two headers does, and both are in use.                           *)
i15_bit_length(w) ==
  LET used == {i \in DOMAIN w : w[i] # 0}
      top == CHOOSE i \in used : \A j \in used : j <= i
  IN  IF used = {} THEN 0 ELSE (W + 1) * (top - 1) + BitLength(w[top])

-----------------------------------------------------------------------------
(* From bytes, the most significant first, and to bytes.                   *)

RECURSIVE WordsOf(_, _, _)
WordsOf(src, acc, accLen) ==
  IF src = <<>> THEN (IF accLen = 0 THEN <<>> ELSE <<acc>>)
  ELSE LET with == acc + src[Len(src)] * 2 ^ accLen
           front == SubSeq(src, 1, Len(src) - 1)
       IN  IF accLen + ByteBits >= W
           THEN <<with % Base>> \o WordsOf(front, with \div Base, accLen + ByteBits - W)
           ELSE WordsOf(front, with, accLen + ByteBits)

i15_decode(src) == LET w == WordsOf(src, 0, 0) IN [h |-> i15_bit_length(w), w |-> w]

(* The comparison with the modulus, the last word that differs deciding.   *)
RECURSIVE Compare(_, _, _, _)
Compare(x, m, i, r) ==
  LET d == x[i] - (IF i <= Len(m) THEN m[i] ELSE 0)
  IN  IF i > Len(x) THEN r ELSE Compare(x, m, i + 1, IF d < 0 THEN -1 ELSE IF d > 0 THEN 1 ELSE r)

(* Zero bytes go in front, so that a partial last word is zero.            *)
i15_decode_mod(src, m) ==
  LET mlen == Words(m.h)
      tlen == (IF 2 * mlen < Len(src) THEN Len(src) ELSE 2 * mlen) + 4
      padded == [i \in 1 .. tlen - Len(src) |-> 0] \o src
      all == WordsOf(padded, 0, 0)
      words == SubSeq(all, 1, (tlen * ByteBits) \div W)
      fits == Compare(words, m.w, 1, 0) = -1
  IN  [ok |-> fits, x |-> [h |-> m.h, w |-> [i \in 1 .. mlen |-> IF fits THEN words[i] ELSE 0]]]

RECURSIVE BytesOf(_, _, _, _, _)
BytesOf(x, u, len, acc, accLen) ==
  LET more == accLen < ByteBits
      a == acc + (IF more /\ u <= Words(x.h) THEN x.w[u] * 2 ^ accLen ELSE 0)
      l == accLen + (IF more THEN W ELSE 0)
  IN  IF len = 0 THEN <<>>
      ELSE BytesOf(x, IF more THEN u + 1 ELSE u, len - 1, a \div 2 ^ ByteBits, l - ByteBits)
             \o <<a % 2 ^ ByteBits>>

i15_encode(len, x) == BytesOf(x, 1, len, 0, 0)

-----------------------------------------------------------------------------
(* Reduction, word after word.                                             *)

RECURSIVE DivFrom(_, _, _)
DivFrom(x, d, i) ==
  LET ctl == d * 2 ^ i <= x
      rest == DivFrom(IF ctl THEN x - d * 2 ^ i ELSE x, d, i - 1)
  IN  IF i < 0 THEN [q |-> 0, r |-> x]
      ELSE [q |-> rest.q + (IF ctl THEN 2 ^ i ELSE 0), r |-> rest.r]
divrem16(x, d) == DivFrom(x, d, W + 1)

(* The quotient of the upper words may be one or two too large.            *)
QuotientUnclipped(a0, a, b) == LET q == divrem16(a, b).q IN IF q = 0 THEN 0 ELSE q - 1
Quotient(a0, a, b) == IF b = a0 THEN Base - 1 ELSE QuotientUnclipped(a0, a, b)

(* The upper W bits that m or x has at word i, shifted up by W - mblr.     *)
Upper(w, i, mblr) ==
  IF mblr = 0 THEN w[i] ELSE (w[i] * 2 ^ (W - mblr) + w[i - 1] \div 2 ^ mblr) % Base

(* (x * 2^W + z) mod m, for x < m                                          *)
i15_muladd_small(x, z, m) ==
  LET mlen == Words(m.h)
      mblr == m.h % (W + 1)
      hi == x.w[mlen]
      in == <<z>> \o SubSeq(x.w, 1, mlen - 1)
      a0 == Upper(x.w, mlen, mblr)
      q == Quotient(a0, a0 * Base + Upper(in, mlen, mblr), Upper(m.w, mlen, mblr))
      part == Carry([i \in 1 .. mlen |-> in[i] - q * m.w[i]])
      tb == Compare(part.w, m.w, 1, 0) # -1
      w == CASE -part.cc > hi -> i15_add(part.w, m.w).w
             [] -part.cc < hi \/ (-part.cc = hi /\ tb) -> i15_sub(part.w, m.w).w
             [] OTHER -> part.w
  IN  CASE m.h = 0 -> x
        [] m.h \in 1 .. W -> [x EXCEPT !.w[1] = divrem16(x.w[1] * Base + z, m.w[1]).r]
        [] OTHER -> [x EXCEPT !.w = w]

i15_rshift(x, count) ==
  [x EXCEPT !.w = [i \in DOMAIN x.w |->
     x.w[i] \div 2 ^ count
       + (IF i < Len(x.w) THEN (x.w[i + 1] * 2 ^ (W - count)) % Base ELSE 0)]]

(* The bytes that are left, gathered into words; the last ones are less    *)
(* than a word, and x is moved by as many bits to make one.                *)
RECURSIVE InjectBytes(_, _, _, _, _)
InjectBytes(x, src, acc, accLen, m) ==
  LET a == acc * 2 ^ ByteBits + Head(src)
      l == accLen + ByteBits
  IN  CASE src # <<>> /\ l < W -> InjectBytes(x, Tail(src), a, l, m)
        [] src # <<>> /\ l >= W ->
             InjectBytes(i15_muladd_small(x, a \div 2 ^ (l - W), m), Tail(src),
                         a % 2 ^ (l - W), l - W, m)
        [] src = <<>> /\ accLen > 0 ->
             i15_muladd_small(i15_rshift(x, W - accLen), (acc + x.w[1] * 2 ^ accLen) % Base, m)
        [] OTHER -> x

(* As many bytes as are surely below m are taken as they are.              *)
i15_decode_reduce(src, m) ==
  LET k == (Bits(m.h) + ByteBits - 1) \div ByteBits - 1
      direct == WordsOf(SubSeq(src, 1, IF k >= Len(src) THEN Len(src) ELSE k), 0, 0)
      x == [h |-> m.h, w |-> [i \in 1 .. Words(m.h) |-> IF i <= Len(direct) THEN direct[i] ELSE 0]]
  IN  IF m.h = 0 THEN Blank(0)
      ELSE IF k >= Len(src) THEN x
      ELSE InjectBytes(x, SubSeq(src, k + 1, Len(src)), 0, 0, m)

RECURSIVE InjectWords(_, _, _, _)
InjectWords(x, a, u, m) ==
  IF u = 0 THEN x ELSE InjectWords(i15_muladd_small(x, a.w[u], m), a, u - 1, m)

i15_reduce(a, m) ==
  LET mlen == Words(m.h)
      alen == Words(a.h)
  IN  CASE m.h = 0 -> Blank(0)
        [] m.h # 0 /\ a.h < m.h ->
             [h |-> m.h, w |-> [i \in 1 .. mlen |-> IF i <= alen THEN a.w[i] ELSE 0]]
        [] OTHER ->
             InjectWords([h |-> m.h, w |-> SubSeq(a.w, alen - mlen + 2, alen) \o <<0>>],
                         a, 1 + alen - mlen, m)

-----------------------------------------------------------------------------
(* Products, and the arithmetic modulo an odd number.                      *)

(* br_i15_mulacc into d, which holds at least as many words as a and b.    *)
RECURSIVE MulRows(_, _, _, _)
MulRows(d, a, b, u) ==
  LET alen == Words(a.h)
      row == Carry([i \in 1 .. alen |-> d[u + i] + b.w[u + 1] * a.w[i]])
  IN  IF u = Words(b.h) THEN d
      ELSE MulRows(SubSeq(d, 1, u) \o row.w \o <<row.cc>> \o SubSeq(d, u + alen + 2, Len(d)),
                   a, b, u + 1)
SumLength(a, b) ==
  LET dl == (a.h % (W + 1)) + (b.h % (W + 1))
      dh == a.h \div (W + 1) + b.h \div (W + 1)
  IN  (W + 1) * dh + dl + (IF dl >= W THEN 1 ELSE 0)
i15_mulacc(d, a, b) == [h |-> SumLength(a, b), w |-> MulRows(d, a, b, 0)]

(* - 1 / n, for an odd n, by Newton's method                               *)
i15_ninv15(n) ==
  LET step(y) == (y * ((2 - n * y) % Base)) % Base
      y == step(step(step((2 - n) % Base)))
  IN  IF n % 2 = 1 THEN (-y) % Base ELSE 0

RECURSIVE Shift(_, _, _)
Shift(x, k, m) == IF k = 0 THEN x ELSE Shift(i15_muladd_small(x, 0, m), k - 1, m)
i15_to_monty(x, m) == Shift(x, Words(m.h), m)

Below(w, m, carried) ==
  LET less == i15_sub(w, m.w) IN IF carried \/ less.cc = 0 THEN less.w ELSE w

RECURSIVE UnshiftFrom(_, _, _, _)
UnshiftFrom(w, u, m, m0i) ==
  LET f == (w[1] * m0i) % Base
      row == Carry([i \in DOMAIN w |-> w[i] + f * m.w[i]])
  IN  IF u = 0 THEN w ELSE UnshiftFrom(Tail(row.w) \o <<row.cc>>, u - 1, m, m0i)
i15_from_monty(x, m, m0i) ==
  [x EXCEPT !.w = Below(UnshiftFrom(x.w, Words(m.h), m, m0i), m, FALSE)]

RECURSIVE MontyRows(_, _, _, _, _, _, _)
MontyRows(d, dh, u, x, y, m, m0i) ==
  LET f == (((d[1] + x.w[u] * y.w[1]) % Base) * m0i) % Base
      row == Carry([i \in DOMAIN d |-> d[i] + x.w[u] * y.w[i] + f * m.w[i]])
      zh == dh + row.cc
  IN  IF u > Len(d) THEN [w |-> d, dh |-> dh]
      ELSE MontyRows(Tail(row.w) \o <<zh % Base>>, zh \div Base, u + 1, x, y, m, m0i)

(* x * y / 2^(W * words)                                                   *)
i15_montymul(x, y, m, m0i) ==
  LET d == MontyRows(Blank(m.h).w, 0, 1, x, y, m, m0i)
  IN  [h |-> m.h, w |-> Below(d.w, m, d.dh # 0)]

-----------------------------------------------------------------------------
(* What they compute.                                                      *)

RECURSIVE ValueOf(_)
ValueOf(w) == IF w = <<>> THEN 0 ELSE Head(w) + Base * ValueOf(Tail(w))
Value(x) == ValueOf(SubSeq(x.w, 1, Words(x.h)))

RECURSIVE ValueOfBytes(_)
ValueOfBytes(s) ==
  IF s = <<>> THEN 0 ELSE s[Len(s)] + 2 ^ ByteBits * ValueOfBytes(SubSeq(s, 1, Len(s) - 1))

RECURSIVE Split(_, _)
Split(n, len) == IF len = 0 THEN <<>> ELSE <<n % Base>> \o Split(n \div Base, len - 1)

(* A number with its own header, and with that of the modulus m.           *)
Number(n) == LET w == Split(n, 6) IN [h |-> i15_bit_length(w), w |-> SubSeq(w, 1, Words(i15_bit_length(w)))]
Residue(n, m) == [h |-> m.h, w |-> Split(n, Words(m.h))]

=============================================================================

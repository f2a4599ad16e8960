--------------------------- MODULE ModularDivision ---------------------------
(***************************************************************************)
(* Division modulo an odd number (src/src/bearssl/i15_moddiv.c): an        *)
(* extended binary GCD that takes its decisions from the upper two words   *)
(* and the lowest word of a and b, W bits at a time, and applies them to   *)
(* a, b, u and v at once.  A state is one turn of the outer loop.          *)
(***************************************************************************)
EXTENDS BigIntegers, Bitwise

VARIABLE div   \* [m, x, y, a, b, u, v, num, ok]: the operands, and the loop

(* Integers of 32 bits, and those of fewer bits with a sign.               *)
Unsigned(z) == z % 2 ^ (2 * W + 2)
WithSign(z, bits) ==
  LET low == z % 2 ^ bits IN IF low >= 2 ^ (bits - 1) THEN low - 2 ^ bits ELSE low

Negated(w) == CarryFrom([i \in DOMAIN w |-> (Base - 1) - (w[i] % Base)], 1, 1).w
cond_negate(w, ctl) == IF ctl THEN Negated(w) ELSE [i \in DOMAIN w |-> w[i] % Base]

(* The loop of co_reduce and co_reduce_mod: the lowest word is dropped,    *)
(* the carry is a signed number that becomes the top word.                 *)
RECURSIVE Reduced(_, _, _, _)
Reduced(terms, i, carry, bits) ==
  LET z == Unsigned(terms[i] + carry)
      rest == Reduced(terms, i + 1, WithSign(z \div Base, bits), bits)
  IN  IF i > Len(terms) THEN [w |-> <<carry % 2 ^ (W + 1)>>, negative |-> carry < 0]
      ELSE [rest EXCEPT !.w = (IF i = 1 THEN <<>> ELSE <<z % Base>>) \o @]

co_reduce(a, b, pa, pb) ==
  LET r == Reduced([i \in DOMAIN a |-> a[i] * pa + b[i] * pb], 1, 0, W + 1)
  IN  [w |-> cond_negate(r.w, r.negative), negated |-> r.negative]

finish_mod(w, m, neg) ==
  LET below == i15_sub(w, m).cc = -1
      take(i) == IF neg THEN (Base - 1) - m[i] ELSE IF below THEN 0 ELSE m[i]
  IN  CarryFrom([i \in DOMAIN w |-> w[i] - take(i)], 1, IF neg THEN -1 ELSE 0).w

co_reduce_mod(a, b, pa, pb, m, m0i) ==
  LET f == (Unsigned(a[1] * pa + b[1] * pb) * m0i) % Base
      r == Reduced([i \in DOMAIN a |-> a[i] * pa + b[i] * pb + m[i] * f], 1, 0, W + 2)
  IN  finish_mod(r.w, m, r.negative)

(* The upper two words of w, if a or b uses more than one.                 *)
Upper2(w, a, b) ==
  LET used == {i \in DOMAIN a : a[i] # 0 \/ b[i] # 0}
      j == CHOOSE i \in used : \A k \in used : k <= i
  IN  IF used = {} \/ j = 1 THEN w[1] ELSE w[j] * Base + w[j - 1]

-----------------------------------------------------------------------------
(* W steps on the approximate values, gathered in four factors.            *)

(* Mutant: the larger one is taken from the smaller one.                   *)
FactorsReversed(f, i) ==
  LET odd(n) == (n \div 2 ^ i) % 2 = 1
      cAB == odd(f.alo) /\ odd(f.blo) /\ f.ahi <= f.bhi
      cBA == odd(f.alo) /\ odd(f.blo) /\ ~(f.ahi <= f.bhi)
      s == [f EXCEPT !.alo = @ - (IF cAB THEN f.blo ELSE 0), !.ahi = @ - (IF cAB THEN f.bhi ELSE 0),
                     !.blo = @ - (IF cBA THEN f.alo ELSE 0), !.bhi = @ - (IF cBA THEN f.ahi ELSE 0),
                     !.pa = @ - (IF cAB THEN f.qa ELSE 0), !.pb = @ - (IF cAB THEN f.qb ELSE 0),
                     !.qa = @ - (IF cBA THEN f.pa ELSE 0), !.qb = @ - (IF cBA THEN f.pb ELSE 0)]
  IN  IF cAB \/ ~odd(f.alo)
      THEN [s EXCEPT !.ahi = @ \div 2, !.blo = 2 * @, !.qa = 2 * @, !.qb = 2 * @]
      ELSE [s EXCEPT !.bhi = @ \div 2, !.alo = 2 * @, !.pa = 2 * @, !.pb = 2 * @]

Factors(f, i) ==
  LET odd(n) == (n \div 2 ^ i) % 2 = 1
      cAB == odd(f.alo) /\ odd(f.blo) /\ f.ahi > f.bhi
      cBA == odd(f.alo) /\ odd(f.blo) /\ ~(f.ahi > f.bhi)
      s == [f EXCEPT !.alo = @ - (IF cAB THEN f.blo ELSE 0), !.ahi = @ - (IF cAB THEN f.bhi ELSE 0),
                     !.blo = @ - (IF cBA THEN f.alo ELSE 0), !.bhi = @ - (IF cBA THEN f.ahi ELSE 0),
                     !.pa = @ - (IF cAB THEN f.qa ELSE 0), !.pb = @ - (IF cAB THEN f.qb ELSE 0),
                     !.qa = @ - (IF cBA THEN f.pa ELSE 0), !.qb = @ - (IF cBA THEN f.pb ELSE 0)]
  IN  IF cAB \/ ~odd(f.alo)
      THEN [s EXCEPT !.ahi = @ \div 2, !.blo = 2 * @, !.qa = 2 * @, !.qb = 2 * @]
      ELSE [s EXCEPT !.bhi = @ \div 2, !.alo = 2 * @, !.pa = 2 * @, !.pb = 2 * @]

RECURSIVE FactorsFrom(_, _)
FactorsFrom(f, i) == IF i = W THEN f ELSE FactorsFrom(Factors(f, i), i + 1)

-----------------------------------------------------------------------------
(* The modular division x / y of numbers below m.                          *)
DivStart(m, x, y) ==
  div = [m |-> m, x |-> x, y |-> y, a |-> y.w, b |-> m.w, u |-> x.w, v |-> Blank(m.h).w,
         num |-> 2 * Bits(m.h) + W - 1, ok |-> "?"]

DivRound ==
  /\ div.ok = "?" /\ div.num >= W - 1
  /\ LET f == FactorsFrom([alo |-> div.a[1], blo |-> div.b[1],
                           ahi |-> Upper2(div.a, div.a, div.b), bhi |-> Upper2(div.b, div.a, div.b),
                           pa |-> 1, pb |-> 0, qa |-> 0, qb |-> 1], 0)
         a == co_reduce(div.a, div.b, f.pa, f.pb)
         b == co_reduce(div.a, div.b, f.qa, f.qb)
         sa == IF a.negated THEN -1 ELSE 1
         sb == IF b.negated THEN -1 ELSE 1
         m0i == i15_ninv15(div.m.w[1])
     IN  div' = [div EXCEPT
                   !.a = a.w, !.b = b.w,
                   !.u = co_reduce_mod(div.u, div.v, sa * f.pa, sa * f.pb, div.m.w, m0i),
                   !.v = co_reduce_mod(div.u, div.v, sb * f.qa, sb * f.qb, div.m.w, m0i),
                   !.num = @ - (W - 1)]

(* One of a and b is 0, and its u or v is 0 too; both results are joined.  *)
DivEnd ==
  /\ div.ok = "?" /\ div.num < W - 1
  /\ div' = [div EXCEPT
               !.u = [i \in DOMAIN div.u |-> div.u[i] | div.v[i]],
               !.ok = IF {ValueOf(div.a), ValueOf(div.b)} \in {{0, 1}, {1}} THEN "yes" ELSE "no"]

DivNext == DivRound \/ DivEnd

-----------------------------------------------------------------------------
(* The comments state what every turn keeps: a * x = y * u and             *)
(* b * x = y * v modulo m, within their ranges, although the upper words   *)
(* are only estimates and the top word may for a while use one bit more    *)
(* than the others.  And the number of turns is enough, whatever the       *)
(* operands are: the division succeeds exactly when the divisor has an     *)
(* inverse, with the quotient.                                             *)
DivisionCorrect ==
  LET n == Value(div.m)
      x == Value(div.x)
      y == Value(div.y)
      a == ValueOf(div.a)
      b == ValueOf(div.b)
      u == ValueOf(div.u)
      v == ValueOf(div.v)
      invertible == \A d \in 2 .. n : ~(n % d = 0 /\ y % d = 0)
  IN  /\ div.ok = "?" => /\ a <= n /\ b <= n /\ u \in 0 .. n - 1 /\ v \in 0 .. n - 1
                         /\ (a * x - y * u) % n = 0 /\ (b * x - y * v) % n = 0
      /\ div.ok = "yes" => invertible /\ (u * y - x) % n = 0
      /\ div.ok = "no" => ~invertible

=============================================================================

--------------------------------- MODULE Rsa ---------------------------------
(***************************************************************************)
(* The RSA operations (src/src/bearssl/rsa_i15_pub.c, rsa_i15_priv.c) and  *)
(* the exponentiation below them, which takes as many bits at a time as    *)
(* the buffer of its caller has room for powers (i15_modpow2.c).  A state  *)
(* is one turn of the loop over the exponent.                              *)
(***************************************************************************)
EXTENDS BigIntegers

CONSTANTS MaxRsaSize,   \* bits of a modulus (BR_MAX_RSA_SIZE)
          MaxRsaFactor  \* bits of a factor (BR_MAX_RSA_FACTOR)

ASSUME RsaAssumption == MaxRsaSize \in Nat /\ MaxRsaFactor \in Nat /\ MaxWindow <= ByteBits

VARIABLE rsa   \* [op, key, x, stage, r, pow, s2, out]

PublicRoom == 4 * (2 + ((MaxRsaSize + W - 1) \div W))
PrivateRoom == 8 * (2 + ((MaxRsaFactor + W - 1) \div W))

(* A header and its words, rounded up to an even number.                   *)
EvenWords(n) == (1 + n) + ((1 + n) % 2)
WordsOfBytes(len) == EvenWords((len * ByteBits + W - 1) \div W)

RECURSIVE Stripped(_)
Stripped(s) == IF s # <<>> /\ Head(s) = 0 THEN Stripped(Tail(s)) ELSE s

-----------------------------------------------------------------------------
(* br_i15_modpow_opt.  In Montgomery representation, x is the result so    *)
(* far, table[k] the k-th power of the base.                               *)

RECURSIVE Powers(_, _, _, _)
Powers(x, n, m, m0i) ==
  IF n = 1 THEN <<x>>
  ELSE LET lower == Powers(x, n - 1, m, m0i)
       IN  Append(lower, i15_montymul(lower[n - 1], x, m, m0i))

Window(twlen, mwlen) ==
  LET fit == {k \in 2 .. MaxWindow : (2 ^ k + 1) * mwlen <= twlen}
  IN  IF fit = {} THEN 1 ELSE CHOOSE k \in fit : \A l \in fit : l <= k

One(m) ==
  i15_muladd_small([h |-> m.h, w |-> [i \in 1 .. Words(m.h) |-> IF i = Words(m.h) THEN 1 ELSE 0]],
                   0, m)

PowStart(x, e, m, twlen) ==
  LET mwlen == EvenWords(Words(m.h))
      win == Window(twlen, mwlen)
      m0i == i15_ninv15(m.w[1])
      room == twlen >= 2 * mwlen
  IN  [m |-> m, m0i |-> m0i, win |-> win, e |-> IF room THEN e ELSE <<>>, acc |-> 0, acc_len |-> 0,
       room |-> room, x |-> One(m), table |-> Powers(i15_to_monty(x, m), 2 ^ win - 1, m, m0i)]

PowMore(pow) == pow.acc_len > 0 \/ pow.e # <<>>

RECURSIVE Squared(_, _, _)
Squared(x, k, pow) ==
  IF k = 0 THEN x ELSE Squared(i15_montymul(x, x, pow.m, pow.m0i), k - 1, pow)

(* Mutant: the rest of the exponent is taken for a full window.            *)
PowTurnPadded(pow) ==
  LET feed == pow.acc_len < pow.win /\ pow.e # <<>>
      acc == IF feed THEN pow.acc * 2 ^ ByteBits + Head(pow.e) ELSE pow.acc
      len == pow.acc_len + (IF feed THEN ByteBits ELSE 0)
      k == IF len < pow.win THEN len ELSE pow.win
      bits == acc \div 2 ^ (len - k)
      squared == Squared(pow.x, pow.win, pow)
  IN  [pow EXCEPT
         !.e = IF feed THEN Tail(@) ELSE @, !.acc = acc % 2 ^ (len - k), !.acc_len = len - k,
         !.x = IF bits = 0 THEN squared ELSE i15_montymul(squared, pow.table[bits], pow.m, pow.m0i)]

(* One turn: k bits, fewer than a window only at the end of the exponent.  *)
PowTurn(pow) ==
  LET short == pow.acc_len < pow.win
      feed == short /\ pow.e # <<>>
      acc == IF feed THEN pow.acc * 2 ^ ByteBits + Head(pow.e) ELSE pow.acc
      len == pow.acc_len + (IF feed THEN ByteBits ELSE 0)
      k == IF short /\ ~feed THEN len ELSE pow.win
      bits == acc \div 2 ^ (len - k)
      squared == Squared(pow.x, k, pow)
  IN  [pow EXCEPT
         !.e = IF feed THEN Tail(@) ELSE @, !.acc = acc % 2 ^ (len - k), !.acc_len = len - k,
         !.x = IF bits = 0 THEN squared ELSE i15_montymul(squared, pow.table[bits], pow.m, pow.m0i)]

PowEnd(pow) == i15_from_monty(pow.x, pow.m, pow.m0i)

-----------------------------------------------------------------------------

(* br_rsa_i15_public: what is refused at once, and the exponentiation.     *)
PublicStart(key, x) ==
  LET n == Stripped(key.n)
      m == i15_decode(n)
      a == i15_decode_mod(x, m)
      odd == i15_ninv15(m.w[1]) % 2 = 1
      room == PublicRoom - 2 * WordsOfBytes(Len(n))
  IN  rsa = IF n = <<>> \/ Len(n) > MaxRsaSize \div ByteBits \/ Len(x) # Len(n)
            THEN [op |-> "public", key |-> key, x |-> x, stage |-> "done", r |-> FALSE, out |-> x]
            ELSE [op |-> "public", key |-> key, x |-> x, stage |-> "public", r |-> odd /\ a.ok,
                  pow |-> PowStart(a.x, key.e, m, room)]

PublicEnd ==
  /\ rsa.stage = "public" /\ ~PowMore(rsa.pow)
  /\ rsa' = [op |-> "public", key |-> rsa.key, x |-> rsa.x, stage |-> "done", r |-> rsa.r,
             out |-> i15_encode(Len(rsa.x), PowEnd(rsa.pow))]

(* br_i15_mulacc into the low words of d; it overwrites those above them.  *)
AddProduct(d, a, b) ==
  i15_mulacc(d \o [i \in 1 .. Words(b.h) |-> Base - 1], a, b)

(* br_rsa_i15_private: modulo the factor q, then modulo p, then both.      *)
PrivateStart(key, x) ==
  LET p == Stripped(key.p)
      q == Stripped(key.q)
      fwlen == WordsOfBytes(IF Len(p) > Len(q) THEN Len(p) ELSE Len(q))
      mp == i15_decode(p)
      mq == i15_decode(q)
      n == i15_encode(Len(x), AddProduct(Blank(mq.h).w, mq, mp))
  IN  rsa = IF 6 * fwlen > PrivateRoom
            THEN [op |-> "private", key |-> key, x |-> x, stage |-> "done", r |-> FALSE, out |-> x]
            ELSE [op |-> "private", key |-> key, x |-> x, stage |-> "q", fwlen |-> fwlen, mp |-> mp,
                  r |-> ValueOfBytes(x) < ValueOfBytes(n),
                  pow |-> PowStart(i15_decode_reduce(x, mq), key.dq, mq, PrivateRoom - 3 * fwlen)]

PrivateSecond ==
  /\ rsa.stage = "q" /\ ~PowMore(rsa.pow)
  /\ rsa' = [op |-> "private", key |-> rsa.key, x |-> rsa.x, stage |-> "p",
             r |-> rsa.r /\ rsa.pow.room, mq |-> rsa.pow.m, q0i |-> rsa.pow.m0i,
             s2 |-> PowEnd(rsa.pow),
             pow |-> PowStart(i15_decode_reduce(rsa.x, rsa.mp), rsa.key.dp, rsa.mp,
                              PrivateRoom - 4 * rsa.fwlen)]

(* s2 + q * h, where h is (s1 - s2) / q modulo p                           *)
Joined(s1, s2, mp, mq, p0i, iq) ==
  LET less == i15_sub(s1.w, i15_reduce(s2, mp).w)
      diff == [h |-> mp.h, w |-> IF less.cc = -1 THEN i15_add(less.w, mp.w).w ELSE less.w]
      h == i15_montymul(i15_to_monty(diff, mp), i15_decode_reduce(iq, mp), mp, p0i)
  IN  AddProduct(s2.w, mq, h)

PrivateEnd ==
  /\ rsa.stage = "p" /\ ~PowMore(rsa.pow)
  /\ LET mp == rsa.pow.m
         p0i == rsa.pow.m0i
         s == Joined(PowEnd(rsa.pow), rsa.s2, mp, rsa.mq, p0i, rsa.key.iq)
     IN  rsa' = [op |-> "private", key |-> rsa.key, x |-> rsa.x, stage |-> "done",
                 r |-> rsa.r /\ rsa.pow.room /\ p0i % 2 = 1 /\ rsa.q0i % 2 = 1,
                 out |-> i15_encode(Len(rsa.x), s)]

RsaTurn ==
  /\ rsa.stage \in {"public", "q", "p"} /\ PowMore(rsa.pow)
  /\ rsa' = [rsa EXCEPT !.pow = PowTurn(@)]

RsaNext == RsaTurn \/ PublicEnd \/ PrivateSecond \/ PrivateEnd

-----------------------------------------------------------------------------
RECURSIVE PowMod(_, _, _)
PowMod(b, e, n) ==
  IF e = 0 THEN 1 % n
  ELSE LET half == PowMod(b, e \div 2, n)
           square == (half * half) % n
       IN  IF e % 2 = 0 THEN square ELSE (square * b) % n

(* Whatever the lengths of the factors, of the windows and of the leading  *)
(* zeros: the operation succeeds exactly for an odd modulus and a number   *)
(* below it (with the length of the modulus, for the public one), and what *)
(* it then returns is the power of that number modulo n.                   *)
RsaComputesPower ==
  LET key == rsa.key
      n == ValueOfBytes(key.n)
      x == ValueOfBytes(rsa.x)
      e == ValueOfBytes(IF rsa.op = "public" THEN key.e ELSE key.d)
      proper == n % 2 = 1 /\ x < n /\ (rsa.op = "public" => Len(rsa.x) = Len(Stripped(key.n)))
  IN  rsa.stage = "done" =>
        /\ rsa.r <=> proper
        /\ proper => ValueOfBytes(rsa.out) = PowMod(x, e, n)

=============================================================================

-------------------------------- MODULE Hmac --------------------------------
(***************************************************************************)
(* HMAC (src/src/bearssl/hmac.c), and its computation over data of secret  *)
(* length, where the same bytes are read and the same rounds done for      *)
(* every length between two bounds (src/src/bearssl/hmac_ct.c).            *)
(***************************************************************************)
EXTENDS Hash

(* Exclusive or of two bytes, bit by bit.                                  *)
XorOctets(a, b) ==
  LET bit(k) == k * ((a \div k + b \div k) % 2)
  IN  bit(1) + bit(2) + bit(4) + bit(8) + bit(16) + bit(32) + bit(64) + bit(128)
Xor36 == [b \in Octets |-> XorOctets(b, 54)]
Xor5C == [b \in Octets |-> XorOctets(b, 92)]
Masked(mask, bytes) == [i \in DOMAIN bytes |-> mask[bytes[i]]]

(* process_key: the state after the block of the key.                      *)
ProcessKey(key, mask) ==
  State(Update(HashInit, Masked(mask, key \o Zeros(BlockLen - Len(key)))))

(* br_hmac_key_init; a key longer than a block is hashed first.            *)
HmacKey(key) ==
  LET short == IF Len(key) > BlockLen THEN Out(Update(HashInit, key)) ELSE key
  IN  [ksi |-> ProcessKey(short, Xor36), kso |-> ProcessKey(short, Xor5C)]

(* br_hmac_init, with the length of the output it settles.                 *)
HmacInit(kc, outLen) ==
  [dig |-> SetState(kc.ksi, BlockLen), kso |-> kc.kso,
   out_len |-> IF outLen > 0 /\ outLen < DigestLen THEN outLen ELSE DigestLen]

HmacUpdate(ctx, data) == [ctx EXCEPT !.dig = Update(@, data)]

(* The outer hash, over the inner one.                                     *)
Outer(ctx, inner) ==
  SubSeq(Out(Update(SetState(ctx.kso, BlockLen), inner)), 1, ctx.out_len)

HmacOut(ctx) == Outer(ctx, Out(ctx.dig))

-----------------------------------------------------------------------------
(* br_hmac_outCT: ctx has seen the first bytes, the rest is the first len  *)
(* bytes of data, where minLen <= len <= maxLen.                           *)

Down(n) == n - (n % BlockLen)
Up(n) == Down(n + BlockLen - 1)

Po == LengthLen + 1   \* shortest padding

(* Mutant: the encoded length starts one byte late.                        *)
PlacesShifted(kr, len, maxLen) ==
  LET kz == Up(kr + len + Po) - 1 - kr
  IN  [kz |-> kz, kl |-> kz - (LengthLen - 2), km |-> Up(kr + maxLen + Po) - kr]

(* Where the padding ends, where the length starts, where the loop ends.   *)
Places(kr, len, maxLen) ==
  LET kz == Up(kr + len + Po) - 1 - kr
  IN  [kz |-> kz, kl |-> kz - (LengthLen - 1), km |-> Up(kr + maxLen + Po) - kr]

(* One byte of the loop: the byte that is hashed, and the state that is    *)
(* kept if the block it ends is the last one of the message.               *)
CTByte(u, at, data, len, maxLen, total, kr) ==
  LET d == IF u < maxLen THEN data[u + 1] ELSE 0
      v == (kr + u) % BlockLen
      e == IF v >= BlockLen - LengthLen
           THEN EncodedLength(total)[v - (BlockLen - LengthLen) + 1] ELSE 0
  IN  CASE u < len -> d
        [] u = len -> 128
        [] OTHER -> IF u < at.kl THEN 0 ELSE e

CTTurn(s, u, at, data, len, maxLen, total, kr) ==
  LET hc == Update(s.hc, <<CTByte(u, at, data, len, maxLen, total, kr)>>)
      ends == (kr + u) % BlockLen = BlockLen - 1
  IN  [hc |-> hc, inner |-> IF ends /\ u = at.kz THEN State(hc) ELSE s.inner]

CTLoop(hc, at, data, len, maxLen, total, kr) ==
  LET turn[u \in 0 .. at.km] ==
        IF u = 0 THEN [hc |-> hc, inner |-> 0]
        ELSE CTTurn(turn[u - 1], u - 1, at, data, len, maxLen, total, kr)
  IN  turn[at.km].inner

HmacOutCT(ctx, data, len, minLen, maxLen) ==
  LET count == ctx.dig.count
      sure == Down(count + minLen) - count      \* bytes hashed whatever len is
      z == IF sure > 0 THEN sure ELSE 0
      kr == (count + z) % BlockLen
      inner == CTLoop(Update(ctx.dig, SubSeq(data, 1, z)), Places(kr, len - z, maxLen - z),
                      SubSeq(data, z + 1, Len(data)), len - z, maxLen - z, count + len, kr)
  IN  Outer(ctx, Encode(inner))

-----------------------------------------------------------------------------
(* HMAC, as defined by RFC 2104.                                           *)

Hmac(key, message) ==
  LET short == IF Len(key) > BlockLen THEN Digest(key) ELSE key
      block == short \o Zeros(BlockLen - Len(short))
  IN  Digest(Masked(Xor5C, block) \o Digest(Masked(Xor36, block) \o message))

=============================================================================

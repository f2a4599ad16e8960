---------------------------- MODULE RecordSizes ----------------------------
(***************************************************************************)
(* Where the bytes of a TLS record go: the arithmetic of the five record   *)
(* formats of the engine (src/src/bearssl/ssl_rec_*.c, and the "clear"     *)
(* format of ssl_engine.c).  A format is a record that says how many bytes *)
(* precede the plaintext and how many follow it; the cryptography itself   *)
(* is left out, only its effect on offsets and lengths is kept.            *)
(*                                                                         *)
(* MaxPlain is the constant 16384 of the code and MaxPad its constant 256  *)
(* (the padding allowance of CBC records); they are parameters so that     *)
(* the whole module can also be explored with small numbers.               *)
(***************************************************************************)
EXTENDS Integers

CONSTANTS MaxPlain,  \* largest plaintext of one record
          MaxPad     \* largest padding of one CBC record

ASSUME MaxPlainAssumption == MaxPlain \in Nat \ {0}
ASSUME MaxPadAssumption == MaxPad \in Nat \ {0}

HeaderLen == 5

-----------------------------------------------------------------------------
(* Formats.  An AEAD format is characterised by the length of its explicit *)
(* nonce and of its tag; a CBC format by its block, its MAC, and whether   *)
(* each record carries its own IV (TLS 1.1 and later).                     *)

Clear == [kind |-> "clear"]
Aead(nonce, tag) == [kind |-> "aead", nonce |-> nonce, tag |-> tag]
Cbc(blen, mac, explicit) ==
  [kind |-> "cbc", blen |-> blen, mac |-> mac, explicit |-> explicit]

GcmFormat == Aead(8, 16)
CcmFormat(tag_len) == Aead(8, tag_len)
ChapolFormat == Aead(0, 16)

AeadFormats == [kind : {"aead"}, nonce : Nat, tag : Nat]
BlockLens == {2, 8, 16}
CbcFormats == [kind : {"cbc"}, blen : BlockLens, mac : Nat, explicit : BOOLEAN]
Formats == {Clear} \cup AeadFormats \cup CbcFormats

(* The formats the cipher suites of the client select: 3DES and AES in CBC *)
(* mode with HMAC/SHA-1, SHA-256 or SHA-384, AES/GCM, AES/CCM, ChaCha20.   *)
SuiteFormats ==
  {GcmFormat, CcmFormat(8), CcmFormat(16), ChapolFormat}
    \cup {Cbc(b, m, x) : b \in {8, 16}, m \in {20, 32, 48}, x \in BOOLEAN}

-----------------------------------------------------------------------------
(* x & ~(b - 1), for the powers of two that are block lengths.             *)
RoundDown(x, b) == b * (x \div b)

(* Length after adding 1 .. b padding bytes to reach a multiple of b.      *)
Padded(x, b) == b * (x \div b) + b

(* The whole body of the one-byte record that precedes the rest of an      *)
(* application record under TLS 1.0 (the 1/n-1 split).                     *)
SplitLen(f) == RoundDown(f.mac + f.blen + 1, f.blen)

(* Bytes kept free between the record header and the plaintext.            *)
HeadRoom(f) ==
  CASE f.kind = "clear" -> 0
    [] f.kind = "aead"  -> f.nonce
    [] f.kind = "cbc"   -> IF f.explicit THEN f.blen ELSE 4 + SplitLen(f)

AtMost(x, limit) == IF x > limit THEN limit ELSE x

(* *_max_plaintext: given the space [start, end) that follows the header,  *)
(* the offset of the plaintext and the offset of its end.                  *)
PlainStart(f, start) == start + HeadRoom(f)

CbcPlainLen(f, space) == RoundDown(space, f.blen) - (1 + f.mac)

PlainEnd(f, start, end) ==
  LET a == PlainStart(f, start) IN
  a + CASE f.kind = "clear" -> AtMost(end - a, MaxPlain)
        [] f.kind = "aead"  -> AtMost(end - a - f.tag, MaxPlain)
        [] f.kind = "cbc"   -> AtMost(CbcPlainLen(f, end - a), MaxPlain)

(* No size_t subtraction of *_max_plaintext wraps around, and room is left *)
(* for at least one byte.                                                  *)
Fits(f, start, end) ==
  LET a == PlainStart(f, start) IN
  CASE f.kind = "clear" -> end - a > 0
    [] f.kind = "aead"  -> end - a - f.tag > 0
    [] f.kind = "cbc"   -> end - a > 0 /\ CbcPlainLen(f, end - a) > 0

-----------------------------------------------------------------------------
(* *_encrypt of the len bytes at offset data: the first and the last+1     *)
(* offset the resulting record (or pair of records) occupies.              *)

Splits(f, isApp, len) ==
  f.kind = "cbc" /\ ~f.explicit /\ isApp /\ len > 1

WireStart(f, isApp, data, len) ==
  IF f.kind = "cbc" /\ ~f.explicit
  THEN IF Splits(f, isApp, len)
       THEN data - 4 - SplitLen(f) - HeaderLen
       ELSE data - HeaderLen
  ELSE data - HeadRoom(f) - HeaderLen

WireEnd(f, isApp, data, len) ==
  CASE f.kind = "clear" -> data + len
    [] f.kind = "aead"  -> data + len + f.tag
    [] f.kind = "cbc"   ->
         IF Splits(f, isApp, len)
         THEN data + 1 + Padded(len - 1 + f.mac, f.blen)
         ELSE data + Padded(len + f.mac, f.blen)

-----------------------------------------------------------------------------
(* *_check_length: the record lengths accepted from a header once the      *)
(* format is active, and the plaintext lengths decryption may then yield.  *)

CbcMinLen(f) == RoundDown(f.blen + f.mac, f.blen) + (IF f.explicit THEN f.blen ELSE 0)
CbcMaxLen(f) ==
  RoundDown(MaxPlain + MaxPad + f.mac, f.blen) + (IF f.explicit THEN f.blen ELSE 0)

CheckLength(f, rlen) ==
  CASE f.kind = "clear" -> rlen <= MaxPlain
    [] f.kind = "aead"  -> rlen >= f.nonce + f.tag /\ rlen <= MaxPlain + f.nonce + f.tag
    [] f.kind = "cbc"   -> CbcMinLen(f) <= rlen /\ rlen <= CbcMaxLen(f)

(* The offset of the plaintext in the record body, and the plaintext       *)
(* lengths a body of rlen bytes may decrypt to.                            *)
BodySkip(f) ==
  CASE f.kind = "clear" -> 0
    [] f.kind = "aead"  -> f.nonce
    [] f.kind = "cbc"   -> IF f.explicit THEN f.blen ELSE 0

Payloads(f, rlen) ==
  CASE f.kind = "clear" -> {rlen}
    [] f.kind = "aead"  -> {rlen - f.nonce - f.tag}
    [] f.kind = "cbc"   ->
         {n \in 0 .. MaxPlain : \E pad \in 1 .. MaxPad :
             n + f.mac + pad = rlen - BodySkip(f)}

=============================================================================

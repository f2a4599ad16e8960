-------------------------------- MODULE Hash --------------------------------
(***************************************************************************)
(* The streaming hash functions of BearSSL: a message arrives in pieces,   *)
(* is gathered in a block, and whole blocks go through a round function    *)
(* (src/src/bearssl/sha1.c; md5.c and sha2small.c have the same shape).    *)
(* The round function and the lengths are parameters.                      *)
(***************************************************************************)
EXTENDS Integers, Sequences

CONSTANTS BlockLen,     \* length of a block, a power of two
          LengthLen,    \* length of the encoded message length
          DigestLen,
          Start,        \* initial state
          Round(_, _),  \* the next state, from a state and a block
          Encode(_)     \* DigestLen bytes, from a state

ASSUME HashAssumption ==
  /\ BlockLen \in Nat /\ LengthLen \in 1 .. BlockLen - 1
  /\ DigestLen \in 1 .. BlockLen

Octets == 0 .. 255
Zeros(n) == [i \in 1 .. n |-> 0]

(* memcpy(buf + at, data)                                                  *)
Put(buf, at, data) ==
  [i \in DOMAIN buf |-> IF i - at \in DOMAIN data THEN data[i - at] ELSE buf[i]]

(* The bytes of a length in bits, the most significant first.              *)
Bytes(x, n) ==
  LET rest[k \in 0 .. n] == IF k = 0 THEN x ELSE rest[k - 1] \div 256
  IN  [i \in 1 .. n |-> rest[n - i] % 256]
EncodedLength(count) == Bytes(8 * count, LengthLen)

-----------------------------------------------------------------------------
(* A context: [buf, count, val].                                           *)

HashInit == [buf |-> Zeros(BlockLen), count |-> 0, val |-> Start]
Ptr(cc) == cc.count % BlockLen

Fill(cc, data) ==
  LET filled == Put(cc.buf, Ptr(cc), data)
  IN  [buf |-> filled, count |-> cc.count + Len(data),
       val |-> IF Ptr(cc) + Len(data) = BlockLen THEN Round(cc.val, filled) ELSE cc.val]

(* One turn of the loop of update: what fits in the block.                 *)
FillTurn(t) ==
  LET room == BlockLen - Ptr(t.cc)
      clen == IF room > Len(t.left) THEN Len(t.left) ELSE room
  IN  IF t.left = <<>> THEN t
      ELSE [cc |-> Fill(t.cc, SubSeq(t.left, 1, clen)), left |-> SubSeq(t.left, clen + 1, Len(t.left))]

Update(cc, data) ==
  LET turn[n \in 0 .. Len(data)] ==
        IF n = 0 THEN [cc |-> cc, left |-> data] ELSE FillTurn(turn[n - 1])
  IN  turn[Len(data)].cc

(* Mutant: a block whose length just does not fit is not closed first.     *)
OutShort(cc) ==
  LET ptr == Ptr(cc) + 1
      head == SubSeq(cc.buf, 1, ptr - 1) \o <<128>>
  IN  Encode(Round(cc.val, Put(head \o Zeros(BlockLen - ptr), BlockLen - LengthLen,
                               EncodedLength(cc.count))))

(* The padding and the final rounds, on copies of the buffer and the state *)
Out(cc) ==
  LET ptr == Ptr(cc) + 1
      room == BlockLen - LengthLen
      head == SubSeq(cc.buf, 1, ptr - 1) \o <<128>>
      length == EncodedLength(cc.count)
  IN  Encode(IF ptr > room
             THEN Round(Round(cc.val, head \o Zeros(BlockLen - ptr)), Zeros(room) \o length)
             ELSE Round(cc.val, head \o Zeros(room - ptr) \o length))

(* state and set_state: the chaining value at a block boundary.            *)
State(cc) == cc.val
SetState(val, count) == [buf |-> Zeros(BlockLen), count |-> count, val |-> val]

-----------------------------------------------------------------------------
(* What they compute: the padded message, block after block.               *)

Padding(len) ==
  LET fill == (2 * BlockLen - LengthLen - 1 - (len % BlockLen)) % BlockLen
  IN  <<128>> \o Zeros(fill) \o EncodedLength(len)

Rounds(val, bytes) ==
  LET after[n \in 0 .. Len(bytes) \div BlockLen] ==
        IF n = 0 THEN val
        ELSE Round(after[n - 1], SubSeq(bytes, (n - 1) * BlockLen + 1, n * BlockLen))
  IN  after[Len(bytes) \div BlockLen]

Digest(message) == Encode(Rounds(Start, message \o Padding(Len(message))))

=============================================================================

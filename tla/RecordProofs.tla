---------------------------- MODULE RecordProofs ----------------------------
(***************************************************************************)
(* First, facts about the record formats for every buffer size: a record   *)
(* assembled from plaintext that *_max_plaintext allowed stays inside the  *)
(* output buffer, and a record accepted by its header decrypts inside the  *)
(* input buffer.                                                           *)
(*                                                                         *)
(* Then the safety of the record buffers, proved for every buffer size,    *)
(* every set of record formats and every sequence of record lengths: the   *)
(* offsets always have one of the shapes of Inv, so no area leaves its     *)
(* buffer, the engine is never stuck and no byte of a record is lost.  The *)
(* offsets implement the abstract channel of records.                      *)
(*                                                                         *)
(* Then the protection of records under the AEAD suites, for any record    *)
(* types, payloads, versions and suites, and any number of records: the    *)
(* records that are opened are those that were sent, in their order.  A    *)
(* tag shows the key and the number of the context that made it.  The      *)
(* contexts in which records are sent follow each other, so that no two    *)
(* have the same key and number, and the receiver is in the context of the *)
(* next record.                                                            *)
(*                                                                         *)
(* Last, the hash functions and what is built of them, for any block and   *)
(* digest length, round function and encoding of the digest: a message     *)
(* that arrives in pieces has the digest of the whole; HMAC, and its       *)
(* computation over data of secret length, are those of RFC 2104; the      *)
(* constant-time check of a CBC record accepts exactly the records whose   *)
(* padding and MAC are right; and the hash objects implement the stream of *)
(* digests that they promise.                                              *)
(***************************************************************************)
EXTENDS RecordBufferProps, AeadRecord, CbcRecord, ShaStream, WellFoundedInduction, SequenceTheorems, TLAPS

(* Rounding down to a multiple of the block length.                        *)
LEMMA RoundDownBounds ==
  ASSUME NEW x \in Nat, NEW b \in BlockLens
  PROVE  /\ RoundDown(x, b) \in Nat
         /\ RoundDown(x, b) <= x /\ x < RoundDown(x, b) + b
<1>1. CASE b = 2 BY <1>1 DEF RoundDown
<1>2. CASE b = 8 BY <1>2 DEF RoundDown
<1>3. CASE b = 16 BY <1>3 DEF RoundDown
<1> QED BY <1>1, <1>2, <1>3 DEF BlockLens

(* Padding adds 1 .. b bytes.                                              *)
LEMMA PaddedBounds ==
  ASSUME NEW x \in Nat, NEW b \in BlockLens
  PROVE  /\ Padded(x, b) \in Nat
         /\ x < Padded(x, b) /\ Padded(x, b) <= x + b
<1>1. CASE b = 2 BY <1>1 DEF Padded
<1>2. CASE b = 8 BY <1>2 DEF Padded
<1>3. CASE b = 16 BY <1>3 DEF Padded
<1> QED BY <1>1, <1>2, <1>3 DEF BlockLens

(* Padding something shorter than a whole number of blocks does not        *)
(* exceed it.                                                              *)
LEMMA PaddedInRounded ==
  ASSUME NEW x \in Nat, NEW y \in Nat, NEW b \in BlockLens,
         x < RoundDown(y, b)
  PROVE  Padded(x, b) <= RoundDown(y, b)
<1>1. CASE b = 2 BY <1>1 DEF Padded, RoundDown
<1>2. CASE b = 8 BY <1>2 DEF Padded, RoundDown
<1>3. CASE b = 16 BY <1>3 DEF Padded, RoundDown
<1> QED BY <1>1, <1>2, <1>3 DEF BlockLens

(* A format is one of the three kinds, with the fields of that kind.       *)
LEMMA FormatKinds ==
  ASSUME NEW f \in Formats
  PROVE  \/ f = Clear /\ f.kind = "clear"
         \/ /\ f.kind = "aead" /\ f.nonce \in Nat /\ f.tag \in Nat
         \/ /\ f.kind = "cbc" /\ f.blen \in BlockLens
            /\ f.mac \in Nat /\ f.explicit \in BOOLEAN
BY DEF Formats, Clear, AeadFormats, CbcFormats

LEMMA HeadRoomNat ==
  ASSUME NEW f \in Formats
  PROVE  HeadRoom(f) \in Nat
<1>1. CASE f.kind = "clear" BY <1>1 DEF HeadRoom
<1>2. CASE f.kind = "aead" BY <1>2, FormatKinds DEF HeadRoom
<1>3. CASE f.kind = "cbc"
  <2>1. f.blen \in BlockLens /\ f.mac \in Nat /\ f.explicit \in BOOLEAN
    BY <1>3, FormatKinds
  <2>2. f.blen \in Nat
    BY <2>1 DEF BlockLens
  <2>3. SplitLen(f) \in Nat
    BY <2>1, <2>2, RoundDownBounds DEF SplitLen
  <2> QED BY <1>3, <2>1, <2>2, <2>3 DEF HeadRoom
<1> QED BY <1>1, <1>2, <1>3, FormatKinds

(* *_max_plaintext leaves a non-empty area between start and end.          *)
LEMMA PlainArea ==
  ASSUME NEW f \in Formats, NEW start \in Nat, NEW end \in Int,
         Fits(f, start, end)
  PROVE  /\ PlainStart(f, start) \in Nat /\ start <= PlainStart(f, start)
         /\ PlainEnd(f, start, end) \in Nat
         /\ PlainStart(f, start) < PlainEnd(f, start, end)
         /\ PlainEnd(f, start, end) <= end
<1> DEFINE a == PlainStart(f, start)
<1>1. a \in Nat /\ start <= a
  BY HeadRoomNat DEF PlainStart
<1> HIDE DEF a
<1>2. MaxPlain \in Nat /\ MaxPlain > 0
  BY MaxPlainAssumption
<1>3. CASE f.kind = "clear"
  <2>1. PlainEnd(f, start, end) = a + AtMost(end - a, MaxPlain)
    BY <1>3 DEF PlainEnd, a
  <2>2. end - a > 0
    BY <1>3 DEF Fits, a
  <2> QED BY <1>1, <1>2, <2>1, <2>2 DEF AtMost, a
<1>4. CASE f.kind = "aead"
  <2>1. PlainEnd(f, start, end) = a + AtMost(end - a - f.tag, MaxPlain)
    BY <1>4 DEF PlainEnd, a
  <2>2. end - a - f.tag > 0 /\ f.tag \in Nat
    BY <1>4, FormatKinds DEF Fits, a
  <2> QED BY <1>1, <1>2, <2>1, <2>2 DEF AtMost, a
<1>5. CASE f.kind = "cbc"
  <2>1. PlainEnd(f, start, end) = a + AtMost(CbcPlainLen(f, end - a), MaxPlain)
    BY <1>5 DEF PlainEnd, a
  <2>2. end - a > 0 /\ CbcPlainLen(f, end - a) > 0
    BY <1>5 DEF Fits, a
  <2>3. f.blen \in BlockLens /\ f.mac \in Nat
    BY <1>5, FormatKinds
  <2>4. end - a \in Nat
    BY <1>1, <2>2
  <2>5. RoundDown(end - a, f.blen) \in Nat /\ RoundDown(end - a, f.blen) <= end - a
    BY <2>3, <2>4, RoundDownBounds
  <2>6. CbcPlainLen(f, end - a) = RoundDown(end - a, f.blen) - (1 + f.mac)
    BY DEF CbcPlainLen
  <2>7. CbcPlainLen(f, end - a) \in Nat /\ CbcPlainLen(f, end - a) <= end - a
    BY <2>2, <2>3, <2>4, <2>5, <2>6
  <2> QED BY <1>1, <1>2, <2>1, <2>2, <2>7 DEF AtMost, a
<1> QED BY <1>3, <1>4, <1>5, FormatKinds

(* What PlainEnd leaves after the plaintext, per kind of format.           *)
LEMMA PlainEndRoom ==
  ASSUME NEW f \in Formats, NEW start \in Nat, NEW end \in Int,
         Fits(f, start, end)
  PROVE  LET a == PlainStart(f, start)
             b == PlainEnd(f, start, end)
         IN  /\ f.kind = "aead" => b + f.tag <= end
             /\ f.kind = "cbc" => b + 1 + f.mac <= a + RoundDown(end - a, f.blen)
<1> DEFINE a == PlainStart(f, start)
           b == PlainEnd(f, start, end)
<1>1. a \in Nat /\ b \in Nat /\ MaxPlain \in Nat
  BY PlainArea, MaxPlainAssumption
<1>2. CASE f.kind = "aead"
  <2>1. b = a + AtMost(end - a - f.tag, MaxPlain)
    BY <1>2 DEF PlainEnd
  <2>2. f.tag \in Nat
    BY <1>2, FormatKinds
  <2> HIDE DEF a, b
  <2>3. b + f.tag <= end
    BY <1>1, <2>1, <2>2 DEF AtMost
  <2> QED BY <1>2, <2>3 DEF a, b
<1>3. CASE f.kind = "cbc"
  <2>1. b = a + AtMost(CbcPlainLen(f, end - a), MaxPlain)
    BY <1>3 DEF PlainEnd
  <2>2. CbcPlainLen(f, end - a) = RoundDown(end - a, f.blen) - (1 + f.mac)
    BY DEF CbcPlainLen
  <2>3. f.blen \in BlockLens /\ f.mac \in Nat
    BY <1>3, FormatKinds
  <2>4. end - a \in Nat
    BY <1>1, <1>3 DEF Fits
  <2>5. RoundDown(end - a, f.blen) \in Nat
    BY <2>3, <2>4, RoundDownBounds
  <2> HIDE DEF a, b
  <2>6. b + 1 + f.mac <= a + RoundDown(end - a, f.blen)
    BY <1>1, <2>1, <2>2, <2>3, <2>5 DEF AtMost
  <2> QED BY <1>3, <2>6 DEF a, b
<1>4. CASE f.kind = "clear" BY <1>4
<1> QED BY <1>2, <1>3, <1>4, FormatKinds

(* A record assembled from any part of the area that starts at its         *)
(* beginning, up to the end of the area, occupies bytes between the        *)
(* header's place and HeaderLen bytes past the area; those last bytes are  *)
(* the ones make_ready_out leaves unused at the end of the buffer.  With   *)
(* the 1/n-1 split they are needed: the second record starts one byte      *)
(* further than the plaintext did.                                         *)
THEOREM AssembledInBounds ==
  ASSUME NEW f \in Formats, NEW start \in Nat, NEW end \in Int,
         start >= HeaderLen, Fits(f, start, end),
         NEW isApp \in BOOLEAN, NEW len \in Nat,
         PlainStart(f, start) + len <= PlainEnd(f, start, end)
  PROVE  LET data == PlainStart(f, start) IN
         /\ WireStart(f, isApp, data, len) \in Nat
         /\ WireEnd(f, isApp, data, len) \in Nat
         /\ start - HeaderLen <= WireStart(f, isApp, data, len)
         /\ WireStart(f, isApp, data, len) < WireEnd(f, isApp, data, len)
         /\ WireEnd(f, isApp, data, len) <= end + HeaderLen
<1> DEFINE a == PlainStart(f, start)
           b == PlainEnd(f, start, end)
<1>1. /\ a \in Nat /\ start <= a
      /\ b \in Nat /\ a < b /\ b <= end /\ a + len <= b
  BY PlainArea
<1>2. HeaderLen = 5
  BY DEF HeaderLen
<1>3. CASE f.kind = "clear"
  <2>1. a = start
    BY <1>3 DEF PlainStart, HeadRoom
  <2>2. /\ WireStart(f, isApp, a, len) = a - HeaderLen
        /\ WireEnd(f, isApp, a, len) = a + len
    BY <1>3, <1>1, <1>2 DEF WireStart, WireEnd, HeadRoom
  <2> HIDE DEF a, b
  <2>3. /\ WireStart(f, isApp, a, len) \in Nat /\ WireEnd(f, isApp, a, len) \in Nat
        /\ start - HeaderLen <= WireStart(f, isApp, a, len)
        /\ WireStart(f, isApp, a, len) < WireEnd(f, isApp, a, len)
        /\ WireEnd(f, isApp, a, len) <= end + HeaderLen
    BY <1>1, <1>2, <2>1, <2>2
  <2> QED BY <2>3 DEF a
<1>4. CASE f.kind = "aead"
  <2>1. f.nonce \in Nat /\ f.tag \in Nat
    BY <1>4, FormatKinds
  <2>2. a = start + f.nonce
    BY <1>4 DEF PlainStart, HeadRoom
  <2>3. b + f.tag <= end
    BY <1>4, PlainEndRoom
  <2>4. /\ WireStart(f, isApp, a, len) = a - f.nonce - HeaderLen
        /\ WireEnd(f, isApp, a, len) = a + len + f.tag
    BY <1>4 DEF WireStart, WireEnd, HeadRoom
  <2> HIDE DEF a, b
  <2>5. /\ WireStart(f, isApp, a, len) \in Nat /\ WireEnd(f, isApp, a, len) \in Nat
        /\ start - HeaderLen <= WireStart(f, isApp, a, len)
        /\ WireStart(f, isApp, a, len) < WireEnd(f, isApp, a, len)
        /\ WireEnd(f, isApp, a, len) <= end + HeaderLen
    BY <1>1, <1>2, <2>1, <2>2, <2>3, <2>4
  <2> QED BY <2>5 DEF a
<1>5. CASE f.kind = "cbc"
  <2> DEFINE R == RoundDown(end - a, f.blen)
             S == SplitLen(f)
  <2>1. /\ f.blen \in BlockLens /\ f.blen \in Nat /\ f.blen > 0
        /\ f.mac \in Nat /\ f.explicit \in BOOLEAN
    BY <1>5, FormatKinds DEF BlockLens
  <2>2. end - a \in Nat
    BY <1>1
  <2>3. R \in Nat /\ R <= end - a
    BY <2>1, <2>2, RoundDownBounds
  <2>4. b + 1 + f.mac <= a + R
    BY <1>5, PlainEndRoom
  <2>5. S \in Nat
    BY <2>1, RoundDownBounds DEF SplitLen
  <2>6. CASE Splits(f, isApp, len)
    <3>1. len > 1 /\ ~f.explicit
      BY <2>6 DEF Splits
    <3>2. a = start + 4 + S
      BY <1>5, <2>1, <2>5, <3>1 DEF PlainStart, HeadRoom
    <3>3. WireStart(f, isApp, a, len) = a - 4 - S - HeaderLen
      BY <1>5, <2>6, <3>1 DEF WireStart
    <3>4. WireEnd(f, isApp, a, len) = a + 1 + Padded(len - 1 + f.mac, f.blen)
      BY <1>5, <2>6 DEF WireEnd
    <3> DEFINE x == len - 1 + f.mac
               P == Padded(x, f.blen)
    <3>5. x \in Nat
      BY <2>1, <3>1
    <3>6. P \in Nat /\ x < P
      BY <2>1, <3>5, PaddedBounds
    <3> HIDE DEF a, b, R, S, P
    <3>7. x < R
      BY <1>1, <2>1, <2>3, <2>4
    <3>8. P <= R
      BY <2>1, <2>2, <3>5, <3>7, PaddedInRounded DEF P, R
    <3> HIDE DEF x
    <3>9. WireEnd(f, isApp, a, len) = a + 1 + P
      BY <3>4 DEF P, x
    <3>10. /\ WireStart(f, isApp, a, len) \in Nat /\ WireEnd(f, isApp, a, len) \in Nat
           /\ start - HeaderLen <= WireStart(f, isApp, a, len)
           /\ WireStart(f, isApp, a, len) < WireEnd(f, isApp, a, len)
           /\ WireEnd(f, isApp, a, len) <= end + HeaderLen
      BY <1>1, <1>2, <2>3, <2>5, <3>2, <3>3, <3>5, <3>6, <3>8, <3>9
    <3> QED BY <3>10 DEF a
  <2>7. CASE ~Splits(f, isApp, len)
    <3> DEFINE x == len + f.mac
               P == Padded(x, f.blen)
               H == HeadRoom(f)
               W == IF f.explicit THEN a - H - HeaderLen ELSE a - HeaderLen
    <3>1. WireStart(f, isApp, a, len) = W
      BY <1>5, <2>1, <2>7 DEF WireStart
    <3>2. WireEnd(f, isApp, a, len) = a + P
      BY <1>5, <2>7 DEF WireEnd
    <3>3. x \in Nat
      BY <2>1
    <3>4. P \in Nat /\ x < P
      BY <2>1, <3>3, PaddedBounds
    <3>5. H \in Nat /\ a = start + H
      BY HeadRoomNat DEF PlainStart
    <3> HIDE DEF a, b, R, P, H
    <3>6. x < R
      BY <1>1, <2>1, <2>3, <2>4
    <3>7. P <= R
      BY <2>1, <2>2, <3>3, <3>6, PaddedInRounded DEF P, R
    <3>8. W \in Nat /\ start - HeaderLen <= W /\ W <= a
      BY <1>1, <1>2, <2>1, <3>5
    <3> HIDE DEF x, W
    <3>9. /\ WireStart(f, isApp, a, len) \in Nat /\ WireEnd(f, isApp, a, len) \in Nat
          /\ start - HeaderLen <= WireStart(f, isApp, a, len)
          /\ WireStart(f, isApp, a, len) < WireEnd(f, isApp, a, len)
          /\ WireEnd(f, isApp, a, len) <= end + HeaderLen
      BY <1>1, <1>2, <2>3, <3>1, <3>2, <3>3, <3>4, <3>7, <3>8
    <3> QED BY <3>9 DEF a
  <2> QED BY <2>6, <2>7
<1> QED BY <1>3, <1>4, <1>5, FormatKinds

(* Every cipher suite fits every output buffer that set_buffers_bidi       *)
(* accepts, which has at least 512 bytes plus MAX_OUT_OVERHEAD (85): the   *)
(* subtractions of *_max_plaintext never wrap around.                      *)
THEOREM SuitesFit ==
  ASSUME NEW f \in SuiteFormats \cup {Clear},
         NEW obuf_len \in Nat, obuf_len >= 512 + 85
  PROVE  f \in Formats /\ Fits(f, HeaderLen, obuf_len - HeaderLen)
<1>1. HeaderLen = 5
  BY DEF HeaderLen
<1>2. CASE f = Clear
  BY <1>1, <1>2 DEF Clear, Formats, Fits, PlainStart, HeadRoom
<1>3. CASE f \in {GcmFormat, CcmFormat(8), CcmFormat(16), ChapolFormat}
  <2>1. PICK nonce \in {0, 8}, tag \in {8, 16} :
          f = [kind |-> "aead", nonce |-> nonce, tag |-> tag]
    BY <1>3 DEF GcmFormat, CcmFormat, ChapolFormat, Aead
  <2>2. f \in Formats
    BY <2>1 DEF Formats, AeadFormats
  <2>3. f.kind = "aead" /\ f.nonce = nonce /\ f.tag = tag
    BY <2>1
  <2>4. PlainStart(f, HeaderLen) = HeaderLen + nonce
    BY <2>3 DEF PlainStart, HeadRoom
  <2>5. obuf_len - HeaderLen - (HeaderLen + nonce) - tag > 0
    BY <1>1
  <2> QED BY <2>2, <2>3, <2>4, <2>5 DEF Fits
<1>4. ASSUME NEW b \in {8, 16}, NEW mac \in {20, 32, 48}, NEW x \in BOOLEAN,
             f = Cbc(b, mac, x)
      PROVE  f \in Formats /\ Fits(f, HeaderLen, obuf_len - HeaderLen)
  <2>1. /\ f.kind = "cbc" /\ f.blen = b /\ f.mac = mac /\ f.explicit = x
        /\ f \in Formats /\ b \in BlockLens
    BY <1>4 DEF Cbc, Formats, CbcFormats, BlockLens
  <2> DEFINE S == SplitLen(f)
             a == PlainStart(f, HeaderLen)
             space == obuf_len - HeaderLen - a
             R == RoundDown(space, b)
  <2>2. S \in Nat /\ S <= 65
    BY <1>4, <2>1, RoundDownBounds DEF SplitLen
  <2>3. a \in Nat /\ a <= 74
    <3> HIDE DEF S
    <3>1. a = HeaderLen + (IF x THEN b ELSE 4 + S)
      BY <2>1 DEF PlainStart, HeadRoom, S
    <3> QED BY <1>1, <1>4, <2>2, <3>1
  <2> HIDE DEF a
  <2>4. space \in Nat /\ space >= 518
    BY <1>1, <2>3
  <2> HIDE DEF space
  <2>5. R \in Nat /\ space < R + b
    BY <2>1, <2>4, RoundDownBounds
  <2>6. CbcPlainLen(f, space) = R - (1 + mac)
    BY <2>1 DEF CbcPlainLen
  <2> HIDE DEF R
  <2>7. CbcPlainLen(f, space) > 0
    BY <1>4, <2>4, <2>5, <2>6
  <2>8. obuf_len - HeaderLen - a > 0 /\ CbcPlainLen(f, obuf_len - HeaderLen - a) > 0
    BY <2>4, <2>7 DEF space
  <2> QED BY <2>1, <2>8 DEF Fits, a
<1> QED BY <1>2, <1>3, <1>4 DEF SuiteFormats

(* A record whose length was accepted decrypts, if it does, to plaintext   *)
(* that lies inside its own body.                                          *)
THEOREM PayloadInBody ==
  ASSUME NEW f \in Formats, NEW size \in Nat, CheckLength(f, size),
         NEW n \in Payloads(f, size)
  PROVE  /\ n \in Nat /\ BodySkip(f) \in Nat
         /\ BodySkip(f) + n <= size
<1>1. CASE f.kind = "clear"
  BY <1>1 DEF Payloads, BodySkip
<1>2. CASE f.kind = "aead"
  BY <1>2, FormatKinds DEF Payloads, BodySkip, CheckLength
<1>3. CASE f.kind = "cbc"
  <2>1. f.blen \in Nat /\ f.mac \in Nat /\ f.explicit \in BOOLEAN
    BY <1>3, FormatKinds DEF BlockLens
  <2>2. BodySkip(f) \in Nat
    BY <1>3, <2>1 DEF BodySkip
  <2>3. n \in 0 .. MaxPlain
    BY <1>3 DEF Payloads
  <2>4. PICK pad \in 1 .. MaxPad : n + f.mac + pad = size - BodySkip(f)
    BY <1>3 DEF Payloads
  <2> QED BY <2>1, <2>2, <2>3, <2>4, MaxPlainAssumption, MaxPadAssumption
<1> QED BY <1>1, <1>2, <1>3, FormatKinds

-----------------------------------------------------------------------------
(* The record buffers.                                                     *)

(* The current output format is one of the constants.                      *)
LEMMA OutFormatFits ==
  ASSUME NEW f \in OutFormats \cup {Clear}
  PROVE  f \in Formats /\ Fits(f, HeaderLen, OBufLen - HeaderLen)
BY FormatAssumption DEF Formats

LEMMA InFormatOK ==
  ASSUME NEW f \in InFormats \cup {Clear}
  PROVE  f \in Formats
BY FormatAssumption DEF Formats

(* The area make_ready_out opens: non-empty, and inside what the format    *)
(* allows.                                                                 *)
LEMMA ReadyArea ==
  ASSUME NEW f \in OutFormats \cup {Clear}, NEW mfl \in FragLens
  PROVE  LET last == PlainEnd(f, HeaderLen, OBufLen - HeaderLen) IN
         /\ ReadyStart(f) \in Nat /\ HeaderLen <= ReadyStart(f)
         /\ ReadyEnd(f, mfl) \in Nat /\ last \in Nat
         /\ ReadyStart(f) < ReadyEnd(f, mfl)
         /\ ReadyEnd(f, mfl) <= last /\ last <= OBufLen - HeaderLen
<1> DEFINE a == ReadyStart(f)
           b == PlainEnd(f, HeaderLen, OBufLen - HeaderLen)
<1>1. HeaderLen \in Nat /\ HeaderLen = 5
  BY DEF HeaderLen
<1>2. OBufLen - HeaderLen \in Int
  BY <1>1, BufferAssumption
<1>3. /\ a \in Nat /\ HeaderLen <= a
      /\ b \in Nat /\ a < b /\ b <= OBufLen - HeaderLen
  BY <1>1, <1>2, OutFormatFits, PlainArea DEF ReadyStart
<1>4. mfl \in Nat /\ mfl > 0
  BY LengthAssumption
<1>5. ReadyEnd(f, mfl) = IF b - a > mfl THEN a + mfl ELSE b
  BY DEF ReadyEnd
<1> HIDE DEF a, b
<1>6. /\ ReadyEnd(f, mfl) \in Nat
      /\ a < ReadyEnd(f, mfl) /\ ReadyEnd(f, mfl) <= b
  BY <1>3, <1>4, <1>5
<1> QED BY <1>3, <1>6 DEF a, b

(* Assembling what was gathered yields a record inside the output buffer.  *)
LEMMA AssembleKeepsShape ==
  ASSUME Inv, Gathering, NEW last \in Nat, NEW isApp \in BOOLEAN,
         oxa <= last,
         last <= PlainEnd(outf, HeaderLen, OBufLen - HeaderLen),
         Assemble(last, isApp)
  PROVE  /\ oxa' \in Nat /\ oxb' \in Nat /\ oxc' \in Nat /\ pay' \in Nat
         /\ Sending'
<1> DEFINE a == PlainStart(outf, HeaderLen)
           len == last - oxc
<1>1. outf \in OutFormats \cup {Clear} /\ oxa \in Nat /\ oxc \in Nat
  BY DEF Inv, TypeOK
<1>2. outf \in Formats /\ Fits(outf, HeaderLen, OBufLen - HeaderLen)
  BY <1>1, OutFormatFits
<1>3. oxc = a /\ oxc <= oxa
  BY DEF Gathering, ReadyStart
<1>4. len \in Nat /\ a + len = last
  BY <1>1, <1>3
<1>5. HeaderLen \in Nat /\ OBufLen \in Nat /\ OBufLen - HeaderLen \in Int
  BY BufferAssumption DEF HeaderLen
<1>6. /\ WireStart(outf, isApp, a, len) \in Nat
      /\ WireEnd(outf, isApp, a, len) \in Nat
      /\ WireStart(outf, isApp, a, len) < WireEnd(outf, isApp, a, len)
      /\ WireEnd(outf, isApp, a, len) <= (OBufLen - HeaderLen) + HeaderLen
  BY <1>2, <1>4, <1>5, AssembledInBounds
<1>7. /\ oxa' = WireStart(outf, isApp, a, len) /\ oxb' = oxa'
      /\ oxc' = WireEnd(outf, isApp, a, len) /\ pay' = len
  BY <1>3 DEF Assemble
<1> QED BY <1>4, <1>5, <1>6, <1>7 DEF Sending

(* The input side of a fresh record.                                       *)
LEMMA FreshInShape ==
  ASSUME FreshIn
  PROVE  /\ ixa' \in Nat /\ ixb' \in Nat /\ ixc' \in Nat
         /\ rlen' \in Nat /\ taken' \in Nat
         /\ InShape'
<1> QED BY BufferAssumption DEF FreshIn, InShape, AwaitingHeader, HeaderLen

LEMMA FreshOutShape ==
  ASSUME NEW f \in OutFormats \cup {Clear}, NEW mfl \in FragLens,
         FreshOut(f, mfl), outf' = f
  PROVE  /\ oxa' \in Nat /\ oxb' \in Nat /\ oxc' \in Nat /\ pay' \in Nat
         /\ OutShape'
<1>1. /\ ReadyStart(f) \in Nat /\ ReadyEnd(f, mfl) \in Nat
      /\ ReadyStart(f) < ReadyEnd(f, mfl)
      /\ ReadyEnd(f, mfl) <= PlainEnd(f, HeaderLen, OBufLen - HeaderLen)
  BY ReadyArea
<1>2. /\ oxa' = ReadyStart(f) /\ oxc' = ReadyStart(f)
      /\ oxb' = ReadyEnd(f, mfl) /\ pay' = 0
  BY DEF FreshOut
<1>3. Gathering'
  BY <1>1, <1>2 DEF Gathering
<1> QED BY <1>1, <1>2, <1>3 DEF OutShape

-----------------------------------------------------------------------------
(* Inv holds initially.                                                    *)
LEMMA InvInit == Init => Inv
<1> SUFFICES ASSUME Init PROVE Inv
  OBVIOUS
<1>1. outf = Clear /\ max_frag_len \in FragLens
  BY DEF Init
<1>2. /\ ReadyStart(Clear) \in Nat /\ ReadyEnd(Clear, max_frag_len) \in Nat
      /\ ReadyStart(Clear) < ReadyEnd(Clear, max_frag_len)
      /\ ReadyEnd(Clear, max_frag_len)
            <= PlainEnd(Clear, HeaderLen, OBufLen - HeaderLen)
  BY <1>1, ReadyArea
<1>3. TypeOK
  BY <1>1, <1>2 DEF Init, TypeOK, Modes, HeaderLen
<1>4. InShape
  BY BufferAssumption DEF Init, InShape, AwaitingHeader, HeaderLen
<1>5. OutShape
  BY <1>2 DEF Init, OutShape, Gathering
<1> QED BY <1>3, <1>4, <1>5 DEF Inv

(* Bytes from the transport.                                               *)
LEMMA InvRecvrec ==
  ASSUME Inv, recvrec_ack
  PROVE  Inv'
<1>1. PICK len \in 1 .. RecvrecLen :
        /\ \/ RecvPartOfHeader(len)
           \/ \E n \in RecordLens : RecvHeader(len, n)
           \/ RecvBadHeader(len)
           \/ RecvClearBody(len)
           \/ RecvPartOfBody(len)
           \/ \E n \in 0 .. rlen : RecvEndOfBody(len, n)
           \/ RecvBadBody(len)
        /\ UNCHANGED outVars
  BY DEF recvrec_ack
<1>2. /\ iomode \in {"IN", "INOUT"} /\ ixa = ixb
      /\ len \in Nat /\ len > 0 /\ len <= ixc /\ ixa + len <= IBufLen
  <2>1. ixa \in Nat /\ ixb \in Nat /\ ixc \in Nat /\ IBufLen \in Nat /\ ixb <= IBufLen
    BY BufferAssumption DEF Inv, TypeOK, InShape
  <2>2. Receiving /\ ixa = ixb
    BY <1>1 DEF RecvrecLen
  <2>3. len <= AtMost(ixc, IBufLen - ixa) /\ len \in Int /\ len >= 1
    BY <1>1, <2>1, <2>2 DEF RecvrecLen, AtMost
  <2> QED BY <2>1, <2>2, <2>3 DEF AtMost, Receiving
<1>3. /\ ixa \in Nat /\ ixc \in Nat /\ rlen \in Nat /\ taken \in Nat
      /\ inf \in InFormats \cup {Clear} /\ inf \in Formats
      /\ IBufLen \in Nat /\ IBufLen > HeaderLen /\ HeaderLen = 5
  BY InFormatOK, BufferAssumption DEF Inv, TypeOK, HeaderLen
<1>4. ModeAfterBytes \in {"IN", "INOUT"} /\ ModeAfterIn(ModeAfterBytes) \in Modes
  BY <1>2 DEF ModeAfterBytes, ModeAfterIn, Modes
<1>5. AwaitingHeader \/ ClearBody \/ AwaitingBody
  BY <1>2, <1>3 DEF Inv, InShape, DecryptedBody
<1> DEFINE InOK == /\ iomode' \in Modes /\ inf' \in InFormats \cup {Clear}
                   /\ ixa' \in Nat /\ ixb' \in Nat /\ ixc' \in Nat
                   /\ rlen' \in Nat /\ taken' \in Nat
                   /\ InShape'
<1>6. SUFFICES InOK
  <2>1. UNCHANGED <<oxa, oxb, oxc, outf, max_frag_len, pay>>
    BY <1>1 DEF outVars
  <2>2. OutShape'
    BY <2>1 DEF Inv, OutShape, Gathering, Sending
  <2> QED BY <2>1, <2>2 DEF Inv, TypeOK
<1>7. CASE RecvPartOfHeader(len)
  <2>1. AwaitingHeader
    BY <1>2, <1>3, <1>5, <1>7 DEF RecvPartOfHeader, ClearBody, AwaitingBody
  <2> QED BY <1>2, <1>3, <1>4, <1>7, <2>1
          DEF RecvPartOfHeader, AwaitingHeader, InShape, Modes
<1>8. CASE \E n \in RecordLens : RecvHeader(len, n)
  <2>1. PICK n \in RecordLens : RecvHeader(len, n)
    BY <1>8
  <2>2. n \in Nat
    BY LengthAssumption
  <2>3. inf' = inf
    BY <2>1 DEF RecvHeader
  <2>4. CASE HeaderRefused(n)
    BY <1>2, <1>3, <2>1, <2>3, <2>4 DEF RecvHeader, InShape, Modes
  <2>5. CASE ~HeaderRefused(n) /\ n = 0
    <3>1. FreshIn /\ iomode' \in Modes
      BY <1>4, <2>1, <2>5 DEF RecvHeader
    <3> QED BY <1>3, <2>3, <3>1, FreshInShape
  <2>6. CASE ~HeaderRefused(n) /\ n # 0
    <3>1. /\ ixa' = HeaderLen /\ ixb' = HeaderLen /\ ixc' = n
          /\ rlen' = n /\ taken' = 0 /\ iomode' = ModeAfterBytes
      BY <2>1, <2>6 DEF RecvHeader
    <3>2. CheckLength(inf, n) /\ (inf = Clear \/ n <= IBufLen - HeaderLen)
      BY <1>3, <2>2, <2>6 DEF HeaderRefused
    <3>3. CASE inf = Clear
      BY <1>3, <1>4, <2>2, <2>3, <2>6, <3>1, <3>3 DEF InShape, ClearBody, Modes
    <3>4. CASE inf # Clear
      <4>1. CheckLength(inf', rlen')
        BY <2>3, <3>1, <3>2
      <4>2. AwaitingBody'
        BY <1>3, <2>2, <2>3, <2>6, <3>1, <3>2, <3>4, <4>1 DEF AwaitingBody
      <4> QED BY <1>3, <1>4, <2>2, <2>3, <3>1, <4>2 DEF InShape, Modes
    <3> QED BY <3>3, <3>4
  <2> QED BY <2>4, <2>5, <2>6
<1>9. CASE RecvBadHeader(len)
  BY <1>2, <1>3, <1>9 DEF RecvBadHeader, InShape, Modes
<1>10. CASE RecvClearBody(len)
  <2>1. ClearBody
    BY <1>2, <1>3, <1>5, <1>10 DEF RecvClearBody, AwaitingHeader, AwaitingBody
  <2> QED BY <1>2, <1>3, <1>4, <1>10, <2>1
          DEF RecvClearBody, ClearBody, InShape, Modes
<1>11. CASE RecvPartOfBody(len)
  <2>1. AwaitingBody
    BY <1>2, <1>3, <1>5, <1>11 DEF RecvPartOfBody, AwaitingHeader, ClearBody
  <2>2. /\ ixa' = ixa + len /\ ixb' = ixa + len /\ ixc' = ixc - len
        /\ len < ixc /\ UNCHANGED <<inf, rlen, taken>>
        /\ iomode' = ModeAfterBytes
    BY <1>11 DEF RecvPartOfBody
  <2>3. AwaitingBody'
    <3>1. CheckLength(inf', rlen')
      BY <2>1, <2>2 DEF AwaitingBody
    <3> QED BY <1>2, <1>3, <2>1, <2>2, <3>1 DEF AwaitingBody
  <2> QED BY <1>2, <1>3, <1>4, <2>2, <2>3 DEF InShape, Modes
<1>12. CASE \E n \in 0 .. rlen : RecvEndOfBody(len, n)
  <2>1. PICK n \in 0 .. rlen : RecvEndOfBody(len, n)
    BY <1>12
  <2>2. AwaitingBody
    BY <1>2, <1>3, <1>5, <2>1 DEF RecvEndOfBody, AwaitingHeader, ClearBody
  <2>3. inf' = inf /\ n \in Payloads(inf, rlen)
    BY <2>1 DEF RecvEndOfBody
  <2>4. CASE n = 0
    <3>1. FreshIn /\ iomode' \in Modes
      BY <1>4, <2>1, <2>4 DEF RecvEndOfBody
    <3> QED BY <1>3, <2>3, <3>1, FreshInShape
  <2>5. CASE n # 0
    <3>1. /\ ixa' = HeaderLen + BodySkip(inf)
          /\ ixb' = HeaderLen + BodySkip(inf) + n
          /\ ixc' = 0 /\ iomode' = ModeAfterBytes
          /\ UNCHANGED <<rlen, taken>>
      BY <2>1, <2>5 DEF RecvEndOfBody
    <3>2. n \in Nat /\ BodySkip(inf) \in Nat /\ BodySkip(inf) + n <= rlen
      BY <1>3, <2>2, <2>3, PayloadInBody DEF AwaitingBody
    <3>3. rlen <= IBufLen - HeaderLen /\ inf # Clear
      BY <2>2 DEF AwaitingBody
    <3>4. DecryptedBody'
      BY <1>3, <2>3, <2>5, <3>1, <3>2, <3>3 DEF DecryptedBody
    <3> QED BY <1>3, <1>4, <2>3, <3>1, <3>2, <3>3, <3>4 DEF InShape, Modes
  <2> QED BY <2>4, <2>5
<1>13. CASE RecvBadBody(len)
  BY <1>2, <1>3, <1>13 DEF RecvBadBody, InShape, Modes
<1> QED BY <1>1, <1>7, <1>8, <1>9, <1>10, <1>11, <1>12, <1>13

(* Plaintext taken by the consumer.                                        *)
LEMMA TakePayloadShape ==
  ASSUME Inv, NEW len \in 1 .. RecvpldLen, TakePayload(len),
         inf' = inf \/ (inf' \in InFormats /\ recvrec_finished /\ len = RecvpldLen)
  PROVE  /\ iomode' \in Modes /\ inf' \in InFormats \cup {Clear}
         /\ ixa' \in Nat /\ ixb' \in Nat /\ ixc' \in Nat
         /\ rlen' \in Nat /\ taken' \in Nat
         /\ InShape'
<1>1. /\ ixa \in Nat /\ ixb \in Nat /\ ixc \in Nat /\ rlen \in Nat /\ taken \in Nat
      /\ inf \in InFormats \cup {Clear} /\ iomode \in Modes
      /\ IBufLen \in Nat /\ IBufLen > HeaderLen /\ HeaderLen = 5
      /\ ixa <= ixb /\ ixb <= IBufLen
  BY BufferAssumption DEF Inv, TypeOK, InShape, HeaderLen
<1>2. /\ Receiving /\ RecvpldLen = ixb - ixa
      /\ len \in Nat /\ len > 0 /\ ixa + len <= ixb
  BY <1>1 DEF RecvpldLen
<1>3. ClearBody \/ DecryptedBody
  BY <1>1, <1>2 DEF Inv, InShape, AwaitingHeader, AwaitingBody, Receiving
<1>4. CASE ixa + len # ixb
  <2>1. inf' = inf
    BY <1>1, <1>2, <1>4
  <2>2. /\ ixa' = ixa + len /\ taken' = taken + len
        /\ UNCHANGED <<ixb, ixc, rlen, iomode>>
    BY <1>4 DEF TakePayload
  <2>3. ClearBody' \/ DecryptedBody'
    BY <1>1, <1>2, <1>3, <1>4, <2>1, <2>2 DEF ClearBody, DecryptedBody
  <2> QED BY <1>1, <1>2, <2>1, <2>2, <2>3 DEF InShape
<1>5. CASE ixa + len = ixb /\ ixc = 0
  <2>1. FreshIn /\ iomode' \in Modes
    BY <1>1, <1>5 DEF TakePayload, ModeAfterIn, Modes
  <2> QED BY <1>1, <2>1, FreshInShape
<1>6. CASE ixa + len = ixb /\ ixc # 0
  <2>1. inf' = inf
    BY <1>1, <1>2, <1>3, <1>6
       DEF recvrec_finished, ClearBody, DecryptedBody, Receiving
  <2>2. /\ ixa' = HeaderLen /\ ixb' = HeaderLen /\ taken' = taken + len
        /\ UNCHANGED <<ixc, rlen, iomode>>
    BY <1>6 DEF TakePayload
  <2>3. ClearBody'
    BY <1>1, <1>2, <1>3, <1>6, <2>1, <2>2 DEF ClearBody, DecryptedBody
  <2> QED BY <1>1, <1>2, <2>1, <2>2, <2>3 DEF InShape
<1> QED BY <1>4, <1>5, <1>6

LEMMA OutUnchanged ==
  ASSUME Inv, UNCHANGED outVars
  PROVE  /\ oxa' \in Nat /\ oxb' \in Nat /\ oxc' \in Nat /\ pay' \in Nat
         /\ outf' \in OutFormats \cup {Clear} /\ max_frag_len' \in FragLens
         /\ OutShape'
BY DEF Inv, TypeOK, outVars, OutShape, Gathering, Sending

LEMMA InvRecvpld ==
  ASSUME Inv, recvpld_ack
  PROVE  Inv'
<1>1. PICK len \in 1 .. RecvpldLen :
        TakePayload(len) /\ UNCHANGED <<inf, outVars>>
  BY DEF recvpld_ack
<1>2. UNCHANGED outVars /\ inf' = inf
  BY <1>1
<1> QED BY <1>1, <1>2, TakePayloadShape, OutUnchanged DEF Inv, TypeOK

LEMMA InvReadCCS ==
  ASSUME Inv, NEW f \in InFormats, ReadChangeCipherSpec(f)
  PROVE  Inv'
<1>1. 1 \in 1 .. RecvpldLen /\ TakePayload(1) /\ RecvpldLen = 1
  BY DEF ReadChangeCipherSpec
<1>2. inf' \in InFormats /\ recvrec_finished /\ UNCHANGED outVars
  BY DEF ReadChangeCipherSpec
<1> QED BY <1>1, <1>2, TakePayloadShape, OutUnchanged DEF Inv, TypeOK

-----------------------------------------------------------------------------
LEMMA InUnchanged ==
  ASSUME Inv, UNCHANGED inVars, iomode' = "FAILED" \/ iomode # "FAILED"
  PROVE  /\ inf' \in InFormats \cup {Clear}
         /\ ixa' \in Nat /\ ixb' \in Nat /\ ixc' \in Nat
         /\ rlen' \in Nat /\ taken' \in Nat
         /\ InShape'
<1>1. UNCHANGED <<ixa, ixb, ixc, inf, rlen, taken>>
  BY DEF inVars
<1> QED BY <1>1 DEF Inv, TypeOK, InShape, AwaitingHeader, ClearBody,
                    AwaitingBody, DecryptedBody

(* Plaintext given to the engine, with or without completing a record.     *)
LEMMA InvSendpld ==
  ASSUME Inv, sendpld_ack
  PROVE  Inv'
<1>1. PICK len \in 1 .. SendpldLen, isApp \in BOOLEAN :
        /\ iomode' = ModeAfterPayload
        /\ IF oxa + len >= oxb
           THEN Assemble(oxa + len, isApp)
           ELSE oxa' = oxa + len /\ UNCHANGED <<oxb, oxc, pay>>
        /\ UNCHANGED <<outf, max_frag_len, inVars>>
  BY DEF sendpld_ack
<1>2. /\ oxa \in Nat /\ oxb \in Nat /\ oxc \in Nat /\ pay \in Nat
      /\ outf \in OutFormats \cup {Clear} /\ max_frag_len \in FragLens
  BY DEF Inv, TypeOK
<1>3. /\ Emitting /\ len \in Nat /\ len > 0 /\ oxa + len <= oxb
  BY <1>1, <1>2 DEF SendpldLen
<1>4. Gathering
  BY <1>2, <1>3 DEF Inv, OutShape, Sending
<1>5. iomode' \in Modes /\ iomode # "FAILED" /\ UNCHANGED inVars
  BY <1>1, <1>3 DEF ModeAfterPayload, Modes, Emitting
<1>6. CASE oxa + len >= oxb
  <2>1. PlainEnd(outf, HeaderLen, OBufLen - HeaderLen) \in Nat
    BY <1>2, ReadyArea
  <2>2. /\ oxa + len \in Nat /\ oxa <= oxa + len
        /\ oxa + len <= PlainEnd(outf, HeaderLen, OBufLen - HeaderLen)
    BY <1>2, <1>3, <1>4, <2>1 DEF Gathering
  <2>3. Assemble(oxa + len, isApp)
    BY <1>1, <1>6
  <2>4. /\ oxa' \in Nat /\ oxb' \in Nat /\ oxc' \in Nat /\ pay' \in Nat
        /\ Sending'
    BY <1>4, <2>2, <2>3, AssembleKeepsShape
  <2> QED BY <1>1, <1>2, <1>5, <2>4, InUnchanged DEF Inv, TypeOK, OutShape
<1>7. CASE ~(oxa + len >= oxb)
  <2>1. oxa' = oxa + len /\ UNCHANGED <<oxb, oxc, pay, outf, max_frag_len>>
    BY <1>1, <1>7
  <2>2. Gathering'
    BY <1>2, <1>3, <1>4, <1>7, <2>1 DEF Gathering
  <2> QED BY <1>2, <1>3, <1>5, <2>1, <2>2, InUnchanged DEF Inv, TypeOK, OutShape
<1> QED BY <1>6, <1>7

LEMMA InvFlush ==
  ASSUME Inv, NEW force \in ForceValues, sendpld_flush(force)
  PROVE  Inv'
<1>1. PICK isApp \in BOOLEAN : Assemble(oxa, isApp)
  BY DEF sendpld_flush
<1>2. /\ iomode # "FAILED" /\ oxa # oxb
      /\ UNCHANGED <<iomode, outf, max_frag_len>> /\ UNCHANGED inVars
  BY DEF sendpld_flush
<1>3. /\ oxa \in Nat /\ oxb \in Nat
      /\ outf \in OutFormats \cup {Clear} /\ max_frag_len \in FragLens
      /\ iomode \in Modes
  BY DEF Inv, TypeOK
<1>4. Gathering
  BY <1>2 DEF Inv, OutShape, Sending
<1>5. PlainEnd(outf, HeaderLen, OBufLen - HeaderLen) \in Nat
  BY <1>3, ReadyArea
<1>6. oxa <= PlainEnd(outf, HeaderLen, OBufLen - HeaderLen) /\ oxa <= oxa
  BY <1>3, <1>4, <1>5 DEF Gathering
<1>7. /\ oxa' \in Nat /\ oxb' \in Nat /\ oxc' \in Nat /\ pay' \in Nat
      /\ Sending'
  BY <1>1, <1>3, <1>4, <1>6, AssembleKeepsShape
<1> QED BY <1>2, <1>3, <1>7, InUnchanged DEF Inv, TypeOK, OutShape

LEMMA InvWriteCCS ==
  ASSUME Inv, NEW f \in OutFormats, WriteChangeCipherSpec(f)
  PROVE  Inv'
<1>1. /\ SendpldLen > 0 /\ ~has_pld_to_send /\ iomode' = ModeAfterPayload
      /\ Assemble(oxa + 1, FALSE) /\ outf' = f
      /\ max_frag_len' = max_frag_len /\ UNCHANGED inVars
  BY DEF WriteChangeCipherSpec
<1>2. /\ oxa \in Nat /\ oxb \in Nat
      /\ outf \in OutFormats \cup {Clear} /\ max_frag_len \in FragLens
  BY DEF Inv, TypeOK
<1>3. Emitting /\ oxa < oxb
  BY <1>1, <1>2 DEF SendpldLen
<1>4. Gathering
  BY <1>2, <1>3 DEF Inv, OutShape, Sending
<1>5. PlainEnd(outf, HeaderLen, OBufLen - HeaderLen) \in Nat
  BY <1>2, ReadyArea
<1>6. /\ oxa + 1 \in Nat /\ oxa <= oxa + 1
      /\ oxa + 1 <= PlainEnd(outf, HeaderLen, OBufLen - HeaderLen)
  BY <1>2, <1>3, <1>4, <1>5 DEF Gathering
<1>7. /\ oxa' \in Nat /\ oxb' \in Nat /\ oxc' \in Nat /\ pay' \in Nat
      /\ Sending'
  BY <1>1, <1>4, <1>6, AssembleKeepsShape
<1>8. iomode' \in Modes /\ iomode # "FAILED"
  BY <1>1, <1>3 DEF ModeAfterPayload, Modes, Emitting
<1> QED BY <1>1, <1>2, <1>7, <1>8, InUnchanged DEF Inv, TypeOK, OutShape

(* Bytes given to the transport.                                           *)
LEMMA InvSendrec ==
  ASSUME Inv, sendrec_ack
  PROVE  Inv'
<1>1. PICK len \in 1 .. SendrecLen :
        /\ IF oxa + len = oxc
           THEN FreshOut(outf, max_frag_len) /\ iomode' = ModeAfterOut(iomode)
           ELSE /\ oxa' = oxa + len /\ oxb' = oxa + len
                /\ UNCHANGED <<oxc, pay, iomode>>
        /\ UNCHANGED <<outf, max_frag_len, inVars>>
  BY DEF sendrec_ack
<1>2. /\ oxa \in Nat /\ oxb \in Nat /\ oxc \in Nat /\ pay \in Nat
      /\ outf \in OutFormats \cup {Clear} /\ max_frag_len \in FragLens
  BY DEF Inv, TypeOK
<1>3. Emitting /\ len \in Nat /\ len > 0 /\ oxa + len <= oxc
  BY <1>1, <1>2 DEF SendrecLen
<1>4. Sending
  BY <1>2, <1>3 DEF Inv, OutShape, Gathering
<1>5. CASE oxa + len = oxc
  <2>1. FreshOut(outf, max_frag_len) /\ outf' = outf /\ max_frag_len' = max_frag_len
    BY <1>1, <1>5
  <2>2. iomode' \in Modes /\ iomode # "FAILED" /\ UNCHANGED inVars
    BY <1>1, <1>3, <1>5 DEF ModeAfterOut, Modes, Emitting
  <2> QED BY <1>2, <2>1, <2>2, FreshOutShape, InUnchanged DEF Inv, TypeOK
<1>6. CASE oxa + len # oxc
  <2>1. /\ oxa' = oxa + len /\ oxb' = oxa + len
        /\ UNCHANGED <<oxc, pay, iomode, outf, max_frag_len>>
    BY <1>1, <1>6
  <2>2. iomode' \in Modes /\ iomode # "FAILED" /\ UNCHANGED inVars
    BY <1>1, <1>3, <2>1 DEF Modes, Emitting
  <2>3. Sending'
    BY <1>2, <1>3, <1>4, <1>6, <2>1 DEF Sending
  <2> QED BY <1>2, <1>3, <2>1, <2>2, <2>3, InUnchanged DEF Inv, TypeOK, OutShape
<1> QED BY <1>5, <1>6

LEMMA InvNewMaxFragLen ==
  ASSUME Inv, NEW m \in FragLens, new_max_frag_len(m)
  PROVE  Inv'
<1>1. /\ iomode # "FAILED" /\ max_frag_len' = m
      /\ oxb' = IF oxa < oxb /\ oxb > oxc + m /\ oxa < oxc + m THEN oxc + m ELSE oxb
      /\ UNCHANGED <<iomode, oxa, oxc, outf, pay>> /\ UNCHANGED inVars
  BY DEF new_max_frag_len
<1>2. /\ oxa \in Nat /\ oxb \in Nat /\ oxc \in Nat /\ m \in Nat
      /\ outf \in OutFormats \cup {Clear}
  BY LengthAssumption DEF Inv, TypeOK
<1>3. PlainEnd(outf, HeaderLen, OBufLen - HeaderLen) \in Nat
  BY <1>2, ReadyArea DEF Inv, TypeOK
<1>4. CASE Gathering
  <2>1. Gathering'
    BY <1>1, <1>2, <1>3, <1>4 DEF Gathering
  <2> QED BY <1>1, <1>2, <2>1, InUnchanged DEF Inv, TypeOK, OutShape
<1>5. CASE Sending
  <2>1. Sending'
    BY <1>1, <1>2, <1>5 DEF Sending
  <2> QED BY <1>1, <1>2, <2>1, InUnchanged DEF Inv, TypeOK, OutShape
<1> QED BY <1>4, <1>5 DEF Inv, OutShape

LEMMA InvFail ==
  ASSUME Inv, engine_fail
  PROVE  Inv'
<1>1. iomode' = "FAILED" /\ UNCHANGED inVars /\ UNCHANGED outVars
  BY DEF engine_fail
<1> QED BY <1>1, InUnchanged, OutUnchanged DEF Inv, TypeOK, Modes

LEMMA InvReset ==
  ASSUME Inv, reset
  PROVE  Inv'
<1>1. /\ iomode' = "INOUT" /\ FreshIn /\ inf' = Clear
      /\ FreshOut(Clear, max_frag_len) /\ outf' = Clear
      /\ max_frag_len' = max_frag_len /\ max_frag_len \in FragLens
  BY DEF reset, Inv, TypeOK
<1> QED BY <1>1, FreshInShape, FreshOutShape DEF Inv, TypeOK, Modes

LEMMA InvStutter ==
  ASSUME Inv, UNCHANGED vars
  PROVE  Inv'
BY DEF vars, inVars, outVars, Inv, TypeOK, InShape, AwaitingHeader, ClearBody,
       AwaitingBody, DecryptedBody, OutShape, Gathering, Sending

(* The offsets always have one of the shapes of Inv.                       *)
THEOREM Safety == Spec => []Inv
<1>1. Inv /\ [Next]_vars => Inv'
  BY InvRecvrec, InvRecvpld, InvReadCCS, InvSendpld, InvFlush, InvWriteCCS,
     InvSendrec, InvNewMaxFragLen, InvFail, InvReset, InvStutter
     DEF Next
<1> QED BY InvInit, <1>1, PTL DEF Spec

-----------------------------------------------------------------------------
(* No area handed out leaves its buffer.                                   *)
THEOREM BoundsSafety == Spec => []RegionsInBounds
<1>1. Inv => RegionsInBounds
  <2> SUFFICES ASSUME Inv PROVE RegionsInBounds
    OBVIOUS
  <2>1. /\ ixa \in Nat /\ ixb \in Nat /\ ixc \in Nat
        /\ oxa \in Nat /\ oxb \in Nat /\ oxc \in Nat
        /\ IBufLen \in Nat /\ OBufLen \in Nat
        /\ ixa <= ixb /\ ixb <= IBufLen
    BY BufferAssumption DEF Inv, TypeOK, InShape
  <2>2. ixa + RecvrecLen <= IBufLen
    BY <2>1 DEF RecvrecLen, AtMost
  <2>3. outf \in OutFormats \cup {Clear} /\ max_frag_len \in FragLens
    BY DEF Inv, TypeOK
  <2>4. /\ PlainEnd(outf, HeaderLen, OBufLen - HeaderLen) \in Nat
        /\ PlainEnd(outf, HeaderLen, OBufLen - HeaderLen) <= OBufLen - HeaderLen
    BY <2>3, ReadyArea
  <2>5. oxa <= oxb /\ oxb <= OBufLen /\ oxc <= OBufLen
    BY <2>1, <2>4 DEF Inv, OutShape, Gathering, Sending, HeaderLen
  <2> QED BY <2>1, <2>2, <2>5 DEF RegionsInBounds
<1> QED BY <1>1, Safety, PTL

(* Whenever input is wanted, there is room for some.                       *)
THEOREM StuckFreedom == Spec => []NeverStuck
<1>1. Inv => NeverStuck
  <2> SUFFICES ASSUME Inv, Receiving, ixa = ixb PROVE RecvrecLen > 0
    BY DEF NeverStuck
  <2>1. /\ ixa \in Nat /\ ixb \in Nat /\ ixc \in Nat /\ rlen \in Nat
        /\ IBufLen \in Nat /\ IBufLen > HeaderLen /\ HeaderLen = 5
    BY BufferAssumption DEF Inv, TypeOK, HeaderLen
  <2>2. AwaitingHeader \/ ClearBody \/ AwaitingBody
    BY <2>1 DEF Inv, InShape, Receiving, DecryptedBody
  <2>3. ixc > 0 /\ ixa < IBufLen
    BY <2>1, <2>2 DEF AwaitingHeader, ClearBody, AwaitingBody
  <2> QED BY <2>1, <2>3 DEF RecvrecLen, AtMost
<1> QED BY <1>1, Safety, PTL

(* Transport and application are never both invited to the output buffer.  *)
THEOREM OutputSafety == Spec => []OneUseOfOutput
<1>1. Inv => OneUseOfOutput
  <2> SUFFICES ASSUME Inv PROVE OneUseOfOutput
    OBVIOUS
  <2>1. oxa \in Nat /\ oxb \in Nat /\ oxc \in Nat
    BY DEF Inv, TypeOK
  <2> QED BY <2>1 DEF Inv, OutShape, Gathering, Sending, OneUseOfOutput,
                      SendrecLen, SendpldLen
<1> QED BY <1>1, Safety, PTL

(* Every byte of a record is handed over exactly once.                     *)
THEOREM InputSafety == Spec => []NoByteLost
<1>1. Inv => NoByteLost
  <2> SUFFICES ASSUME Inv, iomode # "FAILED"
      PROVE IF inf = Clear
            THEN ixa >= HeaderLen => taken + (ixb - ixa) + ixc = rlen
            ELSE ixc > 0 /\ ixa >= HeaderLen => (ixa - HeaderLen) + ixc = rlen
    BY DEF NoByteLost
  <2>1. /\ ixa \in Nat /\ ixb \in Nat /\ ixc \in Nat /\ rlen \in Nat /\ taken \in Nat
        /\ HeaderLen = 5
    BY DEF Inv, TypeOK, HeaderLen
  <2>2. AwaitingHeader \/ ClearBody \/ AwaitingBody \/ DecryptedBody
    BY DEF Inv, InShape
  <2> QED BY <2>1, <2>2 DEF AwaitingHeader, ClearBody, AwaitingBody, DecryptedBody
<1> QED BY <1>1, Safety, PTL

-----------------------------------------------------------------------------
(* As long as nobody forces an empty record, a buffer that serves both     *)
(* directions is used by one of them at a time.  The assumption is needed: *)
(* a forced flush does not look whether a record is arriving.              *)
THEOREM HalfDuplexSafety == ForceValues \subseteq {FALSE} => (Spec => []HalfDuplex)
<1> SUFFICES ASSUME ForceValues \subseteq {FALSE} PROVE Spec => []HalfDuplex
  OBVIOUS
<1>1. Init => HalfDuplex
  BY ReadyArea DEF Init, HalfDuplex, InputIdle, OutputIdle
<1>2. Inv /\ HalfDuplex /\ [Next]_vars => HalfDuplex'
  <2> SUFFICES ASSUME Inv, HalfDuplex, [Next]_vars PROVE HalfDuplex'
    OBVIOUS
  <2> SUFFICES ASSUME Shared PROVE HalfDuplex'
    BY DEF HalfDuplex
  <2>1. /\ ixa \in Nat /\ ixb \in Nat /\ ixa <= ixb
        /\ oxa \in Nat /\ oxb \in Nat /\ oxc \in Nat
        /\ outf \in OutFormats \cup {Clear} /\ max_frag_len \in FragLens
    BY DEF Inv, TypeOK, InShape
  <2>2. CASE recvrec_ack
    <3>1. PICK len \in 1 .. RecvrecLen :
            \/ RecvPartOfHeader(len)
            \/ \E n \in RecordLens : RecvHeader(len, n)
            \/ RecvBadHeader(len)
            \/ RecvClearBody(len)
            \/ RecvPartOfBody(len)
            \/ \E n \in 0 .. rlen : RecvEndOfBody(len, n)
            \/ RecvBadBody(len)
      BY <2>2 DEF recvrec_ack
    <3>2. UNCHANGED <<oxa, oxb, oxc>>
      BY <2>2 DEF recvrec_ack, outVars
    <3>3. Receiving
      BY <3>1 DEF RecvrecLen
    <3>4. ModeAfterBytes = "IN" /\ OutputIdle
      BY <3>3 DEF ModeAfterBytes, Receiving, HalfDuplex
    <3>5. OutputIdle'
      BY <3>2, <3>4 DEF OutputIdle
    <3>6. \/ iomode' = "IN"
          \/ iomode' = "FAILED"
          \/ iomode' = "INOUT" /\ FreshIn
      BY <3>1, <3>4 DEF RecvPartOfHeader, RecvHeader, RecvBadHeader, RecvClearBody,
                   RecvPartOfBody, RecvEndOfBody, RecvBadBody, ModeAfterIn
    <3>7. FreshIn => InputIdle'
      BY DEF FreshIn, InputIdle
    <3> QED BY <3>5, <3>6, <3>7 DEF HalfDuplex
  <2>3. ASSUME NEW len \in 1 .. RecvpldLen, TakePayload(len), UNCHANGED outVars
        PROVE  HalfDuplex'
    <3>1. Receiving /\ ~InputIdle
      BY <2>1, <2>3 DEF RecvpldLen, InputIdle
    <3>2. iomode = "IN" /\ OutputIdle
      BY <3>1 DEF HalfDuplex, Receiving
    <3>3. OutputIdle'
      BY <2>3, <3>2 DEF OutputIdle, outVars
    <3>4. iomode' = "IN" \/ (iomode' = "INOUT" /\ FreshIn)
      BY <2>3, <3>2 DEF TakePayload, ModeAfterIn
    <3>5. FreshIn => InputIdle'
      BY DEF FreshIn, InputIdle
    <3> QED BY <3>3, <3>4, <3>5 DEF HalfDuplex
  <2>4. CASE recvpld_ack
    <3>1. PICK len \in 1 .. RecvpldLen :
            TakePayload(len) /\ UNCHANGED <<inf, outVars>>
      BY <2>4 DEF recvpld_ack
    <3>2. UNCHANGED outVars
      BY <3>1
    <3> QED BY <2>3, <3>1, <3>2
  <2>5. ASSUME NEW f \in InFormats, ReadChangeCipherSpec(f) PROVE HalfDuplex'
    <3>1. 1 \in 1 .. RecvpldLen
      BY <2>5 DEF ReadChangeCipherSpec
    <3> QED BY <2>3, <2>5, <3>1 DEF ReadChangeCipherSpec
  <2>6. ASSUME UNCHANGED inVars, Emitting, iomode' = ModeAfterPayload
        PROVE  HalfDuplex'
    <3>1. iomode' = "OUT" /\ InputIdle
      BY <2>6 DEF ModeAfterPayload, Emitting, HalfDuplex
    <3>2. InputIdle'
      BY <2>6, <3>1 DEF inVars, InputIdle
    <3> QED BY <3>1, <3>2 DEF HalfDuplex
  <2>7. CASE sendpld_ack
    <3>1. Emitting
      BY <2>7 DEF sendpld_ack, SendpldLen
    <3> QED BY <2>6, <2>7, <3>1 DEF sendpld_ack
  <2>8. ASSUME NEW f \in OutFormats, WriteChangeCipherSpec(f) PROVE HalfDuplex'
    <3>1. Emitting
      BY <2>8 DEF WriteChangeCipherSpec, SendpldLen
    <3> QED BY <2>6, <2>8, <3>1 DEF WriteChangeCipherSpec
  <2>9. ASSUME NEW force \in ForceValues, sendpld_flush(force) PROVE HalfDuplex'
    <3>1. ~force
      OBVIOUS
    <3>2. ~OutputIdle /\ iomode # "FAILED" /\ iomode' = iomode /\ UNCHANGED inVars
      BY <2>9, <3>1 DEF sendpld_flush, OutputIdle
    <3>3. iomode = "OUT" /\ InputIdle
      BY <3>2 DEF HalfDuplex, Inv, TypeOK, Modes
    <3> QED BY <3>2, <3>3 DEF HalfDuplex, InputIdle, inVars
  <2>10. CASE sendrec_ack
    <3>1. PICK len \in 1 .. SendrecLen :
            /\ IF oxa + len = oxc
               THEN FreshOut(outf, max_frag_len) /\ iomode' = ModeAfterOut(iomode)
               ELSE /\ oxa' = oxa + len /\ oxb' = oxa + len
                    /\ UNCHANGED <<oxc, pay, iomode>>
            /\ UNCHANGED <<outf, max_frag_len, inVars>>
      BY <2>10 DEF sendrec_ack
    <3>2. Emitting /\ oxc > oxa
      BY <2>1, <3>1 DEF SendrecLen
    <3>3. iomode = "OUT" /\ InputIdle
      BY <2>1, <3>2 DEF HalfDuplex, Emitting, OutputIdle
    <3>4. UNCHANGED inVars
      BY <3>1
    <3>5. InputIdle'
      BY <3>3, <3>4 DEF InputIdle, inVars
    <3>6. CASE oxa + len = oxc
      <4>1. FreshOut(outf, max_frag_len) /\ iomode' = "INOUT"
        BY <3>1, <3>3, <3>6 DEF ModeAfterOut
      <4>2. OutputIdle'
        BY <2>1, <4>1, ReadyArea DEF FreshOut, OutputIdle
      <4> QED BY <3>5, <4>1, <4>2 DEF HalfDuplex
    <3>7. CASE oxa + len # oxc
      BY <3>1, <3>3, <3>5, <3>7 DEF HalfDuplex
    <3> QED BY <3>6, <3>7
  <2>11. ASSUME NEW mfl \in FragLens, new_max_frag_len(mfl) PROVE HalfDuplex'
    <3>1. /\ oxb' = IF oxa < oxb /\ oxb > oxc + mfl /\ oxa < oxc + mfl THEN oxc + mfl ELSE oxb
          /\ UNCHANGED <<iomode, oxa, oxc>> /\ UNCHANGED inVars
      BY <2>11 DEF new_max_frag_len
    <3>2. OutputIdle => OutputIdle'
      BY <2>1, <3>1, LengthAssumption DEF OutputIdle
    <3>3. InputIdle => InputIdle'
      BY <3>1 DEF InputIdle, inVars
    <3> QED BY <3>1, <3>2, <3>3 DEF HalfDuplex
  <2>12. CASE engine_fail
    BY <2>12 DEF engine_fail, HalfDuplex
  <2>13. CASE reset
    <3>1. /\ iomode' = "INOUT" /\ FreshIn /\ FreshOut(Clear, max_frag_len)
      BY <2>13 DEF reset
    <3>2. InputIdle' /\ OutputIdle'
      BY <2>1, <3>1, ReadyArea DEF FreshIn, FreshOut, InputIdle, OutputIdle
    <3> QED BY <3>1, <3>2 DEF HalfDuplex
  <2>14. CASE UNCHANGED vars
    BY <2>14 DEF vars, inVars, outVars, HalfDuplex, InputIdle, OutputIdle
  <2> QED BY <2>2, <2>4, <2>5, <2>7, <2>8, <2>9, <2>10, <2>11, <2>12, <2>13, <2>14
          DEF Next
<1> QED BY <1>1, <1>2, Safety, PTL DEF Spec

-----------------------------------------------------------------------------
(* The refinement of the channel.  Each lemma below says which step of the *)
(* channel an operation on the offsets is: that, or none at all.           *)
ChannelStep == [Channel!ChannelNext]_Channel!chan

LEMMA Lengths ==
  ASSUME Inv
  PROVE  /\ ixa \in Nat /\ ixb \in Nat /\ ixc \in Nat
         /\ ixa <= ixb /\ ixb <= IBufLen
         /\ oxa \in Nat /\ oxb \in Nat /\ oxc \in Nat
         /\ outf \in OutFormats \cup {Clear} /\ max_frag_len \in FragLens
         /\ iomode \in Modes
         /\ IBufLen \in Nat /\ OBufLen \in Nat /\ HeaderLen = 5
BY BufferAssumption DEF Inv, TypeOK, InShape, HeaderLen

LEMMA Difference ==
  ASSUME NEW a \in Nat, NEW b \in Nat, NEW c \in Nat, a <= b, b <= c
  PROVE  b = a \/ b - a \in 1 .. c
OBVIOUS

(* Bytes arrive: nothing happens before there is plaintext to deliver.     *)
LEMMA RecvrecSteps ==
  ASSUME Inv, recvrec_ack
  PROVE  ChannelStep
<1>1. PICK len \in 1 .. RecvrecLen :
        /\ \/ RecvPartOfHeader(len)
           \/ \E n \in RecordLens : RecvHeader(len, n)
           \/ RecvBadHeader(len)
           \/ RecvClearBody(len)
           \/ RecvPartOfBody(len)
           \/ \E n \in 0 .. rlen : RecvEndOfBody(len, n)
           \/ RecvBadBody(len)
        /\ UNCHANGED outVars
  BY DEF recvrec_ack
<1>2. Inv'
  BY InvRecvrec
<1>3. /\ ixa' \in Nat /\ ixb' \in Nat /\ ixb' <= IBufLen
      /\ UNCHANGED <<oxa, oxb, oxc, pay>>
  BY <1>1, <1>2 DEF Inv, TypeOK, InShape, outVars
<1>4. iomode # "FAILED" /\ ixb - ixa = 0
  BY <1>1, Lengths DEF RecvrecLen, Receiving
<1>5. CASE iomode' # "FAILED" /\ ixb' = ixa'
  BY <1>3, <1>4, <1>5 DEF ChannelStep, Channel!chan
<1>6. CASE iomode' = "FAILED" /\ ixb' = ixa'
  BY <1>3, <1>4, <1>6 DEF ChannelStep, Channel!ChannelNext, Channel!Close
<1>7. CASE iomode' # "FAILED" /\ ixb' - ixa' \in 1 .. IBufLen
  BY <1>3, <1>4, <1>7 DEF ChannelStep, Channel!ChannelNext, Channel!Deliver
<1>8. (iomode' = "FAILED") => (ixb' = ixa')
  BY <1>1, <1>4 DEF RecvPartOfHeader, RecvHeader, RecvBadHeader, RecvClearBody,
     RecvPartOfBody, RecvEndOfBody, RecvBadBody, ModeAfterBytes, ModeAfterIn
<1>9. ixb' = ixa' \/ ixb' - ixa' \in 1 .. IBufLen
  BY <1>2, <1>3, BufferAssumption, Difference DEF Inv, InShape
<1> QED BY <1>5, <1>6, <1>7, <1>8, <1>9

(* Plaintext taken is plaintext consumed: none appears at the same time.   *)
LEMMA TakeSteps ==
  ASSUME Inv, NEW len \in 1 .. RecvpldLen, TakePayload(len), UNCHANGED outVars
  PROVE  ChannelStep
<1>1. Receiving /\ RecvpldLen = ixb - ixa
  BY Lengths DEF RecvpldLen
<1>2. len \in Nat /\ len > 0 /\ len <= ixb - ixa
  BY <1>1, Lengths
<1>3. iomode # "FAILED" /\ iomode' # "FAILED"
  BY <1>1 DEF TakePayload, ModeAfterIn, Receiving
<1>4. ixb' - ixa' \in 0 .. (ixb - ixa) - 1
  BY <1>2, Lengths DEF TakePayload, FreshIn
<1> QED BY <1>2, <1>3, <1>4, Lengths
        DEF ChannelStep, Channel!ChannelNext, Channel!Consume, outVars

(* A full buffer, a flush and a ChangeCipherSpec frame all that was        *)
(* gathered.                                                               *)
LEMMA AssembleSteps ==
  ASSUME Inv, Gathering, iomode # "FAILED", iomode' # "FAILED",
         NEW last \in Nat, NEW isApp \in BOOLEAN,
         oxa <= last, last <= oxb,
         Assemble(last, isApp), UNCHANGED inVars
  PROVE  ChannelStep
<1>1. /\ PlainEnd(outf, HeaderLen, OBufLen - HeaderLen) \in Nat
      /\ PlainEnd(outf, HeaderLen, OBufLen - HeaderLen) <= OBufLen - HeaderLen
  BY Lengths, ReadyArea
<1>2. oxa < oxb /\ oxc <= oxa /\ last <= OBufLen
  BY <1>1, Lengths DEF Gathering
<1>3. oxa' = oxb' /\ pay' = last - oxc
  BY DEF Assemble
<1>4. pay' \in oxa - oxc .. OBufLen
  BY <1>2, <1>3, Lengths
<1> QED BY <1>2, <1>3, <1>4, Lengths
        DEF ChannelStep, Channel!ChannelNext, Channel!Frame, Channel!NoRecord, inVars

LEMMA SendpldSteps ==
  ASSUME Inv, sendpld_ack
  PROVE  ChannelStep
<1>1. PICK len \in 1 .. SendpldLen, isApp \in BOOLEAN :
        /\ iomode' = ModeAfterPayload
        /\ IF oxa + len >= oxb
           THEN Assemble(oxa + len, isApp)
           ELSE oxa' = oxa + len /\ UNCHANGED <<oxb, oxc, pay>>
        /\ UNCHANGED <<outf, max_frag_len, inVars>>
  BY DEF sendpld_ack
<1>2. /\ Emitting /\ len \in Nat /\ len > 0 /\ oxa + len <= oxb
  BY <1>1, Lengths DEF SendpldLen
<1>3. Gathering
  BY <1>2, Lengths DEF Inv, OutShape, Sending
<1>4. iomode # "FAILED" /\ iomode' # "FAILED" /\ UNCHANGED inVars
  BY <1>1, <1>2 DEF ModeAfterPayload, Emitting
<1>5. CASE oxa + len >= oxb
  BY <1>1, <1>2, <1>3, <1>4, <1>5, Lengths, AssembleSteps
<1>6. CASE ~(oxa + len >= oxb)
  <2>1. oxa' = oxa + len /\ UNCHANGED <<oxb, oxc>>
    BY <1>1, <1>6
  <2>2. /\ PlainEnd(outf, HeaderLen, OBufLen - HeaderLen) \in Nat
        /\ PlainEnd(outf, HeaderLen, OBufLen - HeaderLen) <= OBufLen - HeaderLen
    BY Lengths, ReadyArea
  <2>3. oxa # oxb /\ oxc <= oxa /\ oxb <= OBufLen /\ oxa' # oxb'
    BY <1>2, <1>3, <1>6, <2>1, <2>2, Lengths DEF Gathering
  <2>4. oxa' - oxc' \in (oxa - oxc) + 1 .. OBufLen
    BY <1>2, <2>1, <2>3, Lengths
  <2> QED BY <1>4, <2>3, <2>4, Lengths
          DEF ChannelStep, Channel!ChannelNext, Channel!Gather, Channel!NoRecord, inVars
<1> QED BY <1>5, <1>6

LEMMA FlushSteps ==
  ASSUME Inv, NEW force \in ForceValues, sendpld_flush(force)
  PROVE  ChannelStep
<1>1. PICK isApp \in BOOLEAN : Assemble(oxa, isApp)
  BY DEF sendpld_flush
<1>2. iomode # "FAILED" /\ oxa # oxb /\ iomode' = iomode /\ UNCHANGED inVars
  BY DEF sendpld_flush
<1>3. Gathering
  BY <1>2 DEF Inv, OutShape, Sending
<1>4. oxa <= oxa /\ oxa <= oxb
  BY <1>3, Lengths DEF Gathering
<1> QED BY <1>1, <1>2, <1>3, <1>4, Lengths, AssembleSteps

LEMMA WriteCCSSteps ==
  ASSUME Inv, NEW f \in OutFormats, WriteChangeCipherSpec(f)
  PROVE  ChannelStep
<1>1. /\ SendpldLen > 0 /\ iomode' = ModeAfterPayload
      /\ Assemble(oxa + 1, FALSE) /\ UNCHANGED inVars
  BY DEF WriteChangeCipherSpec
<1>2. Emitting /\ oxa < oxb
  BY <1>1, Lengths DEF SendpldLen
<1>3. Gathering
  BY <1>2, Lengths DEF Inv, OutShape, Sending
<1>4. iomode # "FAILED" /\ iomode' # "FAILED"
  BY <1>1, <1>2 DEF ModeAfterPayload, Emitting
<1>5. oxa + 1 \in Nat /\ oxa <= oxa + 1 /\ oxa + 1 <= oxb
  BY <1>2, Lengths
<1> QED BY <1>1, <1>3, <1>4, <1>5, AssembleSteps

(* The record is transmitted when its last byte is, not before.            *)
LEMMA SendrecSteps ==
  ASSUME Inv, sendrec_ack
  PROVE  ChannelStep
<1>1. PICK len \in 1 .. SendrecLen :
        /\ IF oxa + len = oxc
           THEN FreshOut(outf, max_frag_len) /\ iomode' = ModeAfterOut(iomode)
           ELSE /\ oxa' = oxa + len /\ oxb' = oxa + len
                /\ UNCHANGED <<oxc, pay, iomode>>
        /\ UNCHANGED <<outf, max_frag_len, inVars>>
  BY DEF sendrec_ack
<1>2. Emitting /\ oxc > oxa
  BY <1>1, Lengths DEF SendrecLen
<1>3. oxa = oxb
  BY <1>2, Lengths DEF Inv, OutShape, Gathering, Sending
<1>4. UNCHANGED <<ixa, ixb>>
  BY <1>1 DEF inVars
<1>5. pay # -1
  BY DEF Inv, TypeOK
<1>6. CASE oxa + len = oxc
  <2>1. iomode # "FAILED" /\ iomode' # "FAILED"
    BY <1>1, <1>2, <1>6 DEF ModeAfterOut, Emitting
  <2>2. FreshOut(outf, max_frag_len)
    BY <1>1, <1>6
  <2>3. oxa' - oxc' = 0 /\ oxa' # oxb'
    BY <2>2, Lengths, ReadyArea DEF FreshOut
  <2> QED BY <1>3, <1>4, <1>5, <2>1, <2>3
          DEF ChannelStep, Channel!ChannelNext, Channel!Transmit, Channel!NoRecord
<1>7. CASE oxa + len # oxc
  BY <1>1, <1>3, <1>4, <1>7 DEF ChannelStep, Channel!chan
<1> QED BY <1>6, <1>7

LEMMA NewMaxFragLenSteps ==
  ASSUME Inv, NEW m \in FragLens, new_max_frag_len(m)
  PROVE  ChannelStep
<1>1. /\ oxb' = IF oxa < oxb /\ oxb > oxc + m /\ oxa < oxc + m THEN oxc + m ELSE oxb
      /\ UNCHANGED <<iomode, oxa, oxc, pay>> /\ UNCHANGED inVars
  BY DEF new_max_frag_len
<1>2. m \in Nat
  BY LengthAssumption
<1>3. (oxa = oxb) <=> (oxa' = oxb')
  BY <1>1, <1>2, Lengths
<1> QED BY <1>1, <1>3 DEF ChannelStep, Channel!chan, inVars

LEMMA ResetSteps ==
  ASSUME Inv, reset
  PROVE  ChannelStep
<1>1. iomode' = "INOUT" /\ FreshIn /\ FreshOut(Clear, max_frag_len)
  BY DEF reset
<1>2. ixb' - ixa' = 0
  BY <1>1 DEF FreshIn
<1>3. oxa' - oxc' = 0 /\ oxa' # oxb'
  BY <1>1, Lengths, ReadyArea DEF FreshOut
<1> QED BY <1>1, <1>2, <1>3
        DEF ChannelStep, Channel!ChannelNext, Channel!Restart, Channel!NoRecord

LEMMA BufferSteps ==
  ASSUME Inv, [Next]_vars
  PROVE  ChannelStep
<1>1. CASE recvpld_ack
  BY <1>1, TakeSteps DEF recvpld_ack
<1>2. ASSUME NEW f \in InFormats, ReadChangeCipherSpec(f) PROVE ChannelStep
  <2>1. 1 \in 1 .. RecvpldLen
    BY <1>2 DEF ReadChangeCipherSpec
  <2> QED BY <1>2, <2>1, TakeSteps DEF ReadChangeCipherSpec
<1>3. CASE engine_fail
  BY <1>3 DEF engine_fail, inVars, outVars,
     ChannelStep, Channel!ChannelNext, Channel!Close
<1>4. CASE UNCHANGED vars
  BY <1>4 DEF vars, inVars, outVars, ChannelStep, Channel!chan
<1> QED BY <1>1, <1>2, <1>3, <1>4, RecvrecSteps, SendpldSteps, FlushSteps,
           WriteCCSSteps, SendrecSteps, NewMaxFragLenSteps, ResetSteps
        DEF Next

(* The six offsets implement a channel of whole records in each direction: *)
(* plaintext is consumed before more of it is delivered, and a record that *)
(* was framed is transmitted completely before anything else is gathered.  *)
THEOREM BufferImplementsChannel == Spec => ImplementsChannel
<1>1. Init => Channel!ChannelInit
  BY ReadyArea DEF Init, Channel!ChannelInit, Channel!Start, Channel!NoRecord
<1>2. Inv /\ [Next]_vars => [Channel!ChannelNext]_Channel!chan
  BY BufferSteps DEF ChannelStep
<1> QED BY <1>1, <1>2, Safety, PTL DEF Spec, ImplementsChannel, Channel!ChannelSpec


-----------------------------------------------------------------------------
Context == [suite : Suites, key : Nat, seq : Nat]

Before(a, b) == a.key < b.key \/ (a.key = b.key /\ a.seq < b.seq)

SentRecord ==
  {[content |-> content, by |-> c, wire |-> AeadSealed(c, content.type, version, content.payload)] :
     content \in Contents, c \in Context, version \in Versions}

Typed ==
  /\ sender \in Context /\ receiver \in Context
  /\ sent \in Seq(SentRecord)
  /\ opened \in Seq(Contents)
  /\ refused \in BOOLEAN /\ strayed \in BOOLEAN

Ordered ==
  /\ \A i, j \in 1 .. Len(sent) : i < j => Before(sent[i].by, sent[j].by)
  /\ \A i \in 1 .. Len(sent) : Before(sent[i].by, sender)

Successive ==
  \A i \in 1 .. Len(sent) :
    After(sent[i].by, sent[i].content.type, sent[i].content.payload)
      = IF i < Len(sent) THEN sent[i + 1].by ELSE sender

InStep ==
  ~refused => receiver = IF Len(opened) < Len(sent) THEN sent[Len(opened) + 1].by ELSE sender

OpenedFirst ==
  /\ Len(opened) <= Len(sent)
  /\ \A i \in 1 .. Len(opened) : opened[i] = sent[i].content

RecordsInv == Typed /\ Ordered /\ Successive /\ InStep /\ OpenedFirst /\ (refused => strayed)

-----------------------------------------------------------------------------
(* A context and the one after it.                                         *)
LEMMA AfterLater ==
  ASSUME NEW c \in Context, NEW content \in Contents
  PROVE  /\ After(c, content.type, content.payload) \in Context
         /\ Before(c, After(c, content.type, content.payload))
         /\ \A b \in Context : Before(b, c) => Before(b, After(c, content.type, content.payload))
<1>1. CASE content.type = SwitchType
  <2>1. content.payload \in Suites
    BY <1>1 DEF Contents
  <2> QED BY <1>1, <2>1 DEF After, Keyed, Context, Before
<1>2. CASE content.type # SwitchType
  BY <1>2 DEF After, Context, Before
<1> QED BY <1>1, <1>2

(* What a record that was sent consists of.                                *)
LEMMA SentParts ==
  ASSUME NEW s \in SentRecord
  PROVE  /\ s.by \in Context /\ s.content \in Contents
         /\ s.wire.type = s.content.type
         /\ s.wire.body.plain = s.content.payload
         /\ s.wire.body.nonce = Nonce(s.by, s.wire.explicit)
         /\ s.wire.body.nonce = <<s.by.key, s.by.seq>>
         /\ s.wire.tag = Tag(s.by, s.wire)
<1>1. PICK content \in Contents, c \in Context, version \in Versions :
        s = [content |-> content, by |-> c, wire |-> AeadSealed(c, content.type, version, content.payload)]
  BY DEF SentRecord
<1> DEFINE explicit == IF c.suite = "chapol" THEN NoNonce ELSE c.seq
           body == [plain |-> content.payload, nonce |-> Nonce(c, explicit)]
           r == [type |-> content.type, version |-> version, explicit |-> explicit, body |-> body]
<1>2. s.wire = [type |-> content.type, version |-> version, explicit |-> explicit, body |-> body,
                tag |-> Tag(c, r)]
  BY <1>1 DEF AeadSealed
<1>3. Tag(c, r) = Tag(c, s.wire)
  BY <1>2 DEF Tag, RecordHeader
<1>4. Nonce(c, explicit) = <<c.key, c.seq>>
  BY DEF Nonce
<1> QED BY <1>1, <1>2, <1>3, <1>4

(* A tag comes from one context, and covers the record.                    *)
LEMMA TagShows ==
  ASSUME NEW c, NEW r, NEW d, NEW s, Tag(c, r) = Tag(d, s)
  PROVE  /\ c.key = d.key /\ c.seq = d.seq
         /\ r.type = s.type /\ r.body = s.body
         /\ Nonce(c, r.explicit) = Nonce(d, s.explicit)
<1>1. /\ Nonce(c, r.explicit) = Nonce(d, s.explicit)
      /\ RecordHeader(c, r) = RecordHeader(d, s)
      /\ r.body = s.body
  BY DEF Tag
<1>2. c.key = d.key
  BY <1>1 DEF Nonce
<1>3. c.seq = d.seq /\ r.type = s.type
  BY <1>1 DEF RecordHeader
<1> QED BY <1>1, <1>2, <1>3

(* What opens in the context of the receiver is the next record.           *)
LEMMA OpensNext ==
  ASSUME RecordsInv, ~refused, NEW r \in Deliverable, Opens(receiver, r)
  PROVE  /\ Len(opened) < Len(sent)
         /\ r.type = sent[Len(opened) + 1].content.type
         /\ Decrypted(receiver, r) = sent[Len(opened) + 1].content.payload
<1> USE DEF RecordsInv
<1> DEFINE m == Len(opened)
           n == Len(sent)
<1>1. m \in Nat /\ n \in Nat /\ m <= n
  BY DEF Typed, OpenedFirst
<1>2. r.tag # WrongTag
  <2>1. receiver.suite \in Suites
    BY DEF Typed, Context
  <2>2. receiver.suite # "none"
    BY <2>1, RecordsAssumption
  <2> QED BY <2>2 DEF Opens, Tag, WrongTag
<1>3. PICK k \in 1 .. n : r.tag = sent[k].wire.tag
  <2>1. DOMAIN sent = 1 .. n
    BY DEF Typed
  <2> QED BY <1>2, <2>1 DEF Deliverable
<1>4. sent[k] \in SentRecord
  BY <1>1, <1>3 DEF Typed
<1>5. Tag(receiver, r) = Tag(sent[k].by, sent[k].wire)
  BY <1>3, <1>4, SentParts DEF Opens
<1>6. receiver.key = sent[k].by.key /\ receiver.seq = sent[k].by.seq
  BY <1>5, TagShows
<1>7. m < n /\ k = m + 1
  <2> DEFINE next == IF m < n THEN sent[m + 1].by ELSE sender
  <2>1. receiver = next
    BY DEF InStep
  <2>2. next \in Context
    <3>1. CASE m < n
      <4>1. sent[m + 1] \in SentRecord
        BY <1>1, <3>1 DEF Typed
      <4> QED BY <3>1, <4>1, SentParts
    <3>2. CASE ~(m < n)
      BY <3>2 DEF Typed
    <3> QED BY <3>1, <3>2
  <2>3. sent[k].by \in Context
    BY <1>4, SentParts
  <2>4. ~Before(sent[k].by, next) /\ ~Before(next, sent[k].by)
    BY <1>6, <2>1, <2>2, <2>3 DEF Before, Context
  <2>5. CASE m < n
    <3>1. ~(k < m + 1) /\ ~(m + 1 < k)
      BY <1>1, <1>3, <2>4, <2>5 DEF Ordered
    <3> QED BY <1>1, <1>3, <2>5, <3>1
  <2>6. CASE ~(m < n)
    BY <1>3, <2>4, <2>6 DEF Ordered
  <2> QED BY <2>5, <2>6
<1>8. /\ r.type = sent[k].wire.type /\ r.body = sent[k].wire.body
      /\ Nonce(receiver, r.explicit) = Nonce(sent[k].by, sent[k].wire.explicit)
  BY <1>5, TagShows
<1>9. Decrypted(receiver, r) = r.body.plain
  BY <1>4, <1>8, SentParts DEF Decrypted
<1> QED BY <1>4, <1>7, <1>8, <1>9, SentParts

(* The next record opens.                                                  *)
LEMMA NextOpens ==
  ASSUME RecordsInv, ~refused, NEW r, IsNext(r)
  PROVE  Opens(receiver, r)
<1> DEFINE i == Len(opened) + 1
<1>1. i \in 1 .. Len(sent) /\ r = sent[i].wire /\ receiver = sent[i].by
  BY DEF IsNext, RecordsInv, Typed, InStep
<1>2. sent[i] \in SentRecord
  BY <1>1 DEF RecordsInv, Typed
<1> QED BY <1>1, <1>2, SentParts DEF Opens

-----------------------------------------------------------------------------
LEMMA InitRecords == RecordsInit => RecordsInv
<1> SUFFICES ASSUME RecordsInit PROVE RecordsInv
  OBVIOUS
<1>1. PICK suite \in Suites : sender = Keyed(suite, 1)
  BY DEF RecordsInit
<1>2. sent = <<>> /\ opened = <<>> /\ receiver = sender /\ refused = FALSE /\ strayed = FALSE
  BY DEF RecordsInit
<1>3. Typed
  <2>1. sender \in Context
    BY <1>1 DEF Keyed, Context
  <2>2. sent \in Seq(SentRecord) /\ opened \in Seq(Contents)
    BY <1>2
  <2> QED BY <1>2, <2>1, <2>2 DEF Typed
<1> QED BY <1>2, <1>3 DEF RecordsInv, Ordered, Successive, InStep, OpenedFirst

LEMMA SendKeeps == RecordsInv /\ Send => RecordsInv'
<1> SUFFICES ASSUME RecordsInv, Send PROVE RecordsInv'
  OBVIOUS
<1> USE DEF RecordsInv
<1> DEFINE n == Len(sent)
<1>1. PICK content \in Contents, version \in Versions :
        /\ sent' = Append(sent, [content |-> content, by |-> sender,
                                 wire |-> AeadSealed(sender, content.type, version, content.payload)])
        /\ sender' = After(sender, content.type, content.payload)
        /\ UNCHANGED <<receiver, opened, refused, strayed>>
  BY DEF Send
<1> DEFINE s == [content |-> content, by |-> sender,
                 wire |-> AeadSealed(sender, content.type, version, content.payload)]
<1>2. s \in SentRecord /\ s.by = sender /\ s.content = content
  BY DEF Typed, SentRecord
<1>3. /\ sender \in Context /\ sender' \in Context
      /\ Before(sender, sender')
      /\ \A b \in Context : Before(b, sender) => Before(b, sender')
  BY <1>1, AfterLater DEF Typed
<1> HIDE DEF s
<1>4. /\ n \in Nat /\ sent' \in Seq(SentRecord) /\ Len(sent') = n + 1
      /\ \A i \in 1 .. n : sent'[i] = sent[i]
      /\ sent'[n + 1] = s
  BY <1>1, <1>2 DEF Typed, s
<1>5. \A i \in 1 .. n : sent[i].by \in Context
  <2> SUFFICES ASSUME NEW i \in 1 .. n PROVE sent[i].by \in Context
    OBVIOUS
  <2>1. sent[i] \in SentRecord
    BY DEF Typed
  <2> QED BY <2>1, SentParts
<1>6. Typed'
  BY <1>1, <1>3, <1>4 DEF Typed
<1>7. Ordered'
  BY <1>2, <1>3, <1>4, <1>5 DEF Ordered
<1>8. Successive'
  <2> SUFFICES ASSUME NEW i \in 1 .. n + 1
               PROVE  After(sent'[i].by, sent'[i].content.type, sent'[i].content.payload)
                        = IF i < n + 1 THEN sent'[i + 1].by ELSE sender'
    BY <1>4 DEF Successive
  <2>1. CASE i = n + 1
    BY <1>1, <1>2, <1>4, <2>1
  <2>2. CASE i < n
    BY <1>4, <2>2 DEF Successive
  <2>3. CASE i = n
    BY <1>2, <1>4, <2>3 DEF Successive
  <2> QED BY <1>4, <2>1, <2>2, <2>3
<1>9. Len(opened) \in Nat /\ opened' = opened /\ Len(opened) <= n
  BY <1>1 DEF Typed, OpenedFirst
<1>10. InStep'
  <2>1. CASE Len(opened) < n
    BY <1>1, <1>4, <1>9, <2>1 DEF InStep
  <2>2. CASE Len(opened) = n
    BY <1>1, <1>2, <1>4, <1>9, <2>2 DEF InStep
  <2> QED BY <1>4, <1>9, <2>1, <2>2
<1>11. OpenedFirst'
  BY <1>4, <1>9 DEF OpenedFirst
<1> QED BY <1>1, <1>6, <1>7, <1>8, <1>10, <1>11

LEMMA DeliverKeeps == RecordsInv /\ Deliver => RecordsInv'
<1> SUFFICES ASSUME RecordsInv, Deliver PROVE RecordsInv'
  OBVIOUS
<1>1. PICK r \in Deliverable :
        /\ ~refused
        /\ IF Opens(receiver, r)
           THEN /\ opened' = Append(opened, [type |-> r.type, payload |-> Decrypted(receiver, r)])
                /\ receiver' = After(receiver, r.type, Decrypted(receiver, r))
                /\ UNCHANGED refused
           ELSE /\ refused' = TRUE
                /\ receiver' = [receiver EXCEPT !.seq = @ + 1]
                /\ UNCHANGED opened
        /\ strayed' = (strayed \/ ~IsNext(r))
        /\ UNCHANGED <<sender, sent>>
  BY DEF Deliver
<1>2. sent' = sent /\ sender' = sender
  BY <1>1
<1>3. Ordered' /\ Successive'
  BY <1>2 DEF RecordsInv, Ordered, Successive
<1>4. strayed' \in BOOLEAN
  BY <1>1 DEF RecordsInv, Typed
<1>5. CASE Opens(receiver, r)
  <2> DEFINE m == Len(opened)
             s == sent[m + 1]
  <2>1. /\ m < Len(sent) /\ r.type = s.content.type
        /\ Decrypted(receiver, r) = s.content.payload
    BY <1>1, <1>5, OpensNext
  <2>2. m \in Nat /\ m + 1 \in 1 .. Len(sent) /\ s \in SentRecord
    BY <2>1 DEF RecordsInv, Typed
  <2>3. s.content \in Contents /\ s.by \in Context /\ receiver = s.by
    BY <1>1, <2>1, <2>2, SentParts DEF RecordsInv, InStep
  <2>4. [type |-> s.content.type, payload |-> s.content.payload] = s.content
    BY <2>3 DEF Contents
  <2>5. opened' = Append(opened, s.content) /\ refused' = refused
    BY <1>1, <1>5, <2>1, <2>4
  <2>6. receiver' = After(s.by, s.content.type, s.content.payload)
    BY <1>1, <1>5, <2>1, <2>3
  <2>7. receiver' \in Context
    BY <2>3, <2>6, AfterLater
  <2> HIDE DEF s
  <2>8. /\ opened' \in Seq(Contents) /\ Len(opened') = m + 1
        /\ \A i \in 1 .. m : opened'[i] = opened[i]
        /\ opened'[m + 1] = s.content
    BY <2>3, <2>5 DEF RecordsInv, Typed
  <2>9. Typed'
    BY <1>2, <1>4, <2>5, <2>7, <2>8 DEF RecordsInv, Typed
  <2>10. receiver' = IF m + 1 < Len(sent) THEN sent[m + 2].by ELSE sender
    BY <2>2, <2>6 DEF RecordsInv, Successive, s
  <2>11. InStep'
    BY <1>2, <2>2, <2>8, <2>10 DEF InStep
  <2>12. OpenedFirst'
    BY <1>2, <2>1, <2>2, <2>8 DEF RecordsInv, OpenedFirst, s
  <2>13. refused' => strayed'
    BY <1>1, <2>5
  <2> QED BY <1>3, <2>9, <2>11, <2>12, <2>13 DEF RecordsInv
<1>6. CASE ~Opens(receiver, r)
  <2>1. ~IsNext(r)
    BY <1>1, <1>6, NextOpens
  <2>2. refused' = TRUE /\ strayed' /\ opened' = opened
    BY <1>1, <1>6, <2>1
  <2>3. receiver' \in Context
    BY <1>1, <1>6 DEF RecordsInv, Typed, Context
  <2>4. Typed'
    BY <1>2, <1>4, <2>2, <2>3 DEF RecordsInv, Typed
  <2>5. InStep' /\ OpenedFirst'
    BY <1>2, <2>2 DEF RecordsInv, InStep, OpenedFirst
  <2> QED BY <1>3, <2>2, <2>4, <2>5 DEF RecordsInv
<1> QED BY <1>5, <1>6

LEMMA InvInOrder == RecordsInv => RecordsInOrder
<1> SUFFICES ASSUME RecordsInv PROVE RecordsInOrder
  OBVIOUS
<1>1. /\ DOMAIN sent = 1 .. Len(sent) /\ DOMAIN opened = 1 .. Len(opened)
      /\ Len(sent) \in Nat
  BY DEF RecordsInv, Typed
<1>2. \A i, j \in DOMAIN sent : i # j => sent[i].wire.body.nonce # sent[j].wire.body.nonce
  <2> SUFFICES ASSUME NEW i \in 1 .. Len(sent), NEW j \in 1 .. Len(sent), i # j
               PROVE  sent[i].wire.body.nonce # sent[j].wire.body.nonce
    BY <1>1
  <2>1. sent[i] \in SentRecord /\ sent[j] \in SentRecord
    BY DEF RecordsInv, Typed
  <2>2. /\ sent[i].by \in Context /\ sent[i].wire.body.nonce = <<sent[i].by.key, sent[i].by.seq>>
        /\ sent[j].by \in Context /\ sent[j].wire.body.nonce = <<sent[j].by.key, sent[j].by.seq>>
    BY <2>1, SentParts
  <2>3. Before(sent[i].by, sent[j].by) \/ Before(sent[j].by, sent[i].by)
    BY <1>1 DEF RecordsInv, Ordered
  <2>4. sent[i].by.key # sent[j].by.key \/ sent[i].by.seq # sent[j].by.seq
    BY <2>2, <2>3 DEF Before, Context
  <2> QED BY <2>2, <2>4
<1> QED BY <1>1, <1>2 DEF RecordsInv, OpenedFirst, RecordsInOrder

-----------------------------------------------------------------------------
(* Whatever happens to records on their way, those that are opened are the *)
(* first ones that were sent, none is refused in its turn, and no nonce is *)
(* used twice with a key (gcm_encrypt, gcm_decrypt and the others).        *)
THEOREM RecordsInOrderSafety == RecordsSpec => []RecordsInOrder
<1>1. RecordsInv /\ [RecordsNext]_recordVars => RecordsInv'
  <2> SUFFICES ASSUME RecordsInv, [RecordsNext]_recordVars PROVE RecordsInv'
    OBVIOUS
  <2>1. CASE Send
    BY <2>1, SendKeeps
  <2>2. CASE Deliver
    BY <2>2, DeliverKeeps
  <2>3. CASE UNCHANGED recordVars
    BY <2>3 DEF recordVars, RecordsInv, Typed, Ordered, Successive, InStep, OpenedFirst
  <2> QED BY <2>1, <2>2, <2>3 DEF RecordsNext
<1> QED BY <1>1, InitRecords, InvInOrder, PTL DEF RecordsSpec


(* A set of numbers has a least one.                                       *)
LEMMA LeastExists ==
  ASSUME NEW T, T \subseteq Nat, T # {}
  PROVE  \E m \in T : \A n \in T : m <= n
<1> DEFINE R == OpToRel(<, Nat)
<1>1. IsWellFoundedOn(R, Nat)
  BY NatLessThanWellFounded
<1>2. \A m, n \in Nat : <<m, n>> \in R <=> m < n
  BY DEF OpToRel
<1> HIDE DEF R
<1>3. PICK m \in T : \A n \in T : ~(<<n, m>> \in R)
  BY <1>1, WFMin, Zenon
<1>4. \A n \in T : n \in Nat /\ m \in Nat /\ ~(n < m)
  BY <1>2, <1>3
<1> QED BY <1>3, <1>4

(* What holds of 0 and passes to the next number holds up to N.            *)
LEMMA UpTo ==
  ASSUME NEW N \in Nat, NEW G, 0 \in G, \A n \in 0 .. N - 1 : n \in G => n + 1 \in G
  PROVE  \A n \in 0 .. N : n \in G
<1> DEFINE T == {n \in 0 .. N : n \notin G}
<1> SUFFICES ASSUME T # {} PROVE FALSE
  OBVIOUS
<1>1. PICK m \in T : \A n \in T : m <= n
  <2>1. T \subseteq Nat
    OBVIOUS
  <2> HIDE DEF T
  <2> QED BY <2>1, LeastExists
<1>2. m # 0 /\ m - 1 \in 0 .. N - 1
  BY <1>1
<1>3. m - 1 \in G
  BY <1>1, <1>2
<1>4. (m - 1) + 1 \in G
  BY <1>2, <1>3
<1> QED BY <1>1, <1>4

(* Multiples keep the order of their factors.                              *)
LEMMA TimesMonotone ==
  ASSUME NEW a \in Int, NEW b \in Int, NEW n \in Nat, a <= b
  PROVE  a * n <= b * n
<1>1. (b - a) * n >= 0
  OBVIOUS
<1>2. (b - a) * n = b * n - a * n
  OBVIOUS
<1> QED BY <1>1, <1>2

(* A number is a whole number of blocks and a rest.                        *)
LEMMA BlocksAndRest ==
  ASSUME NEW n \in Nat
  PROVE  /\ n \div BlockLen \in Nat /\ n % BlockLen \in 0 .. BlockLen - 1
         /\ BlockLen \in Nat \ {0}
         /\ n = (n \div BlockLen) * BlockLen + (n % BlockLen)
<1>1. BlockLen \in Nat \ {0}
  BY HashAssumption
<1> QED BY <1>1

(* The count of whole blocks and the rest are unique.                      *)
LEMMA BlocksUnique ==
  ASSUME NEW n \in Nat, NEW q \in Int, NEW r \in 0 .. BlockLen - 1, n = q * BlockLen + r
  PROVE  n \div BlockLen = q /\ n % BlockLen = r
BY HashAssumption

-----------------------------------------------------------------------------
(* The states after the blocks of m.                                       *)
IsRounds(f, val, m, N) ==
  f = [n \in 0 .. N |->
         IF n = 0 THEN val ELSE Round(f[n - 1], SubSeq(m, (n - 1) * BlockLen + 1, n * BlockLen))]

(* The states after the blocks are defined by recursion over the blocks.   *)
LEMMA RoundsExist ==
  ASSUME NEW val, NEW m, NEW N \in Nat
  PROVE  \E f : IsRounds(f, val, m, N)
<1> DEFINE G == {k \in 0 .. N : \E f : IsRounds(f, val, m, k)}
<1>1. 0 \in G
  <2>1. IsRounds([n \in 0 .. 0 |-> val], val, m, 0)
    BY DEF IsRounds
  <2> QED BY <2>1
<1>2. \A k \in 0 .. N - 1 : k \in G => k + 1 \in G
  <2> SUFFICES ASSUME NEW k \in 0 .. N - 1, k \in G PROVE k + 1 \in G
    OBVIOUS
  <2>1. PICK f : IsRounds(f, val, m, k)
    OBVIOUS
  <2> DEFINE next(g, n) == Round(g[n - 1], SubSeq(m, (n - 1) * BlockLen + 1, n * BlockLen))
             more == [n \in 0 .. k + 1 |-> IF n = k + 1 THEN next(f, n) ELSE f[n]]
  <2>2. \A n \in 0 .. k : f[n] = IF n = 0 THEN val ELSE next(f, n)
    BY <2>1 DEF IsRounds
  <2> HIDE DEF next
  <2>3. \A n \in 1 .. k + 1 : next(more, n) = next(f, n)
    <3> TAKE n \in 1 .. k + 1
    <3>1. more[n - 1] = f[n - 1]
      OBVIOUS
    <3> QED BY <3>1 DEF next
  <2>4. \A n \in 0 .. k + 1 : more[n] = IF n = 0 THEN val ELSE next(more, n)
    <3> TAKE n \in 0 .. k + 1
    <3>1. CASE n = k + 1
      BY <3>1, <2>3
    <3>2. CASE n \in 0 .. k
      BY <3>2, <2>2, <2>3
    <3> QED BY <3>1, <3>2
  <2>5. more = [n \in 0 .. k + 1 |-> IF n = 0 THEN val ELSE next(more, n)]
    BY <2>4
  <2>6. IsRounds(more, val, m, k + 1)
    <3> HIDE DEF more
    <3> QED BY <2>5 DEF IsRounds, next
  <2> QED BY <2>6
<1> HIDE DEF G
<1>3. N \in G
  BY <1>1, <1>2, UpTo
<1> QED BY <1>3 DEF G

(* Rounds is the last of these states.                                     *)
LEMMA RoundsValue ==
  ASSUME NEW val, NEW m \in Seq(Octets)
  PROVE  \E f : IsRounds(f, val, m, Len(m) \div BlockLen) /\ Rounds(val, m) = f[Len(m) \div BlockLen]
<1> DEFINE N == Len(m) \div BlockLen
           chosen == CHOOSE f : IsRounds(f, val, m, N)
<1>1. N \in Nat
  BY BlocksAndRest
<1>2. Rounds(val, m) = chosen[N]
  BY DEF Rounds, IsRounds
<1> HIDE DEF N
<1>3. IsRounds(chosen, val, m, N)
  BY <1>1, RoundsExist
<1> HIDE DEF chosen
<1> QED BY <1>2, <1>3 DEF N

(* Two messages with the same first K blocks.                              *)
SameBlocks(m, s, K) ==
  /\ K * BlockLen <= Len(m) /\ K * BlockLen <= Len(s)
  /\ \A i \in 1 .. K * BlockLen : m[i] = s[i]

(* The states depend on the blocks only.                                   *)
LEMMA RoundsAgree ==
  ASSUME NEW val, NEW m \in Seq(Octets), NEW s \in Seq(Octets), NEW M \in Nat, NEW N \in Nat,
         NEW f, IsRounds(f, val, m, M), NEW g, IsRounds(g, val, s, N),
         NEW K \in Nat, K <= M, K <= N, SameBlocks(m, s, K)
  PROVE  f[K] = g[K]
<1> USE DEF SameBlocks
<1> DEFINE part(t, n) == SubSeq(t, (n - 1) * BlockLen + 1, n * BlockLen)
           G == {n \in 0 .. K : f[n] = g[n]}
<1>a. BlockLen \in Nat \ {0}
  BY HashAssumption
<1>1. /\ \A n \in 0 .. M : f[n] = IF n = 0 THEN val ELSE Round(f[n - 1], part(m, n))
      /\ \A n \in 0 .. N : g[n] = IF n = 0 THEN val ELSE Round(g[n - 1], part(s, n))
  BY DEF IsRounds
<1>2. \A n \in 1 .. K : part(m, n) = part(s, n)
  <2> TAKE n \in 1 .. K
  <2> DEFINE a == (n - 1) * BlockLen + 1
             b == n * BlockLen
  <2>1. b <= K * BlockLen /\ K * BlockLen \in Nat
    BY <1>a, TimesMonotone
  <2>2. 0 * BlockLen <= (n - 1) * BlockLen
    BY <1>a, TimesMonotone
  <2>3. a \in Nat /\ b \in Nat /\ 1 <= a /\ b <= Len(m) /\ b <= Len(s)
    BY <1>a, <2>1, <2>2, SMTT(60)
  <2>4. \A i \in a .. b : m[i] = s[i] /\ m[i] \in Octets /\ s[i] \in Octets
    <3> HIDE DEF a, b
    <3> TAKE i \in a .. b
    <3>1. i \in 1 .. K * BlockLen /\ i \in 1 .. Len(m) /\ i \in 1 .. Len(s)
      BY <1>a, <2>1, <2>3
    <3> QED BY <3>1, ElementOfSeq
  <2> HIDE DEF a, b
  <2>5. SubSeq(m, a, b) = SubSeq(s, a, b)
    <3>1. /\ SubSeq(m, a, b) \in Seq(Octets) /\ SubSeq(s, a, b) \in Seq(Octets)
          /\ Len(SubSeq(m, a, b)) = Len(SubSeq(s, a, b))
          /\ \A i \in 1 .. Len(SubSeq(m, a, b)) : SubSeq(m, a, b)[i] = m[a + i - 1] /\ SubSeq(s, a, b)[i] = s[a + i - 1]
                                                  /\ a + i - 1 \in a .. b
      BY <2>3, <2>4, SubSeqProperties
    <3> QED BY <3>1, <2>4, SeqEqual, ZenonT(60)
  <2> QED BY <2>5 DEF a, b
<1> HIDE DEF part
<1>3. 0 \in G
  BY <1>1
<1>4. \A n \in 0 .. K - 1 : n \in G => n + 1 \in G
  <2> SUFFICES ASSUME NEW n \in 0 .. K - 1, n \in G PROVE n + 1 \in G
    OBVIOUS
  <2>1. n + 1 \in 1 .. K /\ (n + 1) - 1 = n
    OBVIOUS
  <2>2. f[n + 1] = Round(f[n], part(m, n + 1)) /\ g[n + 1] = Round(g[n], part(s, n + 1))
    BY <1>1, <2>1, SMTT(60)
  <2> QED BY <1>2, <2>1, <2>2
<1> HIDE DEF G
<1>5. K \in G
  <2>1. \A n \in 0 .. K : n \in G
    BY <1>3, <1>4, UpTo
  <2> QED BY <2>1
<1> QED BY <1>5 DEF G

(* What does not complete a block changes no state.                        *)
LEMMA RoundsPrefix ==
  ASSUME NEW val, NEW m \in Seq(Octets), NEW d \in Seq(Octets), (Len(m) % BlockLen) + Len(d) < BlockLen
  PROVE  Rounds(val, m \o d) = Rounds(val, m)
<1> DEFINE q == Len(m) \div BlockLen
           r == Len(m) % BlockLen
<1>0. Len(m) \in Nat /\ Len(d) \in Nat
  BY LenProperties
<1>1. q \in Nat /\ r \in Nat /\ BlockLen \in Nat \ {0} /\ Len(m) = q * BlockLen + r
  BY <1>0, BlocksAndRest
<1>2. m \o d \in Seq(Octets) /\ Len(m \o d) = Len(m) + Len(d) /\ \A i \in 1 .. Len(m) : (m \o d)[i] = m[i]
  BY ConcatProperties
<1>3. Len(m \o d) \div BlockLen = q
  <2>1. Len(m \o d) = q * BlockLen + (r + Len(d)) /\ r + Len(d) \in 0 .. BlockLen - 1
    BY <1>1, <1>2
  <2> HIDE DEF q, r
  <2>2. Len(m \o d) \in Nat /\ q \in Int
    BY <1>0, <1>1, <1>2
  <2> QED BY <2>1, <2>2, BlocksUnique
<1>4. PICK f : IsRounds(f, val, m, q) /\ Rounds(val, m) = f[q]
  BY RoundsValue
<1>5. PICK g : IsRounds(g, val, m \o d, q) /\ Rounds(val, m \o d) = g[q]
  BY <1>2, <1>3, RoundsValue
<1>6. q * BlockLen <= Len(m) /\ q * BlockLen \in Nat
  BY <1>1
<1> HIDE DEF q, r
<1>7. SameBlocks(m, m \o d, q)
  BY <1>0, <1>2, <1>6 DEF SameBlocks
<1>9. q \in Nat /\ q <= q
  BY <1>1
<1>8. f[q] = g[q]
  <2> DEFINE t == m \o d
  <2>1. t \in Seq(Octets) /\ IsRounds(f, val, m, q) /\ IsRounds(g, val, t, q) /\ SameBlocks(m, t, q)
    BY <1>2, <1>4, <1>5, <1>7
  <2> HIDE DEF t
  <2> QED BY <1>9, <2>1, RoundsAgree
<1> QED BY <1>4, <1>5, <1>8

(* What completes a block goes through one round more.                     *)
LEMMA RoundsBlock ==
  ASSUME NEW val, NEW m \in Seq(Octets), NEW d \in Seq(Octets), (Len(m) % BlockLen) + Len(d) = BlockLen
  PROVE  Rounds(val, m \o d)
           = Round(Rounds(val, m), SubSeq(m \o d, Len(m) - (Len(m) % BlockLen) + 1, Len(m) + Len(d)))
<1> DEFINE q == Len(m) \div BlockLen
           r == Len(m) % BlockLen
           t == m \o d
<1>0. Len(m) \in Nat /\ Len(d) \in Nat
  BY LenProperties
<1>1. q \in Nat /\ r \in Nat /\ BlockLen \in Nat \ {0} /\ Len(m) = q * BlockLen + r
  BY <1>0, BlocksAndRest
<1>2. t \in Seq(Octets) /\ Len(t) = Len(m) + Len(d) /\ \A i \in 1 .. Len(m) : t[i] = m[i]
  BY ConcatProperties
<1>3. Len(t) = (q + 1) * BlockLen + 0
  BY <1>1, <1>2, SMTT(60)
<1>4. Len(t) \div BlockLen = q + 1
  <2> HIDE DEF q, r, t
  <2> QED BY <1>1, <1>2, <1>3, BlocksUnique, SMTT(60)
<1>5. PICK f : IsRounds(f, val, m, q) /\ Rounds(val, m) = f[q]
  BY RoundsValue
<1>6. PICK g : IsRounds(g, val, t, q + 1) /\ Rounds(val, t) = g[q + 1]
  BY <1>2, <1>4, RoundsValue
<1>7. /\ q * BlockLen <= Len(m) /\ q * BlockLen <= Len(t) /\ q * BlockLen \in Nat
      /\ q * BlockLen + 1 = Len(m) - r + 1 /\ (q + 1) * BlockLen = Len(m) + Len(d)
  BY <1>1, <1>2, <1>3
<1> HIDE DEF q, r, t
<1>10. SameBlocks(m, t, q)
  BY <1>0, <1>2, <1>7 DEF SameBlocks
<1>11. q \in Nat /\ q <= q /\ q <= q + 1 /\ q + 1 \in Nat
  BY <1>1
<1>8. f[q] = g[q]
  BY <1>2, <1>5, <1>6, <1>10, <1>11, RoundsAgree
<1>9. g[q + 1] = Round(g[q], SubSeq(t, q * BlockLen + 1, (q + 1) * BlockLen))
  <2>1. q + 1 \in 0 .. q + 1 /\ q + 1 # 0 /\ (q + 1) - 1 = q
    BY <1>1
  <2> QED BY <1>6, <2>1 DEF IsRounds
<1> QED BY <1>5, <1>6, <1>7, <1>8, <1>9 DEF t, r

(* A sequence is what comes before a place and what comes after.           *)
LEMMA CutAt ==
  ASSUME NEW S, NEW s \in Seq(S), NEW a \in 0 .. Len(s)
  PROVE  /\ SubSeq(s, 1, a) \in Seq(S) /\ Len(SubSeq(s, 1, a)) = a
         /\ \A i \in 1 .. a : SubSeq(s, 1, a)[i] = s[i]
         /\ SubSeq(s, a + 1, Len(s)) \in Seq(S) /\ Len(SubSeq(s, a + 1, Len(s))) = Len(s) - a
         /\ \A i \in 1 .. Len(s) - a : SubSeq(s, a + 1, Len(s))[i] = s[a + i]
<1>1. Len(s) \in Nat /\ a \in Nat
  BY LenProperties
<1>2. \A i \in 1 .. Len(s) : s[i] \in S
  BY ElementOfSeq
<1>3. /\ SubSeq(s, 1, a) \in Seq(S) /\ Len(SubSeq(s, 1, a)) = a
      /\ \A i \in 1 .. a : SubSeq(s, 1, a)[i] = s[i]
  <2>1. \A i \in 1 .. a : s[i] \in S
    BY <1>1, <1>2
  <2>2. /\ SubSeq(s, 1, a) \in Seq(S) /\ Len(SubSeq(s, 1, a)) = IF 1 <= a THEN a - 1 + 1 ELSE 0
        /\ \A i \in 1 .. a - 1 + 1 : SubSeq(s, 1, a)[i] = s[1 + i - 1]
    BY <1>1, <2>1, SubSeqProperties
  <2>3. a - 1 + 1 = a /\ \A i \in 1 .. a : 1 + i - 1 = i
    BY <1>1
  <2> QED BY <1>1, <2>2, <2>3
<1>4. /\ SubSeq(s, a + 1, Len(s)) \in Seq(S) /\ Len(SubSeq(s, a + 1, Len(s))) = Len(s) - a
      /\ \A i \in 1 .. Len(s) - a : SubSeq(s, a + 1, Len(s))[i] = s[a + i]
  <2> DEFINE n == Len(s)
             b == SubSeq(s, a + 1, n)
  <2>1. \A i \in a + 1 .. n : s[i] \in S
    BY <1>1, <1>2
  <2>2. /\ b \in Seq(S) /\ Len(b) = IF a + 1 <= n THEN n - (a + 1) + 1 ELSE 0
        /\ \A i \in 1 .. n - (a + 1) + 1 : b[i] = s[(a + 1) + i - 1]
    BY <1>1, <2>1, SubSeqProperties
  <2>0. n \in Nat /\ a \in 0 .. n
    BY <1>1
  <2> HIDE DEF n, b
  <2>4. Len(b) = n - a
    BY <2>0, <2>2
  <2>5. \A i \in 1 .. n - a : b[i] = s[a + i]
    <3> TAKE i \in 1 .. n - a
    <3>1. i \in 1 .. n - (a + 1) + 1 /\ (a + 1) + i - 1 = a + i
      BY <2>0
    <3>2. b[i] = s[(a + 1) + i - 1]
      BY <2>2, <3>1
    <3> QED BY <3>1, <3>2
  <2> QED BY <2>2, <2>4, <2>5 DEF n, b
<1> QED BY <1>3, <1>4

(* A piece between two places, and what is left behind it.                 *)
LEMMA CutTwice ==
  ASSUME NEW S, NEW s \in Seq(S), NEW a \in 0 .. Len(s), NEW b \in a .. Len(s)
  PROVE  LET left == SubSeq(s, a + 1, Len(s))
             piece == SubSeq(left, 1, b - a)
         IN  /\ piece \in Seq(S) /\ Len(piece) = b - a
             /\ \A i \in 1 .. b - a : piece[i] = s[a + i]
             /\ SubSeq(s, 1, a) \o piece = SubSeq(s, 1, b)
             /\ SubSeq(left, b - a + 1, Len(left)) = SubSeq(s, b + 1, Len(s))
<1> DEFINE left == SubSeq(s, a + 1, Len(s))
           piece == SubSeq(left, 1, b - a)
<1>1. Len(s) \in Nat /\ a \in Nat /\ b \in Nat /\ b - a \in 0 .. Len(s) - a /\ a <= b
  BY LenProperties
<1>2. left \in Seq(S) /\ Len(left) = Len(s) - a /\ \A i \in 1 .. Len(s) - a : left[i] = s[a + i]
  BY CutAt
<1> HIDE DEF left
<1>3. b - a \in 0 .. Len(left)
  BY <1>1, <1>2
<1>4. /\ piece \in Seq(S) /\ Len(piece) = b - a /\ \A i \in 1 .. b - a : piece[i] = left[i]
      /\ SubSeq(left, b - a + 1, Len(left)) \in Seq(S)
      /\ Len(SubSeq(left, b - a + 1, Len(left))) = Len(left) - (b - a)
      /\ \A i \in 1 .. Len(left) - (b - a) : SubSeq(left, b - a + 1, Len(left))[i] = left[b - a + i]
  BY <1>2, <1>3, CutAt, ZenonT(60)
<1> HIDE DEF piece
<1>5. \A i \in 1 .. b - a : piece[i] = s[a + i]
  <2> TAKE i \in 1 .. b - a
  <2>1. i \in 1 .. Len(s) - a
    BY <1>1
  <2> QED BY <1>2, <1>4, <2>1
<1>6. /\ SubSeq(s, 1, a) \in Seq(S) /\ Len(SubSeq(s, 1, a)) = a
      /\ \A i \in 1 .. a : SubSeq(s, 1, a)[i] = s[i]
      /\ SubSeq(s, 1, b) \in Seq(S) /\ Len(SubSeq(s, 1, b)) = b
      /\ \A i \in 1 .. b : SubSeq(s, 1, b)[i] = s[i]
      /\ SubSeq(s, b + 1, Len(s)) \in Seq(S) /\ Len(SubSeq(s, b + 1, Len(s))) = Len(s) - b
      /\ \A i \in 1 .. Len(s) - b : SubSeq(s, b + 1, Len(s))[i] = s[b + i]
  <2>1. a \in 0 .. Len(s) /\ b \in 0 .. Len(s)
    BY <1>1
  <2> QED BY <2>1, CutAt
<1>7. SubSeq(s, 1, a) \o piece = SubSeq(s, 1, b)
  <2> DEFINE u == SubSeq(s, 1, a)
             v == SubSeq(s, 1, b)
  <2>1. /\ u \o piece \in Seq(S) /\ Len(u \o piece) = Len(u) + Len(piece)
        /\ \A i \in 1 .. Len(u) + Len(piece) : (u \o piece)[i] = IF i <= Len(u) THEN u[i] ELSE piece[i - Len(u)]
    BY <1>4, <1>6, ConcatProperties, ZenonT(60)
  <2>2. Len(u \o piece) = b /\ Len(v) = b
    BY <1>1, <1>4, <1>6, <2>1
  <2>3. \A i \in 1 .. b : (u \o piece)[i] = v[i]
    <3> TAKE i \in 1 .. b
    <3>1. (u \o piece)[i] = IF i <= a THEN u[i] ELSE piece[i - a]
      BY <1>1, <1>4, <1>6, <2>1
    <3>2. v[i] = s[i]
      BY <1>6
    <3>3. CASE i <= a
      BY <1>1, <1>6, <3>1, <3>2, <3>3
    <3>4. CASE ~(i <= a)
      <4>1. i - a \in 1 .. b - a /\ a + (i - a) = i
        BY <1>1, <3>4
      <4>2. piece[i - a] = s[i]
        BY <1>5, <4>1
      <4> QED BY <3>1, <3>2, <3>4, <4>2
    <3> QED BY <3>3, <3>4
  <2> QED BY <1>6, <2>1, <2>2, <2>3, SeqEqual
<1>8. SubSeq(left, b - a + 1, Len(left)) = SubSeq(s, b + 1, Len(s))
  <2> DEFINE u == SubSeq(left, b - a + 1, Len(left))
             v == SubSeq(s, b + 1, Len(s))
  <2>1. Len(u) = Len(s) - b /\ Len(v) = Len(s) - b
    BY <1>1, <1>2, <1>4, <1>6
  <2>2. \A i \in 1 .. Len(s) - b : u[i] = v[i]
    BY <1>1, <1>2, <1>4, <1>6
  <2> QED BY <1>4, <1>6, <2>1, <2>2, SeqEqual, ZenonT(60)
<1> QED BY <1>4, <1>5, <1>7, <1>8 DEF left, piece

-----------------------------------------------------------------------------
(* The context that has seen m.                                            *)
Holds(cc, m) ==
  /\ m \in Seq(Octets) /\ cc.buf \in [1 .. BlockLen -> Octets]
  /\ cc.count = Len(m) /\ cc.val = Rounds(Start, m)
  /\ \A i \in 1 .. Len(m) % BlockLen : cc.buf[i] = m[Len(m) - (Len(m) % BlockLen) + i]

(* What fits in the block of a context is seen by the context.             *)
LEMMA FillHolds ==
  ASSUME NEW cc, NEW m, Holds(cc, m), NEW d \in Seq(Octets), (Len(m) % BlockLen) + Len(d) <= BlockLen
  PROVE  Holds(Fill(cc, d), m \o d)
<1> DEFINE r == Len(m) % BlockLen
           L == Len(m)
           q == L \div BlockLen
           t == m \o d
           filled == Put(cc.buf, r, d)
<1>1. /\ L \in Nat /\ Len(d) \in Nat /\ m \in Seq(Octets) /\ BlockLen \in Nat \ {0}
      /\ r \in 0 .. BlockLen - 1 /\ L = q * BlockLen + r /\ q \in Nat
  <2>1. m \in Seq(Octets)
    BY DEF Holds
  <2>2. L \in Nat /\ Len(d) \in Nat
    BY <2>1, LenProperties
  <2> QED BY <2>1, <2>2, BlocksAndRest
<1>9. L - r >= 0
  <2>1. 0 * BlockLen <= q * BlockLen /\ q * BlockLen \in Nat
    BY <1>1, TimesMonotone
  <2> HIDE DEF r, L, q
  <2>2. 0 * BlockLen = 0
    BY <1>1
  <2> QED BY <1>1, <2>1, <2>2
<1>2. /\ t \in Seq(Octets) /\ Len(t) = L + Len(d)
      /\ \A i \in 1 .. L + Len(d) : t[i] = IF i <= L THEN m[i] ELSE d[i - L]
  BY <1>1, ConcatProperties
<1>3. /\ Fill(cc, d).buf = filled /\ Fill(cc, d).count = L + Len(d)
      /\ Fill(cc, d).val = IF r + Len(d) = BlockLen THEN Round(cc.val, filled) ELSE cc.val
  BY DEF Holds, Fill, Ptr
<1>4. /\ DOMAIN filled = 1 .. BlockLen
      /\ \A i \in 1 .. BlockLen : filled[i] = IF i - r \in 1 .. Len(d) THEN d[i - r] ELSE cc.buf[i]
  <2>1. DOMAIN cc.buf = 1 .. BlockLen /\ DOMAIN d = 1 .. Len(d)
    BY LenProperties DEF Holds
  <2> QED BY <2>1 DEF Put
<1>5. filled \in [1 .. BlockLen -> Octets]
  <2>1. \A i \in 1 .. BlockLen : filled[i] \in Octets
    <3> TAKE i \in 1 .. BlockLen
    <3>1. CASE i - r \in 1 .. Len(d)
      BY <1>4, <3>1, ElementOfSeq
    <3>2. CASE i - r \notin 1 .. Len(d)
      BY <1>4, <3>2 DEF Holds
    <3> QED BY <3>1, <3>2
  <2>2. filled = [i \in 1 .. BlockLen |-> filled[i]]
    BY <1>4 DEF Put, Holds
  <2> HIDE DEF filled
  <2> QED BY <2>1, <2>2
<1>6. \A i \in 1 .. r + Len(d) : i \in 1 .. BlockLen /\ filled[i] = t[(L - r) + i]
  <2> TAKE i \in 1 .. r + Len(d)
  <2>1. i \in 1 .. BlockLen /\ (L - r) + i \in 1 .. L + Len(d)
    <3> HIDE DEF r, L, q
    <3>2. i \in Int /\ 1 <= i /\ i <= r + Len(d) /\ r \in Int /\ Len(d) \in Int /\ L \in Int
      BY <1>1
    <3>3. r + Len(d) <= BlockLen
      BY DEF r
    <3> QED BY <1>1, <1>9, <3>2, <3>3
  <2>2. CASE i <= r
    <3>1. cc.buf[i] = m[(L - r) + i]
      <4>1. i \in 1 .. r
        <5> HIDE DEF r, L, q, t, filled
        <5>1. i \in Int /\ 1 <= i /\ r \in Int
          BY <1>1, <2>1
        <5> QED BY <2>2, <5>1
      <4>2. \A j \in 1 .. r : cc.buf[j] = m[L - r + j]
        BY DEF Holds
      <4> QED BY <4>1, <4>2, Zenon
    <3>2. t[(L - r) + i] = m[(L - r) + i]
      <4> DEFINE k == (L - r) + i
      <4> HIDE DEF r, L, q, t
      <4>1. k \in 1 .. L + Len(d) /\ k <= L
        <5>1. r \in Int /\ i \in Int /\ L \in Int
          BY <1>1
        <5> QED BY <2>1, <2>2, <5>1
      <4> HIDE DEF k
      <4>2. t[k] = m[k]
        BY <1>2, <4>1
      <4> QED BY <4>2 DEF k
    <3>3. filled[i] = cc.buf[i]
      <4> HIDE DEF r, L, q, t, filled
      <4>1. i - r \notin 1 .. Len(d)
        <5>1. r \in Int /\ i \in Int
          BY <1>1
        <5> QED BY <2>2, <5>1
      <4> QED BY <1>4, <2>1, <4>1
    <3> QED BY <2>1, <3>1, <3>2, <3>3
  <2>3. CASE ~(i <= r)
    <3> HIDE DEF r, L, q, t, filled
    <3>1. t[(L - r) + i] = d[((L - r) + i) - L] /\ ((L - r) + i) - L = i - r
      BY <1>1, <1>2, <2>1, <2>3
    <3>2. filled[i] = d[i - r]
      <4>1. i - r \in 1 .. Len(d)
        BY <1>1, <2>1, <2>3
      <4> QED BY <1>4, <2>1, <4>1
    <3> QED BY <2>1, <3>1, <3>2
  <2> QED BY <2>2, <2>3
<1>7. CASE r + Len(d) < BlockLen
  <2>1. Len(t) % BlockLen = r + Len(d)
    <3>1. Len(t) = q * BlockLen + (r + Len(d)) /\ r + Len(d) \in 0 .. BlockLen - 1
      <4> HIDE DEF r, L, q, t
      <4> QED BY <1>1, <1>2, <1>7
    <3>2. Len(t) \in Nat /\ q \in Int
      BY <1>1, <1>2
    <3> HIDE DEF r, L, q, t
    <3> QED BY <3>1, <3>2, BlocksUnique
  <2>2. Fill(cc, d).val = Rounds(Start, t)
    <3>1. Fill(cc, d).val = cc.val
      <4> HIDE DEF r, filled
      <4> QED BY <1>1, <1>3, <1>7
    <3> QED BY <1>1, <1>7, <3>1, RoundsPrefix DEF Holds
  <2>3. Len(t) - (Len(t) % BlockLen) = L - r
    <3> HIDE DEF r, L, q, t
    <3> QED BY <1>1, <1>2, <2>1
  <2>4. \A i \in 1 .. Len(t) % BlockLen : Fill(cc, d).buf[i] = t[Len(t) - (Len(t) % BlockLen) + i]
    <3> HIDE DEF r, L, q, t, filled
    <3> QED BY <1>3, <1>6, <2>1, <2>3
  <2> QED BY <1>2, <1>3, <1>5, <2>2, <2>4 DEF Holds
<1>8. CASE r + Len(d) = BlockLen
  <2>1. Len(t) % BlockLen = 0
    <3>1. Len(t) = (q + 1) * BlockLen + 0
      <4>1. (q + 1) * BlockLen = q * BlockLen + BlockLen /\ q * BlockLen \in Int
        BY <1>1
      <4> HIDE DEF r, L, q, t
      <4>2. L = q * BlockLen + r /\ r \in Int /\ Len(d) \in Int /\ BlockLen \in Int
        BY <1>1
      <4> QED BY <1>2, <1>8, <4>1, <4>2
    <3>2. Len(t) \in Nat /\ q + 1 \in Int /\ 0 \in 0 .. BlockLen - 1
      BY <1>1, <1>2
    <3> HIDE DEF r, L, q, t
    <3> QED BY <3>1, <3>2, BlocksUnique
  <2> DEFINE block == SubSeq(t, L - r + 1, L + Len(d))
  <2>2. filled = block
    <3>1. L - r \in 0 .. Len(t) /\ Len(t) - (L - r) = BlockLen
      <4> HIDE DEF r, L, q, t
      <4>1. L \in Int /\ r \in Int /\ Len(d) \in Int /\ Len(d) >= 0 /\ r >= 0
        BY <1>1
      <4>2. Len(t) = L + Len(d) /\ r + Len(d) = BlockLen
        BY <1>2, <1>8
      <4>3. Len(t) - (L - r) = BlockLen
        BY <4>1, <4>2
      <4> QED BY <1>9, <4>1, <4>2, <4>3
    <3>2. /\ block \in Seq(Octets) /\ Len(block) = BlockLen
          /\ \A i \in 1 .. BlockLen : block[i] = t[(L - r) + i]
      <4>1. block = SubSeq(t, (L - r) + 1, Len(t))
        BY <1>2
      <4> HIDE DEF r, L, q, t, block
      <4> QED BY <1>2, <3>1, <4>1, CutAt, ZenonT(60)
    <3>3. filled \in Seq(Octets) /\ Len(filled) = BlockLen
      <4> HIDE DEF filled
      <4> QED BY <1>1, <1>5
    <3>4. \A i \in 1 .. BlockLen : filled[i] = block[i]
      <4> HIDE DEF r, L, q, t, block, filled
      <4> QED BY <1>6, <1>8, <3>2
    <3> HIDE DEF block, filled
    <3> QED BY <3>2, <3>3, <3>4, SeqEqual
  <2>3. Rounds(Start, t) = Round(cc.val, block)
    BY <1>1, <1>8, RoundsBlock DEF Holds
  <2>4. Fill(cc, d).val = Rounds(Start, t)
    BY <1>3, <1>8, <2>2, <2>3
  <2>5. \A i \in 1 .. Len(t) % BlockLen : FALSE
    BY <2>1
  <2> QED BY <1>2, <1>3, <1>5, <2>4, <2>5 DEF Holds
<1> QED BY <1>1, <1>7, <1>8

(* A loop: the values of a variable that each turn replaces.               *)
IsLoop(N, S, start, step) == N \in Nat /\ start \in S /\ step \in [S -> S]

(* A loop of N turns that starts in S and stays there has values.          *)
LEMMA LoopExists ==
  ASSUME NEW N, NEW S, NEW start, NEW step, IsLoop(N, S, start, step)
  PROVE  \E at \in [0 .. N -> S] :
           at[0] = start /\ \A n \in 1 .. N : at[n] = step[at[n - 1]]
<1> USE DEF IsLoop
<1> DEFINE Runs(k, at) == at \in [0 .. k -> S] /\ at[0] = start /\ \A n \in 1 .. k : at[n] = step[at[n - 1]]
           G == {k \in Nat : \E at : Runs(k, at)}
<1>1. 0 \in G
  <2>1. Runs(0, [n \in 0 .. 0 |-> start])
    OBVIOUS
  <2> HIDE DEF Runs
  <2> QED BY <2>1
<1>2. \A k \in 0 .. N - 1 : k \in G => k + 1 \in G
  <2> SUFFICES ASSUME NEW k \in 0 .. N - 1, k \in G PROVE k + 1 \in G
    OBVIOUS
  <2>1. PICK at : Runs(k, at)
    OBVIOUS
  <2> DEFINE more == [n \in 0 .. k + 1 |-> IF n = k + 1 THEN step[at[k]] ELSE at[n]]
  <2>2. at[k] \in S
    BY <2>1
  <2>3. more \in [0 .. k + 1 -> S]
    BY <2>1, <2>2
  <2>4. more[0] = start
    BY <2>1
  <2>5. \A n \in 1 .. k + 1 : more[n] = step[more[n - 1]]
    <3> TAKE n \in 1 .. k + 1
    <3>1. CASE n = k + 1
      BY <3>1
    <3>2. CASE n \in 1 .. k
      BY <3>2, <2>1
    <3> QED BY <3>1, <3>2
  <2>6. Runs(k + 1, more)
    BY <2>3, <2>4, <2>5
  <2> HIDE DEF Runs, more
  <2> QED BY <2>6
<1>3. N \in G
  <2> HIDE DEF G
  <2> QED BY <1>1, <1>2, UpTo
<1>4. PICK at : Runs(N, at)
  BY <1>3
<1> QED BY <1>4

-----------------------------------------------------------------------------
(* A number modulo 256 is a byte.                                          *)
LEMMA ByteOf ==
  ASSUME NEW y \in Int
  PROVE  y % 256 \in Octets
BY DEF Octets

(* The bytes of a number are n bytes.                                      *)
LEMMA BytesRight ==
  ASSUME NEW x \in Int, NEW n \in Nat
  PROVE  Bytes(x, n) \in Seq(Octets) /\ Len(Bytes(x, n)) = n
<1> DEFINE step == [y \in Int |-> y \div 256]
           Eq(f) == f = [k \in 0 .. n |-> IF k = 0 THEN x ELSE f[k - 1] \div 256]
           chosen == CHOOSE f : Eq(f)
<1>0. \E at \in [0 .. n -> Int] : at[0] = x /\ \A k \in 1 .. n : at[k] = step[at[k - 1]]
  <2> DEFINE numbers == Int
  <2>1. IsLoop(n, numbers, x, step)
    BY DEF IsLoop
  <2> HIDE DEF step, numbers
  <2>2. \E at \in [0 .. n -> numbers] : at[0] = x /\ \A k \in 1 .. n : at[k] = step[at[k - 1]]
    BY <2>1, LoopExists, SMTT(60)
  <2> QED BY <2>2 DEF numbers
<1>1. PICK at \in [0 .. n -> Int] : at[0] = x /\ \A k \in 1 .. n : at[k] = step[at[k - 1]]
  BY <1>0
<1>2. Eq(at)
  <2>1. \A k \in 0 .. n : at[k] = IF k = 0 THEN x ELSE at[k - 1] \div 256
    <3> TAKE k \in 0 .. n
    <3>1. CASE k = 0
      BY <1>1, <3>1
    <3>2. CASE k \in 1 .. n
      <4>1. at[k - 1] \in Int
        BY <3>2
      <4> QED BY <1>1, <3>2, <4>1
    <3> QED BY <3>1, <3>2
  <2> QED BY <2>1
<1>3. Eq(chosen)
  <2> HIDE DEF Eq
  <2> QED BY <1>2
<1>4. Bytes(x, n) = [i \in 1 .. n |-> chosen[n - i] % 256]
  BY DEF Bytes
<1> HIDE DEF chosen
<1>5. \A k \in 0 .. n : chosen[k] \in Int
  <2> DEFINE G == {k \in 0 .. n : chosen[k] \in Int}
  <2>1. chosen[0] = x /\ \A k \in 0 .. n - 1 : chosen[k + 1] = chosen[k] \div 256
    BY <1>3
  <2>2. 0 \in G
    BY <2>1
  <2>3. \A k \in 0 .. n - 1 : k \in G => k + 1 \in G
    BY <2>1
  <2> HIDE DEF G
  <2>4. \A k \in 0 .. n : k \in G
    BY <2>2, <2>3, UpTo
  <2> QED BY <2>4 DEF G
<1>6. \A i \in 1 .. n : chosen[n - i] % 256 \in Octets
  <2> TAKE i \in 1 .. n
  <2>1. n - i \in 0 .. n
    OBVIOUS
  <2>2. chosen[n - i] \in Int
    BY <1>5, <2>1
  <2> QED BY <2>2, ByteOf
<1> QED BY <1>4, <1>6

(* The encoded length of a message has LengthLen bytes.                    *)
LEMMA LengthBytes ==
  ASSUME NEW n \in Nat
  PROVE  EncodedLength(n) \in Seq(Octets) /\ Len(EncodedLength(n)) = LengthLen
<1>1. LengthLen \in Nat /\ 8 * n \in Int
  BY HashAssumption
<1> QED BY <1>1, BytesRight DEF EncodedLength

(* n zeros are n bytes.                                                    *)
LEMMA ZerosRight ==
  ASSUME NEW n \in Nat
  PROVE  Zeros(n) \in Seq(Octets) /\ Len(Zeros(n)) = n /\ \A i \in 1 .. n : Zeros(n)[i] = 0
BY DEF Zeros, Octets

(* Zeros behind zeros are zeros.                                           *)
LEMMA ZerosJoin ==
  ASSUME NEW a \in Nat, NEW b \in Nat
  PROVE  Zeros(a) \o Zeros(b) = Zeros(a + b)
<1>1. /\ Zeros(a) \in Seq(Octets) /\ Len(Zeros(a)) = a /\ \A i \in 1 .. a : Zeros(a)[i] = 0
      /\ Zeros(b) \in Seq(Octets) /\ Len(Zeros(b)) = b /\ \A i \in 1 .. b : Zeros(b)[i] = 0
      /\ a + b \in Nat
      /\ Zeros(a + b) \in Seq(Octets) /\ Len(Zeros(a + b)) = a + b /\ \A i \in 1 .. a + b : Zeros(a + b)[i] = 0
  BY ZerosRight
<1>2. /\ Zeros(a) \o Zeros(b) \in Seq(Octets) /\ Len(Zeros(a) \o Zeros(b)) = a + b
      /\ \A i \in 1 .. a + b : (Zeros(a) \o Zeros(b))[i] = IF i <= a THEN Zeros(a)[i] ELSE Zeros(b)[i - a]
  <2> DEFINE u == Zeros(a)
             v == Zeros(b)
  <2>1. u \in Seq(Octets) /\ v \in Seq(Octets) /\ Len(u) = a /\ Len(v) = b
    BY <1>1
  <2> HIDE DEF u, v
  <2>2. /\ u \o v \in Seq(Octets) /\ Len(u \o v) = Len(u) + Len(v)
        /\ \A i \in 1 .. Len(u) + Len(v) : (u \o v)[i] = IF i <= Len(u) THEN u[i] ELSE v[i - Len(u)]
    BY <2>1, ConcatProperties
  <2> QED BY <2>1, <2>2 DEF u, v
<1>3. \A i \in 1 .. a + b : (Zeros(a) \o Zeros(b))[i] = Zeros(a + b)[i]
  <2> TAKE i \in 1 .. a + b
  <2>1. CASE i <= a
    BY <1>1, <1>2, <2>1
  <2>2. CASE ~(i <= a)
    <3>1. i - a \in 1 .. b
      BY <2>2
    <3> QED BY <1>1, <1>2, <2>2, <3>1
  <2> QED BY <2>1, <2>2
<1> QED BY <1>1, <1>2, <1>3, SeqEqual

-----------------------------------------------------------------------------
(* The turns of the loop of update.                                        *)
IsFilling(f, cc, d, N) ==
  f = [n \in 0 .. N |-> IF n = 0 THEN [cc |-> cc, left |-> d] ELSE FillTurn(f[n - 1])]

(* The turns of the loop are defined by recursion over their number.       *)
LEMMA FillingExists ==
  ASSUME NEW cc, NEW d, NEW N \in Nat
  PROVE  \E f : IsFilling(f, cc, d, N)
<1> DEFINE G == {k \in 0 .. N : \E f : IsFilling(f, cc, d, k)}
<1>1. 0 \in G
  <2>1. IsFilling([n \in 0 .. 0 |-> [cc |-> cc, left |-> d]], cc, d, 0)
    BY DEF IsFilling
  <2> QED BY <2>1
<1>2. \A k \in 0 .. N - 1 : k \in G => k + 1 \in G
  <2> SUFFICES ASSUME NEW k \in 0 .. N - 1, k \in G PROVE k + 1 \in G
    OBVIOUS
  <2>1. PICK f : IsFilling(f, cc, d, k)
    OBVIOUS
  <2> DEFINE start == [cc |-> cc, left |-> d]
             more == [n \in 0 .. k + 1 |-> IF n = k + 1 THEN FillTurn(f[k]) ELSE f[n]]
  <2>2. \A n \in 0 .. k : f[n] = IF n = 0 THEN start ELSE FillTurn(f[n - 1])
    BY <2>1 DEF IsFilling
  <2>3. \A n \in 0 .. k + 1 : more[n] = IF n = 0 THEN start ELSE FillTurn(more[n - 1])
    <3> HIDE DEF start
    <3> TAKE n \in 0 .. k + 1
    <3>1. CASE n = k + 1
      BY <3>1
    <3>2. CASE n \in 0 .. k
      <4>1. n # 0 => more[n - 1] = f[n - 1]
        BY <3>2
      <4> QED BY <3>2, <2>2, <4>1
    <3> QED BY <3>1, <3>2
  <2>4. more = [n \in 0 .. k + 1 |-> IF n = 0 THEN start ELSE FillTurn(more[n - 1])]
    BY <2>3
  <2>5. IsFilling(more, cc, d, k + 1)
    <3> HIDE DEF more
    <3> QED BY <2>4 DEF IsFilling
  <2> QED BY <2>5
<1> HIDE DEF G
<1>3. N \in G
  BY <1>1, <1>2, UpTo
<1> QED BY <1>3 DEF G

(* A turn of the loop that still has data left takes some of it.           *)
LEMMA FillTurnHolds ==
  ASSUME NEW m, NEW d \in Seq(Octets), NEW a \in 0 .. Len(d), NEW t,
         t.left = SubSeq(d, a + 1, Len(d)), Holds(t.cc, m \o SubSeq(d, 1, a)), m \in Seq(Octets), a < Len(d)
  PROVE  \E b \in a + 1 .. Len(d) :
           FillTurn(t).left = SubSeq(d, b + 1, Len(d)) /\ Holds(FillTurn(t).cc, m \o SubSeq(d, 1, b))
<1> DEFINE s == m \o SubSeq(d, 1, a)
           left == t.left
           room == BlockLen - Ptr(t.cc)
           clen == IF room > Len(left) THEN Len(left) ELSE room
           b == a + clen
           piece == SubSeq(left, 1, clen)
<1>1. Len(d) \in Nat /\ a \in Nat /\ Len(d) - a \in Nat \ {0}
  BY LenProperties
<1>2. left \in Seq(Octets) /\ Len(left) = Len(d) - a /\ SubSeq(d, 1, a) \in Seq(Octets)
  BY CutAt
<1>3. s \in Seq(Octets) /\ Len(s) \in Nat
  BY <1>2, ConcatProperties, LenProperties
<1>4. Ptr(t.cc) = Len(s) % BlockLen
  BY DEF Ptr, Holds
<1>5. Len(s) % BlockLen \in 0 .. BlockLen - 1 /\ BlockLen \in Nat \ {0}
  BY <1>3, BlocksAndRest
<1>6. clen \in 1 .. Len(left) /\ clen <= room /\ room = BlockLen - (Len(s) % BlockLen)
  <2>1. room = BlockLen - (Len(s) % BlockLen)
    BY <1>4
  <2>2. Len(left) \in Nat \ {0}
    BY <1>1, <1>2
  <2> HIDE DEF room, s, left
  <2>3. room \in Nat \ {0}
    BY <1>5, <2>1
  <2> QED BY <2>1, <2>2, <2>3
<1>7. left # <<>>
  BY <1>1, <1>2, EmptySeq
<1>8. FillTurn(t) = [cc |-> Fill(t.cc, piece), left |-> SubSeq(left, clen + 1, Len(left))]
  BY <1>7 DEF FillTurn
<1> HIDE DEF clen, room
<1>9. b \in a + 1 .. Len(d) /\ b \in a .. Len(d) /\ b - a = clen
  BY <1>1, <1>2, <1>6
<1>10. /\ piece \in Seq(Octets) /\ Len(piece) = clen
       /\ SubSeq(d, 1, a) \o piece = SubSeq(d, 1, b)
       /\ SubSeq(left, clen + 1, Len(left)) = SubSeq(d, b + 1, Len(d))
  <2> HIDE DEF b
  <2>1. LET left0 == SubSeq(d, a + 1, Len(d))
            piece0 == SubSeq(left0, 1, b - a)
        IN  /\ piece0 \in Seq(Octets) /\ Len(piece0) = b - a
            /\ \A i \in 1 .. b - a : piece0[i] = d[a + i]
            /\ SubSeq(d, 1, a) \o piece0 = SubSeq(d, 1, b)
            /\ SubSeq(left0, b - a + 1, Len(left0)) = SubSeq(d, b + 1, Len(d))
    BY <1>9, CutTwice, ZenonT(60)
  <2> QED BY <1>9, <2>1
<1>11. Holds(Fill(t.cc, piece), s \o piece)
  <2> HIDE DEF s, piece
  <2>1. (Len(s) % BlockLen) + Len(piece) <= BlockLen
    <3>1. Len(piece) = clen /\ clen \in Int
      BY <1>6, <1>10
    <3> QED BY <1>5, <1>6, <3>1
  <2> QED BY <1>10, <2>1, FillHolds DEF s
<1>12. s \o piece = m \o SubSeq(d, 1, b)
  <2> DEFINE u == SubSeq(d, 1, a)
  <2>1. u \in Seq(Octets) /\ piece \in Seq(Octets)
    BY <1>2, <1>10
  <2> HIDE DEF u, piece
  <2>2. (m \o u) \o piece = m \o (u \o piece)
    BY <2>1, ConcatAssociative, SMTT(60)
  <2> QED BY <1>10, <2>2 DEF u
<1>13. FillTurn(t).left = SubSeq(d, b + 1, Len(d)) /\ Holds(FillTurn(t).cc, m \o SubSeq(d, 1, b))
  <2> DEFINE x == Fill(t.cc, piece)
             y == SubSeq(left, clen + 1, Len(left))
  <2>2. FillTurn(t) = [cc |-> x, left |-> y]
    BY <1>8
  <2> HIDE DEF x, y
  <2>3. FillTurn(t).left = y /\ FillTurn(t).cc = x
    BY <2>2
  <2> HIDE DEF b, s, piece
  <2>1. FillTurn(t).left = SubSeq(left, clen + 1, Len(left)) /\ FillTurn(t).cc = Fill(t.cc, piece)
    BY <2>3 DEF x, y
  <2> QED BY <1>10, <1>11, <1>12, <2>1
<1> HIDE DEF b
<1> QED BY <1>9, <1>13

(* update: the context has seen the data as well.                          *)
LEMMA UpdateHolds ==
  ASSUME NEW cc, NEW m, Holds(cc, m), NEW d \in Seq(Octets)
  PROVE  Holds(Update(cc, d), m \o d)
<1> DEFINE N == Len(d)
           chosen == CHOOSE f : IsFilling(f, cc, d, N)
           Seen(k, b) == /\ chosen[k].left = SubSeq(d, b + 1, N) /\ Holds(chosen[k].cc, m \o SubSeq(d, 1, b))
                         /\ k <= b \/ b = N
           G == {k \in 0 .. N : \E b \in 0 .. N : Seen(k, b)}
<1>1. N \in Nat /\ m \in Seq(Octets)
  BY LenProperties DEF Holds
<1>2. Update(cc, d) = chosen[N].cc
  BY DEF Update, IsFilling
<1>3. IsFilling(chosen, cc, d, N)
  <2> HIDE DEF N
  <2> QED BY <1>1, FillingExists
<1> HIDE DEF chosen
<1>4. chosen[0] = [cc |-> cc, left |-> d] /\ \A k \in 0 .. N - 1 : chosen[k + 1] = FillTurn(chosen[k])
  <2>1. chosen[0] = [cc |-> cc, left |-> d]
    BY <1>1, <1>3 DEF IsFilling
  <2>2. ASSUME NEW k \in 0 .. N - 1
        PROVE  chosen[k + 1] = FillTurn(chosen[k])
    <3>1. k + 1 \in 0 .. N /\ k + 1 # 0 /\ (k + 1) - 1 = k
      BY <1>1
    <3> QED BY <1>3, <3>1 DEF IsFilling
  <2> QED BY <2>1, <2>2
<1>5. 0 \in G
  <2>1. SubSeq(d, 1, 0) = <<>> /\ SubSeq(d, 0 + 1, N) = d
    BY <1>1, SubSeqEmpty, SubSeqFull
  <2>2. m \o SubSeq(d, 1, 0) = m
    BY <1>1, <2>1, ConcatEmptySeq
  <2>3. chosen[0].cc = cc /\ chosen[0].left = d
    BY <1>4
  <2>4. Holds(chosen[0].cc, m \o SubSeq(d, 1, 0)) /\ chosen[0].left = SubSeq(d, 0 + 1, N)
    BY <2>1, <2>2, <2>3
  <2>5. 0 \in 0 .. N /\ Seen(0, 0)
    BY <1>1, <2>4
  <2> HIDE DEF Seen
  <2> QED BY <2>5
<1>6. \A k \in 0 .. N - 1 : k \in G => k + 1 \in G
  <2> SUFFICES ASSUME NEW k \in 0 .. N - 1, NEW b \in 0 .. N, Seen(k, b) PROVE k + 1 \in G
    OBVIOUS
  <2>1. chosen[k + 1] = FillTurn(chosen[k])
    BY <1>4
  <2>2. CASE b = N
    <3>1. chosen[k].left = <<>>
      BY <1>1, <2>2, SubSeqEmpty
    <3>2. FillTurn(chosen[k]) = chosen[k]
      BY <3>1 DEF FillTurn
    <3>3. Seen(k + 1, b)
      BY <2>1, <2>2, <3>2
    <3> QED BY <3>3
  <2>3. CASE b < N
    <3>1. PICK c \in b + 1 .. N :
            /\ FillTurn(chosen[k]).left = SubSeq(d, c + 1, N)
            /\ Holds(FillTurn(chosen[k]).cc, m \o SubSeq(d, 1, c))
      BY <1>1, <2>3, FillTurnHolds
    <3>2. k <= b
      BY <1>1, <2>3
    <3>3. c \in 0 .. N /\ (k + 1 <= c \/ c = N)
      BY <1>1, <3>2
    <3>4. Seen(k + 1, c)
      BY <2>1, <3>1, <3>3
    <3> QED BY <3>3, <3>4
  <2> QED BY <1>1, <2>2, <2>3
<1> HIDE DEF G
<1>7. N \in G
  <2> HIDE DEF N
  <2>1. \A k \in 0 .. N : k \in G
    BY <1>1, <1>5, <1>6, UpTo
  <2> QED BY <1>1, <2>1
<1>8. PICK b \in 0 .. N : Seen(N, b)
  BY <1>7 DEF G
<1>9. b = N /\ SubSeq(d, 1, N) = d
  BY <1>1, <1>8, SubSeqFull
<1> QED BY <1>2, <1>8, <1>9

(* Joining sequences is associative and adds their lengths.                *)
LEMMA Joined ==
  ASSUME NEW s \in Seq(Octets), NEW t \in Seq(Octets), NEW u \in Seq(Octets)
  PROVE  /\ (s \o t) \o u = s \o (t \o u)
         /\ s \o t \in Seq(Octets) /\ Len(s \o t) = Len(s) + Len(t)
         /\ Len(s) \in Nat /\ Len(t) \in Nat
BY ConcatAssociative, ConcatProperties, LenProperties, SMTT(60)

(* Joining sequences is associative.                                       *)
LEMMA JoinedAnyhow ==
  ASSUME NEW s \in Seq(Octets), NEW t \in Seq(Octets), NEW u \in Seq(Octets)
  PROVE  (s \o t) \o u = s \o (t \o u)
BY Joined, ZenonT(60)

(* What a block holds when it is filled up.                                *)
LEMMA FullBlock ==
  ASSUME NEW cc, NEW m, Holds(cc, m), NEW d \in Seq(Octets), (Len(m) % BlockLen) + Len(d) = BlockLen
  PROVE  Rounds(Start, m \o d) = Round(cc.val, SubSeq(cc.buf, 1, Len(m) % BlockLen) \o d)
<1> DEFINE r == Len(m) % BlockLen
           L == Len(m)
           q == L \div BlockLen
           t == m \o d
           head == SubSeq(cc.buf, 1, r)
           block == SubSeq(t, (L - r) + 1, Len(t))
<1>1. /\ L \in Nat /\ Len(d) \in Nat /\ m \in Seq(Octets) /\ BlockLen \in Nat \ {0}
      /\ r \in 0 .. BlockLen - 1 /\ L = q * BlockLen + r /\ q \in Nat
  <2>1. m \in Seq(Octets)
    BY DEF Holds
  <2>2. L \in Nat /\ Len(d) \in Nat
    BY <2>1, LenProperties
  <2> QED BY <2>1, <2>2, BlocksAndRest
<1>2. /\ t \in Seq(Octets) /\ Len(t) = L + Len(d)
      /\ \A i \in 1 .. L + Len(d) : t[i] = IF i <= L THEN m[i] ELSE d[i - L]
  BY <1>1, ConcatProperties
<1>3. L - r >= 0
  <2>1. 0 * BlockLen <= q * BlockLen /\ q * BlockLen \in Nat
    BY <1>1, TimesMonotone
  <2> HIDE DEF r, L, q
  <2>2. 0 * BlockLen = 0
    BY <1>1
  <2> QED BY <1>1, <2>1, <2>2
<1>4. r + Len(d) = BlockLen
  OBVIOUS
<1>5. Rounds(Start, t) = Round(cc.val, block)
  <2>1. cc.val = Rounds(Start, m) /\ (L - r) + 1 = L - r + 1
    BY DEF Holds
  <2>2. Rounds(Start, t) = Round(Rounds(Start, m), SubSeq(t, L - r + 1, L + Len(d)))
    BY <1>1, RoundsBlock
  <2> QED BY <1>2, <2>1, <2>2
<1>6. cc.buf \in Seq(Octets) /\ Len(cc.buf) = BlockLen /\ \A i \in 1 .. r : cc.buf[i] = m[(L - r) + i]
  BY <1>1 DEF Holds
<1> HIDE DEF L, q, t, r
<1>7. r \in 0 .. Len(cc.buf) /\ L - r \in 0 .. Len(t) /\ Len(t) - (L - r) = BlockLen
  <2>1. L \in Int /\ r \in Int /\ Len(d) \in Int /\ Len(d) >= 0 /\ r >= 0 /\ Len(t) = L + Len(d)
    BY <1>1, <1>2
  <2>2. Len(t) - (L - r) = BlockLen
    BY <1>4, <2>1
  <2>3. L - r \in 0 .. Len(t)
    BY <1>3, <2>1
  <2>4. r \in 0 .. Len(cc.buf)
    BY <1>1, <1>6
  <2> QED BY <2>2, <2>3, <2>4
<1>8. head \in Seq(Octets) /\ Len(head) = r /\ \A i \in 1 .. r : head[i] = cc.buf[i]
  BY <1>6, <1>7, CutAt
<1>9. /\ block \in Seq(Octets) /\ Len(block) = BlockLen
      /\ \A i \in 1 .. BlockLen : block[i] = t[(L - r) + i]
  BY <1>2, <1>7, CutAt, ZenonT(60)
<1> HIDE DEF head, block
<1>10. /\ head \o d \in Seq(Octets) /\ Len(head \o d) = BlockLen
       /\ \A i \in 1 .. BlockLen : (head \o d)[i] = IF i <= r THEN head[i] ELSE d[i - r]
  <2>1. /\ head \o d \in Seq(Octets) /\ Len(head \o d) = Len(head) + Len(d)
        /\ \A i \in 1 .. Len(head) + Len(d) : (head \o d)[i] = IF i <= Len(head) THEN head[i] ELSE d[i - Len(head)]
    BY <1>8, ConcatProperties
  <2> QED BY <1>4, <1>8, <2>1
<1>11. \A i \in 1 .. BlockLen : block[i] = (head \o d)[i]
  <2> TAKE i \in 1 .. BlockLen
  <2>1. L \in Int /\ r \in Int /\ Len(d) \in Int /\ i \in Int /\ 1 <= i /\ i <= r + Len(d) /\ r >= 0
    BY <1>1, <1>4
  <2>2. (L - r) + i \in 1 .. L + Len(d)
    BY <1>3, <2>1
  <2>3. block[i] = IF (L - r) + i <= L THEN m[(L - r) + i] ELSE d[((L - r) + i) - L]
    BY <1>2, <1>9, <2>2
  <2>4. CASE i <= r
    <3>1. i \in 1 .. r /\ (L - r) + i <= L
      BY <2>1, <2>4
    <3>2. head[i] = m[(L - r) + i]
      BY <1>6, <1>8, <3>1
    <3> QED BY <1>10, <2>3, <2>4, <3>1, <3>2
  <2>5. CASE ~(i <= r)
    <3>1. ~((L - r) + i <= L) /\ ((L - r) + i) - L = i - r
      BY <2>1, <2>5
    <3> QED BY <1>10, <2>3, <2>5, <3>1
  <2> QED BY <2>4, <2>5
<1>12. block = head \o d
  BY <1>9, <1>10, <1>11, SeqEqual
<1> QED BY <1>5, <1>12 DEF t, head, r

(* The length of the padding, and what it consists of.                     *)
LEMMA PaddingRight ==
  ASSUME NEW n \in Nat
  PROVE  \E k \in Nat :
           /\ Padding(n) = (<<128>> \o Zeros(k)) \o EncodedLength(n)
           /\ Padding(n) \in Seq(Octets) /\ Len(Padding(n)) = 1 + k + LengthLen
           /\ LET r == n % BlockLen
              IN  (r + 1 + k + LengthLen = IF r + 1 > BlockLen - LengthLen THEN 2 * BlockLen ELSE BlockLen)
<1> DEFINE r == n % BlockLen
           k == (2 * BlockLen - LengthLen - 1 - r) % BlockLen
<1>1. r \in 0 .. BlockLen - 1 /\ BlockLen \in Nat \ {0} /\ LengthLen \in 1 .. BlockLen - 1
  BY BlocksAndRest, HashAssumption
<1>2. /\ k \in Nat
      /\ (r + 1 + k + LengthLen = IF r + 1 > BlockLen - LengthLen THEN 2 * BlockLen ELSE BlockLen)
  <2> DEFINE x == 2 * BlockLen - LengthLen - 1 - r
  <2> HIDE DEF r
  <2>1. CASE r + 1 > BlockLen - LengthLen
    <3>1. x \in 0 .. BlockLen - 1 /\ x \in Nat /\ x = 0 * BlockLen + x
      BY <1>1, <2>1
    <3> HIDE DEF x
    <3>2. x % BlockLen = x
      BY <3>1, BlocksUnique
    <3>3. k = x
      BY <3>2 DEF x
    <3> QED BY <1>1, <2>1, <3>1, <3>3 DEF x
  <2>2. CASE ~(r + 1 > BlockLen - LengthLen)
    <3>1. x - BlockLen \in 0 .. BlockLen - 1 /\ x \in Nat /\ x = 1 * BlockLen + (x - BlockLen)
      BY <1>1, <2>2
    <3> HIDE DEF x
    <3>2. x % BlockLen = x - BlockLen
      BY <3>1, BlocksUnique
    <3>3. k = x - BlockLen
      BY <3>2 DEF x
    <3> QED BY <1>1, <2>2, <3>1, <3>3 DEF x
  <2> QED BY <2>1, <2>2
<1>3. Padding(n) = (<<128>> \o Zeros(k)) \o EncodedLength(n)
  BY DEF Padding
<1> HIDE DEF k
<1>4. /\ <<128>> \in Seq(Octets) /\ Len(<<128>>) = 1
      /\ Zeros(k) \in Seq(Octets) /\ Len(Zeros(k)) = k
      /\ EncodedLength(n) \in Seq(Octets) /\ Len(EncodedLength(n)) = LengthLen
  <2>1. 128 \in Octets
    BY DEF Octets
  <2> QED BY <1>2, <2>1, ZerosRight, LengthBytes
<1>5. <<128>> \o Zeros(k) \in Seq(Octets) /\ Len(<<128>> \o Zeros(k)) = 1 + k
  <2> DEFINE u == <<128>>
             v == Zeros(k)
  <2>1. u \in Seq(Octets) /\ Len(u) = 1 /\ v \in Seq(Octets) /\ Len(v) = k
    BY <1>4
  <2> HIDE DEF u, v
  <2>2. u \o v \in Seq(Octets) /\ Len(u \o v) = 1 + k
    BY <2>1, ConcatProperties, ZenonT(60)
  <2> QED BY <2>2 DEF u, v
<1>6. Padding(n) \in Seq(Octets) /\ Len(Padding(n)) = 1 + k + LengthLen
  <2> DEFINE u == <<128>> \o Zeros(k)
             v == EncodedLength(n)
  <2>1. u \in Seq(Octets) /\ Len(u) = 1 + k /\ v \in Seq(Octets) /\ Len(v) = LengthLen
    BY <1>4, <1>5
  <2> HIDE DEF u, v
  <2>2. u \o v \in Seq(Octets) /\ Len(u \o v) = 1 + k + LengthLen
    BY <2>1, ConcatProperties
  <2> QED BY <1>3, <2>2 DEF u, v
<1> QED BY <1>2, <1>3, <1>6

(* out: the digest of what the context has seen.                           *)
LEMMA OutHolds ==
  ASSUME NEW cc, NEW m, Holds(cc, m)
  PROVE  Out(cc) = Digest(m)
<1> DEFINE r == Len(m) % BlockLen
           room == BlockLen - LengthLen
           head == SubSeq(cc.buf, 1, r)
           length == EncodedLength(Len(m))
           one == <<128>>
<1>1. /\ m \in Seq(Octets) /\ Len(m) \in Nat /\ BlockLen \in Nat \ {0} /\ LengthLen \in 1 .. BlockLen - 1
      /\ r \in 0 .. BlockLen - 1
  <2>1. m \in Seq(Octets)
    BY DEF Holds
  <2>2. Len(m) \in Nat
    BY <2>1, LenProperties
  <2> QED BY <2>1, <2>2, BlocksAndRest, HashAssumption
<1>2. PICK k \in Nat :
        /\ Padding(Len(m)) = (one \o Zeros(k)) \o length
        /\ Padding(Len(m)) \in Seq(Octets) /\ Len(Padding(Len(m))) = 1 + k + LengthLen
        /\ (r + 1 + k + LengthLen = IF r + 1 > BlockLen - LengthLen THEN 2 * BlockLen ELSE BlockLen)
  BY <1>1, PaddingRight
<1>3. /\ length \in Seq(Octets) /\ Len(length) = LengthLen
      /\ one \in Seq(Octets) /\ Len(one) = 1
  <2>1. 128 \in Octets
    BY DEF Octets
  <2> QED BY <1>1, <2>1, LengthBytes
<1>4. cc.buf \in Seq(Octets) /\ Len(cc.buf) = BlockLen /\ cc.count = Len(m)
  <2>1. cc.buf \in [1 .. BlockLen -> Octets] /\ cc.count = Len(m)
    BY DEF Holds
  <2> HIDE DEF r
  <2> QED BY <1>1, <2>1, SMTT(60)
<1>5. Out(cc) = Encode(IF r + 1 > room
                       THEN Round(Round(cc.val, (head \o one) \o Zeros(BlockLen - (r + 1))), Zeros(room) \o length)
                       ELSE Round(cc.val, ((head \o one) \o Zeros(room - (r + 1))) \o length))
  <2>1. (r + 1) - 1 = r
    BY <1>1
  <2> QED BY <1>4, <2>1 DEF Out, Ptr
<1> HIDE DEF length, one
<1>6. head \in Seq(Octets) /\ Len(head) = r
  <2>1. r \in 0 .. Len(cc.buf)
    BY <1>1, <1>4
  <2> HIDE DEF r
  <2> QED BY <1>4, <2>1, CutAt
<1>7. CASE ~(r + 1 > room)
  <2> DEFINE z == Zeros(k)
             pad == (one \o z) \o length
  <2>1. k = room - (r + 1) /\ r + Len(pad) = BlockLen
    <3> HIDE DEF r
    <3> QED BY <1>1, <1>2, <1>7
  <2>2. z \in Seq(Octets)
    BY ZerosRight
  <2>3. ((head \o one) \o z) \o length = head \o pad
    <3> HIDE DEF head, z
    <3>1. (head \o one) \o z = head \o (one \o z) /\ one \o z \in Seq(Octets)
      BY <1>3, <1>6, <2>2, Joined, ZenonT(60)
    <3>2. (head \o (one \o z)) \o length = head \o ((one \o z) \o length)
      BY <1>3, <1>6, <3>1, Joined, ZenonT(60)
    <3> QED BY <3>1, <3>2
  <2>4. pad \in Seq(Octets)
    BY <1>2
  <2> HIDE DEF pad, z
  <2>5. Rounds(Start, m \o pad) = Round(cc.val, head \o pad)
    BY <2>1, <2>4, FullBlock
  <2>6. Padding(Len(m)) = pad
    BY <1>2 DEF pad, z
  <2>7. Out(cc) = Encode(Round(cc.val, ((head \o one) \o z) \o length))
    BY <1>5, <1>7, <2>1 DEF z
  <2> QED BY <2>3, <2>5, <2>6, <2>7 DEF Digest
<1>8. CASE r + 1 > room
  <2> DEFINE a == BlockLen - (r + 1)
             z == Zeros(a)
             y == Zeros(room)
             first == one \o z
             last == y \o length
  <2>1. a \in Nat /\ room \in Nat /\ a + room = k /\ r + 1 + a = BlockLen /\ room + LengthLen = BlockLen
    <3> HIDE DEF r
    <3> QED BY <1>1, <1>2, <1>8
  <2>2. z \in Seq(Octets) /\ Len(z) = a /\ y \in Seq(Octets) /\ Len(y) = room /\ Zeros(k) = z \o y
    BY <2>1, ZerosRight, ZerosJoin
  <2> HIDE DEF a, z, y, room
  <2>3. first \in Seq(Octets) /\ Len(first) = 1 + a /\ last \in Seq(Octets) /\ Len(last) = BlockLen
    BY <1>3, <2>1, <2>2, Joined
  <2>4. Padding(Len(m)) = first \o last
    <3>1. one \o (z \o y) = first \o y
      BY <1>3, <2>2, Joined
    <3>2. (first \o y) \o length = first \o (y \o length)
      <4>1. first \in Seq(Octets) /\ y \in Seq(Octets) /\ length \in Seq(Octets)
        BY <1>3, <2>2, <2>3
      <4> HIDE DEF first
      <4> QED BY <4>1, Joined, ZenonT(60)
    <3> QED BY <1>2, <2>2, <3>1, <3>2
  <2>5. (head \o one) \o z = head \o first
    <3> HIDE DEF head
    <3> QED BY <1>3, <1>6, <2>2, Joined, ZenonT(60)
  <2> HIDE DEF first, last
  <2> DEFINE s == m \o first
  <2>6. r + Len(first) = BlockLen
    <3> HIDE DEF r
    <3> QED BY <1>1, <2>1, <2>3
  <2>7. Rounds(Start, s) = Round(cc.val, head \o first)
    BY <2>3, <2>6, FullBlock
  <2>8. s \in Seq(Octets) /\ Len(s) \in Nat /\ Len(s) = Len(m) + (1 + a)
    BY <1>1, <2>3, ConcatProperties, LenProperties, ZenonT(60)
  <2>9. Len(s) % BlockLen = 0
    <3> DEFINE q == Len(m) \div BlockLen
    <3>1. q \in Nat /\ Len(m) = q * BlockLen + r
      BY <1>1, BlocksAndRest
    <3>2. (q + 1) * BlockLen = q * BlockLen + BlockLen /\ q * BlockLen \in Int /\ q + 1 \in Int
      BY <1>1, <3>1
    <3> HIDE DEF q, r, s
    <3>3. Len(s) = (q + 1) * BlockLen + 0 /\ 0 \in 0 .. BlockLen - 1
      BY <1>1, <2>1, <2>8, <3>1, <3>2
    <3> QED BY <2>8, <3>2, <3>3, BlocksUnique
  <2> HIDE DEF s
  <2>10. Rounds(Start, s \o last) = Round(Rounds(Start, s), last)
    <3>1. Rounds(Start, s \o last)
            = Round(Rounds(Start, s), SubSeq(s \o last, Len(s) - (Len(s) % BlockLen) + 1, Len(s) + Len(last)))
      <4>1. (Len(s) % BlockLen) + Len(last) = BlockLen
        BY <1>1, <2>3, <2>9
      <4> QED BY <2>3, <2>8, <4>1, RoundsBlock
    <3>2. SubSeq(s \o last, Len(s) + 1, Len(s) + Len(last)) = last
      <4> DEFINE t == s \o last
      <4>1. /\ t \in Seq(Octets) /\ Len(t) = Len(s) + Len(last)
            /\ \A i \in 1 .. Len(s) + Len(last) : t[i] = IF i <= Len(s) THEN s[i] ELSE last[i - Len(s)]
        BY <2>3, <2>8, ConcatProperties, ZenonT(60)
      <4> HIDE DEF t
      <4>2. Len(s) \in 0 .. Len(t) /\ Len(t) - Len(s) = Len(last) /\ Len(last) \in Nat
        BY <1>1, <2>3, <2>8, <4>1, SMTT(60)
      <4>3. /\ SubSeq(t, Len(s) + 1, Len(t)) \in Seq(Octets)
            /\ Len(SubSeq(t, Len(s) + 1, Len(t))) = Len(last)
            /\ \A i \in 1 .. Len(last) : SubSeq(t, Len(s) + 1, Len(t))[i] = t[Len(s) + i]
        BY <4>1, <4>2, CutAt
      <4>4. \A i \in 1 .. Len(last) : t[Len(s) + i] = last[i]
        <5> TAKE i \in 1 .. Len(last)
        <5>1. Len(s) + i \in 1 .. Len(s) + Len(last) /\ ~(Len(s) + i <= Len(s)) /\ (Len(s) + i) - Len(s) = i
          BY <2>8, <4>2
        <5> QED BY <4>1, <5>1
      <4>5. SubSeq(t, Len(s) + 1, Len(t)) = last
        BY <2>3, <4>3, <4>4, SeqEqual
      <4> QED BY <4>1, <4>5 DEF t
    <3>3. Len(s) - (Len(s) % BlockLen) + 1 = Len(s) + 1
      BY <2>8, <2>9
    <3> QED BY <3>1, <3>2, <3>3
  <2>11. m \o Padding(Len(m)) = s \o last
    <3>1. (m \o first) \o last = m \o (first \o last)
      BY <1>1, <2>3, Joined
    <3> QED BY <2>4, <3>1 DEF s
  <2>12. Out(cc) = Encode(Round(Round(cc.val, (head \o one) \o z), last))
    BY <1>5, <1>8 DEF a, z, y, room, last
  <2> QED BY <2>5, <2>7, <2>10, <2>11, <2>12 DEF Digest
<1> QED BY <1>7, <1>8

-----------------------------------------------------------------------------
(* The empty context, and one that starts after one block.                 *)
LEMMA InitHolds ==
  Holds(HashInit, <<>>)
<1>1. BlockLen \in Nat \ {0}
  BY HashAssumption
<1>2. <<>> \in Seq(Octets) /\ Len(<<>>) = 0 /\ 0 % BlockLen = 0 /\ 0 \div BlockLen = 0
  BY <1>1
<1>3. PICK f : IsRounds(f, Start, <<>>, 0) /\ Rounds(Start, <<>>) = f[0]
  BY <1>2, RoundsValue
<1>4. Rounds(Start, <<>>) = Start
  BY <1>3 DEF IsRounds
<1>5. HashInit.buf \in [1 .. BlockLen -> Octets]
  BY DEF HashInit, Zeros, Octets
<1> QED BY <1>2, <1>4, <1>5 DEF Holds, HashInit

(* The context that set_state gives after one block.                       *)
LEMMA BlockHolds ==
  ASSUME NEW m \in Seq(Octets), Len(m) = BlockLen
  PROVE  Holds(SetState(Rounds(Start, m), BlockLen), m)
<1>1. BlockLen \in Nat \ {0}
  BY HashAssumption
<1>2. Len(m) % BlockLen = 0
  BY <1>1
<1>3. SetState(Rounds(Start, m), BlockLen).buf \in [1 .. BlockLen -> Octets]
  BY DEF SetState, Zeros, Octets
<1> QED BY <1>1, <1>2, <1>3 DEF Holds, SetState

(* The hypothesis on the hash function: of whatever state it is given,     *)
(* Encode makes DigestLen bytes.                                           *)
EncodesBytes == \A v : Encode(v) \in [1 .. DigestLen -> Octets]

(* What Encode gives is a sequence of DigestLen bytes.                     *)
LEMMA EncodeRight ==
  ASSUME EncodesBytes, NEW v
  PROVE  Encode(v) \in Seq(Octets) /\ Len(Encode(v)) = DigestLen
<1>1. Encode(v) \in [1 .. DigestLen -> Octets] /\ DigestLen \in Nat
  BY HashAssumption DEF EncodesBytes
<1> QED BY <1>1

(* The hash of pieces.                                                     *)
LEMMA HashHolds ==
  ASSUME NEW d \in Seq(Octets)
  PROVE  Holds(Update(HashInit, d), d)
<1>1. Holds(Update(HashInit, d), <<>> \o d)
  BY InitHolds, UpdateHolds
<1>2. <<>> \o d = d
  BY ConcatEmptySeq
<1> QED BY <1>1, <1>2

(* A hash taken at once is the digest.                                     *)
LEMMA HashOnce ==
  ASSUME NEW d \in Seq(Octets)
  PROVE  Out(Update(HashInit, d)) = Digest(d)
BY HashHolds, OutHolds

(* The exclusive or of bytes is a byte.                                    *)
LEMMA XorRight ==
  ASSUME NEW a \in Octets, NEW b \in Octets
  PROVE  XorOctets(a, b) \in Octets
<1> DEFINE half(k) == (a \div k + b \div k) % 2
<1>1. /\ half(1) \in {0, 1} /\ half(2) \in {0, 1} /\ half(4) \in {0, 1} /\ half(8) \in {0, 1}
      /\ half(16) \in {0, 1} /\ half(32) \in {0, 1} /\ half(64) \in {0, 1} /\ half(128) \in {0, 1}
  BY DEF Octets
<1>2. XorOctets(a, b) = 1 * half(1) + 2 * half(2) + 4 * half(4) + 8 * half(8)
                    + 16 * half(16) + 32 * half(32) + 64 * half(64) + 128 * half(128)
  BY DEF XorOctets
<1> HIDE DEF half
<1> QED BY <1>1, <1>2 DEF Octets

(* The two masks map bytes to bytes.                                       *)
LEMMA MasksRight ==
  Xor36 \in [Octets -> Octets] /\ Xor5C \in [Octets -> Octets]
<1>1. 54 \in Octets /\ 92 \in Octets
  BY DEF Octets
<1> QED BY <1>1, XorRight DEF Xor36, Xor5C

(* Masked bytes are as many bytes.                                         *)
LEMMA MaskedRight ==
  ASSUME NEW mask \in [Octets -> Octets], NEW d \in Seq(Octets)
  PROVE  Masked(mask, d) \in Seq(Octets) /\ Len(Masked(mask, d)) = Len(d)
BY DEF Masked

-----------------------------------------------------------------------------
(* The block of a key, and its two masks.                                  *)
KeyBlock(key) ==
  LET short == IF Len(key) > BlockLen THEN Digest(key) ELSE key
  IN  short \o Zeros(BlockLen - Len(short))
Inner(key) == Masked(Xor36, KeyBlock(key))
OuterPad(key) == Masked(Xor5C, KeyBlock(key))

(* The block of a key, masked or not, has the length of a block.           *)
LEMMA KeyBlockRight ==
  ASSUME EncodesBytes, NEW key \in Seq(Octets)
  PROVE  /\ KeyBlock(key) \in Seq(Octets) /\ Len(KeyBlock(key)) = BlockLen
         /\ Inner(key) \in Seq(Octets) /\ Len(Inner(key)) = BlockLen
         /\ OuterPad(key) \in Seq(Octets) /\ Len(OuterPad(key)) = BlockLen
<1> DEFINE short == IF Len(key) > BlockLen THEN Digest(key) ELSE key
           z == Zeros(BlockLen - Len(short))
<1>1. BlockLen \in Nat /\ DigestLen \in 1 .. BlockLen /\ Len(key) \in Nat
  BY HashAssumption, LenProperties
<1>2. Digest(key) \in Seq(Octets) /\ Len(Digest(key)) = DigestLen
  BY EncodeRight DEF Digest
<1>3. short \in Seq(Octets) /\ Len(short) \in 0 .. BlockLen
  BY <1>1, <1>2
<1> HIDE DEF short
<1>4. BlockLen - Len(short) \in Nat
  BY <1>1, <1>3
<1>5. z \in Seq(Octets) /\ Len(z) = BlockLen - Len(short)
  BY <1>4, ZerosRight
<1> HIDE DEF z
<1>6. short \o z \in Seq(Octets) /\ Len(short \o z) = Len(short) + Len(z)
  BY <1>3, <1>5, ConcatProperties
<1>7. Len(short \o z) = BlockLen
  BY <1>1, <1>3, <1>5, <1>6
<1>8. KeyBlock(key) \in Seq(Octets) /\ Len(KeyBlock(key)) = BlockLen
  BY <1>6, <1>7 DEF KeyBlock, short, z
<1> QED BY <1>8, MasksRight, MaskedRight DEF Inner, OuterPad

(* br_hmac_key_init keeps the states after the two masked blocks.          *)
LEMMA HmacKeyRight ==
  ASSUME EncodesBytes, NEW key \in Seq(Octets)
  PROVE  HmacKey(key) = [ksi |-> Rounds(Start, Inner(key)), kso |-> Rounds(Start, OuterPad(key))]
<1> DEFINE short == IF Len(key) > BlockLen THEN Out(Update(HashInit, key)) ELSE key
<1>1. short \o Zeros(BlockLen - Len(short)) = KeyBlock(key)
  BY HashOnce DEF KeyBlock
<1>2. /\ ProcessKey(short, Xor36) = State(Update(HashInit, Inner(key)))
      /\ ProcessKey(short, Xor5C) = State(Update(HashInit, OuterPad(key)))
  <2> HIDE DEF short
  <2> QED BY <1>1 DEF ProcessKey, Inner, OuterPad
<1>3. /\ State(Update(HashInit, Inner(key))) = Rounds(Start, Inner(key))
      /\ State(Update(HashInit, OuterPad(key))) = Rounds(Start, OuterPad(key))
  <2>1. Inner(key) \in Seq(Octets) /\ OuterPad(key) \in Seq(Octets)
    BY KeyBlockRight
  <2>2. Holds(Update(HashInit, Inner(key)), Inner(key)) /\ Holds(Update(HashInit, OuterPad(key)), OuterPad(key))
    BY <2>1, HashHolds
  <2> QED BY <2>2 DEF Holds, State
<1>4. HmacKey(key) = [ksi |-> ProcessKey(short, Xor36), kso |-> ProcessKey(short, Xor5C)]
  BY DEF HmacKey
<1> HIDE DEF short
<1> QED BY <1>2, <1>3, <1>4

(* An HMAC under key that has seen m and gives n bytes.                    *)
HmacHolds(c, key, n, m) ==
  /\ m \in Seq(Octets) /\ Holds(c.dig, Inner(key) \o m)
  /\ c = [dig |-> c.dig, kso |-> Rounds(Start, OuterPad(key)), out_len |-> n]

(* br_hmac_init gives an HMAC that has seen nothing.                       *)
LEMMA HmacInitHolds ==
  ASSUME EncodesBytes, NEW key \in Seq(Octets), NEW n \in 1 .. DigestLen
  PROVE  HmacHolds(HmacInit(HmacKey(key), n), key, n, <<>>)
<1> DEFINE c == HmacInit(HmacKey(key), n)
<1>1. /\ c.dig = SetState(Rounds(Start, Inner(key)), BlockLen) /\ c.kso = Rounds(Start, OuterPad(key))
      /\ c = [dig |-> c.dig, kso |-> c.kso, out_len |-> n]
  <2>1. (IF n > 0 /\ n < DigestLen THEN n ELSE DigestLen) = n
    BY HashAssumption
  <2> QED BY <2>1, HmacKeyRight DEF HmacInit
<1>2. Inner(key) \in Seq(Octets) /\ Len(Inner(key)) = BlockLen
  BY KeyBlockRight
<1>3. Inner(key) \o <<>> = Inner(key) /\ <<>> \in Seq(Octets)
  BY <1>2, ConcatEmptySeq
<1>4. Holds(c.dig, Inner(key))
  BY <1>1, <1>2, BlockHolds
<1> HIDE DEF c
<1>5. HmacHolds(c, key, n, <<>>)
  BY <1>1, <1>3, <1>4 DEF HmacHolds
<1> QED BY <1>5 DEF c

(* br_hmac_update: the HMAC has seen the data as well.                     *)
LEMMA HmacUpdateHolds ==
  ASSUME EncodesBytes, NEW key \in Seq(Octets), NEW n, NEW c, NEW m, HmacHolds(c, key, n, m), NEW d \in Seq(Octets)
  PROVE  HmacHolds(HmacUpdate(c, d), key, n, m \o d)
<1> DEFINE u == Update(c.dig, d)
           k == Rounds(Start, OuterPad(key))
<1>1. m \in Seq(Octets) /\ Holds(c.dig, Inner(key) \o m) /\ c = [dig |-> c.dig, kso |-> k, out_len |-> n]
  BY DEF HmacHolds
<1>2. Inner(key) \in Seq(Octets)
  BY KeyBlockRight
<1>3. (Inner(key) \o m) \o d = Inner(key) \o (m \o d) /\ m \o d \in Seq(Octets)
  BY <1>1, <1>2, Joined
<1>4. Holds(u, Inner(key) \o (m \o d))
  BY <1>1, <1>3, UpdateHolds
<1> HIDE DEF u, k
<1>5. HmacUpdate(c, d) = [dig |-> u, kso |-> k, out_len |-> n]
  <2> DEFINE x == c.dig
  <2>1. c = [dig |-> x, kso |-> k, out_len |-> n]
    BY <1>1
  <2>2. HmacUpdate(c, d) = [c EXCEPT !.dig = u]
    BY DEF HmacUpdate, u
  <2> HIDE DEF x
  <2> QED BY <2>1, <2>2
<1> QED BY <1>3, <1>4, <1>5 DEF HmacHolds, k

(* The outer hash, from what the inner one gave.                           *)
LEMMA OuterRight ==
  ASSUME EncodesBytes, NEW key \in Seq(Octets), NEW n, NEW c, NEW m, HmacHolds(c, key, n, m), NEW d \in Seq(Octets)
  PROVE  Outer(c, d) = SubSeq(Digest(OuterPad(key) \o d), 1, n)
<1>1. OuterPad(key) \in Seq(Octets) /\ Len(OuterPad(key)) = BlockLen
  BY KeyBlockRight
<1>2. c.kso = Rounds(Start, OuterPad(key)) /\ c.out_len = n
  BY DEF HmacHolds
<1>3. Holds(SetState(c.kso, BlockLen), OuterPad(key))
  BY <1>1, <1>2, BlockHolds
<1>4. Out(Update(SetState(c.kso, BlockLen), d)) = Digest(OuterPad(key) \o d)
  BY <1>3, UpdateHolds, OutHolds
<1> QED BY <1>2, <1>4 DEF Outer

(* The definition of RFC 2104, by the two masked blocks.                   *)
LEMMA HmacIs ==
  ASSUME NEW key, NEW m
  PROVE  Hmac(key, m) = Digest(OuterPad(key) \o Digest(Inner(key) \o m))
BY DEF Hmac, Inner, OuterPad, KeyBlock

(* br_hmac_out gives the HMAC, cut to the length that was asked for.       *)
LEMMA HmacOutRight ==
  ASSUME EncodesBytes, NEW key \in Seq(Octets), NEW n, NEW c, NEW m, HmacHolds(c, key, n, m)
  PROVE  HmacOut(c) = SubSeq(Hmac(key, m), 1, n)
<1>1. Out(c.dig) = Digest(Inner(key) \o m)
  BY OutHolds DEF HmacHolds
<1>2. Digest(Inner(key) \o m) \in Seq(Octets)
  BY EncodeRight DEF Digest
<1> QED BY <1>1, <1>2, OuterRight, HmacIs DEF HmacOut

(* An HMAC is DigestLen bytes.                                             *)
LEMMA HmacRight ==
  ASSUME EncodesBytes, NEW key, NEW m
  PROVE  Hmac(key, m) \in Seq(Octets) /\ Len(Hmac(key, m)) = DigestLen
BY EncodeRight DEF Hmac, Digest

(* Rounded down and up to whole blocks.                                    *)
LEMMA DownIs ==
  ASSUME NEW n \in Nat, NEW q \in Int, NEW r \in 0 .. BlockLen - 1, n = q * BlockLen + r
  PROVE  Down(n) = q * BlockLen
<1>1. n % BlockLen = r
  BY BlocksUnique
<1>2. q * BlockLen \in Int
  BY HashAssumption
<1> HIDE DEF Down
<1>3. Down(n) = n - r
  BY <1>1 DEF Down
<1> QED BY <1>2, <1>3

(* A number rounded down is a multiple that is no larger.                  *)
LEMMA DownRight ==
  ASSUME NEW n \in Nat
  PROVE  Down(n) \in Nat /\ Down(n) <= n /\ Down(n) % BlockLen = 0
<1> DEFINE q == n \div BlockLen
           r == n % BlockLen
<1>1. q \in Nat /\ r \in 0 .. BlockLen - 1 /\ BlockLen \in Nat \ {0} /\ n = q * BlockLen + r
  BY BlocksAndRest
<1> HIDE DEF q, r
<1>2. Down(n) = q * BlockLen
  BY <1>1, DownIs
<1>3. 0 * BlockLen <= q * BlockLen /\ q * BlockLen \in Int /\ 0 * BlockLen = 0
  BY <1>1, TimesMonotone
<1>4. Down(n) \in Nat /\ Down(n) <= n
  BY <1>1, <1>2, <1>3
<1>5. Down(n) = q * BlockLen + 0 /\ 0 \in 0 .. BlockLen - 1 /\ q \in Int
  BY <1>1, <1>2, <1>3
<1> QED BY <1>4, <1>5, BlocksUnique

(* Rounding down keeps the order.                                          *)
LEMMA DownMonotone ==
  ASSUME NEW a \in Nat, NEW b \in Nat, a <= b
  PROVE  Down(a) <= Down(b)
<1> DEFINE p == a \div BlockLen
           q == b \div BlockLen
           r == a % BlockLen
           s == b % BlockLen
<1>1. /\ p \in Nat /\ r \in 0 .. BlockLen - 1 /\ BlockLen \in Nat \ {0} /\ a = p * BlockLen + r
      /\ q \in Nat /\ s \in 0 .. BlockLen - 1 /\ b = q * BlockLen + s
  BY BlocksAndRest
<1> HIDE DEF p, q, r, s
<1>2. Down(a) = p * BlockLen /\ Down(b) = q * BlockLen /\ p * BlockLen \in Int /\ q * BlockLen \in Int
  BY <1>1, DownIs
<1>3. p <= q
  <2> SUFFICES ASSUME q + 1 <= p PROVE FALSE
    BY <1>1
  <2>1. (q + 1) * BlockLen <= p * BlockLen
    BY <1>1, TimesMonotone
  <2>2. (q + 1) * BlockLen = q * BlockLen + BlockLen
    BY <1>1
  <2> QED BY <1>1, <1>2, <2>1, <2>2
<1> QED BY <1>1, <1>2, <1>3, TimesMonotone

-----------------------------------------------------------------------------
(* The loop over len bytes and their padding, when p has been hashed.      *)
Rest(p, data, len) == SubSeq(data, 1, len) \o Padding(Len(p) + len)

(* Where the padding ends.                                                 *)
LEMMA PlacesRight ==
  ASSUME NEW p \in Seq(Octets), NEW len \in Nat, NEW maxLen \in Nat, len <= maxLen
  PROVE  \E k \in Nat :
           LET kr == Len(p) % BlockLen
               at == Places(kr, len, maxLen)
               n == Len(p) + len
           IN  /\ Padding(n) = (<<128>> \o Zeros(k)) \o EncodedLength(n)
               /\ Padding(n) \in Seq(Octets) /\ Len(Padding(n)) = 1 + k + LengthLen
               /\ at.kz = len + k + LengthLen /\ at.kl = len + 1 + k /\ at.km \in Nat
               /\ at.kz < at.km
               /\ \E q \in Int : kr + at.kz + 1 = q * BlockLen
<1> DEFINE kr == Len(p) % BlockLen
           at == Places(kr, len, maxLen)
           n == Len(p) + len
           r == n % BlockLen
<1>1. Len(p) \in Nat /\ n \in Nat /\ BlockLen \in Nat \ {0} /\ LengthLen \in 1 .. BlockLen - 1
  BY LenProperties, HashAssumption
<1>2. PICK k \in Nat :
        /\ Padding(n) = (<<128>> \o Zeros(k)) \o EncodedLength(n)
        /\ Padding(n) \in Seq(Octets) /\ Len(Padding(n)) = 1 + k + LengthLen
        /\ (r + 1 + k + LengthLen = IF r + 1 > BlockLen - LengthLen THEN 2 * BlockLen ELSE BlockLen)
  BY <1>1, PaddingRight
<1>3. PICK a \in Nat : Len(p) = a * BlockLen + kr /\ kr \in 0 .. BlockLen - 1
  BY <1>1, BlocksAndRest
<1>4. PICK b \in Nat : n = b * BlockLen + r /\ r \in 0 .. BlockLen - 1
  BY <1>1, BlocksAndRest
<1>5. at.kz = Up(kr + len + Po) - 1 - kr /\ at.kl = at.kz - (LengthLen - 1) /\ at.km = Up(kr + maxLen + Po) - kr
  BY DEF Places
<1> HIDE DEF kr, r, at, n
<1> DEFINE c == b - a
<1>6. /\ c \in Int /\ c * BlockLen = b * BlockLen - a * BlockLen /\ (c + 1) * BlockLen = c * BlockLen + BlockLen
      /\ (c + 2) * BlockLen = c * BlockLen + 2 * BlockLen
      /\ a * BlockLen \in Int /\ b * BlockLen \in Int /\ c * BlockLen \in Int
  BY <1>1
<1> HIDE DEF c
<1>7. kr + len = c * BlockLen + r
  <2>1. n = Len(p) + len
    BY DEF n
  <2> QED BY <1>1, <1>3, <1>4, <1>6, <2>1
<1>8. \E q \in Int : Up(kr + len + Po) = q * BlockLen /\ q * BlockLen = kr + len + 1 + k + LengthLen
  <2> DEFINE x == kr + len + Po + BlockLen - 1
  <2>1. Up(kr + len + Po) = Down(x) /\ x = c * BlockLen + r + LengthLen + BlockLen
    <3>1. Po = LengthLen + 1
      BY DEF Po
    <3>2. x = c * BlockLen + r + LengthLen + BlockLen
      BY <1>1, <1>3, <1>4, <1>6, <1>7, <3>1
    <3> QED BY <3>2 DEF Up
  <2>2. x \in Nat
    BY <1>1, <1>3 DEF Po
  <2> HIDE DEF x
  <2>3. CASE r + 1 > BlockLen - LengthLen
    <3> DEFINE s == r + LengthLen - BlockLen
    <3>1. x = (c + 2) * BlockLen + s /\ s \in 0 .. BlockLen - 1 /\ c + 2 \in Int
      BY <1>1, <1>4, <1>6, <2>1, <2>3
    <3> HIDE DEF s
    <3>2. Down(x) = (c + 2) * BlockLen
      BY <2>2, <3>1, DownIs
    <3>3. (c + 2) * BlockLen = kr + len + 1 + k + LengthLen
      BY <1>1, <1>2, <1>3, <1>4, <1>6, <1>7, <2>3
    <3> QED BY <2>1, <3>1, <3>2, <3>3
  <2>4. CASE ~(r + 1 > BlockLen - LengthLen)
    <3> DEFINE s == r + LengthLen
    <3>1. x = (c + 1) * BlockLen + s /\ s \in 0 .. BlockLen - 1 /\ c + 1 \in Int
      BY <1>1, <1>4, <1>6, <2>1, <2>4
    <3> HIDE DEF s
    <3>2. Down(x) = (c + 1) * BlockLen
      BY <2>2, <3>1, DownIs
    <3>3. (c + 1) * BlockLen = kr + len + 1 + k + LengthLen
      BY <1>1, <1>2, <1>3, <1>4, <1>6, <1>7, <2>4
    <3> QED BY <2>1, <3>1, <3>2, <3>3
  <2> QED BY <2>3, <2>4
<1>9. PICK q \in Int : Up(kr + len + Po) = q * BlockLen /\ q * BlockLen = kr + len + 1 + k + LengthLen
  BY <1>8
<1>10. at.kz = len + k + LengthLen /\ at.kl = len + 1 + k
  BY <1>1, <1>3, <1>5, <1>9, SMTT(60)
<1>11. Up(kr + len + Po) <= Up(kr + maxLen + Po) /\ Up(kr + maxLen + Po) \in Nat
  <2> DEFINE x == kr + len + Po + BlockLen - 1
             y == kr + maxLen + Po + BlockLen - 1
  <2>1. x \in Nat /\ y \in Nat /\ x <= y
    BY <1>1, <1>3 DEF Po
  <2>2. Up(kr + len + Po) = Down(x) /\ Up(kr + maxLen + Po) = Down(y)
    BY DEF Up
  <2> HIDE DEF x, y
  <2> QED BY <2>1, <2>2, DownMonotone, DownRight
<1>12. at.km \in Nat /\ at.kz < at.km
  BY <1>1, <1>3, <1>5, <1>9, <1>10, <1>11, SMTT(60)
<1>13. kr + at.kz + 1 = q * BlockLen
  BY <1>1, <1>3, <1>9, <1>10
<1> QED BY <1>2, <1>10, <1>12, <1>13 DEF kr, at, n

(* The bytes that the loop hashes are the data and the padding.            *)
LEMMA CTByteRight ==
  ASSUME NEW p \in Seq(Octets), NEW data \in Seq(Octets), NEW len \in Nat, NEW maxLen \in Nat,
         len <= maxLen, maxLen <= Len(data),
         NEW u \in 0 .. Places(Len(p) % BlockLen, len, maxLen).kz
  PROVE  CTByte(u, Places(Len(p) % BlockLen, len, maxLen), data, len, maxLen, Len(p) + len, Len(p) % BlockLen)
           = Rest(p, data, len)[u + 1]
<1> DEFINE kr == Len(p) % BlockLen
           at == Places(kr, len, maxLen)
           n == Len(p) + len
           x == SubSeq(data, 1, len)
           e == EncodedLength(n)
           one == <<128>>
           pad == Padding(n)
           byte == CTByte(u, at, data, len, maxLen, n, kr)
<1>1. PICK k \in Nat :
        /\ pad = (one \o Zeros(k)) \o e /\ pad \in Seq(Octets) /\ Len(pad) = 1 + k + LengthLen
        /\ at.kz = len + k + LengthLen /\ at.kl = len + 1 + k
        /\ \E q \in Int : kr + at.kz + 1 = q * BlockLen
  <2>1. \E k \in Nat :
           LET kr0 == Len(p) % BlockLen
               at0 == Places(kr0, len, maxLen)
               n0 == Len(p) + len
           IN  /\ Padding(n0) = (<<128>> \o Zeros(k)) \o EncodedLength(n0)
               /\ Padding(n0) \in Seq(Octets) /\ Len(Padding(n0)) = 1 + k + LengthLen
               /\ at0.kz = len + k + LengthLen /\ at0.kl = len + 1 + k /\ at0.km \in Nat
               /\ at0.kz < at0.km
               /\ \E q \in Int : kr0 + at0.kz + 1 = q * BlockLen
    BY PlacesRight, ZenonT(60)
  <2> HIDE DEF Places, Padding, EncodedLength, Zeros
  <2> QED BY <2>1, Zenon
<1>2. PICK q \in Int : kr + at.kz + 1 = q * BlockLen
  BY <1>1
<1>3. /\ BlockLen \in Nat \ {0} /\ LengthLen \in 1 .. BlockLen - 1 /\ Len(p) \in Nat /\ n \in Nat
      /\ kr \in 0 .. BlockLen - 1 /\ Len(data) \in Nat
  <2>1. Len(p) \in Nat /\ Len(data) \in Nat
    BY LenProperties
  <2>2. kr \in 0 .. BlockLen - 1 /\ BlockLen \in Nat \ {0}
    BY <2>1, BlocksAndRest
  <2>3. n \in Nat
    BY <2>1
  <2>4. LengthLen \in 1 .. BlockLen - 1
    BY HashAssumption
  <2> HIDE DEF kr, n
  <2> QED BY <2>1, <2>2, <2>3, <2>4
<1>4. x \in Seq(Octets) /\ Len(x) = len /\ \A i \in 1 .. len : x[i] = data[i]
  <2>1. len \in 0 .. Len(data)
    BY <1>3
  <2> QED BY <2>1, CutAt
<1>5. e \in Seq(Octets) /\ Len(e) = LengthLen /\ one \in Seq(Octets) /\ Len(one) = 1 /\ one[1] = 128
  <2>1. 128 \in Octets
    BY DEF Octets
  <2> QED BY <1>3, <2>1, LengthBytes
<1>6. Zeros(k) \in Seq(Octets) /\ Len(Zeros(k)) = k /\ \A i \in 1 .. k : Zeros(k)[i] = 0
  BY ZerosRight
<1>7. byte = IF u < len THEN (IF u < maxLen THEN data[u + 1] ELSE 0)
             ELSE IF u = len THEN 128
             ELSE IF u < at.kl THEN 0
             ELSE IF (kr + u) % BlockLen >= BlockLen - LengthLen
                  THEN e[((kr + u) % BlockLen) - (BlockLen - LengthLen) + 1] ELSE 0
  BY DEF CTByte
<1> HIDE DEF x, e, one, pad, byte, at, kr, n
<1>8. \A i \in 1 .. 1 + k : (one \o Zeros(k))[i] = IF i = 1 THEN 128 ELSE 0
  <2> DEFINE z == Zeros(k)
  <2>1. z \in Seq(Octets) /\ Len(z) = k /\ \A i \in 1 .. k : z[i] = 0
    BY <1>6
  <2> HIDE DEF z
  <2>4. one \in Seq(Octets) /\ Len(one) = 1
    BY <1>5
  <2>2. \A i \in 1 .. Len(one) + Len(z) : (one \o z)[i] = IF i <= Len(one) THEN one[i] ELSE z[i - Len(one)]
    BY <2>1, <2>4, ConcatProperties, ZenonT(60)
  <2>3. ASSUME NEW i \in 1 .. 1 + k
        PROVE  (one \o z)[i] = IF i = 1 THEN 128 ELSE 0
    <3>1. (one \o z)[i] = IF i <= 1 THEN one[i] ELSE z[i - 1]
      BY <2>1, <2>2, <2>4
    <3>2. CASE i = 1
      BY <1>5, <3>1, <3>2
    <3>3. CASE i # 1
      <4>1. i - 1 \in 1 .. k
        BY <3>3
      <4> QED BY <2>1, <3>1, <3>3, <4>1
    <3> QED BY <3>2, <3>3
  <2> QED BY <2>3 DEF z
<1>9. \A i \in 1 .. 1 + k + LengthLen : pad[i] = IF i = 1 THEN 128 ELSE IF i <= 1 + k THEN 0 ELSE e[i - (1 + k)]
  <2> DEFINE y == one \o Zeros(k)
  <2>1. y \in Seq(Octets) /\ Len(y) = 1 + k
    <3> DEFINE z == Zeros(k)
    <3>1. z \in Seq(Octets) /\ Len(z) = k /\ one \in Seq(Octets) /\ Len(one) = 1
      BY <1>5, <1>6
    <3> HIDE DEF z
    <3>2. one \o z \in Seq(Octets) /\ Len(one \o z) = Len(one) + Len(z)
      BY <3>1, Joined
    <3> QED BY <3>1, <3>2 DEF z
  <2>2. \A i \in 1 .. 1 + k : y[i] = IF i = 1 THEN 128 ELSE 0
    BY <1>8
  <2>3. pad = y \o e
    BY <1>1
  <2> HIDE DEF y
  <2>4. \A i \in 1 .. Len(y) + Len(e) : (y \o e)[i] = IF i <= Len(y) THEN y[i] ELSE e[i - Len(y)]
    BY <1>5, <2>1, ConcatProperties, SMTT(60)
  <2> TAKE i \in 1 .. 1 + k + LengthLen
  <2>5. pad[i] = IF i <= 1 + k THEN y[i] ELSE e[i - (1 + k)]
    BY <1>5, <2>1, <2>3, <2>4, SMTT(60)
  <2>6. i <= 1 + k => i \in 1 .. 1 + k
    OBVIOUS
  <2>7. ~(i <= 1 + k) => i # 1
    OBVIOUS
  <2> QED BY <2>2, <2>5, <2>6, <2>7
<1>10. u \in 0 .. at.kz
  BY DEF at, kr
<1>11. u \in Nat /\ u + 1 \in 1 .. len + (1 + k + LengthLen)
  BY <1>1, <1>3, <1>10
<1>12. Rest(p, data, len)[u + 1] = IF u < len THEN data[u + 1] ELSE pad[(u + 1) - len]
  <2>1. Rest(p, data, len) = x \o pad
    BY DEF Rest, x, pad, n
  <2>2. \A i \in 1 .. Len(x) + Len(pad) : (x \o pad)[i] = IF i <= Len(x) THEN x[i] ELSE pad[i - Len(x)]
    BY <1>1, <1>4, ConcatProperties, ZenonT(60)
  <2>3. (x \o pad)[u + 1] = IF u + 1 <= len THEN x[u + 1] ELSE pad[(u + 1) - len]
    BY <1>1, <1>4, <1>11, <2>2
  <2>4. (u + 1 <= len <=> u < len) /\ (u < len => u + 1 \in 1 .. len)
    BY <1>11
  <2> QED BY <1>4, <2>1, <2>3, <2>4
<1>13. CASE u < len
  <2>1. u < maxLen
    BY <1>11, <1>13
  <2> QED BY <1>7, <1>12, <1>13, <2>1 DEF byte, at, kr, n
<1>14. CASE ~(u < len)
  <2> DEFINE i == (u + 1) - len
  <2>1. i \in 1 .. 1 + k + LengthLen
    BY <1>3, <1>11, <1>14
  <2>2. Rest(p, data, len)[u + 1] = IF i = 1 THEN 128 ELSE IF i <= 1 + k THEN 0 ELSE e[i - (1 + k)]
    BY <1>9, <1>12, <1>14, <2>1
  <2>3. (i = 1 <=> u = len) /\ (i <= 1 + k <=> u < at.kl)
    BY <1>1, <1>11, SMTT(60)
  <2>4. CASE u < at.kl \/ u = len
    BY <1>7, <1>14, <2>2, <2>3, <2>4 DEF byte, at, kr, n
  <2>5. CASE ~(u < at.kl) /\ u # len
    <3> DEFINE v == BlockLen - 1 - (at.kz - u)
    <3>1. at.kz - u \in 0 .. LengthLen - 1 /\ v \in 0 .. BlockLen - 1 /\ v >= BlockLen - LengthLen /\ kr + u \in Nat
      BY <1>1, <1>3, <1>10, <1>11, <2>5
    <3>2. (q - 1) * BlockLen = q * BlockLen - BlockLen /\ q * BlockLen \in Int
      BY <1>3
    <3>3. kr + u = (q - 1) * BlockLen + v /\ q - 1 \in Int
      BY <1>1, <1>2, <1>3, <1>11, <3>2
    <3>4. v - (BlockLen - LengthLen) + 1 = i - (1 + k)
      BY <1>1, <1>3, <1>11
    <3> HIDE DEF v, i
    <3>5. (kr + u) % BlockLen = v
      BY <3>1, <3>3, BlocksUnique
    <3>6. byte = e[i - (1 + k)]
      BY <1>7, <1>14, <2>5, <3>1, <3>4, <3>5
    <3>7. i # 1 /\ ~(i <= 1 + k)
      BY <2>3, <2>5
    <3> QED BY <2>2, <3>6, <3>7 DEF byte, at, kr, n
  <2> QED BY <2>4, <2>5
<1> QED BY <1>13, <1>14

(* The turns of the loop of outCT.                                         *)
IsCT(f, N, hc, at, data, len, maxLen, total, kr) ==
  f = [u \in 0 .. N |-> IF u = 0 THEN [hc |-> hc, inner |-> 0]
                        ELSE CTTurn(f[u - 1], u - 1, at, data, len, maxLen, total, kr)]

(* The turns of outCT are defined by recursion over their number.          *)
LEMMA CTExists ==
  ASSUME NEW hc, NEW at, NEW data, NEW len, NEW maxLen, NEW total, NEW kr, NEW N \in Nat
  PROVE  \E f : IsCT(f, N, hc, at, data, len, maxLen, total, kr)
<1> DEFINE Is(f, k) == IsCT(f, k, hc, at, data, len, maxLen, total, kr)
           turn(s, u) == CTTurn(s, u, at, data, len, maxLen, total, kr)
           start == [hc |-> hc, inner |-> 0]
           G == {k \in 0 .. N : \E f : Is(f, k)}
<1>1. 0 \in G
  <2>1. Is([n \in 0 .. 0 |-> start], 0)
    BY DEF IsCT
  <2> QED BY <2>1
<1>2. \A k \in 0 .. N - 1 : k \in G => k + 1 \in G
  <2> SUFFICES ASSUME NEW k \in 0 .. N - 1, k \in G PROVE k + 1 \in G
    OBVIOUS
  <2>1. PICK f : Is(f, k)
    OBVIOUS
  <2> DEFINE more == [n \in 0 .. k + 1 |-> IF n = k + 1 THEN turn(f[k], k) ELSE f[n]]
  <2>2. \A n \in 0 .. k : f[n] = IF n = 0 THEN start ELSE turn(f[n - 1], n - 1)
    BY <2>1 DEF IsCT
  <2>3. \A n \in 0 .. k + 1 : more[n] = IF n = 0 THEN start ELSE turn(more[n - 1], n - 1)
    <3> HIDE DEF start, turn
    <3> TAKE n \in 0 .. k + 1
    <3>1. CASE n = k + 1
      BY <3>1
    <3>2. CASE n \in 0 .. k
      <4>1. n # 0 => more[n - 1] = f[n - 1]
        BY <3>2
      <4> QED BY <3>2, <2>2, <4>1
    <3> QED BY <3>1, <3>2
  <2>4. more = [n \in 0 .. k + 1 |-> IF n = 0 THEN start ELSE turn(more[n - 1], n - 1)]
    <3> HIDE DEF start, turn
    <3> QED BY <2>3
  <2>5. Is(more, k + 1)
    <3> HIDE DEF more
    <3> QED BY <2>4 DEF IsCT
  <2> QED BY <2>5
<1> HIDE DEF G
<1>3. N \in G
  BY <1>1, <1>2, UpTo
<1> QED BY <1>3 DEF G

(* The data and its padding are bytes that fill whole blocks.              *)
LEMMA RestRight ==
  ASSUME NEW p \in Seq(Octets), NEW data \in Seq(Octets), NEW len \in 0 .. Len(data)
  PROVE  /\ Rest(p, data, len) \in Seq(Octets)
         /\ \E k \in Nat : Len(Rest(p, data, len)) = len + (1 + k + LengthLen) /\ Len(Padding(Len(p) + len)) = 1 + k + LengthLen
         /\ Rounds(Start, p \o Rest(p, data, len))
              = Rounds(Start, (p \o SubSeq(data, 1, len)) \o Padding(Len(p \o SubSeq(data, 1, len))))
<1> DEFINE x == SubSeq(data, 1, len)
           pad == Padding(Len(p) + len)
<1>1. x \in Seq(Octets) /\ Len(x) = len /\ Len(p) \in Nat /\ len \in Nat
  BY CutAt, LenProperties
<1>2. PICK k \in Nat : pad \in Seq(Octets) /\ Len(pad) = 1 + k + LengthLen
  <2>1. Len(p) + len \in Nat
    BY <1>1
  <2> QED BY <2>1, PaddingRight
<1> HIDE DEF x, pad
<1>a. p \in Seq(Octets) /\ x \in Seq(Octets) /\ pad \in Seq(Octets)
  BY <1>1, <1>2
<1>3. /\ Len(p \o x) = Len(p) + Len(x) /\ x \o pad \in Seq(Octets) /\ Len(x \o pad) = Len(x) + Len(pad)
  BY <1>a, Joined
<1>4. (p \o x) \o pad = p \o (x \o pad)
  BY <1>a, Joined, SMTT(60)
<1>5. Len(p \o x) = Len(p) + len /\ Len(x \o pad) = len + (1 + k + LengthLen)
  BY <1>1, <1>2, <1>3
<1>6. Rest(p, data, len) = x \o pad
  BY DEF Rest, x, pad
<1>7. Padding(Len(p \o x)) = pad
  BY <1>5 DEF pad
<1>8. Rounds(Start, p \o Rest(p, data, len)) = Rounds(Start, (p \o x) \o Padding(Len(p \o x)))
  BY <1>4, <1>6, <1>7
<1>9. Rest(p, data, len) \in Seq(Octets) /\ Len(Rest(p, data, len)) = len + (1 + k + LengthLen)
  BY <1>3, <1>5, <1>6
<1>10. Len(Padding(Len(p) + len)) = 1 + k + LengthLen
  BY <1>2 DEF pad
<1> QED BY <1>8, <1>9, <1>10 DEF x

(* The loop keeps the state after the last block of the message.           *)
LEMMA CTLoopRight ==
  ASSUME NEW hc, NEW p, Holds(hc, p), NEW data \in Seq(Octets), NEW len \in Nat, NEW maxLen \in Nat,
         len <= maxLen, maxLen <= Len(data)
  PROVE  LET kr == Len(p) % BlockLen
         IN  CTLoop(hc, Places(kr, len, maxLen), data, len, maxLen, Len(p) + len, kr)
               = Rounds(Start, p \o Rest(p, data, len))
<1> DEFINE kr == Len(p) % BlockLen
           at == Places(kr, len, maxLen)
           total == Len(p) + len
           rest == Rest(p, data, len)
           N == at.km
           chosen == CHOOSE f : IsCT(f, N, hc, at, data, len, maxLen, total, kr)
           byte(u) == CTByte(u, at, data, len, maxLen, total, kr)
           turn(s, u) == CTTurn(s, u, at, data, len, maxLen, total, kr)
<1>1. p \in Seq(Octets) /\ Len(data) \in Nat /\ len \in 0 .. Len(data) /\ Len(p) \in Nat
  <2>1. p \in Seq(Octets)
    BY DEF Holds
  <2> QED BY <2>1, LenProperties
<1>2. PICK k \in Nat :
        /\ Len(Padding(total)) = 1 + k + LengthLen
        /\ at.kz = len + k + LengthLen /\ at.km \in Nat /\ at.kz < at.km
        /\ \E q \in Int : kr + at.kz + 1 = q * BlockLen
  <2>1. \E k \in Nat :
           LET kr0 == Len(p) % BlockLen
               at0 == Places(kr0, len, maxLen)
               n0 == Len(p) + len
           IN  /\ Padding(n0) = (<<128>> \o Zeros(k)) \o EncodedLength(n0)
               /\ Padding(n0) \in Seq(Octets) /\ Len(Padding(n0)) = 1 + k + LengthLen
               /\ at0.kz = len + k + LengthLen /\ at0.kl = len + 1 + k /\ at0.km \in Nat
               /\ at0.kz < at0.km
               /\ \E q \in Int : kr0 + at0.kz + 1 = q * BlockLen
    BY <1>1, PlacesRight, ZenonT(60)
  <2> HIDE DEF Places, Padding, EncodedLength, Zeros
  <2> QED BY <2>1, Zenon
<1>3. CTLoop(hc, at, data, len, maxLen, total, kr) = chosen[N].inner
  BY DEF CTLoop, IsCT
<1>4. IsCT(chosen, N, hc, at, data, len, maxLen, total, kr)
  <2>1. N \in Nat
    BY <1>2
  <2> HIDE DEF N, at, kr, total
  <2> QED BY <2>1, CTExists
<1> HIDE DEF chosen
<1>5. BlockLen \in Nat \ {0} /\ LengthLen \in Nat \ {0} /\ kr \in 0 .. BlockLen - 1
  <2>1. LengthLen \in Nat \ {0}
    BY HashAssumption
  <2>2. kr \in 0 .. BlockLen - 1 /\ BlockLen \in Nat \ {0}
    BY <1>1, BlocksAndRest
  <2> HIDE DEF kr
  <2> QED BY <2>1, <2>2
<1>6. at.kz \in Nat /\ N \in Nat /\ at.kz + 1 \in 0 .. N /\ at.kz + 1 <= N
  <2> HIDE DEF at
  <2> QED BY <1>2, <1>5
<1>7. rest \in Seq(Octets) /\ Len(rest) = at.kz + 1
  <2>1. PICK j \in Nat : Len(rest) = len + (1 + j + LengthLen) /\ Len(Padding(total)) = 1 + j + LengthLen
    BY <1>1, RestRight
  <2>2. rest \in Seq(Octets)
    BY <1>1, RestRight
  <2> HIDE DEF rest, at, total
  <2>3. j = k
    BY <1>2, <1>5, <2>1
  <2>4. len + (1 + k + LengthLen) = (len + k + LengthLen) + 1
    BY <1>5
  <2> QED BY <1>2, <2>1, <2>2, <2>3, <2>4
<1>8. \A u \in 0 .. at.kz : byte(u) = rest[u + 1]
  BY <1>1, CTByteRight
<1>9. chosen[0] = [hc |-> hc, inner |-> 0] /\ \A u \in 0 .. N - 1 : chosen[u + 1] = turn(chosen[u], u)
  <2> HIDE DEF N, at, kr, total
  <2>1. chosen[0] = [hc |-> hc, inner |-> 0]
    BY <1>4, <1>6 DEF IsCT
  <2>2. ASSUME NEW u \in 0 .. N - 1
        PROVE  chosen[u + 1] = turn(chosen[u], u)
    <3>1. u + 1 \in 0 .. N /\ u + 1 # 0 /\ (u + 1) - 1 = u
      BY <1>6
    <3> QED BY <1>4, <3>1 DEF IsCT
  <2> QED BY <2>1, <2>2
<1>10. \A s, u : /\ turn(s, u).hc = Update(s.hc, <<byte(u)>>)
                 /\ turn(s, u).inner = IF (kr + u) % BlockLen = BlockLen - 1 /\ u = at.kz
                                       THEN State(turn(s, u).hc) ELSE s.inner
  BY DEF CTTurn
<1> HIDE DEF byte, turn, rest, at, N, total
<1>11. (kr + at.kz) % BlockLen = BlockLen - 1
  <2>1. PICK q \in Int : kr + at.kz + 1 = q * BlockLen
    BY <1>2
  <2> HIDE DEF kr
  <2>2. (q - 1) * BlockLen = q * BlockLen - BlockLen /\ q * BlockLen \in Int
    BY <1>5
  <2> DEFINE n == kr + at.kz
             a == q - 1
             b == BlockLen - 1
  <2>3. n = a * BlockLen + b
    <3> DEFINE Q == q * BlockLen
    <3>1. n + 1 = Q /\ a * BlockLen = Q - BlockLen /\ Q \in Int /\ n \in Int /\ BlockLen \in Int
      BY <1>5, <1>6, <2>1, <2>2
    <3> HIDE DEF Q, n, a
    <3> QED BY <3>1
  <2>5. a \in Int /\ b \in 0 .. BlockLen - 1 /\ n \in Nat
    BY <1>5, <1>6
  <2> HIDE DEF n, a, b
  <2>4. n % BlockLen = b
    BY <2>3, <2>5, BlocksUnique
  <2> QED BY <2>4 DEF n, b
<1> HIDE DEF kr
<1>12. Holds(chosen[at.kz + 1].hc, p \o SubSeq(rest, 1, at.kz + 1))
  <2> DEFINE M == at.kz + 1
             G == {u \in 0 .. M : Holds(chosen[u].hc, p \o SubSeq(rest, 1, u))}
  <2>1. 0 \in G
    <3>1. SubSeq(rest, 1, 0) = <<>>
      BY SubSeqEmpty
    <3>2. p \o <<>> = p
      BY <1>1, ConcatEmptySeq
    <3>3. chosen[0].hc = hc
      BY <1>9
    <3>4. Holds(chosen[0].hc, p \o SubSeq(rest, 1, 0))
      BY <3>1, <3>2, <3>3
    <3> QED BY <1>6, <3>4
  <2>2. \A u \in 0 .. M - 1 : u \in G => u + 1 \in G
    <3> SUFFICES ASSUME NEW u \in 0 .. M - 1, u \in G PROVE u + 1 \in G
      OBVIOUS
    <3>1. u \in 0 .. at.kz /\ u \in 0 .. N - 1 /\ u + 1 \in 1 .. Len(rest) /\ u \in 0 .. Len(rest) /\ u + 1 \in u .. Len(rest)
          /\ u + 1 \in 0 .. M
      BY <1>6, <1>7
    <3>2. rest[u + 1] \in Octets /\ byte(u) = rest[u + 1]
      BY <1>7, <1>8, <3>1, ElementOfSeq
    <3>3. chosen[u + 1].hc = Update(chosen[u].hc, <<byte(u)>>)
      BY <1>9, <1>10, <3>1
    <3> DEFINE one == <<rest[u + 1]>>
               x == SubSeq(rest, 1, u)
    <3>4. one \in Seq(Octets)
      BY <3>2
    <3>5. x \in Seq(Octets)
      BY <1>7, <3>1, CutAt
    <3>6. x \o one = SubSeq(rest, 1, u + 1)
      <4> DEFINE left == SubSeq(rest, u + 1, Len(rest))
                 piece == SubSeq(left, 1, (u + 1) - u)
      <4>1. piece \in Seq(Octets) /\ Len(piece) = (u + 1) - u /\ (\A i \in 1 .. (u + 1) - u : piece[i] = rest[u + i])
            /\ x \o piece = SubSeq(rest, 1, u + 1)
        <5> DEFINE v == u + 1
        <5>1. rest \in Seq(Octets) /\ u \in 0 .. Len(rest) /\ v \in u .. Len(rest)
          BY <1>7, <3>1
        <5> HIDE DEF v
        <5>2. LET c == SubSeq(SubSeq(rest, u + 1, Len(rest)), 1, v - u)
              IN  /\ c \in Seq(Octets) /\ Len(c) = v - u /\ \A i \in 1 .. v - u : c[i] = rest[u + i]
                  /\ x \o c = SubSeq(rest, 1, v)
          BY <5>1, CutTwice, SMTT(60)
        <5> QED BY <5>2, Zenon DEF v
      <4>2. (u + 1) - u = 1
        BY <3>1
      <4> HIDE DEF piece
      <4>3. Len(piece) = 1 /\ piece[1] = rest[u + 1]
        BY <4>1, <4>2
      <4>4. piece = one
        BY <3>2, <4>1, <4>3
      <4> QED BY <4>1, <4>4
    <3>7. Holds(Update(chosen[u].hc, one), (p \o x) \o one)
      <4> HIDE DEF one, x
      <4>1. Holds(chosen[u].hc, p \o x)
        BY DEF x
      <4> QED BY <3>4, <4>1, UpdateHolds
    <3>8. (p \o x) \o one = p \o SubSeq(rest, 1, u + 1)
      <4> HIDE DEF one, x
      <4>1. p \in Seq(Octets) /\ x \in Seq(Octets) /\ one \in Seq(Octets)
        BY <1>1, <3>4, <3>5
      <4>2. (p \o x) \o one = p \o (x \o one)
        BY <4>1, JoinedAnyhow, SMTT(60)
      <4> QED BY <3>6, <4>2
    <3> QED BY <3>1, <3>2, <3>3, <3>7, <3>8
  <2>3. M \in G
    <3>1. M \in Nat
      BY <1>6
    <3> HIDE DEF M, G
    <3>2. \A u \in 0 .. M : u \in G
      BY <2>1, <2>2, <3>1, UpTo
    <3> QED BY <3>1, <3>2
  <2> QED BY <2>3
<1>13. SubSeq(rest, 1, at.kz + 1) = rest
  BY <1>7, SubSeqFull
<1>14. chosen[at.kz + 1].inner = Rounds(Start, p \o rest)
  <2>1. at.kz \in 0 .. N - 1
    BY <1>6
  <2>2. chosen[at.kz + 1] = turn(chosen[at.kz], at.kz)
    BY <1>9, <2>1
  <2>3. chosen[at.kz + 1].inner = State(chosen[at.kz + 1].hc)
    BY <1>10, <1>11, <2>2
  <2> QED BY <1>12, <1>13, <2>3 DEF Holds, State
<1>15. \A u \in 0 .. N - (at.kz + 1) : chosen[(at.kz + 1) + u].inner = Rounds(Start, p \o rest)
  <2> DEFINE M == N - (at.kz + 1)
             G == {u \in 0 .. M : chosen[(at.kz + 1) + u].inner = Rounds(Start, p \o rest)}
  <2>1. M \in Nat
    BY <1>6
  <2>2. 0 \in G
    <3>1. (at.kz + 1) + 0 = at.kz + 1
      BY <1>6
    <3> QED BY <1>14, <2>1, <3>1
  <2>3. \A u \in 0 .. M - 1 : u \in G => u + 1 \in G
    <3> SUFFICES ASSUME NEW u \in 0 .. M - 1, u \in G PROVE u + 1 \in G
      OBVIOUS
    <3> DEFINE w == (at.kz + 1) + u
    <3>1. w \in 0 .. N - 1 /\ w # at.kz /\ (at.kz + 1) + (u + 1) = w + 1 /\ u + 1 \in 0 .. M
      <4> DEFINE z == at.kz
      <4>1. z \in Nat /\ N \in Nat /\ z + 1 <= N /\ u \in 0 .. N - (z + 1) - 1 /\ u \in Nat
        BY <1>6
      <4> HIDE DEF z
      <4>2. (z + 1) + u \in 0 .. N - 1 /\ (z + 1) + u # z /\ (z + 1) + (u + 1) = ((z + 1) + u) + 1
            /\ u + 1 \in 0 .. N - (z + 1)
        BY <4>1
      <4> QED BY <4>2 DEF z
    <3>2. chosen[w + 1].inner = chosen[w].inner
      <4> HIDE DEF w
      <4> QED BY <1>9, <1>10, <3>1
    <3> QED BY <3>1, <3>2
  <2> HIDE DEF M, G
  <2>4. \A u \in 0 .. M : u \in G
    BY <2>1, <2>2, <2>3, UpTo
  <2> QED BY <2>4 DEF M, G
<1>16. chosen[N].inner = Rounds(Start, p \o rest)
  <2>1. N - (at.kz + 1) \in 0 .. N - (at.kz + 1) /\ (at.kz + 1) + (N - (at.kz + 1)) = N
    BY <1>6
  <2> QED BY <1>15, <2>1
<1> QED BY <1>3, <1>16 DEF rest, at, N, total, kr

(* Joining three sequences to a fourth.                                    *)
LEMMA JoinedThrice ==
  \A s, t, u \in Seq(Octets) : (s \o t) \o u = s \o (t \o u)
BY Joined

(* The HMAC over data of secret length.                                    *)
LEMMA HmacOutCTRight ==
  ASSUME EncodesBytes, NEW key \in Seq(Octets), NEW n, NEW c, NEW m, HmacHolds(c, key, n, m),
         NEW data \in Seq(Octets), NEW len \in Nat, NEW minLen \in Nat, NEW maxLen \in Nat,
         minLen <= len, len <= maxLen, maxLen <= Len(data)
  PROVE  HmacOutCT(c, data, len, minLen, maxLen) = SubSeq(Hmac(key, m \o SubSeq(data, 1, len)), 1, n)
<1> DEFINE first == Inner(key) \o m
           count == c.dig.count
           sure == Down(count + minLen) - count
           z == IF sure > 0 THEN sure ELSE 0
           x == SubSeq(data, 1, z)
           left == SubSeq(data, z + 1, Len(data))
           p == first \o x
           hc == Update(c.dig, x)
           kr == (count + z) % BlockLen
           y == SubSeq(left, 1, len - z)
           inner == CTLoop(hc, Places(kr, len - z, maxLen - z), left, len - z, maxLen - z, count + len, kr)
<1>1. /\ m \in Seq(Octets) /\ Holds(c.dig, first) /\ Inner(key) \in Seq(Octets) /\ first \in Seq(Octets)
      /\ Len(data) \in Nat /\ Len(first) \in Nat /\ count = Len(first)
  <2>1. m \in Seq(Octets) /\ Holds(c.dig, first)
    BY DEF HmacHolds
  <2>2. Inner(key) \in Seq(Octets)
    BY KeyBlockRight
  <2>3. first \in Seq(Octets) /\ count = Len(first)
    BY <2>1 DEF Holds
  <2> HIDE DEF first
  <2> QED BY <2>1, <2>2, <2>3, LenProperties
<1>2. z \in 0 .. minLen /\ z \in Nat
  <2>1. count \in Nat /\ count + minLen \in Nat
    <3> HIDE DEF count, first
    <3> QED BY <1>1
  <2> DEFINE d == Down(count + minLen)
  <2>2. d \in Nat /\ d <= count + minLen
    <3> HIDE DEF count
    <3> QED BY <2>1, DownRight
  <2>3. z = IF d - count > 0 THEN d - count ELSE 0
    OBVIOUS
  <2> HIDE DEF count, z, d
  <2>4. CASE d - count > 0
    BY <2>1, <2>2, <2>3, <2>4
  <2>5. CASE ~(d - count > 0)
    BY <2>1, <2>2, <2>3, <2>5
  <2> QED BY <2>4, <2>5
<1> HIDE DEF z
<1>3. z \in 0 .. Len(data) /\ len \in z .. Len(data) /\ len - z \in Nat /\ maxLen - z \in Nat /\ len - z <= maxLen - z
      /\ maxLen - z <= Len(data) - z /\ len \in Nat
  BY <1>1, <1>2
<1>4. x \in Seq(Octets) /\ Len(x) = z /\ left \in Seq(Octets) /\ Len(left) = Len(data) - z
  BY <1>3, CutAt
<1>5. y \in Seq(Octets) /\ Len(y) = len - z /\ x \o y = SubSeq(data, 1, len)
  BY <1>3, CutTwice
<1> HIDE DEF first, count, x, left, y
<1>6. Holds(hc, p) /\ p \in Seq(Octets) /\ Len(p) = count + z
  BY <1>1, <1>4, UpdateHolds, Joined
<1>7. kr = Len(p) % BlockLen /\ count + len = Len(p) + (len - z)
  <2>1. kr = Len(p) % BlockLen
    BY <1>6
  <2>2. count \in Nat
    BY <1>1
  <2>3. count + len = Len(p) + (len - z)
    BY <1>2, <1>6, <2>2
  <2> QED BY <2>1, <2>3
<1> HIDE DEF p, hc, kr
<1>8. inner = Rounds(Start, p \o Rest(p, left, len - z))
  <2> DEFINE l == len - z
             h == maxLen - z
  <2>1. l \in Nat /\ h \in Nat /\ l <= h /\ h <= Len(left)
    BY <1>3, <1>4
  <2>2. inner = CTLoop(hc, Places(Len(p) % BlockLen, l, h), left, l, h, Len(p) + l, Len(p) % BlockLen)
    BY <1>7
  <2> HIDE DEF l, h
  <2>3. LET kr0 == Len(p) % BlockLen
        IN  CTLoop(hc, Places(kr0, l, h), left, l, h, Len(p) + l, kr0) = Rounds(Start, p \o Rest(p, left, l))
    <3> HIDE DEF inner
    <3>1. Holds(hc, p) /\ left \in Seq(Octets)
      BY <1>4, <1>6
    <3> QED BY <3>1, <2>1, CTLoopRight
  <2>4. CTLoop(hc, Places(Len(p) % BlockLen, l, h), left, l, h, Len(p) + l, Len(p) % BlockLen)
          = Rounds(Start, p \o Rest(p, left, l))
    BY <2>3, Zenon
  <2>5. inner = Rounds(Start, p \o Rest(p, left, l))
    BY <2>2, <2>4, Zenon
  <2> QED BY <2>5 DEF l
<1>9. Encode(inner) = Digest(p \o y)
  <2> DEFINE l == len - z
  <2>1. l \in 0 .. Len(left)
    BY <1>1, <1>2, <1>3, <1>4
  <2>2. Rounds(Start, p \o Rest(p, left, l))
          = Rounds(Start, (p \o SubSeq(left, 1, l)) \o Padding(Len(p \o SubSeq(left, 1, l))))
    BY <1>4, <1>6, <2>1, RestRight
  <2> QED BY <1>8, <2>2 DEF Digest, y
<1>10. p \o y = Inner(key) \o (m \o SubSeq(data, 1, len))
  <2>0. first \in Seq(Octets) /\ x \in Seq(Octets) /\ y \in Seq(Octets)
    BY <1>1, <1>4, <1>5
  <2>1. (first \o x) \o y = first \o (x \o y)
    BY <2>0, JoinedThrice, ZenonT(60)
  <2>2. (Inner(key) \o m) \o SubSeq(data, 1, len) = Inner(key) \o (m \o SubSeq(data, 1, len))
    <3> DEFINE w == SubSeq(data, 1, len)
    <3>1. w \in Seq(Octets)
      BY <1>3, CutAt
    <3> HIDE DEF w
    <3> DEFINE i == Inner(key)
    <3>0. i \in Seq(Octets) /\ m \in Seq(Octets)
      BY <1>1
    <3> HIDE DEF i
    <3>a. (i \o m) \o w = i \o (m \o w)
      BY <3>0, <3>1, JoinedThrice, ZenonT(60)
    <3>2. (Inner(key) \o m) \o w = Inner(key) \o (m \o w)
      BY <3>a DEF i
    <3> QED BY <3>2 DEF w
  <2> QED BY <1>5, <2>1, <2>2 DEF p, first
<1>11. HmacOutCT(c, data, len, minLen, maxLen) = Outer(c, Encode(inner))
  BY DEF HmacOutCT, count, z, x, left, hc, kr
<1>12. Encode(inner) \in Seq(Octets)
  BY EncodeRight
<1> HIDE DEF inner
<1>13. Outer(c, Encode(inner)) = SubSeq(Digest(OuterPad(key) \o Encode(inner)), 1, n)
  BY <1>12, OuterRight
<1> QED BY <1>9, <1>10, <1>11, <1>13, HmacIs

(* Quotient and rest.                                                      *)
LEMMA DivideAndRest ==
  ASSUME NEW n \in Int, NEW B \in Nat \ {0}
  PROVE  n = B * (n \div B) + (n % B) /\ n % B \in 0 .. B - 1 /\ n \div B \in Int
OBVIOUS

(* Quotient and rest are unique.                                           *)
LEMMA RestUnique ==
  ASSUME NEW n \in Int, NEW B \in Nat \ {0}, NEW q \in Int, NEW r \in 0 .. B - 1, n = B * q + r
  PROVE  n % B = r /\ n \div B = q
OBVIOUS

(* Counting on from a rest is counting on from the number.                 *)
LEMMA RestOfRest ==
  ASSUME NEW a \in Int, NEW d \in Int, NEW B \in Nat \ {0}
  PROVE  ((a % B) + d) % B = (a + d) % B
<1> DEFINE q == a \div B
           r == a % B
           h == (r + d) \div B
           s == (r + d) % B
<1>1. a = B * q + r /\ r \in 0 .. B - 1 /\ q \in Int
  BY DivideAndRest
<1>2. r \in Int /\ r + d \in Int
  <2> HIDE DEF r
  <2> QED BY <1>1
<1> HIDE DEF q, r
<1>3. r + d = B * h + s /\ s \in 0 .. B - 1 /\ h \in Int
  BY <1>2, DivideAndRest
<1> HIDE DEF h, s
<1>4. B * (q + h) = B * q + B * h /\ B * q \in Int /\ B * h \in Int
  BY <1>1, <1>3
<1>5. a + d = B * (q + h) + s /\ q + h \in Int /\ a + d \in Int
  BY <1>1, <1>2, <1>3, <1>4
<1>6. (a + d) % B = s
  BY <1>3, <1>5, RestUnique
<1> QED BY <1>6 DEF s, r

-----------------------------------------------------------------------------
(* buf turned to the left by d places.                                     *)
Turned(buf, d) == [i \in 1 .. MacLen |-> buf[((i - 1 + d) % MacLen) + 1]]

(* A buffer as long as a MAC.                                              *)
MacSized(buf) == buf \in [1 .. MacLen -> Octets]

(* The highest bit of a count below twice rc.                              *)
LEMMA BitOf ==
  ASSUME NEW c \in Nat, NEW rc \in Nat \ {0}, c < 2 * rc
  PROVE  /\ c % rc \in Nat /\ c % rc < rc /\ c % rc <= c
         /\ (c \div rc = 0 /\ c % rc = c) \/ (c \div rc = 1 /\ c - (c % rc) = rc)
<1>1. CASE c < rc
  <2>1. c = rc * 0 + c /\ c \in 0 .. rc - 1
    BY <1>1
  <2>2. c % rc = c /\ c \div rc = 0
    BY <2>1, RestUnique
  <2> QED BY <1>1, <2>2
<1>2. CASE ~(c < rc)
  <2>1. c = rc * 1 + (c - rc) /\ c - rc \in 0 .. rc - 1
    BY <1>2
  <2>2. c % rc = c - rc /\ c \div rc = 1
    BY <2>1, RestUnique
  <2> QED BY <2>1, <2>2
<1> QED BY <1>1, <1>2

(* Turning twice is turning by the sum.                                    *)
LEMMA TurnedRight ==
  ASSUME NEW buf, MacSized(buf), NEW d \in Nat
  PROVE  Turned(buf, d) \in Seq(Octets) /\ Len(Turned(buf, d)) = MacLen /\ MacSized(Turned(buf, d))
<1> DEFINE M == MacLen
           mac == Turned(buf, d)
<1>1. M \in Nat \ {0}
  BY CbcAssumption, HashAssumption
<1> HIDE DEF M
<1>2. \A i \in 1 .. M : buf[((i - 1 + d) % M) + 1] \in Octets
  <2> TAKE i \in 1 .. M
  <2>1. (i - 1 + d) % M \in 0 .. M - 1
    <3>1. i - 1 + d \in Int
      BY <1>1
    <3> QED BY <1>1, <3>1, DivideAndRest
  <2> DEFINE j == (i - 1 + d) % M
  <2> HIDE DEF j
  <2>2. j + 1 \in 1 .. M
    BY <1>1, <2>1 DEF j
  <2> QED BY <2>2 DEF MacSized, M, j
<1>3. mac = [i \in 1 .. M |-> buf[((i - 1 + d) % M) + 1]]
  BY DEF Turned, M
<1> HIDE DEF mac
<1>4. mac \in [1 .. M -> Octets]
  BY <1>2, <1>3
<1>5. mac \in Seq(Octets) /\ Len(mac) = M
  BY <1>1, <1>4
<1> QED BY <1>4, <1>5 DEF mac, M, MacSized

(* cond_rotate turns by rc if the bit is set.                              *)
LEMMA TurnIf ==
  ASSUME NEW buf, MacSized(buf), NEW d \in Nat, NEW rc \in Nat \ {0}
  PROVE  /\ CondRotate(0, Turned(buf, d), rc) = Turned(buf, d)
         /\ CondRotate(1, Turned(buf, d), rc) = Turned(buf, d + rc)
<1> DEFINE mac == Turned(buf, d)
           M == MacLen
<1>1. M \in Nat \ {0}
  BY CbcAssumption, HashAssumption
<1>2. mac \in Seq(Octets) /\ Len(mac) = M /\ mac \in [1 .. M -> Octets]
  BY TurnedRight DEF MacSized
<1>3. mac = [i \in 1 .. M |-> buf[((i - 1 + d) % M) + 1]]
  BY DEF Turned
<1> HIDE DEF mac, M
<1>4. CondRotate(0, mac, rc) = mac
  <2>1. CondRotate(0, mac, rc) = [i \in 1 .. M |-> mac[i]]
    BY <1>2 DEF CondRotate
  <2> QED BY <1>2, <2>1
<1>5. CondRotate(1, mac, rc) = Turned(buf, d + rc)
  <2>1. CondRotate(1, mac, rc) = [i \in 1 .. M |-> mac[((i - 1 + rc) % M) + 1]]
    BY <1>2 DEF CondRotate
  <2>2. \A i \in 1 .. M : mac[((i - 1 + rc) % M) + 1] = buf[((i - 1 + (d + rc)) % M) + 1]
    <3> TAKE i \in 1 .. M
    <3> DEFINE j == (i - 1 + rc) % M
    <3>1. j \in 0 .. M - 1 /\ i - 1 + rc \in Int
      <4>1. i - 1 + rc \in Int
        BY <1>1
      <4> QED BY <1>1, <4>1, DivideAndRest
    <3>2. (j + d) % M = ((i - 1 + rc) + d) % M
      <4> DEFINE e == i - 1 + rc
      <4>1. e \in Int /\ d \in Int
        BY <3>1
      <4> HIDE DEF e
      <4>2. ((e % M) + d) % M = (e + d) % M
        BY <1>1, <4>1, RestOfRest
      <4> QED BY <4>2, Zenon DEF e
    <3>3. (i - 1 + rc) + d = i - 1 + (d + rc)
      BY <1>1
    <3> HIDE DEF j
    <3>4. j + 1 \in 1 .. M /\ (j + 1) - 1 + d = j + d
      BY <1>1, <3>1
    <3>5. mac[j + 1] = buf[(((j + 1) - 1 + d) % M) + 1]
      BY <1>3, <3>4
    <3>6. mac[j + 1] = buf[((i - 1 + (d + rc)) % M) + 1]
      BY <3>2, <3>3, <3>4, <3>5
    <3> QED BY <3>6 DEF j
  <2> QED BY <2>1, <2>2 DEF Turned, M
<1> QED BY <1>4, <1>5 DEF mac

(* The turns of the loop over the bits of the count.                       *)
NextTurn(t, rc) == [mac |-> CondRotate(t.count \div rc, t.mac, rc), count |-> t.count % rc]
IsTurning(f, N, buf, count) ==
  f = [k \in 0 .. N |-> IF k = 0 THEN [mac |-> buf, count |-> count]
                        ELSE NextTurn(f[k - 1], 2 ^ (6 - k))]

(* The turns over the bits are defined by recursion.                       *)
LEMMA TurningExists ==
  ASSUME NEW buf, NEW count, NEW N \in Nat
  PROVE  \E f : IsTurning(f, N, buf, count)
<1> DEFINE Is(f, k) == IsTurning(f, k, buf, count)
           turn(s, u) == NextTurn(s, 2 ^ (6 - u))
           start == [mac |-> buf, count |-> count]
           G == {k \in 0 .. N : \E f : Is(f, k)}
<1>1. 0 \in G
  <2>1. Is([n \in 0 .. 0 |-> start], 0)
    BY DEF IsTurning
  <2> QED BY <2>1
<1>2. \A k \in 0 .. N - 1 : k \in G => k + 1 \in G
  <2> SUFFICES ASSUME NEW k \in 0 .. N - 1, k \in G PROVE k + 1 \in G
    OBVIOUS
  <2>1. PICK f : Is(f, k)
    OBVIOUS
  <2> DEFINE more == [n \in 0 .. k + 1 |-> IF n = k + 1 THEN turn(f[k], n) ELSE f[n]]
  <2>2. \A n \in 0 .. k : f[n] = IF n = 0 THEN start ELSE turn(f[n - 1], n)
    BY <2>1 DEF IsTurning
  <2>3. \A n \in 0 .. k + 1 : more[n] = IF n = 0 THEN start ELSE turn(more[n - 1], n)
    <3> HIDE DEF start, turn
    <3> TAKE n \in 0 .. k + 1
    <3>1. CASE n = k + 1
      BY <3>1
    <3>2. CASE n \in 0 .. k
      <4>1. n # 0 => more[n - 1] = f[n - 1]
        BY <3>2
      <4> QED BY <3>2, <2>2, <4>1
    <3> QED BY <3>1, <3>2
  <2>4. more = [n \in 0 .. k + 1 |-> IF n = 0 THEN start ELSE turn(more[n - 1], n)]
    <3> HIDE DEF start, turn
    <3> QED BY <2>3
  <2>5. Is(more, k + 1)
    <3> HIDE DEF more
    <3> QED BY <2>4 DEF IsTurning
  <2> QED BY <2>5
<1> HIDE DEF G
<1>3. N \in G
  BY <1>1, <1>2, UpTo
<1> QED BY <1>3 DEF G

(* A turn takes the highest bit from what is left to turn by.              *)
LEMMA NextTurnRight ==
  ASSUME NEW buf, MacSized(buf), NEW count \in Nat, NEW rc \in Nat \ {0}, NEW t,
         t.count \in Nat, t.count <= count, t.count < 2 * rc, t.mac = Turned(buf, count - t.count)
  PROVE  LET s == NextTurn(t, rc)
         IN  s.count \in Nat /\ s.count <= count /\ s.count < rc /\ s.mac = Turned(buf, count - s.count)
<1> DEFINE c == t.count
           d == count - c
           r == c % rc
           s == NextTurn(t, rc)
           q == c \div rc
<1>1. c \in Nat /\ d \in Nat /\ c < 2 * rc /\ c <= count
  OBVIOUS
<1>2. s.count = r /\ s.mac = CondRotate(q, t.mac, rc) /\ t.mac = Turned(buf, d)
  BY DEF NextTurn
<1> HIDE DEF s, c
<1>3. r \in Nat /\ r < rc /\ r <= c /\ ((q = 0 /\ r = c) \/ (q = 1 /\ c - r = rc))
  BY <1>1, BitOf
<1>4. d = count - c
  OBVIOUS
<1> HIDE DEF d, q, r
<1>5. CondRotate(0, Turned(buf, d), rc) = Turned(buf, d) /\ CondRotate(1, Turned(buf, d), rc) = Turned(buf, d + rc)
  BY <1>1, TurnIf
<1>6. CASE q = 0 /\ r = c
  BY <1>1, <1>2, <1>3, <1>4, <1>5, <1>6 DEF s
<1>7. CASE q = 1 /\ c - r = rc
  <2>1. d + rc = count - r /\ r <= count
    BY <1>1, <1>3, <1>4, <1>7
  <2>2. s.mac = Turned(buf, count - r)
    BY <1>2, <1>5, <1>7, <2>1
  <2> QED BY <1>2, <1>3, <2>1, <2>2 DEF s
<1> QED BY <1>3, <1>6, <1>7

(* A count of less than 64 is turned by.                                   *)
LEMMA RotateBackRight ==
  ASSUME NEW buf, MacSized(buf), NEW count \in 0 .. 63
  PROVE  RotateBack(buf, count) = Turned(buf, count)
<1> DEFINE chosen == CHOOSE f : IsTurning(f, 6, buf, count)
<1>1. RotateBack(buf, count) = chosen[6].mac
  BY DEF RotateBack, IsTurning, NextTurn
<1>2. IsTurning(chosen, 6, buf, count)
  BY TurningExists
<1> HIDE DEF chosen
<1> DEFINE Good(t, n) == t.count \in Nat /\ t.count <= count /\ t.count < n /\ t.mac = Turned(buf, count - t.count)
<1>3. Good(chosen[0], 64)
  <2>1. chosen[0] = [mac |-> buf, count |-> count]
    BY <1>2 DEF IsTurning
  <2>2. Turned(buf, 0) = buf
    <3>1. MacLen \in Nat \ {0}
      BY CbcAssumption, HashAssumption
    <3>2. \A i \in 1 .. MacLen : ((i - 1 + 0) % MacLen) + 1 = i
      <4> TAKE i \in 1 .. MacLen
      <4>1. i - 1 + 0 = MacLen * 0 + (i - 1) /\ i - 1 \in 0 .. MacLen - 1 /\ i - 1 + 0 \in Int
        BY <3>1
      <4>2. (i - 1 + 0) % MacLen = i - 1
        BY <3>1, <4>1, RestUnique
      <4> QED BY <4>2
    <3>3. Turned(buf, 0) = [i \in 1 .. MacLen |-> buf[i]]
      BY <3>2 DEF Turned
    <3> QED BY <3>3 DEF MacSized
  <2>3. count - count = 0 /\ count \in Nat /\ count < 64
    OBVIOUS
  <2> QED BY <2>1, <2>2, <2>3
<1>4. \A k \in 1 .. 6 : chosen[k] = NextTurn(chosen[k - 1], 2 ^ (6 - k))
  <2>1. \A k \in 0 .. 6 : chosen[k] = IF k = 0 THEN [mac |-> buf, count |-> count]
                                      ELSE NextTurn(chosen[k - 1], 2 ^ (6 - k))
    BY <1>2, Zenon DEF IsTurning
  <2>2. \A k \in 1 .. 6 : k \in 0 .. 6 /\ k # 0
    OBVIOUS
  <2> QED BY <2>1, <2>2, Zenon
<1>5. /\ chosen[1] = NextTurn(chosen[0], 32) /\ chosen[2] = NextTurn(chosen[1], 16)
      /\ chosen[3] = NextTurn(chosen[2], 8) /\ chosen[4] = NextTurn(chosen[3], 4)
      /\ chosen[5] = NextTurn(chosen[4], 2) /\ chosen[6] = NextTurn(chosen[5], 1)
  <2>1. /\ 2 ^ (6 - 1) = 32 /\ 2 ^ (6 - 2) = 16 /\ 2 ^ (6 - 3) = 8 /\ 2 ^ (6 - 4) = 4
        /\ 2 ^ (6 - 5) = 2 /\ 2 ^ (6 - 6) = 1
    OBVIOUS
  <2>2. 1 - 1 = 0 /\ 2 - 1 = 1 /\ 3 - 1 = 2 /\ 4 - 1 = 3 /\ 5 - 1 = 4 /\ 6 - 1 = 5
    OBVIOUS
  <2> QED BY <1>4, <2>1, <2>2
<1>6. ASSUME NEW t, NEW rc \in Nat \ {0}, Good(t, 2 * rc)
      PROVE  Good(NextTurn(t, rc), rc)
  <2>1. count \in Nat
    OBVIOUS
  <2> QED BY <1>6, <2>1, NextTurnRight
<1> HIDE DEF Good
<1>7. Good(chosen[1], 32)
  BY <1>3, <1>5, <1>6
<1>8. Good(chosen[2], 16)
  BY <1>7, <1>5, <1>6
<1>9. Good(chosen[3], 8)
  BY <1>8, <1>5, <1>6
<1>10. Good(chosen[4], 4)
  BY <1>9, <1>5, <1>6
<1>11. Good(chosen[5], 2)
  BY <1>10, <1>5, <1>6
<1>12. Good(chosen[6], 1)
  BY <1>11, <1>5, <1>6
<1>13. chosen[6].count = 0 /\ chosen[6].mac = Turned(buf, count - 0)
  <2>1. chosen[6].count \in Nat /\ chosen[6].count < 1 /\ chosen[6].mac = Turned(buf, count - chosen[6].count)
    BY <1>12 DEF Good
  <2>2. chosen[6].count = 0
    BY <2>1
  <2> QED BY <2>1, <2>2
<1>14. count - 0 = count
  OBVIOUS
<1> QED BY <1>1, <1>13, <1>14

(* Two numbers of a stretch of MacLen with the same rest are equal.        *)
LEMMA OneInStretch ==
  ASSUME NEW a \in Int, NEW u \in Int, NEW w \in Int, NEW B \in Nat \ {0},
         a <= u, u < a + B, a <= w, w < a + B, u % B = w % B
  PROVE  u = w
<1> DEFINE q == u \div B
           h == w \div B
           r == u % B
<1>1. u = B * q + r /\ q \in Int /\ r \in 0 .. B - 1
  BY DivideAndRest
<1>2. w = B * h + r /\ h \in Int
  BY DivideAndRest
<1> HIDE DEF q, h, r
<1>3. B * q \in Int /\ B * h \in Int /\ B * (q - h) = B * q - B * h /\ B * (h - q) = B * h - B * q
  BY <1>1, <1>2
<1>4. CASE q > h
  <2>1. B * (q - h) >= B
    <3>1. q - h >= 1 /\ q - h \in Nat
      BY <1>1, <1>2, <1>4
    <3> DEFINE k == q - h
    <3> HIDE DEF k
    <3>2. B * k >= B
      <4>1. 1 * B <= k * B
        BY <3>1, TimesMonotone DEF k
      <4> QED BY <4>1, <3>1 DEF k
    <3> QED BY <3>2 DEF k
  <2>2. u - w = B * (q - h)
    BY <1>1, <1>2, <1>3
  <2> QED BY <1>3, <2>1, <2>2
<1>5. CASE h > q
  <2>1. B * (h - q) >= B
    <3>1. h - q >= 1 /\ h - q \in Nat
      BY <1>1, <1>2, <1>5
    <3> DEFINE k == h - q
    <3> HIDE DEF k
    <3>2. B * k >= B
      <4>1. 1 * B <= k * B
        BY <3>1, TimesMonotone DEF k
      <4> QED BY <4>1, <3>1 DEF k
    <3> QED BY <3>2 DEF k
  <2>2. w - u = B * (h - q)
    BY <1>1, <1>2, <1>3
  <2> QED BY <1>3, <2>1, <2>2
<1>6. CASE q = h
  BY <1>1, <1>2, <1>6
<1> QED BY <1>1, <1>2, <1>4, <1>5, <1>6

(* Of MacLen places in a row each rest occurs once.                        *)
LEMMA Window ==
  ASSUME NEW s \in Seq(Octets), NEW a \in Nat, NEW n \in Nat, a + n <= Len(s)
  PROVE  /\ SubSeq(s, a + 1, a + n) \in Seq(Octets) /\ Len(SubSeq(s, a + 1, a + n)) = n
         /\ \A i \in 1 .. n : SubSeq(s, a + 1, a + n)[i] = s[a + i]
<1>1. Len(s) \in Nat /\ a + n \in Nat /\ \A i \in 1 .. Len(s) : s[i] \in Octets
  BY LenProperties, ElementOfSeq
<1>2. \A i \in a + 1 .. a + n : s[i] \in Octets
  BY <1>1
<1> DEFINE w == SubSeq(s, a + 1, a + n)
<1>3. /\ w \in Seq(Octets)
      /\ Len(w) = IF a + 1 <= a + n THEN (a + n) - (a + 1) + 1 ELSE 0
      /\ \A i \in 1 .. (a + n) - (a + 1) + 1 : w[i] = s[(a + 1) + i - 1]
  BY <1>1, <1>2, SubSeqProperties
<1> HIDE DEF w
<1>4. (a + n) - (a + 1) + 1 = n /\ (\A i \in 1 .. n : (a + 1) + i - 1 = a + i) /\ (~(a + 1 <= a + n) => n = 0)
  BY <1>1
<1>5. Len(w) = n /\ \A i \in 1 .. n : w[i] = s[a + i]
  BY <1>1, <1>3, <1>4
<1> QED BY <1>3, <1>5 DEF w

(* The MAC is the MacLen bytes behind lenNoMac.                            *)
LEMMA ExtractMacRight ==
  ASSUME NEW buf \in Seq(Octets), NEW minLen \in Nat, NEW maxLen \in Nat, NEW lenNoMac \in Nat,
         minLen <= lenNoMac, lenNoMac + MacLen <= maxLen, maxLen <= Len(buf)
  PROVE  ExtractMac(buf, minLen, maxLen, lenNoMac) = SubSeq(buf, lenNoMac + 1, lenNoMac + MacLen)
<1> DEFINE M == MacLen
           from(v) == {u \in minLen .. maxLen - 1 : (u - minLen) % M = v /\ u >= lenNoMac /\ u < lenNoMac + M}
           rotated == [i \in 1 .. M |-> IF from(i - 1) = {} THEN 0 ELSE buf[(CHOOSE u \in from(i - 1) : TRUE) + 1]]
           hit == {u \in minLen .. maxLen - 1 : u = lenNoMac}
           off == lenNoMac - minLen
           count == off % M
           place(i) == lenNoMac + (i - 1)
<1>1. M \in 1 .. 64 /\ M \in Nat \ {0} /\ Len(buf) \in Nat
  BY CbcAssumption, HashAssumption, LenProperties
<1>2. ExtractMac(buf, minLen, maxLen, lenNoMac) = RotateBack(rotated, IF hit = {} THEN 0 ELSE count)
  BY DEF ExtractMac
<1> HIDE DEF M
<1>3. hit # {}
  <2>1. lenNoMac \in minLen .. maxLen - 1
    BY <1>1 DEF M
  <2> QED BY <2>1
<1>4. off \in Nat /\ count \in 0 .. M - 1
  <2>1. off \in Nat
    OBVIOUS
  <2> HIDE DEF off
  <2> QED BY <1>1, <2>1, DivideAndRest
<1>5. count \in 0 .. 63 /\ count \in Nat
  <2> HIDE DEF count
  <2> QED BY <1>1, <1>4
<1> DEFINE j(i) == (i - 1 + count) % M
<1>6. ASSUME NEW i \in 1 .. M
      PROVE  j(i) \in 0 .. M - 1 /\ rotated[j(i) + 1] = buf[lenNoMac + i]
  <2> DEFINE v == j(i)
             p == place(i)
  <2>1. v \in 0 .. M - 1
    <3>1. i - 1 + count \in Int
      <4> HIDE DEF count
      <4> QED BY <1>1, <1>5
    <3> HIDE DEF count
    <3> QED BY <1>1, <3>1, DivideAndRest
  <2>2. p \in minLen .. maxLen - 1 /\ p >= lenNoMac /\ p < lenNoMac + M /\ p \in Int /\ p - minLen = off + (i - 1)
    BY <1>1 DEF M
  <2>3. (p - minLen) % M = v
    <3>1. (count + (i - 1)) % M = (off + (i - 1)) % M
      <4>1. off \in Int /\ i - 1 \in Int
        BY <1>1, <1>4
      <4> HIDE DEF off
      <4> QED BY <1>1, <4>1, RestOfRest
    <3>2. count + (i - 1) = i - 1 + count
      <4> HIDE DEF count
      <4> QED BY <1>1, <1>5
    <3>3. (p - minLen) % M = (off + (i - 1)) % M
      BY <2>2
    <3> HIDE DEF count, off, p
    <3> QED BY <3>1, <3>2, <3>3
  <2>4. p \in from(v)
    <3> HIDE DEF v, p, off, count
    <3> QED BY <2>2, <2>3
  <2>5. \A u \in from(v) : u = p
    <3> SUFFICES ASSUME NEW u \in from(v) PROVE u = p
      OBVIOUS
    <3> DEFINE s == u - minLen
               w == p - minLen
               a == lenNoMac - minLen
    <3>1. u \in Int /\ u >= lenNoMac /\ u < lenNoMac + M /\ (u - minLen) % M = v
      <4> HIDE DEF v
      <4> QED OBVIOUS
    <3> HIDE DEF v, p
    <3>2. s \in Int /\ w \in Int /\ a \in Int /\ a <= s /\ s < a + M /\ a <= w /\ w < a + M
      BY <1>1, <2>2, <3>1
    <3>3. s % M = w % M
      BY <2>3, <3>1
    <3> HIDE DEF s, w, a
    <3>4. s = w
      BY <1>1, <3>2, <3>3, OneInStretch
    <3> QED BY <2>2, <3>1, <3>4 DEF s, w
  <2> HIDE DEF v, p
  <2>6. from(v) # {} /\ (CHOOSE u \in from(v) : TRUE) = p
    <3> HIDE DEF from
    <3>1. (CHOOSE u \in from(v) : TRUE) \in from(v)
      BY <2>4
    <3> QED BY <2>4, <2>5, <3>1
  <2>7. rotated[v + 1] = buf[p + 1]
    <3> HIDE DEF from
    <3>1. v + 1 \in 1 .. M /\ (v + 1) - 1 = v
      BY <1>1, <2>1
    <3>2. rotated[v + 1] = IF from((v + 1) - 1) = {} THEN 0 ELSE buf[(CHOOSE u \in from((v + 1) - 1) : TRUE) + 1]
      BY <3>1
    <3> QED BY <2>6, <3>1, <3>2
  <2>8. p + 1 = lenNoMac + i
    BY <1>1 DEF p
  <2> QED BY <2>1, <2>7, <2>8 DEF v
<1>7. MacSized(rotated)
  <2>1. \A i \in 1 .. M : rotated[i] \in Octets
    <3> TAKE i \in 1 .. M
    <3> HIDE DEF from
    <3>1. CASE from(i - 1) = {}
      BY <3>1 DEF Octets
    <3>2. CASE from(i - 1) # {}
      <4> DEFINE u == CHOOSE u \in from(i - 1) : TRUE
      <4>1. u \in from(i - 1)
        BY <3>2
      <4> HIDE DEF u
      <4>2. u + 1 \in 1 .. Len(buf)
        BY <1>1, <4>1 DEF from
      <4>3. buf[u + 1] \in Octets
        BY <4>2, ElementOfSeq
      <4> QED BY <3>2, <4>3 DEF u
    <3> QED BY <3>1, <3>2
  <2>2. rotated = [i \in 1 .. M |-> rotated[i]]
    <3> HIDE DEF from
    <3> QED OBVIOUS
  <2> HIDE DEF rotated
  <2> QED BY <2>1, <2>2 DEF MacSized, M
<1>8. RotateBack(rotated, count) = Turned(rotated, count)
  <2> HIDE DEF rotated, count
  <2> QED BY <1>5, <1>7, RotateBackRight
<1>9. Turned(rotated, count) = [i \in 1 .. M |-> buf[lenNoMac + i]]
  <2>1. Turned(rotated, count) = [i \in 1 .. M |-> rotated[j(i) + 1]]
    BY DEF Turned, M
  <2> HIDE DEF rotated, count, j
  <2> QED BY <1>6, <2>1
<1>10. SubSeq(buf, lenNoMac + 1, lenNoMac + M) = [i \in 1 .. M |-> buf[lenNoMac + i]]
  <2> DEFINE s == SubSeq(buf, lenNoMac + 1, lenNoMac + M)
  <2>1. lenNoMac + M <= Len(buf)
    BY <1>1 DEF M
  <2>2. s \in Seq(Octets) /\ Len(s) = M /\ \A i \in 1 .. M : s[i] = buf[lenNoMac + i]
    BY <1>1, <2>1, Window
  <2> HIDE DEF s
  <2>3. s = [i \in 1 .. M |-> buf[lenNoMac + i]]
    BY <1>1, <2>2
  <2> QED BY <2>3 DEF s
<1> HIDE DEF rotated, hit, count
<1> QED BY <1>2, <1>3, <1>8, <1>9, <1>10 DEF M

(* The bytes of the header that is hashed before a payload.                *)
LEMMA HeaderRight ==
  ASSUME NEW seq \in Nat, NEW type \in Octets, NEW len \in Nat
  PROVE  Header(seq, type, Version, len) \in Seq(Octets)
<1> DEFINE a == Bytes(seq, 8)
           b == <<type>>
           c == Bytes(Version, 2)
           d == Bytes(len, 2)
<1>1. a \in Seq(Octets)
  BY BytesRight
<1>2. b \in Seq(Octets)
  OBVIOUS
<1>3. c \in Seq(Octets)
  BY BytesRight DEF Version
<1>4. d \in Seq(Octets)
  BY BytesRight
<1>5. Header(seq, type, Version, len) = ((a \o b) \o c) \o d
  BY DEF Header
<1> HIDE DEF a, b, c, d
<1>6. a \o b \in Seq(Octets)
  BY <1>1, <1>2, Joined
<1>7. (a \o b) \o c \in Seq(Octets)
  BY <1>6, <1>3, Joined
<1>8. ((a \o b) \o c) \o d \in Seq(Octets)
  BY <1>7, <1>4, Joined
<1> QED BY <1>5, <1>8

(* The MAC of what follows a header.                                       *)
MacOf(key, seq, type, data) ==
  SubSeq(Hmac(key, Header(seq, type, Version, Len(data)) \o data), 1, MacLen)

(* The MAC is no longer than the digest.                                   *)
LEMMA MacLength == MacLen \in 1 .. DigestLen /\ MacLen \in Nat \ {0} /\ DigestLen \in Nat
BY CbcAssumption, HashAssumption

(* An HMAC cut to the length of the MAC.                                   *)
LEMMA HmacShort ==
  ASSUME EncodesBytes, NEW key, NEW m, NEW n \in 1 .. DigestLen
  PROVE  SubSeq(Hmac(key, m), 1, n) \in Seq(Octets) /\ Len(SubSeq(Hmac(key, m), 1, n)) = n
<1> DEFINE h == Hmac(key, m)
<1>1. h \in Seq(Octets) /\ Len(h) = DigestLen
  BY HmacRight
<1> HIDE DEF h
<1>2. n \in 0 .. Len(h)
  BY <1>1, MacLength
<1>3. SubSeq(h, 1, n) \in Seq(Octets) /\ Len(SubSeq(h, 1, n)) = n
  BY <1>1, <1>2, CutAt
<1> QED BY <1>3 DEF h

(* The HMAC that has seen the header.                                      *)
LEMMA HeaderHolds ==
  ASSUME EncodesBytes, NEW key \in Seq(Octets), NEW seq \in Nat, NEW type \in Octets, NEW len \in Nat
  PROVE  HmacHolds(HmacUpdate(HmacInit(HmacKey(key), MacLen), Header(seq, type, Version, len)),
                   key, MacLen, Header(seq, type, Version, len))
<1> DEFINE h == Header(seq, type, Version, len)
           c == HmacInit(HmacKey(key), MacLen)
<1>1. h \in Seq(Octets)
  BY HeaderRight
<1>2. HmacHolds(c, key, MacLen, <<>>)
  BY MacLength, HmacInitHolds
<1> HIDE DEF h, c
<1>3. HmacHolds(HmacUpdate(c, h), key, MacLen, <<>> \o h)
  BY <1>1, <1>2, HmacUpdateHolds
<1>4. <<>> \o h = h
  BY <1>1, ConcatEmptySeq
<1> QED BY <1>3, <1>4 DEF h, c

(* The MAC of a payload, as the sender computes it.                        *)
LEMMA MacRight ==
  ASSUME EncodesBytes, NEW key \in Seq(Octets), NEW seq \in Nat, NEW type \in Octets, NEW data \in Seq(Octets)
  PROVE  /\ Mac(HmacKey(key), seq, type, Version, data) = MacOf(key, seq, type, data)
         /\ MacOf(key, seq, type, data) \in Seq(Octets) /\ Len(MacOf(key, seq, type, data)) = MacLen
<1> DEFINE h == Header(seq, type, Version, Len(data))
           c == HmacUpdate(HmacInit(HmacKey(key), MacLen), h)
<1>1. Len(data) \in Nat
  BY LenProperties
<1>2. HmacHolds(c, key, MacLen, h)
  BY <1>1, HeaderHolds
<1>3. Mac(HmacKey(key), seq, type, Version, data) = HmacOut(HmacUpdate(c, data))
  BY DEF Mac
<1>4. MacOf(key, seq, type, data) = SubSeq(Hmac(key, h \o data), 1, MacLen)
  BY DEF MacOf
<1> HIDE DEF c, h
<1>5. HmacHolds(HmacUpdate(c, data), key, MacLen, h \o data)
  BY <1>2, HmacUpdateHolds
<1>6. HmacOut(HmacUpdate(c, data)) = SubSeq(Hmac(key, h \o data), 1, MacLen)
  BY <1>5, HmacOutRight
<1>7. SubSeq(Hmac(key, h \o data), 1, MacLen) \in Seq(Octets) /\ Len(SubSeq(Hmac(key, h \o data), 1, MacLen)) = MacLen
  BY MacLength, HmacShort
<1> QED BY <1>3, <1>4, <1>6, <1>7

-----------------------------------------------------------------------------
(* What a receiver should accept, of any key and type.                     *)
IsWell(key, type, buf, n, seq) ==
  LET p == Len(buf) - n - MacLen - 1
  IN  /\ p \in 0 .. PadValues - 1 /\ n <= MaxPayload
      /\ \A i \in n + MacLen + 1 .. Len(buf) : buf[i] = p
      /\ SubSeq(buf, n + 1, n + MacLen)
           = SubSeq(Hmac(key, Header(seq, type, Version, n) \o SubSeq(buf, 1, n)), 1, MacLen)

(* The record behind its explicit IV; the lengths that its payload could   *)
(* have.                                                                   *)
Body(explicit, record) == SubSeq(record, IF explicit THEN BlockSize + 1 ELSE 1, Len(record))
PayloadLens(key, type, buf, seq) == {n \in 0 .. Len(buf) : IsWell(key, type, buf, n, seq)}
Exact(key, type, buf, seq, result) ==
  IF result.ok THEN \E n \in PayloadLens(key, type, buf, seq) : result.data = SubSeq(buf, 1, n)
  ELSE PayloadLens(key, type, buf, seq) = {}
Results == [ok : BOOLEAN, data : Seq(Octets)]

(* The last byte tells where a well-formed payload ends.                   *)
LEMMA WellAt ==
  ASSUME NEW key, NEW type, NEW buf \in Seq(Octets), NEW seq, NEW n \in 0 .. Len(buf), IsWell(key, type, buf, n, seq)
  PROVE  /\ Len(buf) > MacLen /\ n + MacLen + 1 <= Len(buf)
         /\ buf[Len(buf)] = Len(buf) - n - MacLen - 1
         /\ n = Len(buf) - 1 - buf[Len(buf)] - MacLen
<1>1. Len(buf) \in Nat /\ MacLen \in Nat /\ PadValues \in Nat /\ n \in Nat
  BY MacLength, CbcAssumption, LenProperties
<1>2. Len(buf) - n - MacLen - 1 \in 0 .. PadValues - 1
  BY DEF IsWell
<1>3. n + MacLen + 1 <= Len(buf) /\ Len(buf) \in n + MacLen + 1 .. Len(buf)
  BY <1>1, <1>2
<1>4. buf[Len(buf)] = Len(buf) - n - MacLen - 1
  BY <1>3 DEF IsWell
<1> QED BY <1>1, <1>3, <1>4

(* A record has at most one well-formed payload.                           *)
LEMMA WellOnce ==
  ASSUME NEW key, NEW type, NEW buf \in Seq(Octets), NEW seq,
         NEW n \in 0 .. Len(buf), IsWell(key, type, buf, n, seq),
         NEW k \in 0 .. Len(buf), IsWell(key, type, buf, k, seq)
  PROVE  n = k
<1>1. n = Len(buf) - 1 - buf[Len(buf)] - MacLen
  BY WellAt
<1>2. k = Len(buf) - 1 - buf[Len(buf)] - MacLen
  BY WellAt
<1> QED BY <1>1, <1>2

(* The check of a record, part by part.                                    *)
MinLen(len) == IF MacLen + PadValues < len THEN len - PadValues ELSE MacLen
PadLen(buf) == buf[(Len(buf) - 1) + 1]
PadFits(buf) == PadLen(buf) <= (Len(buf) - 1) - MinLen(Len(buf))
WithMac(buf) == IF PadFits(buf) THEN (Len(buf) - 1) - PadLen(buf) ELSE MinLen(Len(buf))
PadHolds(buf) ==
  \A u \in MinLen(Len(buf)) .. (Len(buf) - 1) - 1 : u < WithMac(buf) \/ buf[u + 1] = PadLen(buf)

(* Where the padding and the MAC must be, if the record is well-formed.    *)
LEMMA LengthsRight ==
  ASSUME NEW buf \in Seq(Octets), Len(buf) > MacLen
  PROVE  /\ Len(buf) \in Nat /\ buf[Len(buf)] \in Octets
         /\ MinLen(Len(buf)) \in Nat /\ MacLen <= MinLen(Len(buf)) /\ MinLen(Len(buf)) <= Len(buf) - 1
         /\ WithMac(buf) \in Nat /\ MinLen(Len(buf)) <= WithMac(buf) /\ WithMac(buf) <= Len(buf) - 1
         /\ PadFits(buf) => WithMac(buf) = Len(buf) - 1 - buf[Len(buf)] /\ buf[Len(buf)] \in 0 .. PadValues - 1
<1> DEFINE len == Len(buf)
           p == buf[Len(buf)]
           min == MinLen(len)
<1>1. len \in Nat /\ MacLen \in Nat \ {0} /\ PadValues \in 1 .. 256
  BY MacLength, CbcAssumption, LenProperties
<1>2. p \in Octets /\ p \in Nat /\ PadLen(buf) = p
  <2>1. Len(buf) \in 1 .. Len(buf) /\ (Len(buf) - 1) + 1 = Len(buf)
    BY <1>1
  <2>2. p \in Octets
    BY <2>1, ElementOfSeq
  <2>3. PadLen(buf) = p
    BY <2>1 DEF PadLen
  <2> HIDE DEF p
  <2> QED BY <2>2, <2>3 DEF Octets
<1>3. min = IF MacLen + PadValues < len THEN len - PadValues ELSE MacLen
  BY DEF MinLen
<1> DEFINE mac == WithMac(buf)
<1>4. mac = (IF p <= len - 1 - min THEN len - 1 - p ELSE min) /\ (PadFits(buf) <=> p <= len - 1 - min)
  BY <1>2 DEF WithMac, PadFits
<1>5. len > MacLen
  OBVIOUS
<1> HIDE DEF len, p, min, mac
<1>6. min \in Nat /\ MacLen <= min /\ min <= len - 1 /\ len - 1 - min <= PadValues - 1
  BY <1>1, <1>3, <1>5
<1>7. mac \in Nat /\ min <= mac /\ mac <= len - 1
  BY <1>1, <1>2, <1>4, <1>6
<1>8. PadFits(buf) => mac = len - 1 - p /\ p \in 0 .. PadValues - 1
  BY <1>1, <1>2, <1>4, <1>6
<1> QED BY <1>1, <1>2, <1>6, <1>7, <1>8 DEF len, p, min, mac

(* The MAC that is found, and the MAC that is computed.                    *)
Found(buf) == ExtractMac(buf, MinLen(Len(buf)) - MacLen, Len(buf) - 1, WithMac(buf) - MacLen)
Computed(kc, seq, type, buf) ==
  HmacOutCT(HmacUpdate(HmacInit(kc, MacLen), Header(seq, type, Version, WithMac(buf) - MacLen)),
            buf, WithMac(buf) - MacLen, MinLen(Len(buf)) - MacLen, Len(buf) - 1 - MacLen)

Good(kc, seq, type, buf) ==
  /\ PadFits(buf) /\ PadHolds(buf) /\ Found(buf) = Computed(kc, seq, type, buf)
  /\ WithMac(buf) - MacLen <= MaxPayload
Taken(explicit, record) == IF explicit THEN SubSeq(record, BlockSize + 1, Len(record)) ELSE record

(* cbc_decrypt is the conjunction of these checks.                         *)
LEMMA OpenedParts ==
  ASSUME NEW kc, NEW seq, NEW type, NEW explicit, NEW record
  PROVE  Opened(kc, explicit, seq, type, Version, record)
           = IF Good(kc, seq, type, Taken(explicit, record))
             THEN [ok |-> TRUE, data |-> SubSeq(Taken(explicit, record), 1, WithMac(Taken(explicit, record)) - MacLen)]
             ELSE Rejected
BY Zenon DEF Opened, Taken, Good, PadFits, PadHolds, Found, Computed, MinLen, WithMac, PadLen

(* What is found and computed is what lies behind, and belongs to, the     *)
(* payload that the padding leaves.                                        *)
LEMMA FoundRight ==
  ASSUME NEW buf \in Seq(Octets), Len(buf) > MacLen
  PROVE  LET n == WithMac(buf) - MacLen
         IN  Found(buf) = SubSeq(buf, n + 1, n + MacLen)
<1> DEFINE len == Len(buf)
           min == MinLen(len)
           with == WithMac(buf)
           n == with - MacLen
           low == min - MacLen
           high == len - 1
<1>1. MacLen \in Nat \ {0}
  BY MacLength
<1>2. len \in Nat /\ min \in Nat /\ MacLen <= min /\ min <= len - 1 /\ with \in Nat /\ min <= with /\ with <= len - 1
  BY LengthsRight
<1>3. Found(buf) = ExtractMac(buf, low, high, n)
  BY DEF Found
<1> HIDE DEF len, min, with
<1>4. low \in Nat /\ high \in Nat /\ n \in Nat /\ low <= n /\ n + MacLen <= high /\ high <= len
  BY <1>1, <1>2
<1> HIDE DEF low, high, n
<1>5. ExtractMac(buf, low, high, n) = SubSeq(buf, n + 1, n + MacLen)
  BY <1>4, ExtractMacRight DEF len
<1> QED BY <1>3, <1>5 DEF n, with

(* The MAC that cbc_decrypt computes is the HMAC of header and payload.    *)
LEMMA ComputedRight ==
  ASSUME EncodesBytes, NEW key \in Seq(Octets), NEW seq \in Nat, NEW type \in Octets,
         NEW buf \in Seq(Octets), Len(buf) > MacLen
  PROVE  LET n == WithMac(buf) - MacLen
         IN  Computed(HmacKey(key), seq, type, buf)
               = SubSeq(Hmac(key, Header(seq, type, Version, n) \o SubSeq(buf, 1, n)), 1, MacLen)
<1> DEFINE len == Len(buf)
           min == MinLen(len)
           with == WithMac(buf)
           n == with - MacLen
           low == min - MacLen
           high == len - 1 - MacLen
           h == Header(seq, type, Version, n)
           c == HmacUpdate(HmacInit(HmacKey(key), MacLen), h)
<1>1. MacLen \in Nat \ {0}
  BY MacLength
<1>2. len \in Nat /\ min \in Nat /\ MacLen <= min /\ min <= len - 1 /\ with \in Nat /\ min <= with /\ with <= len - 1
  BY LengthsRight
<1>3. Computed(HmacKey(key), seq, type, buf) = HmacOutCT(c, buf, n, low, high)
  BY DEF Computed
<1> HIDE DEF len, min, with
<1>4. low \in Nat /\ high \in Nat /\ n \in Nat /\ low <= n /\ n <= high /\ high <= len
  BY <1>1, <1>2
<1> HIDE DEF low, high, n
<1>5. HmacHolds(c, key, MacLen, h)
  BY <1>4, HeaderHolds
<1> HIDE DEF c, h
<1>6. HmacOutCT(c, buf, n, low, high) = SubSeq(Hmac(key, h \o SubSeq(buf, 1, n)), 1, MacLen)
  BY <1>4, <1>5, HmacOutCTRight DEF len
<1> QED BY <1>3, <1>6 DEF h, n, with

(* A record that is long enough is opened exactly.                         *)
LEMMA GoodIsWell ==
  ASSUME EncodesBytes, NEW key \in Seq(Octets), NEW seq \in Nat, NEW type \in Octets,
         NEW buf \in Seq(Octets), Len(buf) > MacLen, Good(HmacKey(key), seq, type, buf)
  PROVE  WithMac(buf) - MacLen \in 0 .. Len(buf) /\ IsWell(key, type, buf, WithMac(buf) - MacLen, seq)
<1> DEFINE len == Len(buf)
           p == buf[Len(buf)]
           min == MinLen(Len(buf))
           with == WithMac(buf)
           n == with - MacLen
<1>1. MacLen \in Nat \ {0} /\ MaxPayload \in Nat /\ PadValues \in Nat
  BY MacLength, CbcAssumption
<1>2. /\ len \in Nat /\ p \in Octets /\ min \in Nat /\ MacLen <= min /\ min <= len - 1
      /\ with \in Nat /\ min <= with /\ with <= len - 1
  BY LengthsRight
<1>3. with = len - 1 - p /\ p \in 0 .. PadValues - 1
  BY LengthsRight DEF Good
<1>4. PadLen(buf) = p
  <2>1. (Len(buf) - 1) + 1 = Len(buf)
    BY <1>2
  <2> QED BY <2>1 DEF PadLen
<1>5. \A u \in min .. (len - 1) - 1 : u < with \/ buf[u + 1] = p
  BY <1>4 DEF Good, PadHolds
<1>6. n <= MaxPayload /\ Found(buf) = Computed(HmacKey(key), seq, type, buf)
  BY DEF Good
<1>7. Found(buf) = SubSeq(buf, n + 1, n + MacLen)
  BY FoundRight
<1>8. Computed(HmacKey(key), seq, type, buf)
        = SubSeq(Hmac(key, Header(seq, type, Version, n) \o SubSeq(buf, 1, n)), 1, MacLen)
  BY ComputedRight
<1>9. len - n - MacLen - 1 = p /\ n \in 0 .. len
  <2> HIDE DEF len, p, min, with
  <2> QED BY <1>1, <1>2, <1>3
<1>10. \A i \in n + MacLen + 1 .. len : buf[i] = p
  <2> TAKE i \in n + MacLen + 1 .. len
  <2>1. CASE i = len
    BY <2>1
  <2>2. CASE i # len
    <3> DEFINE u == i - 1
    <3> HIDE DEF with, min, len, p
    <3>1. u \in min .. (len - 1) - 1 /\ ~(u < with) /\ u + 1 = i
      BY <1>1, <1>2, <2>2
    <3> HIDE DEF u
    <3> QED BY <1>5, <3>1
  <2> QED BY <2>1, <2>2
<1> HIDE DEF p, with
<1>11. IsWell(key, type, buf, n, seq)
  <2> HIDE DEF n
  <2> QED BY <1>3, <1>6, <1>7, <1>8, <1>9, <1>10 DEF IsWell
<1> QED BY <1>9, <1>11 DEF with

(* A well-formed payload passes the checks.                                *)
LEMMA WellIsGood ==
  ASSUME EncodesBytes, NEW key \in Seq(Octets), NEW seq \in Nat, NEW type \in Octets,
         NEW buf \in Seq(Octets), Len(buf) > MacLen, NEW n \in 0 .. Len(buf), IsWell(key, type, buf, n, seq)
  PROVE  Good(HmacKey(key), seq, type, buf) /\ WithMac(buf) - MacLen = n
<1> DEFINE len == Len(buf)
           p == buf[Len(buf)]
           min == MinLen(Len(buf))
           with == WithMac(buf)
<1>1. MacLen \in Nat \ {0} /\ MaxPayload \in Nat /\ PadValues \in Nat
  BY MacLength, CbcAssumption
<1>2. /\ len \in Nat /\ p \in Octets /\ min \in Nat /\ MacLen <= min /\ min <= len - 1
      /\ with \in Nat /\ min <= with /\ with <= len - 1
  BY LengthsRight
<1>3. n + MacLen + 1 <= len /\ p = len - n - MacLen - 1 /\ n \in Nat
  BY <1>2, WellAt
<1>4. p \in 0 .. PadValues - 1 /\ n <= MaxPayload /\ \A i \in n + MacLen + 1 .. len : buf[i] = p
  BY <1>3 DEF IsWell
<1>5. PadLen(buf) = p
  <2>1. (Len(buf) - 1) + 1 = Len(buf)
    BY <1>2
  <2> QED BY <2>1 DEF PadLen
<1>6. min = IF MacLen + PadValues < len THEN len - PadValues ELSE MacLen
  BY DEF MinLen
<1>7. PadFits(buf) /\ with = (len - 1) - p
  <2>1. p <= (len - 1) - min
    <3> HIDE DEF len, p, min
    <3> QED BY <1>1, <1>2, <1>3, <1>4, <1>6
  <2>2. PadFits(buf)
    BY <1>5, <2>1 DEF PadFits
  <2> QED BY <1>5, <2>2 DEF WithMac
<1>8. with - MacLen = n /\ with = n + MacLen
  <2> HIDE DEF len, p, min, with
  <2> QED BY <1>1, <1>2, <1>3, <1>7
<1>9. PadHolds(buf)
  <2>1. \A u \in min .. (len - 1) - 1 : u < with \/ buf[u + 1] = p
    <3> TAKE u \in min .. (len - 1) - 1
    <3>1. CASE u < with
      BY <3>1
    <3>2. CASE ~(u < with)
      <4> HIDE DEF len, p, min, with
      <4>1. u + 1 \in n + MacLen + 1 .. len
        BY <1>1, <1>2, <1>3, <1>8, <3>2
      <4> QED BY <1>4, <4>1
    <3> QED BY <3>1, <3>2
  <2> QED BY <1>5, <2>1 DEF PadHolds
<1>10. Found(buf) = SubSeq(buf, n + 1, n + MacLen)
  <2>1. Found(buf) = SubSeq(buf, (with - MacLen) + 1, (with - MacLen) + MacLen)
    BY FoundRight
  <2> HIDE DEF with
  <2> QED BY <1>8, <2>1
<1>11. Computed(HmacKey(key), seq, type, buf)
        = SubSeq(Hmac(key, Header(seq, type, Version, n) \o SubSeq(buf, 1, n)), 1, MacLen)
  <2>1. Computed(HmacKey(key), seq, type, buf)
          = SubSeq(Hmac(key, Header(seq, type, Version, with - MacLen) \o SubSeq(buf, 1, with - MacLen)), 1, MacLen)
    BY ComputedRight
  <2> HIDE DEF with
  <2> QED BY <1>8, <2>1
<1>12. SubSeq(buf, n + 1, n + MacLen)
         = SubSeq(Hmac(key, Header(seq, type, Version, n) \o SubSeq(buf, 1, n)), 1, MacLen)
  BY DEF IsWell
<1>13. Found(buf) = Computed(HmacKey(key), seq, type, buf)
  BY <1>10, <1>11, <1>12
<1>14. WithMac(buf) - MacLen = n
  BY <1>8
<1> HIDE DEF len, p, min, with
<1> QED BY <1>4, <1>7, <1>9, <1>13, <1>14 DEF Good

(* cbc_decrypt skips the explicit IV.                                      *)
LEMMA TakenIsBody ==
  ASSUME NEW explicit \in BOOLEAN, NEW record \in Seq(Octets)
  PROVE  Taken(explicit, record) = Body(explicit, record)
<1>1. CASE explicit
  BY <1>1 DEF Taken, Body
<1>2. CASE ~explicit
  <2>1. SubSeq(record, 1, Len(record)) = record
    BY SubSeqFull
  <2> QED BY <1>2, <2>1 DEF Taken, Body
<1> QED BY <1>1, <1>2

(* cbc_decrypt accepts exactly what is well-formed.                        *)
LEMMA OpenedRight ==
  ASSUME EncodesBytes, NEW key \in Seq(Octets), NEW seq \in Nat, NEW type \in Octets, NEW explicit \in BOOLEAN,
         NEW record \in Seq(Octets), Body(explicit, record) \in Seq(Octets), Len(Body(explicit, record)) > MacLen
  PROVE  /\ Opened(HmacKey(key), explicit, seq, type, Version, record) \in Results
         /\ Exact(key, type, Body(explicit, record), seq,
                  Opened(HmacKey(key), explicit, seq, type, Version, record))
<1> DEFINE buf == Body(explicit, record)
           n == WithMac(buf) - MacLen
           o == Opened(HmacKey(key), explicit, seq, type, Version, record)
           g == Good(HmacKey(key), seq, type, buf)
<1>1. o = IF g THEN [ok |-> TRUE, data |-> SubSeq(buf, 1, n)] ELSE Rejected
  BY OpenedParts, TakenIsBody
<1>2. buf \in Seq(Octets) /\ Len(buf) > MacLen
  OBVIOUS
<1> HIDE DEF buf, o
<1>3. CASE g
  <2>1. n \in 0 .. Len(buf) /\ IsWell(key, type, buf, n, seq)
    BY <1>2, <1>3, GoodIsWell
  <2>2. o = [ok |-> TRUE, data |-> SubSeq(buf, 1, n)]
    BY <1>1, <1>3
  <2> HIDE DEF n, g
  <2>3. SubSeq(buf, 1, n) \in Seq(Octets)
    BY <1>2, <2>1, CutAt
  <2>4. o \in Results /\ o.ok /\ o.data = SubSeq(buf, 1, n)
    BY <2>2, <2>3 DEF Results
  <2> QED BY <2>1, <2>4 DEF Exact, PayloadLens, buf, o
<1>4. CASE ~g
  <2>1. o = [ok |-> FALSE, data |-> <<>>]
    BY <1>1, <1>4 DEF Rejected
  <2>2. o \in Results /\ o.ok = FALSE
    BY <2>1 DEF Results
  <2>3. \A k \in 0 .. Len(buf) : ~IsWell(key, type, buf, k, seq)
    BY <1>2, <1>4, WellIsGood
  <2> QED BY <2>2, <2>3 DEF Exact, PayloadLens, buf, o
<1> QED BY <1>3, <1>4

(* The sizes that the assumption settles.                                  *)
LEMMA BlockSizes ==
  /\ BlockSize \in Nat \ {0} /\ BlockSize \in 1 .. DigestLen /\ PadValues \in 1 .. 256 /\ BlockSize <= PadValues
  /\ MaxPayload \in Nat
BY CbcAssumption, HashAssumption

(* What lies between multiples of the block size.                          *)
LEMMA MultiplesApart ==
  ASSUME NEW L \in Nat, L % BlockSize = 0, NEW X \in Nat
  PROVE  /\ Rounded(X) \in Nat /\ Rounded(X) <= X /\ X < Rounded(X) + BlockSize
         /\ L < Rounded(X) => L <= Rounded(X) - BlockSize
         /\ L > Rounded(X) => L >= Rounded(X) + BlockSize
<1> DEFINE B == BlockSize
           q == X \div B
           r == X % B
           h == L \div B
           R == Rounded(X)
<1>1. B \in Nat \ {0}
  BY BlockSizes
<1>2. X = B * q + r /\ r \in 0 .. B - 1 /\ q \in Int
  BY <1>1, DivideAndRest
<1>3. L = B * h + 0 /\ h \in Int
  <2>1. L = B * h + (L % B) /\ h \in Int
    BY <1>1, DivideAndRest
  <2> QED BY <2>1
<1>4. R = X - r
  BY DEF Rounded
<1> HIDE DEF B, q, r, h, R
<1>5. B * q \in Int /\ B * h \in Int /\ q * B = B * q /\ h * B = B * h /\ (q - 1) * B = B * q - B /\ (q + 1) * B = B * q + B
  BY <1>1, <1>2, <1>3
<1>6. R = B * q /\ L = B * h
  BY <1>2, <1>3, <1>4, <1>5
<1>7. R <= X /\ X < R + B /\ R \in Int
  BY <1>1, <1>2, <1>4, <1>5
<1>8. R \in Nat
  <2>1. CASE q < 0
    <3>1. q <= -1 /\ (-1) * B = -B
      BY <1>1, <1>2, <2>1
    <3>2. q * B <= (-1) * B
      BY <1>1, <1>2, <3>1, TimesMonotone
    <3> QED BY <1>1, <1>5, <1>6, <1>7, <3>1, <3>2
  <2>2. CASE q >= 0
    <3>1. 0 * B <= q * B /\ 0 * B = 0
      BY <1>1, <1>2, <2>2, TimesMonotone
    <3> QED BY <1>5, <1>6, <1>7, <3>1
  <2> QED BY <1>2, <2>1, <2>2
<1>9. L < R => L <= R - B
  <2> SUFFICES ASSUME L < R PROVE L <= R - B
    OBVIOUS
  <2>1. CASE h <= q - 1
    <3>1. h * B <= (q - 1) * B
      BY <1>1, <1>2, <1>3, <2>1, TimesMonotone
    <3> QED BY <1>5, <1>6, <3>1
  <2>2. CASE q <= h
    <3>1. q * B <= h * B
      BY <1>1, <1>2, <1>3, <2>2, TimesMonotone
    <3> QED BY <1>5, <1>6, <3>1
  <2> QED BY <1>2, <1>3, <2>1, <2>2
<1>10. L > R => L >= R + B
  <2> SUFFICES ASSUME L > R PROVE L >= R + B
    OBVIOUS
  <2>1. CASE q + 1 <= h
    <3>1. (q + 1) * B <= h * B
      BY <1>1, <1>2, <1>3, <2>1, TimesMonotone
    <3> QED BY <1>5, <1>6, <3>1
  <2>2. CASE h <= q
    <3>1. h * B <= q * B
      BY <1>1, <1>2, <1>3, <2>2, TimesMonotone
    <3> QED BY <1>5, <1>6, <3>1
  <2> QED BY <1>2, <1>3, <2>1, <2>2
<1> QED BY <1>7, <1>8, <1>9, <1>10 DEF R, B

(* A record that fills whole blocks of the cipher.                         *)
Whole(record) == record \in Seq(Octets) /\ Len(record) % BlockSize = 0

(* The length of what follows the explicit IV.                             *)
LEMMA BodyRight ==
  ASSUME NEW explicit \in BOOLEAN, NEW record \in Seq(Octets)
  PROVE  /\ Body(explicit, record) \in Seq(Octets) /\ Len(record) \in Nat
         /\ explicit /\ Len(record) < BlockSize => Len(Body(explicit, record)) = 0
         /\ explicit /\ BlockSize <= Len(record) => Len(Body(explicit, record)) = Len(record) - BlockSize
         /\ ~explicit => Body(explicit, record) = record
<1> DEFINE b == Body(explicit, record)
<1>1. Len(record) \in Nat /\ BlockSize \in Nat \ {0}
  BY LenProperties, BlockSizes
<1>a. ASSUME explicit /\ Len(record) < BlockSize
      PROVE  b \in Seq(Octets) /\ Len(b) = 0
  <2>1. SubSeq(record, BlockSize + 1, Len(record)) = <<>>
    BY <1>1, <1>a, SubSeqEmpty
  <2>2. b = <<>>
    BY <1>a, <2>1 DEF Body
  <2>3. <<>> \in Seq(Octets) /\ Len(<<>>) = 0
    OBVIOUS
  <2> HIDE DEF b
  <2> QED BY <1>1, <1>a, <2>2, <2>3
<1>b. ASSUME explicit /\ BlockSize <= Len(record)
      PROVE  b \in Seq(Octets) /\ Len(b) = Len(record) - BlockSize
  <2>1. BlockSize \in 0 .. Len(record)
    BY <1>1, <1>b
  <2>2. /\ SubSeq(record, BlockSize + 1, Len(record)) \in Seq(Octets)
        /\ Len(SubSeq(record, BlockSize + 1, Len(record))) = Len(record) - BlockSize
    BY <2>1, CutAt
  <2>3. b = SubSeq(record, BlockSize + 1, Len(record))
    BY <1>b DEF Body
  <2> HIDE DEF b
  <2> QED BY <1>1, <1>b, <2>2, <2>3
<1>c. ASSUME ~explicit
      PROVE  b = record
  <2>1. SubSeq(record, 1, Len(record)) = record
    BY SubSeqFull
  <2>2. b = record
    BY <1>c, <2>1 DEF Body
  <2> HIDE DEF b
  <2> QED BY <1>1, <1>c, <2>2
<1> HIDE DEF b
<1>d. b \in Seq(Octets)
  <2>1. (explicit /\ Len(record) < BlockSize) \/ (explicit /\ BlockSize <= Len(record)) \/ ~explicit
    BY <1>1
  <2> QED BY <1>a, <1>b, <1>c, <2>1
<1>e. b \in Seq(Octets) /\ Len(record) \in Nat
  BY <1>1, <1>d
<1>f. explicit /\ Len(record) < BlockSize => Len(b) = 0
  BY <1>a
<1>g. explicit /\ BlockSize <= Len(record) => Len(b) = Len(record) - BlockSize
  BY <1>b
<1>h. ~explicit => b = record
  BY <1>c
<1> QED BY <1>e, <1>f, <1>g, <1>h, Zenon DEF b

(* A length that is refused is none that a payload could have.             *)
LEMMA LengthRight ==
  ASSUME NEW explicit \in BOOLEAN, NEW record, Whole(record)
  PROVE  /\ CbcCheckLength(explicit, Len(record)) => Len(Body(explicit, record)) > MacLen
         /\ ~CbcCheckLength(explicit, Len(record)) =>
              \/ Len(Body(explicit, record)) <= MacLen
              \/ Len(Body(explicit, record)) > MaxPayload + PadValues + MacLen
<1> DEFINE B == BlockSize
           iv == IF explicit THEN B ELSE 0
           recLen == Len(record)
           lo == Rounded(B + MacLen)
           hi == Rounded(MaxPayload + PadValues + MacLen)
           len == Len(Body(explicit, record))
           L == recLen - iv
<1>1. B \in Nat \ {0} /\ MaxPayload \in Nat /\ PadValues \in Nat /\ MacLen \in Nat \ {0} /\ recLen \in Nat
  BY BlockSizes, MacLength, LenProperties DEF Whole
<1>2. CbcCheckLength(explicit, recLen) <=> recLen \in lo + iv .. hi + iv
  BY DEF CbcCheckLength
<1>3. (recLen < iv => len = 0) /\ (recLen >= iv => len = L)
  <2>1. /\ explicit /\ recLen < B => len = 0
        /\ explicit /\ B <= recLen => len = recLen - B
        /\ ~explicit => len = recLen
    BY BodyRight DEF Whole
  <2> HIDE DEF len, recLen, B
  <2> QED BY <1>1, <2>1
<1>4. CASE recLen < iv
  <2>1. lo \in Nat
    <3>1. B + MacLen \in Nat /\ 0 \in Nat /\ 0 % BlockSize = 0
      BY <1>1, BlockSizes
    <3> HIDE DEF B
    <3> QED BY <3>1, MultiplesApart
  <2>2. iv \in Nat
    BY <1>1
  <2> HIDE DEF lo, hi, iv, recLen, len, L, B
  <2>3. ~CbcCheckLength(explicit, recLen)
    BY <1>1, <1>2, <1>4, <2>1, <2>2
  <2>4. len <= MacLen
    BY <1>1, <1>3, <1>4
  <2> QED BY <2>3, <2>4 DEF recLen, len
<1>5. CASE recLen >= iv
  <2>1. L \in Nat /\ L % B = 0
    <3>1. recLen = B * (recLen \div B) + (recLen % B) /\ recLen % B = 0 /\ recLen \div B \in Int
      <4> HIDE DEF recLen, B
      <4>1. recLen = B * (recLen \div B) + (recLen % B) /\ recLen \div B \in Int
        BY <1>1, DivideAndRest
      <4> QED BY <4>1 DEF recLen, B, Whole
    <3> DEFINE h == recLen \div B
    <3> HIDE DEF recLen, h
    <3>2. CASE explicit
      <4>1. L = B * (h - 1) + 0 /\ h - 1 \in Int /\ L \in Nat
        <5>1. recLen = B * h /\ h \in Int /\ L = recLen - B /\ L \in Nat
          BY <1>1, <1>5, <3>1, <3>2 DEF h
        <5> HIDE DEF B, L
        <5>2. B * (h - 1) = B * h - B /\ B * h \in Int
          BY <1>1, <5>1
        <5> QED BY <1>1, <5>1, <5>2
      <4> HIDE DEF L, B
      <4>2. 0 \in 0 .. B - 1
        BY <1>1
      <4> QED BY <1>1, <4>1, <4>2, RestUnique
    <3>3. CASE ~explicit
      BY <1>1, <3>1, <3>3
    <3> QED BY <3>2, <3>3
  <2>2. B + MacLen \in Nat /\ MaxPayload + PadValues + MacLen \in Nat
    BY <1>1
  <2>3. lo \in Nat /\ B + MacLen < lo + B /\ lo <= B + MacLen /\ (L < lo => L <= lo - B)
    <3> DEFINE X == B + MacLen
    <3> HIDE DEF X, L
    <3>1. Rounded(X) \in Nat /\ X < Rounded(X) + BlockSize /\ Rounded(X) <= X /\ (L < Rounded(X) => L <= Rounded(X) - BlockSize)
      BY <2>1, <2>2, MultiplesApart DEF X
    <3> QED BY <3>1 DEF X
  <2>4. hi \in Nat /\ hi <= MaxPayload + PadValues + MacLen /\ MaxPayload + PadValues + MacLen < hi + B /\ (L > hi => L >= hi + B)
    <3> DEFINE X == MaxPayload + PadValues + MacLen
    <3> HIDE DEF X, L
    <3>1. Rounded(X) \in Nat /\ X < Rounded(X) + BlockSize /\ Rounded(X) <= X /\ (L > Rounded(X) => L >= Rounded(X) + BlockSize)
      BY <2>1, <2>2, MultiplesApart DEF X
    <3> QED BY <3>1 DEF X
  <2>5. iv \in Nat
    BY <1>1
  <2>6. len = L /\ L = recLen - iv
    BY <1>3, <1>5
  <2> HIDE DEF lo, hi, iv, recLen, len, L, B
  <2>7. CbcCheckLength(explicit, recLen) => len > MacLen
    BY <1>1, <1>2, <2>1, <2>3, <2>5, <2>6
  <2>8. ~CbcCheckLength(explicit, recLen) => L < lo \/ L > hi
    BY <1>1, <1>2, <2>3, <2>4, <2>5, <2>6
  <2>9. L < lo => len <= MacLen
    BY <1>1, <2>1, <2>3, <2>6
  <2>10. L > hi => len > MaxPayload + PadValues + MacLen
    BY <1>1, <2>1, <2>4, <2>6
  <2> QED BY <2>7, <2>8, <2>9, <2>10 DEF recLen, len
<1> QED
  <2>1. iv \in Nat
    BY <1>1
  <2> HIDE DEF iv, recLen
  <2> QED BY <1>1, <1>4, <1>5, <2>1

(* What the receiver makes of a record.                                    *)
ReadResult(key, explicit, seq, type, record) ==
  IF CbcCheckLength(explicit, Len(record)) THEN Opened(HmacKey(key), explicit, seq, type, Version, record) ELSE Rejected

(* The receiver reads a record of whole blocks exactly.                    *)
LEMMA ReadRight ==
  ASSUME EncodesBytes, NEW key \in Seq(Octets), NEW seq \in Nat, NEW type \in Octets, NEW explicit \in BOOLEAN,
         NEW record, Whole(record)
  PROVE  /\ ReadResult(key, explicit, seq, type, record) \in Results
         /\ Exact(key, type, Body(explicit, record), seq, ReadResult(key, explicit, seq, type, record))
<1> DEFINE buf == Body(explicit, record)
           o == ReadResult(key, explicit, seq, type, record)
<1>1. record \in Seq(Octets) /\ buf \in Seq(Octets)
  BY BodyRight DEF Whole
<1>2. CASE CbcCheckLength(explicit, Len(record))
  <2>1. Len(buf) > MacLen
    BY <1>2, LengthRight
  <2>2. o = Opened(HmacKey(key), explicit, seq, type, Version, record)
    BY <1>2 DEF ReadResult
  <2> QED BY <1>1, <2>1, <2>2, OpenedRight
<1>3. CASE ~CbcCheckLength(explicit, Len(record))
  <2>1. Len(buf) <= MacLen \/ Len(buf) > MaxPayload + PadValues + MacLen
    BY <1>3, LengthRight
  <2>2. o = [ok |-> FALSE, data |-> <<>>]
    BY <1>3 DEF ReadResult, Rejected
  <2>3. o \in Results /\ o.ok = FALSE
    BY <2>2 DEF Results
  <2> HIDE DEF buf, o
  <2>4. \A n \in 0 .. Len(buf) : ~IsWell(key, type, buf, n, seq)
    <3> SUFFICES ASSUME NEW n \in 0 .. Len(buf), IsWell(key, type, buf, n, seq) PROVE FALSE
      OBVIOUS
    <3>1. Len(buf) > MacLen /\ n + MacLen + 1 <= Len(buf) /\ Len(buf) \in Nat
      BY <1>1, WellAt, LenProperties
    <3>2. Len(buf) - n - MacLen - 1 \in 0 .. PadValues - 1 /\ n <= MaxPayload
      BY DEF IsWell
    <3> QED BY <2>1, <3>1, <3>2, BlockSizes, MacLength
  <2> QED BY <2>3, <2>4 DEF Exact, PayloadLens, buf, o
<1> QED BY <1>2, <1>3

(* The parts of a sequence that was joined.                                *)
LEMMA FrontOf ==
  ASSUME NEW s \in Seq(Octets), NEW t \in Seq(Octets)
  PROVE  SubSeq(s \o t, 1, Len(s)) = s /\ SubSeq(s \o t, Len(s) + 1, Len(s \o t)) = t
<1> DEFINE j == s \o t
           n == Len(s)
           k == Len(t)
<1>1. j \in Seq(Octets) /\ Len(j) = n + k /\ n \in Nat /\ k \in Nat
  BY Joined
<1>2. (\A i \in 1 .. n : j[i] = s[i]) /\ (\A i \in 1 .. k : j[n + i] = t[i])
  <2>1. /\ \A i \in 1 .. Len(s) + Len(t) : (s \o t)[i] = IF i <= Len(s) THEN s[i] ELSE t[i - Len(s)]
    BY ConcatProperties
  <2> HIDE DEF j
  <2>2. ASSUME NEW i \in 1 .. n PROVE j[i] = s[i]
    <3>1. i \in 1 .. Len(s) + Len(t) /\ i <= Len(s)
      BY <1>1
    <3> QED BY <2>1, <3>1 DEF j
  <2>3. ASSUME NEW i \in 1 .. k PROVE j[n + i] = t[i]
    <3>1. n + i \in 1 .. Len(s) + Len(t) /\ ~(n + i <= Len(s)) /\ (n + i) - Len(s) = i
      BY <1>1
    <3> QED BY <2>1, <3>1 DEF j
  <2> QED BY <2>2, <2>3
<1> HIDE DEF j
<1>3. n \in 0 .. Len(j) /\ Len(j) - n = k
  BY <1>1
<1> DEFINE a == SubSeq(j, 1, n)
           b == SubSeq(j, n + 1, Len(j))
<1>4. /\ a \in Seq(Octets) /\ Len(a) = n /\ \A i \in 1 .. n : a[i] = j[i]
      /\ b \in Seq(Octets) /\ Len(b) = Len(j) - n /\ \A i \in 1 .. Len(j) - n : b[i] = j[n + i]
  BY <1>1, <1>3, CutAt, SMTT(60)
<1> HIDE DEF a, b
<1>5. a = s
  <2>1. \A i \in 1 .. Len(s) : a[i] = s[i]
    BY <1>2, <1>4
  <2>2. a \in Seq(Octets) /\ Len(a) = Len(s)
    BY <1>4
  <2> QED BY <2>1, <2>2
<1>6. b = t
  BY <1>1, <1>2, <1>3, <1>4, SMTT(60)
<1> QED BY <1>5, <1>6 DEF a, b, j

(* The elements of a joined sequence.                                      *)
LEMMA AtOf ==
  ASSUME NEW s \in Seq(Octets), NEW t \in Seq(Octets)
  PROVE  (\A i \in 1 .. Len(s) : (s \o t)[i] = s[i]) /\ (\A i \in 1 .. Len(t) : (s \o t)[Len(s) + i] = t[i])
<1>1. \A i \in 1 .. Len(s) + Len(t) : (s \o t)[i] = IF i <= Len(s) THEN s[i] ELSE t[i - Len(s)]
  BY ConcatProperties
<1>2. Len(s) \in Nat /\ Len(t) \in Nat
  BY LenProperties
<1>3. ASSUME NEW i \in 1 .. Len(s) PROVE (s \o t)[i] = s[i]
  <2>1. i \in 1 .. Len(s) + Len(t) /\ i <= Len(s)
    BY <1>2
  <2> QED BY <1>1, <2>1
<1>4. ASSUME NEW i \in 1 .. Len(t) PROVE (s \o t)[Len(s) + i] = t[i]
  <2> DEFINE u == Len(s) + i
  <2>1. u \in 1 .. Len(s) + Len(t) /\ ~(u <= Len(s)) /\ u - Len(s) = i
    BY <1>2
  <2> HIDE DEF u
  <2>2. (s \o t)[u] = t[i]
    BY <1>1, <2>1
  <2> QED BY <2>2 DEF u
<1> QED BY <1>3, <1>4

-----------------------------------------------------------------------------
(* Padding of value p.                                                     *)
FillOf(p) == [i \in 1 .. p + 1 |-> p]

(* Padding is p + 1 bytes of value p.                                      *)
LEMMA FillRight ==
  ASSUME NEW p \in Octets
  PROVE  FillOf(p) \in Seq(Octets) /\ Len(FillOf(p)) = p + 1 /\ \A i \in 1 .. p + 1 : FillOf(p)[i] = p
<1>1. p + 1 \in Nat
  BY DEF Octets
<1>2. FillOf(p) \in [1 .. p + 1 -> Octets]
  BY DEF FillOf
<1> QED BY <1>1, <1>2 DEF FillOf

(* A record that carries data.                                             *)
Carries(key, explicit, type, seq, record, data) ==
  /\ Whole(record) /\ data \in Seq(Octets)
  /\ Len(data) \in PayloadLens(key, type, Body(explicit, record), seq)
  /\ SubSeq(Body(explicit, record), 1, Len(data)) = data

(* The explicit IV, and all that lies ahead of the padding.                *)
Iv(key, explicit, seq) ==
  IF explicit THEN HmacOut(HmacUpdate(HmacInit(HmacKey(key), BlockSize), Bytes(seq, 8))) ELSE <<>>
Ahead(key, explicit, seq, type, data) == (Iv(key, explicit, seq) \o data) \o MacOf(key, seq, type, data)

(* The explicit IV has the length of a block.                              *)
LEMMA IvRight ==
  ASSUME EncodesBytes, NEW key \in Seq(Octets), NEW explicit \in BOOLEAN, NEW seq \in Nat
  PROVE  Iv(key, explicit, seq) \in Seq(Octets) /\ Len(Iv(key, explicit, seq)) = IF explicit THEN BlockSize ELSE 0
<1>1. CASE explicit
  <2> DEFINE c == HmacInit(HmacKey(key), BlockSize)
             b == Bytes(seq, 8)
             i == Iv(key, explicit, seq)
  <2>1. HmacHolds(c, key, BlockSize, <<>>)
    BY BlockSizes, HmacInitHolds
  <2>2. b \in Seq(Octets)
    BY BytesRight
  <2>3. i = HmacOut(HmacUpdate(c, b))
    BY <1>1 DEF Iv
  <2> HIDE DEF c, b, i
  <2>4. HmacHolds(HmacUpdate(c, b), key, BlockSize, <<>> \o b)
    BY <2>1, <2>2, HmacUpdateHolds
  <2>5. HmacOut(HmacUpdate(c, b)) = SubSeq(Hmac(key, <<>> \o b), 1, BlockSize)
    BY <2>4, HmacOutRight
  <2>6. i \in Seq(Octets) /\ Len(i) = BlockSize
    BY <2>3, <2>5, BlockSizes, HmacShort
  <2> QED BY <1>1, <2>6 DEF i
<1>2. CASE ~explicit
  <2> DEFINE i == Iv(key, explicit, seq)
  <2>1. i = <<>>
    BY <1>2 DEF Iv
  <2> HIDE DEF i
  <2>2. i \in Seq(Octets) /\ Len(i) = 0
    BY <2>1
  <2> QED BY <1>2, <2>2 DEF i
<1> QED BY <1>1, <1>2

(* What lies ahead of the padding is bytes.                                *)
LEMMA FrontRight ==
  ASSUME EncodesBytes, NEW key \in Seq(Octets), NEW explicit \in BOOLEAN, NEW seq \in Nat, NEW type \in Octets,
         NEW data \in Seq(Octets)
  PROVE  /\ Ahead(key, explicit, seq, type, data) \in Seq(Octets)
         /\ Len(Ahead(key, explicit, seq, type, data)) = (IF explicit THEN BlockSize ELSE 0) + Len(data) + MacLen
<1> DEFINE i == Iv(key, explicit, seq)
           m == MacOf(key, seq, type, data)
           v == IF explicit THEN BlockSize ELSE 0
<1>1. i \in Seq(Octets) /\ Len(i) = v
  BY IvRight
<1>2. m \in Seq(Octets) /\ Len(m) = MacLen
  BY MacRight
<1> HIDE DEF i, m, v
<1>3. i \o data \in Seq(Octets) /\ Len(i \o data) = v + Len(data)
  BY <1>1, Joined
<1>4. (i \o data) \o m \in Seq(Octets) /\ Len((i \o data) \o m) = v + Len(data) + MacLen
  BY <1>2, <1>3, Joined
<1> QED BY <1>4 DEF i, m, v, Ahead

(* A record built of IV, payload, MAC and padding carries the payload.     *)
LEMMA BuiltRight ==
  ASSUME EncodesBytes, NEW key \in Seq(Octets), NEW explicit \in BOOLEAN, NEW seq \in Nat, NEW type \in Octets,
         NEW data \in Seq(Octets), Len(data) <= MaxPayload, NEW p \in 0 .. PadValues - 1,
         Whole(Ahead(key, explicit, seq, type, data) \o FillOf(p))
  PROVE  Carries(key, explicit, type, seq, Ahead(key, explicit, seq, type, data) \o FillOf(p), data)
<1> DEFINE i == Iv(key, explicit, seq)
           m == MacOf(key, seq, type, data)
           f == FillOf(p)
           record == Ahead(key, explicit, seq, type, data) \o f
           tail == data \o (m \o f)
           n == Len(data)
           buf == Body(explicit, record)
<1>1. PadValues \in 1 .. 256 /\ MacLen \in Nat \ {0} /\ BlockSize \in Nat \ {0} /\ n \in Nat
  BY BlockSizes, MacLength, LenProperties
<1>2. p \in Octets /\ p \in Nat /\ p <= PadValues - 1
  BY <1>1 DEF Octets
<1>3. i \in Seq(Octets) /\ (explicit => Len(i) = BlockSize) /\ (~explicit => Len(i) = 0)
  BY IvRight
<1>4. m \in Seq(Octets) /\ Len(m) = MacLen
  BY MacRight
<1>5. f \in Seq(Octets) /\ Len(f) = p + 1 /\ \A k \in 1 .. p + 1 : f[k] = p
  BY <1>2, FillRight
<1>6. record = ((i \o data) \o m) \o f
  BY DEF Ahead
<1>7. m \in Seq(Octets) /\ m = SubSeq(Hmac(key, Header(seq, type, Version, n) \o data), 1, MacLen)
  BY <1>4 DEF MacOf
<1>8. Whole(record)
  OBVIOUS
<1> HIDE DEF i, m, f, record
<1>9. m \o f \in Seq(Octets) /\ Len(m \o f) = MacLen + (p + 1)
  BY <1>4, <1>5, Joined
<1>10. tail \in Seq(Octets) /\ Len(tail) = n + (MacLen + (p + 1))
  BY <1>9, Joined
<1>11. record = i \o tail
  <2>1. i \o data \in Seq(Octets)
    BY <1>3, Joined
  <2>2. ((i \o data) \o m) \o f = (i \o data) \o (m \o f)
    BY <1>4, <1>5, <2>1, JoinedThrice, ZenonT(60)
  <2>3. (i \o data) \o (m \o f) = i \o (data \o (m \o f))
    BY <1>3, <1>9, JoinedThrice, ZenonT(60)
  <2> QED BY <1>6, <2>2, <2>3
<1> HIDE DEF tail
<1>12. buf = tail
  <2>1. CASE explicit
    <3>1. buf = SubSeq(i \o tail, Len(i) + 1, Len(i \o tail))
      BY <1>3, <1>11, <2>1 DEF Body
    <3> HIDE DEF buf
    <3> QED BY <1>3, <1>10, <3>1, FrontOf
  <2>2. CASE ~explicit
    <3>1. i = <<>>
      BY <1>3, <2>2, EmptySeq
    <3>2. record = tail
      BY <1>10, <1>11, <3>1, ConcatEmptySeq
    <3>3. buf = SubSeq(tail, 1, Len(tail))
      BY <2>2, <3>2 DEF Body
    <3> HIDE DEF buf
    <3> QED BY <1>10, <3>3, SubSeqFull
  <2> QED BY <2>1, <2>2
<1>13. SubSeq(tail, 1, n) = data
  BY <1>9, FrontOf DEF tail
<1>14. \A k \in 1 .. MacLen + (p + 1) : tail[n + k] = (m \o f)[k]
  BY <1>9, AtOf DEF tail
<1>15. SubSeq(tail, n + 1, n + MacLen) = m
  <2> DEFINE s == SubSeq(tail, n + 1, n + MacLen)
  <2>1. s \in Seq(Octets) /\ Len(s) = MacLen /\ \A k \in 1 .. MacLen : s[k] = tail[n + k]
    <3>1. n + MacLen <= Len(tail)
      BY <1>1, <1>2, <1>10
    <3> QED BY <1>1, <1>10, <3>1, Window, SMTT(60)
  <2> HIDE DEF s
  <2>2. \A k \in 1 .. MacLen : (m \o f)[k] = m[k]
    BY <1>4, <1>5, AtOf
  <2>3. \A k \in 1 .. MacLen : k \in 1 .. MacLen + (p + 1)
    BY <1>1, <1>2
  <2>4. \A k \in 1 .. MacLen : s[k] = m[k]
    BY <1>14, <2>1, <2>2, <2>3
  <2>5. s = m
    BY <1>1, <1>4, <2>1, <2>4
  <2> QED BY <2>5 DEF s
<1>16. \A k \in n + MacLen + 1 .. Len(tail) : tail[k] = p
  <2> TAKE k \in n + MacLen + 1 .. Len(tail)
  <2> DEFINE l == k - n - MacLen
  <2>1. l \in 1 .. p + 1 /\ MacLen + l \in 1 .. MacLen + (p + 1) /\ n + (MacLen + l) = k
    BY <1>1, <1>2, <1>10
  <2> HIDE DEF l
  <2>2. tail[n + (MacLen + l)] = (m \o f)[MacLen + l]
    BY <1>14, <2>1
  <2>3. (m \o f)[Len(m) + l] = f[l]
    BY <1>4, <1>5, <2>1, AtOf, ZenonT(60)
  <2> QED BY <1>4, <1>5, <2>1, <2>2, <2>3
<1>17. Len(tail) - n - MacLen - 1 = p
  BY <1>1, <1>2, <1>10
<1>18. IsWell(key, type, tail, n, seq)
  <2>1. SubSeq(tail, n + 1, n + MacLen)
          = SubSeq(Hmac(key, Header(seq, type, Version, n) \o SubSeq(tail, 1, n)), 1, MacLen)
    BY <1>7, <1>13, <1>15
  <2> HIDE DEF n
  <2>2. n <= MaxPayload
    BY DEF n
  <2> QED BY <1>16, <1>17, <2>1, <2>2 DEF IsWell
<1>19. n \in PayloadLens(key, type, tail, seq)
  <2>1. n \in 0 .. Len(tail)
    BY <1>1, <1>2, <1>10
  <2> QED BY <1>18, <2>1 DEF PayloadLens
<1>20. Carries(key, explicit, type, seq, record, data)
  <2> HIDE DEF buf, n
  <2>1. Body(explicit, record) = tail
    BY <1>12 DEF buf
  <2> QED BY <1>8, <1>13, <1>19, <2>1 DEF Carries, n
<1> QED BY <1>20 DEF record, f

(* The record that cbc_encrypt makes.                                      *)
SealedBy(key, explicit, seq, type, data) == Sealed(HmacKey(key), explicit, seq, type, Version, data)

(* A record that is filled up with bytes p.                                *)
Filled(record, key, explicit, seq, type, data, p, limit) ==
  /\ p \in 0 .. limit - 1 /\ Whole(record)
  /\ record = Ahead(key, explicit, seq, type, data) \o FillOf(p)

(* The last byte of a filled record, and what is in front of the filling.  *)
LEMMA FilledRight ==
  ASSUME NEW s \in Seq(Octets), NEW p \in Octets
  PROVE  LET r == s \o FillOf(p)
         IN  /\ r \in Seq(Octets) /\ Len(r) = Len(s) + (p + 1) /\ r[Len(r)] = p
             /\ SubSeq(r, 1, Len(r) - p - 1) = s
<1> DEFINE f == FillOf(p)
           r == s \o f
<1>1. f \in Seq(Octets) /\ Len(f) = p + 1 /\ \A i \in 1 .. p + 1 : f[i] = p
  BY FillRight
<1>2. p \in Nat /\ Len(s) \in Nat
  BY LenProperties DEF Octets
<1> HIDE DEF f
<1>3. r \in Seq(Octets) /\ Len(r) = Len(s) + (p + 1)
  BY <1>1, Joined
<1>4. r[Len(r)] = p
  <2>1. r[Len(s) + (p + 1)] = f[p + 1]
    <3>1. p + 1 \in 1 .. Len(f)
      BY <1>1, <1>2
    <3> QED BY <1>1, <3>1, AtOf
  <2>2. p + 1 \in 1 .. p + 1
    BY <1>2
  <2> HIDE DEF r
  <2> QED BY <1>1, <1>3, <2>1, <2>2
<1>5. SubSeq(r, 1, Len(r) - p - 1) = s
  <2>1. Len(r) - p - 1 = Len(s)
    <3> HIDE DEF r
    <3> QED BY <1>2, <1>3
  <2>2. SubSeq(r, 1, Len(s)) = s
    BY <1>1, FrontOf
  <2> HIDE DEF r
  <2> QED BY <2>1, <2>2
<1> QED BY <1>3, <1>4, <1>5 DEF f

(* cbc_encrypt fills the last block up, and no more.                       *)
LEMMA SealedRight ==
  ASSUME EncodesBytes, NEW key \in Seq(Octets), NEW explicit \in BOOLEAN, NEW seq \in Nat, NEW type \in Octets,
         NEW data \in Seq(Octets)
  PROVE  \E p : Filled(SealedBy(key, explicit, seq, type, data), key, explicit, seq, type, data, p, BlockSize)
<1> DEFINE B == BlockSize
           len == Len(data) + MacLen
           plen == B - (len % B)
           p == plen - 1
           front == Ahead(key, explicit, seq, type, data)
           v == IF explicit THEN BlockSize ELSE 0
           r == SealedBy(key, explicit, seq, type, data)
           f == FillOf(p)
<1>1. B \in Nat \ {0} /\ B <= 256 /\ MacLen \in Nat /\ Len(data) \in Nat /\ len \in Nat
  <2>1. B \in Nat \ {0} /\ B <= 256
    BY BlockSizes
  <2>2. MacLen \in Nat
    BY MacLength
  <2>3. Len(data) \in Nat
    BY LenProperties
  <2> QED BY <2>1, <2>2, <2>3
<1>2. r = front \o [i \in 1 .. plen |-> plen - 1]
  <2>1. Mac(HmacKey(key), seq, type, Version, data) = MacOf(key, seq, type, data)
    BY MacRight
  <2> QED BY <2>1 DEF SealedBy, Sealed, Ahead, Iv
<1>3. front \in Seq(Octets) /\ Len(front) = v + Len(data) + MacLen
  BY FrontRight, ZenonT(60)
<1> DEFINE rest == len % B
           q == len \div B
<1>4. len = B * q + rest /\ rest \in 0 .. B - 1 /\ q \in Int
  <2> HIDE DEF len, B
  <2> QED BY <1>1, DivideAndRest
<1>5. plen = B - rest
  OBVIOUS
<1> HIDE DEF r, front, rest, q, len, plen, B
<1>6. p \in 0 .. B - 1 /\ p + 1 = plen /\ p \in Octets
  <2>1. p \in 0 .. B - 1 /\ p + 1 = plen
    BY <1>1, <1>4, <1>5
  <2> HIDE DEF p
  <2> QED BY <1>1, <2>1 DEF Octets
<1>7. r = front \o f
  <2>1. f = [i \in 1 .. plen |-> plen - 1]
    BY <1>6 DEF FillOf
  <2> HIDE DEF f
  <2> QED BY <1>2, <2>1
<1>8. r \in Seq(Octets) /\ Len(r) = Len(front) + (p + 1)
  <2> HIDE DEF p
  <2> QED BY <1>3, <1>6, <1>7, FilledRight
<1>9. Len(r) % B = 0
  <2>1. Len(r) = v + len + plen /\ len \in Nat /\ plen \in Int
    <3>1. Len(r) = v + Len(data) + MacLen + plen
      BY <1>3, <1>6, <1>8
    <3>2. v \in Nat
      BY <1>1, BlockSizes
    <3>3. plen \in Int
      BY <1>1, <1>4, <1>5
    <3> HIDE DEF v
    <3> QED BY <1>1, <3>1, <3>2, <3>3 DEF len
  <2>2. len + plen = B * q + B /\ B * q \in Int
    BY <1>1, <1>4, <1>5
  <2>3. CASE explicit
    <3>1. v = B
      BY <2>3 DEF B
    <3>2. B * (q + 2) = B * q + B + B
      BY <1>1, <1>4
    <3> HIDE DEF v
    <3>3. Len(r) = B * (q + 2) + 0 /\ q + 2 \in Int /\ 0 \in 0 .. B - 1 /\ Len(r) \in Int
      BY <1>1, <1>4, <2>1, <2>2, <3>1, <3>2
    <3> QED BY <1>1, <3>3, RestUnique
  <2>4. CASE ~explicit
    <3>1. v = 0
      BY <2>4
    <3>2. B * (q + 1) = B * q + B
      BY <1>1, <1>4
    <3> HIDE DEF v
    <3>3. Len(r) = B * (q + 1) + 0 /\ q + 1 \in Int /\ 0 \in 0 .. B - 1 /\ Len(r) \in Int
      BY <1>1, <1>4, <2>1, <2>2, <3>1, <3>2
    <3> QED BY <1>1, <3>3, RestUnique
  <2> QED BY <2>3, <2>4
<1>10. p \in 0 .. BlockSize - 1 /\ Len(r) % BlockSize = 0
  BY <1>6, <1>9 DEF B
<1> HIDE DEF p
<1>11. Whole(r)
  BY <1>8, <1>10 DEF Whole
<1>12. Filled(r, key, explicit, seq, type, data, p, BlockSize)
  BY <1>7, <1>10, <1>11 DEF Filled, front, f
<1> QED BY <1>12, Zenon DEF r

(* The record of another implementation, with more filling.                *)
PeerRecord(record, blocks) ==
  LET p == record[Len(record)] + blocks * BlockSize
  IN  SubSeq(record, 1, Len(record) - record[Len(record)] - 1) \o [i \in 1 .. p + 1 |-> p]

(* More filling fills whole blocks as well.                                *)
LEMMA PeerRight ==
  ASSUME EncodesBytes, NEW key \in Seq(Octets), NEW explicit \in BOOLEAN, NEW seq \in Nat, NEW type \in Octets,
         NEW data \in Seq(Octets), NEW blocks \in Nat, NEW record, record = SealedBy(key, explicit, seq, type, data),
         record[Len(record)] + blocks * BlockSize < PadValues
  PROVE  \E p : Filled(PeerRecord(record, blocks), key, explicit, seq, type, data, p, PadValues)
<1> DEFINE B == BlockSize
           front == Ahead(key, explicit, seq, type, data)
           r == PeerRecord(record, blocks)
           last == record[Len(record)]
           more == blocks * B
           p == last + more
           f == FillOf(p)
<1>1. B \in Nat \ {0} /\ PadValues \in 1 .. 256 /\ B <= 256
  <2> HIDE DEF front, r, last, p, f
  <2>1. B \in Nat \ {0} /\ PadValues \in 1 .. 256 /\ B <= PadValues
    BY BlockSizes
  <2> QED BY <2>1
<1>a. PICK k : Filled(record, key, explicit, seq, type, data, k, BlockSize)
  BY SealedRight, Zenon
<1>2. k \in 0 .. B - 1 /\ record = front \o FillOf(k) /\ Whole(record)
  BY <1>a DEF Filled
<1>3. front \in Seq(Octets)
  BY FrontRight
<1> HIDE DEF front, r
<1>4. k \in Octets
  BY <1>1, <1>2 DEF Octets
<1>5. /\ record \in Seq(Octets) /\ Len(record) = Len(front) + (k + 1) /\ record[Len(record)] = k
      /\ SubSeq(record, 1, Len(record) - k - 1) = front
  BY <1>2, <1>3, <1>4, FilledRight, ZenonT(60)
<1>6. more \in Nat
  BY <1>1
<1>7. p \in 0 .. PadValues - 1 /\ p \in Octets /\ p = k + more /\ last = k
  <2>1. last = k
    BY <1>5
  <2> HIDE DEF last, more
  <2>2. p < PadValues
    BY DEF last, more
  <2> QED BY <1>1, <1>2, <1>6, <2>1, <2>2 DEF Octets
<1>8. r = front \o f
  BY <1>5 DEF r, PeerRecord, FillOf
<1> HIDE DEF last, p, more
<1>9. r \in Seq(Octets) /\ Len(r) = Len(front) + (p + 1)
  BY <1>3, <1>7, <1>8, FilledRight
<1>10. Len(r) % B = 0
  <2> DEFINE L == Len(record)
             q == L \div B
  <2>1. L % B = 0 /\ L \in Nat
    BY <1>2, LenProperties DEF Whole
  <2> HIDE DEF L, B
  <2>2. L = B * q + 0 /\ q \in Int
    <3>1. L \in Int
      BY <2>1
    <3>2. L = B * (L \div B) + (L % B) /\ (L \div B) \in Int
      BY <1>1, <3>1, DivideAndRest
    <3> QED BY <2>1, <3>2
  <2>3. Len(front) \in Nat
    BY <1>3, LenProperties
  <2> HIDE DEF q
  <2>4. Len(r) = L + more
    BY <1>2, <1>5, <1>6, <1>7, <1>9, <2>3 DEF L
  <2>5. more = B * blocks /\ B * (q + blocks) = B * q + B * blocks /\ B * q \in Int
    BY <1>1, <2>2 DEF more
  <2>6. Len(r) = B * (q + blocks) + 0 /\ q + blocks \in Int /\ Len(r) \in Int /\ 0 \in 0 .. B - 1
    BY <1>1, <1>6, <2>1, <2>2, <2>4, <2>5
  <2> QED BY <1>1, <2>6, RestUnique
<1>11. Whole(r)
  BY <1>9, <1>10 DEF Whole, B
<1>12. Filled(r, key, explicit, seq, type, data, p, PadValues)
  BY <1>7, <1>8, <1>11 DEF Filled, front, f
<1> QED BY <1>12, Zenon DEF r

(* Both carry the payload, if it is not longer than is allowed.            *)
LEMMA SealedCarries ==
  ASSUME EncodesBytes, NEW key \in Seq(Octets), NEW explicit \in BOOLEAN, NEW seq \in Nat, NEW type \in Octets,
         NEW data \in Seq(Octets)
  PROVE  /\ Whole(SealedBy(key, explicit, seq, type, data))
         /\ Len(data) <= MaxPayload =>
              Carries(key, explicit, type, seq, SealedBy(key, explicit, seq, type, data), data)
<1> DEFINE r == SealedBy(key, explicit, seq, type, data)
<1>a. PICK p : Filled(r, key, explicit, seq, type, data, p, BlockSize)
  BY SealedRight, Zenon
<1>1. p \in 0 .. BlockSize - 1 /\ r = Ahead(key, explicit, seq, type, data) \o FillOf(p) /\ Whole(r)
  BY <1>a DEF Filled
<1>2. p \in 0 .. PadValues - 1
  <2>1. p \in 0 .. BlockSize - 1
    BY <1>1
  <2> QED BY <2>1, BlockSizes
<1> HIDE DEF r
<1>3. ASSUME Len(data) <= MaxPayload PROVE Carries(key, explicit, type, seq, r, data)
  BY <1>1, <1>2, <1>3, BuiltRight
<1> QED BY <1>1, <1>3 DEF r

(* A record with more filling carries the payload.                         *)
LEMMA PeerCarries ==
  ASSUME EncodesBytes, NEW key \in Seq(Octets), NEW explicit \in BOOLEAN, NEW seq \in Nat, NEW type \in Octets,
         NEW data \in Seq(Octets), NEW blocks \in Nat, NEW record, record = SealedBy(key, explicit, seq, type, data),
         record[Len(record)] + blocks * BlockSize < PadValues
  PROVE  /\ Whole(PeerRecord(record, blocks))
         /\ Len(data) <= MaxPayload => Carries(key, explicit, type, seq, PeerRecord(record, blocks), data)
<1> DEFINE r == PeerRecord(record, blocks)
<1>a. PICK p : Filled(r, key, explicit, seq, type, data, p, PadValues)
  BY PeerRight, Zenon
<1>1. p \in 0 .. PadValues - 1 /\ r = Ahead(key, explicit, seq, type, data) \o FillOf(p) /\ Whole(r)
  BY <1>a DEF Filled
<1> HIDE DEF r
<1>2. ASSUME Len(data) <= MaxPayload PROVE Carries(key, explicit, type, seq, r, data)
  BY <1>1, <1>2, BuiltRight
<1> QED BY <1>1, <1>2 DEF r

(* What carries data is opened, and gives the data.                        *)
LEMMA CarriesRead ==
  ASSUME EncodesBytes, NEW key \in Seq(Octets), NEW explicit \in BOOLEAN, NEW seq \in Nat, NEW type \in Octets,
         NEW record, NEW data, Carries(key, explicit, type, seq, record, data)
  PROVE  /\ ReadResult(key, explicit, seq, type, record).ok
         /\ ReadResult(key, explicit, seq, type, record).data = data
<1> DEFINE buf == Body(explicit, record)
           o == ReadResult(key, explicit, seq, type, record)
           n == Len(data)
<1>1. /\ Whole(record) /\ record \in Seq(Octets) /\ data \in Seq(Octets) /\ SubSeq(buf, 1, n) = data
      /\ n \in 0 .. Len(buf) /\ IsWell(key, type, buf, n, seq) /\ n \in PayloadLens(key, type, buf, seq)
  BY DEF Carries, Whole, PayloadLens
<1>2. buf \in Seq(Octets)
  BY <1>1, BodyRight
<1>3. o \in Results /\ Exact(key, type, buf, seq, o)
  BY <1>1, ReadRight
<1> HIDE DEF buf, o, n
<1>4. o.ok
  BY <1>1, <1>3 DEF Exact
<1>5. PICK k \in PayloadLens(key, type, buf, seq) : o.data = SubSeq(buf, 1, k)
  BY <1>3, <1>4 DEF Exact
<1>6. k \in 0 .. Len(buf) /\ IsWell(key, type, buf, k, seq)
  BY DEF PayloadLens
<1>7. k = n
  BY <1>1, <1>2, <1>6, WellOnce
<1> QED BY <1>1, <1>4, <1>5, <1>7 DEF o

(* The records that fill whole blocks.                                     *)
Wholes == {r \in Seq(Octets) : Whole(r)}

(* What the network may do to a record leaves it a whole one.              *)
LEMMA ByteChanged ==
  ASSUME NEW record \in Wholes, NEW i \in DOMAIN record, NEW d \in Changes
  PROVE  [record EXCEPT ![i] = (@ + d) % 256] \in Wholes
<1> DEFINE r == [record EXCEPT ![i] = (@ + d) % 256]
           n == Len(record)
<1>1. record \in Seq(Octets) /\ n \in Nat /\ DOMAIN record = 1 .. n /\ n % BlockSize = 0
  BY LenProperties DEF Wholes, Whole
<1>2. i \in 1 .. n
  BY <1>1
<1>3. \A k \in 1 .. n : record[k] \in Octets
  BY <1>1, ElementOfSeq
<1>4. (record[i] + d) % 256 \in Octets
  <2>1. d \in Int
    BY CbcAssumption
  <2> DEFINE x == record[i]
  <2>2. x \in Octets
    BY <1>2, <1>3
  <2> HIDE DEF x
  <2>3. x + d \in Int
    BY <2>1, <2>2 DEF Octets
  <2>4. (x + d) % 256 \in Octets
    BY <2>3, ByteOf
  <2> QED BY <2>4 DEF x
<1> HIDE DEF n
<1>5. r = [k \in 1 .. n |-> IF k = i THEN (record[i] + d) % 256 ELSE record[k]]
  BY <1>1, <1>2, ZenonT(60)
<1> HIDE DEF r
<1>6. r \in [1 .. n -> Octets]
  BY <1>3, <1>4, <1>5
<1>7. r \in Seq(Octets) /\ Len(r) = n
  BY <1>1, <1>6
<1> QED BY <1>1, <1>7 DEF r, Wholes, Whole

(* A record without its last block fills whole blocks, too.                *)
LEMMA BlockLost ==
  ASSUME NEW record \in Wholes
  PROVE  SubSeq(record, 1, Len(record) - BlockSize) \in Wholes
<1> DEFINE B == BlockSize
           n == Len(record)
           q == n \div B
           r == SubSeq(record, 1, n - B)
<1>1. record \in Seq(Octets) /\ n \in Nat /\ n % B = 0
  BY LenProperties DEF Wholes, Whole
<1>2. B \in Nat \ {0}
  BY BlockSizes
<1> HIDE DEF n, B
<1>3. n = B * q + 0 /\ q \in Int
  <2>1. n = B * (n \div B) + (n % B) /\ (n \div B) \in Int
    BY <1>1, <1>2, DivideAndRest
  <2> QED BY <1>1, <2>1
<1> HIDE DEF q
<1>4. CASE B <= n
  <2>1. n - B \in 0 .. n
    BY <1>1, <1>2, <1>4
  <2>2. r \in Seq(Octets) /\ Len(r) = n - B
    BY <1>1, <2>1, CutAt DEF n
  <2>3. B * (q - 1) = B * q - B /\ B * q \in Int
    BY <1>2, <1>3
  <2>4. n - B = B * (q - 1) + 0 /\ q - 1 \in Int /\ n - B \in Int /\ 0 \in 0 .. B - 1
    BY <1>1, <1>2, <1>3, <2>3
  <2>5. (n - B) % B = 0
    BY <1>2, <2>4, RestUnique
  <2> HIDE DEF r
  <2>6. r \in Wholes
    BY <2>2, <2>5 DEF Wholes, Whole, B
  <2> QED BY <2>6 DEF r, n, B
<1>5. CASE n < B
  <2>1. n - B \in Int /\ n - B < 1 /\ 1 \in Int
    BY <1>1, <1>2, <1>5
  <2>2. r = <<>>
    BY <2>1, SubSeqEmpty
  <2> HIDE DEF r
  <2>3. r \in Seq(Octets) /\ Len(r) = 0
    BY <2>2
  <2>4. 0 % BlockSize = 0
    BY BlockSizes
  <2>5. r \in Wholes
    BY <2>3, <2>4 DEF Wholes, Whole
  <2> QED BY <2>5 DEF r, n, B
<1> QED BY <1>1, <1>2, <1>4, <1>5

-----------------------------------------------------------------------------
(* The parts of the state of a payload on its way.                         *)
Entries == [record : Wholes, seq : Nat, result : Results]
CbcTypes ==
  [key : Seq(Octets), explicit : BOOLEAN, seq : Nat, type : Octets, data : Seq(Octets),
   stage : {"write", "sent", "changed"}, wire : Seq(Wholes), next : Nat, opened : Seq(Entries)]

(* A record on the wire brings data.                                       *)
Brings(c, record, seq, data) == Carries(c.key, c.explicit, c.type, seq, record, data)

(* Where the parts of a payload are that arrives unchanged.                *)
OneAhead(c) == c.opened = <<>> /\ \E r : c.wire = <<r>> /\ Brings(c, r, c.next, c.data)
OneThere(c) == c.wire = <<>> /\ \E o : c.opened = <<o>> /\ o.result.data = c.data
TwoAhead(c) ==
  c.opened = <<>> /\ \E r, s, a, b :
    c.wire = <<r, s>> /\ Brings(c, r, c.next, a) /\ Brings(c, s, c.next + 1, b) /\ a \o b = c.data
Between(c) ==
  \E o, s, b : c.opened = <<o>> /\ c.wire = <<s>> /\ Brings(c, s, c.next, b) /\ o.result.data \o b = c.data
TwoThere(c) == c.wire = <<>> /\ \E o, p : c.opened = <<o, p>> /\ o.result.data \o p.result.data = c.data
Flow(c) == OneAhead(c) \/ OneThere(c) \/ TwoAhead(c) \/ Between(c) \/ TwoThere(c)

(* What the receiver made of a record is exactly what it should be.        *)
ExactlyRead(c, o) == Exact(c.key, c.type, Body(c.explicit, o.record), o.seq, o.result)

(* The inductive invariant of a payload on its way: the records are whole, *)
(* those that were opened were opened exactly, and where nothing was       *)
(* changed the parts of the payload are on the wire or opened, in order.   *)
CbcInv(c) ==
  /\ c \in CbcTypes
  /\ \A i \in 1 .. Len(c.opened) : ExactlyRead(c, c.opened[i])
  /\ c.stage = "write" => c.wire = <<>> /\ c.opened = <<>> /\ c.next = c.seq
  /\ c.stage = "sent" /\ c.opened = <<>> => c.wire # <<>>
  /\ c.stage = "sent" /\ Len(c.data) <= MaxPayload => Flow(c)

(* The two parts of a split payload are the payload.                       *)
LEMMA SplitRight ==
  ASSUME NEW data \in Seq(Octets), Len(data) > 1
  PROVE  /\ SubSeq(data, 1, 1) \in Seq(Octets) /\ Tail(data) \in Seq(Octets)
         /\ SubSeq(data, 1, 1) \o Tail(data) = data
         /\ Len(SubSeq(data, 1, 1)) <= Len(data) /\ Len(Tail(data)) <= Len(data)
<1> DEFINE a == SubSeq(data, 1, 1)
           b == Tail(data)
<1>1. Len(data) \in Nat
  BY LenProperties
<1>2. a \in Seq(Octets) /\ Len(a) = 1 /\ a[1] = data[1]
  <2>1. 1 \in 0 .. Len(data)
    BY <1>1
  <2> QED BY <2>1, CutAt
<1>3. data # <<>>
  BY <1>1
<1>4. b \in Seq(Octets) /\ Len(b) = Len(data) - 1 /\ \A i \in 1 .. Len(data) - 1 : b[i] = data[i + 1]
  BY <1>1, <1>3
<1> HIDE DEF a, b
<1>5. a \o b \in Seq(Octets) /\ Len(a \o b) = Len(data)
  <2>1. a \o b \in Seq(Octets) /\ Len(a \o b) = Len(a) + Len(b)
    BY <1>2, <1>4, Joined
  <2>2. Len(a) + Len(b) = Len(data)
    BY <1>1, <1>2, <1>4
  <2> QED BY <2>1, <2>2
<1>6. \A i \in 1 .. Len(data) : (a \o b)[i] = data[i]
  <2> TAKE i \in 1 .. Len(data)
  <2>1. CASE i = 1
    <3>1. 1 \in 1 .. Len(a)
      BY <1>2
    <3>2. (a \o b)[1] = a[1]
      BY <1>2, <1>4, <3>1, AtOf
    <3> QED BY <1>2, <2>1, <3>2
  <2>2. CASE i # 1
    <3> DEFINE k == i - 1
    <3>1. k \in 1 .. Len(data) - 1 /\ k \in 1 .. Len(b) /\ k + 1 = i /\ Len(a) + k = i
      BY <1>1, <1>2, <1>4, <2>2
    <3> HIDE DEF k
    <3>2. (a \o b)[Len(a) + k] = b[k]
      BY <1>2, <1>4, <3>1, AtOf
    <3> QED BY <1>4, <3>1, <3>2
  <2> QED BY <2>1, <2>2
<1>7. a \o b = data
  <2> DEFINE j == a \o b
  <2>1. j \in Seq(Octets) /\ Len(j) = Len(data) /\ \A i \in 1 .. Len(data) : j[i] = data[i]
    BY <1>5, <1>6
  <2> HIDE DEF j
  <2>2. j = data
    BY <2>1
  <2> QED BY <2>2 DEF j
<1>8. Len(a) <= Len(data) /\ Len(b) <= Len(data)
  BY <1>1, <1>2, <1>4
<1> QED BY <1>2, <1>4, <1>7, <1>8 DEF a, b

(* One record, or two, that carry a payload.                               *)
SentAs(key, explicit, type, seq, data, wire) ==
  \/ \E r : wire = <<r>> /\ Carries(key, explicit, type, seq, r, data)
  \/ \E r, s, a, b : /\ wire = <<r, s>> /\ a \o b = data
                     /\ Carries(key, explicit, type, seq, r, a)
                     /\ Carries(key, explicit, type, seq + 1, s, b)

(* The records that are made of a payload.                                 *)
LEMMA RecordsRight ==
  ASSUME EncodesBytes, NEW key \in Seq(Octets), NEW explicit \in BOOLEAN, NEW seq \in Nat, NEW type \in Octets,
         NEW data \in Seq(Octets), NEW wire, wire = Records(HmacKey(key), explicit, seq, type, Version, data)
  PROVE  /\ wire \in Seq(Wholes) /\ wire # <<>>
         /\ Len(data) <= MaxPayload => SentAs(key, explicit, type, seq, data, wire)
<1>1. CASE ~explicit /\ Len(data) > 1 /\ type = AppData
  <2> DEFINE a == SubSeq(data, 1, 1)
             b == Tail(data)
             r == SealedBy(key, explicit, seq, type, a)
             s == SealedBy(key, explicit, seq + 1, type, b)
  <2>1. wire = <<r, s>>
    BY <1>1 DEF Records, SealedBy
  <2>2. a \in Seq(Octets) /\ b \in Seq(Octets) /\ a \o b = data /\ Len(a) <= Len(data) /\ Len(b) <= Len(data)
    BY <1>1, SplitRight
  <2>3. seq + 1 \in Nat
    OBVIOUS
  <2> HIDE DEF a, b
  <2>4. Whole(r) /\ (Len(a) <= MaxPayload => Carries(key, explicit, type, seq, r, a))
    BY <2>2, SealedCarries
  <2>5. Whole(s) /\ (Len(b) <= MaxPayload => Carries(key, explicit, type, seq + 1, s, b))
    <3> DEFINE t == seq + 1
    <3>1. t \in Nat
      OBVIOUS
    <3> HIDE DEF t
    <3>2. /\ Whole(SealedBy(key, explicit, t, type, b))
          /\ Len(b) <= MaxPayload => Carries(key, explicit, type, t, SealedBy(key, explicit, t, type, b), b)
      BY <2>2, <3>1, SealedCarries
    <3> QED BY <3>2, Zenon DEF t
  <2> HIDE DEF r, s
  <2>6. r \in Wholes /\ s \in Wholes
    BY <2>4, <2>5 DEF Wholes, Whole
  <2>7. wire \in Seq(Wholes) /\ wire # <<>>
    BY <2>1, <2>6
  <2>8. Len(data) <= MaxPayload => Len(a) <= MaxPayload /\ Len(b) <= MaxPayload
    <3>1. Len(a) \in Nat /\ Len(b) \in Nat /\ Len(data) \in Nat /\ MaxPayload \in Nat
      BY <2>2, LenProperties, BlockSizes
    <3> QED BY <2>2, <3>1
  <2>9. Len(data) <= MaxPayload =>
          /\ wire = <<r, s>> /\ a \o b = data
          /\ Carries(key, explicit, type, seq, r, a) /\ Carries(key, explicit, type, seq + 1, s, b)
    BY <2>1, <2>2, <2>4, <2>5, <2>8, Zenon
  <2> QED BY <2>7, <2>9, Zenon DEF SentAs
<1>2. CASE ~(~explicit /\ Len(data) > 1 /\ type = AppData)
  <2> DEFINE r == SealedBy(key, explicit, seq, type, data)
  <2>1. wire = <<r>>
    BY <1>2 DEF Records, SealedBy
  <2>2. Whole(r) /\ (Len(data) <= MaxPayload => Carries(key, explicit, type, seq, r, data))
    BY SealedCarries
  <2> HIDE DEF r
  <2>3. r \in Wholes
    BY <2>2 DEF Wholes, Whole
  <2>4. wire \in Seq(Wholes) /\ wire # <<>>
    BY <2>1, <2>3
  <2> QED BY <2>1, <2>2, <2>4, Zenon DEF SentAs
<1> QED BY <1>1, <1>2

(* Appending to a sequence of one.                                         *)
LEMMA AppendOne ==
  ASSUME NEW S, NEW q \in S, NEW o \in S
  PROVE  Append(<<q>>, o) = <<q, o>>
<1> DEFINE s == Append(<<q>>, o)
           t == <<q>>
<1>1. t \in Seq(S) /\ Len(t) = 1 /\ t[1] = q
  OBVIOUS
<1> HIDE DEF t
<1>2. s \in Seq(S) /\ Len(s) = 2 /\ s[1] = q /\ s[2] = o
  <2>1. Len(s) = Len(t) + 1 /\ s \in Seq(S)
    BY <1>1 DEF t
  <2> QED BY <1>1, <2>1 DEF t
<1> HIDE DEF s
<1>3. s = <<q, o>>
  BY <1>2
<1> QED BY <1>3 DEF s

(* The invariant, part by part.                                            *)
LEMMA CbcFields ==
  ASSUME NEW c, CbcInv(c)
  PROVE  /\ c \in CbcTypes
         /\ c.key \in Seq(Octets) /\ c.explicit \in BOOLEAN /\ c.seq \in Nat /\ c.type \in Octets
         /\ c.data \in Seq(Octets) /\ c.wire \in Seq(Wholes) /\ c.next \in Nat /\ c.opened \in Seq(Entries)
         /\ \A i \in 1 .. Len(c.opened) : ExactlyRead(c, c.opened[i])
BY DEF CbcInv, CbcTypes

(* A payload is sent as records.                                           *)
LEMMA SendStep ==
  ASSUME NEW c, CbcInv(c), c.stage = "write", NEW wire \in Seq(Wholes), wire # <<>>,
         Len(c.data) <= MaxPayload => SentAs(c.key, c.explicit, c.type, c.seq, c.data, wire),
         NEW d, d = [c EXCEPT !.stage = "sent", !.wire = wire]
  PROVE  CbcInv(d)
<1>1. c \in CbcTypes
  BY CbcFields
<1>2. c.opened = <<>> /\ c.next = c.seq
  BY DEF CbcInv
<1>3. d \in CbcTypes
  BY <1>1 DEF CbcTypes
<1>4. /\ d.stage = "sent" /\ d.wire = wire /\ d.opened = <<>> /\ d.next = c.seq
      /\ d.key = c.key /\ d.explicit = c.explicit /\ d.type = c.type /\ d.data = c.data
  BY <1>1, <1>2 DEF CbcTypes
<1>5. \A i \in 1 .. Len(d.opened) : ExactlyRead(d, d.opened[i])
  BY <1>4
<1>6. Len(d.data) <= MaxPayload => Flow(d)
  <2> SUFFICES ASSUME Len(c.data) <= MaxPayload PROVE Flow(d)
    BY <1>4
  <2>1. CASE \E r : wire = <<r>> /\ Carries(c.key, c.explicit, c.type, c.seq, r, c.data)
    <3>1. OneAhead(d)
      BY <1>4, <2>1 DEF OneAhead, Brings
    <3> QED BY <3>1 DEF Flow
  <2>2. CASE \E r, s, a, b : /\ wire = <<r, s>> /\ a \o b = c.data
                             /\ Carries(c.key, c.explicit, c.type, c.seq, r, a)
                             /\ Carries(c.key, c.explicit, c.type, c.seq + 1, s, b)
    <3>1. PICK r, s, a, b : /\ wire = <<r, s>> /\ a \o b = c.data
                             /\ Carries(c.key, c.explicit, c.type, c.seq, r, a)
                             /\ Carries(c.key, c.explicit, c.type, c.seq + 1, s, b)
      BY <2>2, Zenon
    <3>2. Brings(d, r, d.next, a) /\ Brings(d, s, d.next + 1, b)
      BY <1>4, <3>1 DEF Brings
    <3>3. TwoAhead(d)
      BY <1>4, <3>1, <3>2 DEF TwoAhead
    <3> QED BY <3>3 DEF Flow
  <2> QED BY <2>1, <2>2 DEF SentAs
<1> QED BY <1>3, <1>4, <1>5, <1>6 DEF CbcInv

(* The network changes something.                                          *)
LEMMA ChangeStep ==
  ASSUME NEW c, CbcInv(c), c.opened = <<>>, NEW wire \in Seq(Wholes),
         NEW d, d = [c EXCEPT !.stage = "changed", !.wire = wire]
  PROVE  CbcInv(d)
<1>1. c \in CbcTypes
  BY CbcFields
<1>2. d \in CbcTypes /\ d.stage = "changed" /\ d.opened = <<>>
  BY <1>1 DEF CbcTypes
<1>3. \A i \in 1 .. Len(d.opened) : ExactlyRead(d, d.opened[i])
  BY <1>2
<1> QED BY <1>2, <1>3 DEF CbcInv

(* The receiver opens the next record.                                     *)
LEMMA OpenStep ==
  ASSUME EncodesBytes, NEW c, CbcInv(c), c.stage \in {"sent", "changed"}, c.wire # <<>>,
         NEW o, o = [record |-> Head(c.wire), seq |-> c.next,
                     result |-> ReadResult(c.key, c.explicit, c.next, c.type, Head(c.wire))],
         NEW d, d = [c EXCEPT !.wire = Tail(@), !.next = @ + 1, !.opened = Append(@, o)]
  PROVE  CbcInv(d)
<1> DEFINE h == Head(c.wire)
           result == ReadResult(c.key, c.explicit, c.next, c.type, h)
<1>1. /\ c \in CbcTypes
      /\ c.key \in Seq(Octets) /\ c.explicit \in BOOLEAN /\ c.seq \in Nat /\ c.type \in Octets
      /\ c.data \in Seq(Octets) /\ c.wire \in Seq(Wholes) /\ c.next \in Nat /\ c.opened \in Seq(Entries)
      /\ \A i \in 1 .. Len(c.opened) : ExactlyRead(c, c.opened[i])
  BY CbcFields
<1>2. h \in Wholes /\ Tail(c.wire) \in Seq(Wholes)
  BY <1>1
<1>3. Whole(h)
  BY <1>2 DEF Wholes
<1>4. result \in Results /\ Exact(c.key, c.type, Body(c.explicit, h), c.next, result)
  <2> HIDE DEF h
  <2> QED BY <1>1, <1>3, ReadRight
<1> HIDE DEF h, result
<1>5. o = [record |-> h, seq |-> c.next, result |-> result]
  BY DEF h, result
<1>6. o \in Entries /\ o.record = h /\ o.seq = c.next /\ o.result = result
  BY <1>1, <1>2, <1>4, <1>5 DEF Entries
<1>7. ExactlyRead(c, o)
  BY <1>4, <1>6 DEF ExactlyRead
<1>8. /\ d.wire = Tail(c.wire) /\ d.next = c.next + 1 /\ d.opened = Append(c.opened, o) /\ d.stage = c.stage
      /\ d.key = c.key /\ d.explicit = c.explicit /\ d.type = c.type /\ d.data = c.data /\ d.seq = c.seq
  BY <1>1 DEF CbcTypes
<1>9. d \in CbcTypes
  <2>1. Append(c.opened, o) \in Seq(Entries) /\ c.next + 1 \in Nat
    BY <1>1, <1>6
  <2> QED BY <1>1, <1>2, <2>1 DEF CbcTypes
<1>10. \A i \in 1 .. Len(d.opened) : ExactlyRead(d, d.opened[i])
  <2> TAKE i \in 1 .. Len(d.opened)
  <2>1. Len(c.opened) \in Nat /\ Len(d.opened) = Len(c.opened) + 1
    BY <1>1, <1>8
  <2>2. CASE i \in 1 .. Len(c.opened)
    <3>1. d.opened[i] = c.opened[i]
      BY <1>1, <1>8, <2>1, <2>2
    <3>2. ExactlyRead(c, c.opened[i])
      BY <1>1, <2>2
    <3> QED BY <1>8, <3>1, <3>2 DEF ExactlyRead
  <2>3. CASE i = Len(c.opened) + 1
    <3>1. d.opened[i] = o
      BY <1>1, <1>8, <2>1, <2>3
    <3> QED BY <1>7, <1>8, <3>1 DEF ExactlyRead
  <2> QED BY <2>1, <2>2, <2>3
<1>11. d.opened # <<>>
  <2>1. Len(d.opened) = Len(c.opened) + 1 /\ Len(c.opened) \in Nat
    BY <1>1, <1>6, <1>8
  <2>2. Len(d.opened) # 0
    BY <2>1
  <2> QED BY <2>2
<1>12. d.stage = "sent" /\ Len(d.data) <= MaxPayload => Flow(d)
  <2> SUFFICES ASSUME c.stage = "sent", Len(c.data) <= MaxPayload PROVE Flow(d)
    BY <1>8
  <2>1. Flow(c)
    BY DEF CbcInv
  <2>2. ASSUME NEW x, Brings(c, h, c.next, x) PROVE result.data = x
    <3>1. Carries(c.key, c.explicit, c.type, c.next, h, x)
      BY <2>2 DEF Brings
    <3> QED BY <1>1, <3>1, CarriesRead DEF result
  <2>3. CASE OneAhead(c)
    <3>1. PICK r : c.wire = <<r>> /\ Brings(c, r, c.next, c.data)
      BY <2>3 DEF OneAhead
    <3>2. c.opened = <<>>
      BY <2>3 DEF OneAhead
    <3>3. h = r /\ d.wire = <<>>
      BY <1>8, <3>1 DEF h
    <3>4. d.opened = <<o>> /\ o.result.data = d.data
      BY <1>6, <1>8, <2>2, <3>1, <3>2, <3>3
    <3>5. OneThere(d)
      BY <3>3, <3>4 DEF OneThere
    <3> QED BY <3>5 DEF Flow
  <2>4. CASE OneThere(c)
    BY <2>4 DEF OneThere
  <2>5. CASE TwoAhead(c)
    <3>1. PICK r, s, a, b :
            c.wire = <<r, s>> /\ Brings(c, r, c.next, a) /\ Brings(c, s, c.next + 1, b) /\ a \o b = c.data
      BY <2>5, Zenon DEF TwoAhead
    <3>2. c.opened = <<>>
      BY <2>5 DEF TwoAhead
    <3>3. h = r /\ d.wire = <<s>>
      BY <1>8, <3>1 DEF h
    <3>4. d.opened = <<o>> /\ o.result.data = a
      BY <1>6, <1>8, <2>2, <3>1, <3>2, <3>3
    <3>5. Brings(d, s, d.next, b)
      BY <1>8, <3>1 DEF Brings
    <3>6. o.result.data \o b = d.data
      BY <1>8, <3>1, <3>4
    <3>7. Between(d)
      BY <3>3, <3>4, <3>5, <3>6, Zenon DEF Between
    <3> QED BY <3>7 DEF Flow
  <2>6. CASE Between(c)
    <3>1. PICK q, s, b : c.opened = <<q>> /\ c.wire = <<s>> /\ Brings(c, s, c.next, b) /\ q.result.data \o b = c.data
      BY <2>6, Zenon DEF Between
    <3>2. h = s /\ d.wire = <<>>
      BY <1>8, <3>1 DEF h
    <3>3. d.opened = <<q, o>> /\ o.result.data = b
      <4>1. o.result.data = b
        BY <1>6, <2>2, <3>1, <3>2
      <4>2. d.opened = Append(<<q>>, o)
        BY <1>8, <3>1
      <4>3. q \in Entries
        BY <1>1, <3>1
      <4>4. Append(<<q>>, o) = <<q, o>>
        BY <1>6, <4>3, AppendOne
      <4> QED BY <4>1, <4>2, <4>4
    <3>4. q.result.data \o o.result.data = d.data
      BY <1>8, <3>1, <3>3
    <3>5. TwoThere(d)
      BY <3>2, <3>3, <3>4, ZenonT(60) DEF TwoThere
    <3> QED BY <3>5 DEF Flow
  <2>7. CASE TwoThere(c)
    BY <2>7 DEF TwoThere
  <2> QED BY <2>1, <2>3, <2>4, <2>5, <2>6, <2>7 DEF Flow
<1>13. d.stage # "write"
  BY <1>8
<1> QED BY <1>9, <1>10, <1>11, <1>12, <1>13 DEF CbcInv

-----------------------------------------------------------------------------
(* The invariant holds at the start.                                       *)
LEMMA CbcInitRight ==
  CbcInit => CbcInv(cbc)
<1> SUFFICES ASSUME NEW key \in MacKeys, NEW explicit \in BOOLEAN, NEW seq \in FirstNumbers, NEW type \in ContentTypes,
                    NEW data \in CbcPayloads, CbcStart(key, explicit, seq, type, data)
             PROVE  CbcInv(cbc)
  BY DEF CbcInit
<1>1. key \in Seq(Octets) /\ seq \in Nat /\ type \in Octets /\ data \in Seq(Octets)
  BY CbcAssumption
<1>2. cbc = [key |-> key, explicit |-> explicit, seq |-> seq, type |-> type, data |-> data,
             stage |-> "write", wire |-> <<>>, next |-> seq, opened |-> <<>>]
  BY DEF CbcStart
<1>3. cbc \in CbcTypes
  <2>1. <<>> \in Seq(Wholes) /\ <<>> \in Seq(Entries)
    OBVIOUS
  <2> QED BY <1>1, <1>2, <2>1 DEF CbcTypes
<1>4. cbc.stage = "write" /\ cbc.wire = <<>> /\ cbc.opened = <<>> /\ cbc.next = cbc.seq
  BY <1>2
<1>5. \A i \in 1 .. Len(cbc.opened) : ExactlyRead(cbc, cbc.opened[i])
  BY <1>4
<1> QED BY <1>3, <1>4, <1>5 DEF CbcInv

(* Every step keeps the invariant.                                         *)
LEMMA CbcNextRight ==
  ASSUME EncodesBytes, CbcInv(cbc), [CbcNext]_cbc
  PROVE  CbcInv(cbc')
<1>1. /\ cbc.key \in Seq(Octets) /\ cbc.explicit \in BOOLEAN /\ cbc.seq \in Nat /\ cbc.type \in Octets
      /\ cbc.data \in Seq(Octets) /\ cbc.wire \in Seq(Wholes) /\ cbc.next \in Nat /\ cbc.opened \in Seq(Entries)
  BY CbcFields
<1>2. CASE CbcWrite
  <2> DEFINE wire == Records(HmacKey(cbc.key), cbc.explicit, cbc.seq, cbc.type, Version, cbc.data)
  <2>1. cbc.stage = "write" /\ cbc' = [cbc EXCEPT !.stage = "sent", !.wire = wire]
    BY <1>2 DEF CbcWrite
  <2>2. /\ wire \in Seq(Wholes) /\ wire # <<>>
        /\ Len(cbc.data) <= MaxPayload =>
             SentAs(cbc.key, cbc.explicit, cbc.type, cbc.seq, cbc.data, wire)
    <3>1. wire = Records(HmacKey(cbc.key), cbc.explicit, cbc.seq, cbc.type, Version, cbc.data)
      OBVIOUS
    <3> HIDE DEF wire
    <3> QED BY <1>1, <3>1, RecordsRight, Zenon
  <2> HIDE DEF wire
  <2> QED BY <2>1, <2>2, SendStep, Zenon
<1>3. CASE PeerWrite
  <2>1. PICK blocks \in 1 .. PadValues \div BlockSize :
          LET kc == HmacKey(cbc.key)
              record == Sealed(kc, cbc.explicit, cbc.seq, cbc.type, Version, cbc.data)
              p == record[Len(record)] + blocks * BlockSize
          IN  /\ cbc.stage = "write" /\ p < PadValues
              /\ cbc' = [cbc EXCEPT !.stage = "sent",
                            !.wire = <<SubSeq(record, 1, Len(record) - record[Len(record)] - 1)
                                         \o [i \in 1 .. p + 1 |-> p]>>]
    BY <1>3 DEF PeerWrite
  <2> DEFINE record == SealedBy(cbc.key, cbc.explicit, cbc.seq, cbc.type, cbc.data)
             r == PeerRecord(record, blocks)
  <2>2. cbc.stage = "write" /\ record[Len(record)] + blocks * BlockSize < PadValues
        /\ cbc' = [cbc EXCEPT !.stage = "sent", !.wire = <<r>>]
    BY <2>1 DEF SealedBy, PeerRecord
  <2>3. blocks \in Nat
    OBVIOUS
  <2>4. /\ Whole(r)
        /\ Len(cbc.data) <= MaxPayload => Carries(cbc.key, cbc.explicit, cbc.type, cbc.seq, r, cbc.data)
    <3>1. record = SealedBy(cbc.key, cbc.explicit, cbc.seq, cbc.type, cbc.data)
      OBVIOUS
    <3> HIDE DEF record
    <3> QED BY <1>1, <2>2, <2>3, <3>1, PeerCarries, Zenon
  <2> HIDE DEF r
  <2>5. <<r>> \in Seq(Wholes) /\ <<r>> # <<>>
    BY <2>4 DEF Wholes, Whole
  <2> DEFINE wire == <<r>>
  <2>6. Len(cbc.data) <= MaxPayload => SentAs(cbc.key, cbc.explicit, cbc.type, cbc.seq, cbc.data, wire)
    BY <2>4, Zenon DEF SentAs
  <2>7. cbc' = [cbc EXCEPT !.stage = "sent", !.wire = wire] /\ wire \in Seq(Wholes) /\ wire # <<>>
    BY <2>2, <2>5, SMTT(60)
  <2> HIDE DEF wire
  <2> QED BY <2>2, <2>6, <2>7, SendStep, ZenonT(60)
<1>4. CASE Change
  <2> DEFINE record == Head(cbc.wire)
             changed(r) == [cbc EXCEPT !.stage = "changed", !.wire = <<r>> \o Tail(@)]
  <2>1. cbc.stage = "sent" /\ cbc.opened = <<>>
    BY <1>4 DEF Change
  <2>2. cbc.wire # <<>>
    BY <2>1 DEF CbcInv
  <2>3. record \in Wholes /\ Tail(cbc.wire) \in Seq(Wholes)
    BY <1>1, <2>2
  <2>4. ASSUME NEW r \in Wholes, cbc' = changed(r)
        PROVE  CbcInv(cbc')
    <3> DEFINE wire == <<r>> \o Tail(cbc.wire)
    <3>1. <<r>> \in Seq(Wholes)
      OBVIOUS
    <3>2. wire \in Seq(Wholes)
      BY <2>3, <3>1, ConcatProperties
    <3>3. cbc' = [cbc EXCEPT !.stage = "changed", !.wire = wire]
      BY <2>4
    <3> HIDE DEF wire
    <3> QED BY <2>1, <3>2, <3>3, ChangeStep, Zenon
  <2>5. CASE \E i \in DOMAIN record, d \in Changes : cbc' = changed([record EXCEPT ![i] = (@ + d) % 256])
    <3>1. PICK i \in DOMAIN record, d \in Changes : cbc' = changed([record EXCEPT ![i] = (@ + d) % 256])
      BY <2>5
    <3> HIDE DEF record, changed
    <3>2. [record EXCEPT ![i] = (@ + d) % 256] \in Wholes
      BY <2>3, ByteChanged
    <3> QED BY <2>4, <3>1, <3>2
  <2>6. CASE cbc' = changed(SubSeq(record, 1, Len(record) - BlockSize))
    <3> HIDE DEF record, changed
    <3>1. SubSeq(record, 1, Len(record) - BlockSize) \in Wholes
      BY <2>3, BlockLost
    <3> QED BY <2>4, <2>6, <3>1
  <2>7. CASE Len(cbc.wire) > 1 /\ cbc' = [cbc EXCEPT !.stage = "changed", !.wire = Tail(@)]
    <3> DEFINE wire == Tail(cbc.wire)
    <3>1. cbc' = [cbc EXCEPT !.stage = "changed", !.wire = wire] /\ wire \in Seq(Wholes)
      BY <2>3, <2>7
    <3> HIDE DEF wire
    <3> QED BY <2>1, <3>1, ChangeStep, Zenon
  <2> QED BY <1>4, <2>5, <2>6, <2>7, ZenonT(60) DEF Change
<1>5. CASE CbcRead
  <2> DEFINE h == Head(cbc.wire)
             o == [record |-> h, seq |-> cbc.next,
                   result |-> ReadResult(cbc.key, cbc.explicit, cbc.next, cbc.type, h)]
  <2>1. cbc.stage \in {"sent", "changed"} /\ cbc.wire # <<>>
    BY <1>5 DEF CbcRead
  <2>2. cbc' = [cbc EXCEPT !.wire = Tail(@), !.next = @ + 1, !.opened = Append(@, o)]
    BY <1>5 DEF CbcRead, ReadResult
  <2>3. o = [record |-> Head(cbc.wire), seq |-> cbc.next,
             result |-> ReadResult(cbc.key, cbc.explicit, cbc.next, cbc.type, Head(cbc.wire))]
    OBVIOUS
  <2> HIDE DEF o
  <2> QED BY <2>1, <2>2, <2>3, OpenStep, Zenon
<1>6. CASE UNCHANGED cbc
  BY <1>6
<1> QED BY <1>2, <1>3, <1>4, <1>5, <1>6 DEF CbcNext

(* The concatenation of one or two sequences.                              *)
LEMMA FlatOne ==
  ASSUME NEW s, DOMAIN s = 1 .. 1, Len(s) = 1
  PROVE  FlattenSeq(s) = s[1]
<1> DEFINE Is(f) == f = [i \in 1 .. 1 |-> IF i = 1 THEN s[i] ELSE f[i - 1] \o s[i]]
           chosen == CHOOSE f : Is(f)
<1>1. FlattenSeq(s) = chosen[1]
  BY DEF FlattenSeq
<1>2. \E f : Is(f)
  <2> DEFINE g == [i \in 1 .. 1 |-> s[1]]
  <2>1. g = [i \in 1 .. 1 |-> IF i = 1 THEN s[i] ELSE g[i - 1] \o s[i]]
    OBVIOUS
  <2> QED BY <2>1
<1>3. Is(chosen)
  BY <1>2
<1> HIDE DEF chosen
<1> QED BY <1>1, <1>3

(* The concatenation of two sequences.                                     *)
LEMMA FlatTwo ==
  ASSUME NEW s, DOMAIN s = 1 .. 2, Len(s) = 2
  PROVE  FlattenSeq(s) = s[1] \o s[2]
<1> DEFINE Is(f) == f = [i \in 1 .. 2 |-> IF i = 1 THEN s[i] ELSE f[i - 1] \o s[i]]
           chosen == CHOOSE f : Is(f)
<1>1. FlattenSeq(s) = chosen[2]
  BY DEF FlattenSeq
<1>2. \E f : Is(f)
  <2> DEFINE both == s[1] \o s[2]
  <2> DEFINE g == [i \in 1 .. 2 |-> IF i = 1 THEN s[1] ELSE both]
  <2>0. g = [i \in 1 .. 2 |-> g[i]]
    OBVIOUS
  <2>1. g[1] = s[1] /\ g[2] = both
    OBVIOUS
  <2> HIDE DEF g
  <2>2. g = [i \in 1 .. 2 |-> IF i = 1 THEN s[i] ELSE g[i - 1] \o s[i]]
    <3>1. \A i \in 1 .. 2 : g[i] = IF i = 1 THEN s[i] ELSE g[i - 1] \o s[i]
      <4> TAKE i \in 1 .. 2
      <4>1. CASE i = 1
        BY <2>1, <4>1
      <4>2. CASE i = 2
        <5>1. g[i - 1] = s[1]
          BY <2>1, <4>2
        <5> QED BY <2>1, <4>2, <5>1
      <4> QED BY <4>1, <4>2
    <3> QED BY <2>0, <3>1
  <2> QED BY <2>2
<1>3. Is(chosen)
  BY <1>2, Zenon
<1> HIDE DEF chosen
<1>4. chosen[1] = s[1]
  BY <1>3
<1>5. chosen[2] = chosen[1] \o s[2]
  <2>1. chosen[2] = IF 2 = 1 THEN s[2] ELSE chosen[2 - 1] \o s[2]
    BY <1>3
  <2>2. 2 - 1 = 1 /\ 2 # 1
    OBVIOUS
  <2> QED BY <2>1, <2>2
<1> QED BY <1>1, <1>4, <1>5

(* What is read exactly is opened exactly.                                 *)
LEMMA OpenedIsExact ==
  ASSUME NEW o, ExactlyRead(cbc, o)
  PROVE  OpenedExactly(o)
<1> DEFINE buf == Body(cbc.explicit, o.record)
<1>1. {n \in 0 .. Len(buf) : WellFormed(buf, n, o.seq)} = PayloadLens(cbc.key, cbc.type, buf, o.seq)
  BY DEF PayloadLens, IsWell, WellFormed
<1>2. SubSeq(o.record, IF cbc.explicit THEN BlockSize + 1 ELSE 1, Len(o.record)) = buf
  BY DEF Body
<1> HIDE DEF buf
<1>3. Exact(cbc.key, cbc.type, buf, o.seq, o.result)
  BY DEF ExactlyRead, buf
<1> QED BY <1>1, <1>2, <1>3, Zenon DEF Exact, OpenedExactly

(* The invariant implies the property.                                     *)
LEMMA AllOpened ==
  ASSUME CbcInv(cbc)
  PROVE  RecordsOpenExactly
<1>1. /\ cbc.opened \in Seq(Entries) /\ cbc \in CbcTypes
      /\ \A i \in 1 .. Len(cbc.opened) : ExactlyRead(cbc, cbc.opened[i])
  BY CbcFields
<1>2. DOMAIN cbc.opened = 1 .. Len(cbc.opened)
  BY <1>1
<1>3. \A i \in DOMAIN cbc.opened : OpenedExactly(cbc.opened[i])
  BY <1>1, <1>2, OpenedIsExact
<1>4. ASSUME cbc.stage = "sent", cbc.wire = <<>>, Len(cbc.data) <= MaxPayload
      PROVE  FlattenSeq([i \in DOMAIN cbc.opened |-> cbc.opened[i].result.data]) = cbc.data
  <2> DEFINE s == [i \in DOMAIN cbc.opened |-> cbc.opened[i].result.data]
  <2>0. Len(cbc.wire) = 0
    BY <1>4
  <2>1. Flow(cbc)
    BY <1>4 DEF CbcInv
  <2>2. CASE OneThere(cbc)
    <3>1. PICK o : cbc.opened = <<o>> /\ o.result.data = cbc.data
      BY <2>2 DEF OneThere
    <3>2. DOMAIN cbc.opened = 1 .. 1 /\ cbc.opened[1] = o
      BY <3>1
    <3>3. DOMAIN s = 1 .. 1 /\ s[1] = cbc.data
      BY <3>1, <3>2
    <3>4. Len(s) = 1
      <4> HIDE DEF s
      <4> QED BY <3>3
    <3> HIDE DEF s
    <3>5. FlattenSeq(s) = s[1]
      BY <3>3, <3>4, FlatOne
    <3> QED BY <3>3, <3>5 DEF s
  <2>3. CASE TwoThere(cbc)
    <3>1. PICK o, p : cbc.opened = <<o, p>> /\ o.result.data \o p.result.data = cbc.data
      BY <2>3 DEF TwoThere
    <3>2. DOMAIN cbc.opened = 1 .. 2 /\ cbc.opened[1] = o /\ cbc.opened[2] = p
      BY <3>1
    <3>3. DOMAIN s = 1 .. 2 /\ s[1] = o.result.data /\ s[2] = p.result.data
      BY <3>2
    <3>4. Len(s) = 2
      <4> HIDE DEF s
      <4> QED BY <3>3
    <3> HIDE DEF s
    <3>5. FlattenSeq(s) = s[1] \o s[2]
      BY <3>3, <3>4, FlatTwo
    <3> QED BY <3>1, <3>3, <3>5 DEF s
  <2>4. CASE OneAhead(cbc)
    <3>1. PICK r : cbc.wire = <<r>>
      BY <2>4 DEF OneAhead
    <3> QED BY <2>0, <3>1
  <2>5. CASE TwoAhead(cbc)
    <3>1. PICK r, t : cbc.wire = <<r, t>>
      BY <2>5, Zenon DEF TwoAhead
    <3> QED BY <2>0, <3>1
  <2>6. CASE Between(cbc)
    <3>1. PICK r : cbc.wire = <<r>>
      BY <2>6, Zenon DEF Between
    <3> QED BY <2>0, <3>1
  <2> QED BY <2>1, <2>2, <2>3, <2>4, <2>5, <2>6 DEF Flow
<1> QED BY <1>3, <1>4, Zenon DEF RecordsOpenExactly

(* For every key, payload, content type, record number, block size, MAC    *)
(* length and hash function: the constant-time check of ssl_rec_cbc.c      *)
(* accepts a record if and only if its padding and its MAC are right, and  *)
(* what arrives unchanged is what was sent.                                *)
THEOREM CbcOpensExactly ==
  ASSUME EncodesBytes
  PROVE  CbcSpec => []RecordsOpenExactly
<1>1. CbcInit => CbcInv(cbc)
  BY CbcInitRight
<1>2. CbcInv(cbc) /\ [CbcNext]_cbc => CbcInv(cbc)'
  BY CbcNextRight
<1>3. CbcInv(cbc) => RecordsOpenExactly
  BY AllOpened
<1> QED BY <1>1, <1>2, <1>3, PTL DEF CbcSpec

(* What a hash object knows of the message that was begun.                 *)
SInv ==
  /\ digest \in [1 .. DigestLen -> Octets] /\ digestIndex \in 0 .. DigestLen
  /\ begun \in [kind : {"hash", "hmac", "other"}, secret : Seq(Octets), message : Seq(Octets)]
  /\ begun.kind = "hash" => begun.secret = <<>> /\ Holds(ctx, begun.message)
  /\ begun.kind = "hmac" =>
       keyBlock = KeyBlock(begun.secret) /\ Holds(ctx, Inner(begun.secret) \o begun.message)
  /\ begun.kind = "other" => begun.secret = <<>> /\ begun.message = <<>>

(* What can still be read.                                                 *)
Unread == SubSeq(digest, digestIndex + 1, DigestLen)

(* Whatever a context has seen, out gives DigestLen bytes.                 *)
LEMMA OutIsDigest ==
  ASSUME EncodesBytes, NEW cc
  PROVE  Out(cc) \in [1 .. DigestLen -> Octets]
BY DEF EncodesBytes, Out

(* A digest is read from its start to its end.                             *)
LEMMA WholeDigest ==
  ASSUME NEW d \in [1 .. DigestLen -> Octets]
  PROVE  /\ d \in Seq(Octets) /\ Len(d) = DigestLen
         /\ SubSeq(d, 1, DigestLen) = d
         /\ SubSeq(d, DigestLen + 1, DigestLen) = <<>>
<1>1. DigestLen \in Nat
  BY HashAssumption
<1>2. d \in Seq(Octets) /\ Len(d) = DigestLen
  BY <1>1
<1>3. SubSeq(d, 1, DigestLen) = d
  BY <1>1, <1>2
<1>4. SubSeq(d, DigestLen + 1, DigestLen) = <<>>
  BY <1>1, <1>2
<1> QED BY <1>2, <1>3, <1>4

(* The invariant and the promise hold at the start.                        *)
LEMMA SInitRight ==
  SInit => SInv /\ Promise!DInit
<1> SUFFICES ASSUME SInit PROVE SInv /\ Promise!DInit
  OBVIOUS
<1>1. DigestLen \in Nat
  BY HashAssumption
<1>2. digest \in [1 .. DigestLen -> Octets]
  BY DEF SInit, Zeros, Octets
<1>3. begun = [kind |-> "other", secret |-> <<>>, message |-> <<>>] /\ digestIndex = DigestLen /\ answer = <<>>
  BY DEF SInit, Nothing
<1>4. SInv
  BY <1>1, <1>2, <1>3 DEF SInv
<1>5. Unread = <<>>
  BY <1>2, <1>3, WholeDigest DEF Unread
<1>6. Promise!DInit
  BY <1>3, <1>5 DEF Promise!DInit, Unread
<1> QED BY <1>4, <1>6

(* beginHash begins a hash.                                                *)
LEMMA BeginHashStep ==
  ASSUME SInv, beginHash
  PROVE  SInv' /\ Promise!BeginHash
<1>1. DigestLen \in Nat
  BY HashAssumption
<1>2. /\ begun' = [kind |-> "hash", secret |-> <<>>, message |-> <<>>]
      /\ digestIndex' = DigestLen /\ digest' = digest /\ answer' = <<>> /\ ctx' = HashInit
  BY DEF beginHash, Nothing
<1>3. digest \in [1 .. DigestLen -> Octets]
  BY DEF SInv
<1>4. Holds(ctx', <<>>)
  BY <1>2, InitHolds
<1>5. SInv'
  BY <1>1, <1>2, <1>3, <1>4 DEF SInv
<1>6. Unread' = <<>>
  BY <1>2, <1>3, WholeDigest DEF Unread
<1>7. Promise!BeginHash
  BY <1>2, <1>6 DEF Promise!BeginHash, Unread
<1> QED BY <1>5, <1>7

(* The invariant, part by part.                                            *)
LEMMA SFields ==
  ASSUME SInv
  PROVE  /\ DigestLen \in Nat
         /\ digest \in [1 .. DigestLen -> Octets] /\ digestIndex \in 0 .. DigestLen
         /\ begun.kind \in {"hash", "hmac", "other"} /\ begun.secret \in Seq(Octets) /\ begun.message \in Seq(Octets)
         /\ begun = [kind |-> begun.kind, secret |-> begun.secret, message |-> begun.message]
BY HashAssumption DEF SInv

(* endHash gives the digest of what was written.                           *)
LEMMA EndHashStep ==
  ASSUME EncodesBytes, SInv, endHash
  PROVE  SInv' /\ Promise!EndHash
<1>1. /\ DigestLen \in Nat
      /\ digest' = Out(ctx) /\ digestIndex' = 0 /\ answer' = <<>>
      /\ ctx' = ctx /\ keyBlock' = keyBlock /\ begun' = begun
  BY SFields DEF endHash
<1>2. digest' \in [1 .. DigestLen -> Octets]
  BY <1>1, OutIsDigest
<1>3. SInv'
  BY <1>1, <1>2 DEF SInv
<1>4. Unread' = digest'
  BY <1>1, <1>2, WholeDigest DEF Unread
<1>5. begun.kind = "hash" => Unread' = Digest(begun.message)
  BY <1>1, <1>4, OutHolds DEF SInv
<1>6. Promise!EndHash
  BY <1>1, <1>2, <1>4, <1>5 DEF Promise!EndHash, Unread, Promise!AnyDigest
<1> QED BY <1>3, <1>6

(* endHmac gives the HMAC of what was written.                             *)
LEMMA EndHmacStep ==
  ASSUME EncodesBytes, SInv, endHmac
  PROVE  SInv' /\ Promise!EndHmac
<1> DEFINE inner == Out(ctx)
           outer == Update(Update(HashInit, Masked(Xor5C, keyBlock)), inner)
<1>1. /\ DigestLen \in Nat
      /\ digest' = Out(outer) /\ digestIndex' = 0 /\ answer' = <<>>
      /\ begun' = [kind |-> "other", secret |-> <<>>, message |-> <<>>]
  BY SFields DEF endHmac, Nothing
<1>2. begun.kind = "hmac" => Out(outer) = Hmac(begun.secret, begun.message)
  <2> SUFFICES ASSUME begun.kind = "hmac" PROVE Out(outer) = Hmac(begun.secret, begun.message)
    OBVIOUS
  <2> DEFINE pad == OuterPad(begun.secret)
             m == Inner(begun.secret) \o begun.message
  <2>1. begun.secret \in Seq(Octets) /\ keyBlock = KeyBlock(begun.secret) /\ Holds(ctx, m)
    BY DEF SInv
  <2>2. Masked(Xor5C, keyBlock) = pad /\ pad \in Seq(Octets)
    BY <2>1, KeyBlockRight DEF OuterPad
  <2>3. inner = Digest(m)
    BY <2>1, OutHolds
  <2>4. inner \in Seq(Octets)
    BY EncodeRight DEF Out
  <2>5. Holds(Update(HashInit, pad), pad)
    BY <2>2, HashHolds
  <2>6. Holds(outer, pad \o inner)
    <3> HIDE DEF inner, pad
    <3> QED BY <2>2, <2>4, <2>5, UpdateHolds
  <2>7. Out(outer) = Digest(pad \o inner)
    <3> HIDE DEF outer
    <3> QED BY <2>6, OutHolds
  <2> QED BY <2>3, <2>7, HmacIs
<1> HIDE DEF outer
<1>3. digest' \in [1 .. DigestLen -> Octets]
  BY <1>1, OutIsDigest
<1>4. SInv'
  BY <1>1, <1>3 DEF SInv
<1>5. Unread' = digest'
  BY <1>1, <1>3, WholeDigest DEF Unread
<1>6. Promise!EndHmac
  BY <1>1, <1>2, <1>3, <1>5 DEF Promise!EndHmac, Unread, Promise!AnyDigest
<1> QED BY <1>4, <1>6

(* beginHmac begins an HMAC.                                               *)
LEMMA BeginHmacStep ==
  ASSUME EncodesBytes, SInv, NEW secret \in Seq(Octets), beginHmac(secret)
  PROVE  SInv' /\ Promise!BeginHmac(secret)
<1> DEFINE long == Len(secret) > BlockLen
           short == IF long THEN Out(Update(HashInit, secret)) ELSE secret
<1>1. /\ digest' = (IF long THEN short ELSE digest)
      /\ keyBlock' = short \o Zeros(BlockLen - Len(short))
      /\ ctx' = Update(HashInit, Masked(Xor36, keyBlock'))
      /\ digestIndex' = DigestLen /\ answer' = <<>>
      /\ begun' = [kind |-> "hmac", secret |-> secret, message |-> <<>>]
  BY DEF beginHmac
<1>2. keyBlock' = KeyBlock(secret)
  BY <1>1, HashOnce DEF KeyBlock
<1>3. Masked(Xor36, keyBlock') = Inner(secret) /\ Inner(secret) \in Seq(Octets)
  BY <1>2, KeyBlockRight DEF Inner
<1>4. Holds(ctx', Inner(secret) \o <<>>)
  <2>1. Inner(secret) \o <<>> = Inner(secret)
    BY <1>3
  <2> QED BY <1>1, <1>3, <2>1, HashHolds
<1>5. digest' \in [1 .. DigestLen -> Octets]
  BY <1>1, SFields, OutIsDigest
<1>6. SInv'
  <2>1. begun'.kind = "hmac" /\ begun'.secret = secret /\ begun'.message = <<>>
    BY <1>1
  <2>2. begun' \in [kind : {"hash", "hmac", "other"}, secret : Seq(Octets), message : Seq(Octets)]
    BY <1>1
  <2>3. digestIndex' \in 0 .. DigestLen
    BY <1>1, SFields
  <2> QED BY <1>2, <1>4, <1>5, <2>1, <2>2, <2>3 DEF SInv
<1>7. Unread' = <<>>
  BY <1>1, <1>5, WholeDigest DEF Unread
<1>8. Promise!BeginHmac(secret)
  BY <1>1, <1>7 DEF Promise!BeginHmac, Unread
<1> QED BY <1>6, <1>8

(* write adds to the message.                                              *)
LEMMA WriteStep ==
  ASSUME EncodesBytes, SInv, NEW bytes \in Seq(Octets), write(bytes)
  PROVE  SInv' /\ Promise!Write(bytes)
<1>1. /\ ctx' = Update(ctx, bytes) /\ answer' = <<>>
      /\ begun' = IF begun.kind = "other" THEN begun ELSE [begun EXCEPT !.message = @ \o bytes]
      /\ digest' = digest /\ digestIndex' = digestIndex /\ keyBlock' = keyBlock
  BY DEF write
<1>2. Unread' = Unread
  BY <1>1 DEF Unread
<1>3. CASE begun.kind = "other"
  <2>1. begun' = begun /\ begun.message = <<>>
    BY <1>1, <1>3 DEF SInv
  <2>2. SInv'
    BY <1>1, <1>3, <2>1 DEF SInv
  <2>3. Promise!Write(bytes)
    BY <1>1, <1>2, <1>3, <2>1 DEF Promise!Write, Unread
  <2> QED BY <2>2, <2>3
<1>4. CASE begun.kind # "other"
  <2> DEFINE m == begun.message \o bytes
  <2>1. m \in Seq(Octets)
    BY SFields, ConcatProperties
  <2>2. begun' = [kind |-> begun.kind, secret |-> begun.secret, message |-> m]
    BY <1>1, <1>4, SFields
  <2>3. begun.kind = "hash" => Holds(ctx', m)
    BY <1>1, UpdateHolds DEF SInv
  <2>4. begun.kind = "hmac" => Holds(ctx', Inner(begun.secret) \o m)
    <3> SUFFICES ASSUME begun.kind = "hmac" PROVE Holds(ctx', Inner(begun.secret) \o m)
      OBVIOUS
    <3>1. Inner(begun.secret) \in Seq(Octets) /\ begun.message \in Seq(Octets)
      BY SFields, KeyBlockRight
    <3>2. Holds(ctx', (Inner(begun.secret) \o begun.message) \o bytes)
      BY <1>1, UpdateHolds DEF SInv
    <3>3. (Inner(begun.secret) \o begun.message) \o bytes = Inner(begun.secret) \o m
      BY <3>1, Joined, ZenonT(60)
    <3> QED BY <3>2, <3>3
  <2> HIDE DEF m
  <2>5. SInv'
    <3>1. begun'.kind = begun.kind /\ begun'.secret = begun.secret /\ begun'.message = m
      BY <2>2
    <3>2. begun' \in [kind : {"hash", "hmac", "other"}, secret : Seq(Octets), message : Seq(Octets)]
      BY <2>1, <2>2, SFields
    <3>3. digest' \in [1 .. DigestLen -> Octets] /\ digestIndex' \in 0 .. DigestLen
      BY <1>1, SFields
    <3>4. begun'.kind = "hash" => begun'.secret = <<>> /\ Holds(ctx', begun'.message)
      BY <2>3, <3>1 DEF SInv
    <3>5. begun'.kind = "hmac" =>
            keyBlock' = KeyBlock(begun'.secret) /\ Holds(ctx', Inner(begun'.secret) \o begun'.message)
      BY <1>1, <2>4, <3>1 DEF SInv
    <3> QED BY <1>4, <3>1, <3>2, <3>3, <3>4, <3>5 DEF SInv
  <2>6. Promise!Write(bytes)
    BY <1>1, <1>2, <1>4, <2>2 DEF Promise!Write, Unread, m
  <2> QED BY <2>5, <2>6
<1> QED BY <1>3, <1>4

(* The bytes that are unread.                                              *)
LEMMA UnreadRight ==
  ASSUME NEW d \in [1 .. DigestLen -> Octets], NEW i \in 0 .. DigestLen
  PROVE  LET u == SubSeq(d, i + 1, DigestLen)
         IN  /\ u \in Seq(Octets) /\ Len(u) = DigestLen - i
             /\ \A k \in 1 .. DigestLen - i : u[k] = d[i + k]
<1>1. d \in Seq(Octets) /\ Len(d) = DigestLen
  BY WholeDigest
<1> QED BY <1>1, CutAt

(* A part of what is unread.                                               *)
LEMMA UnreadCut ==
  ASSUME NEW d \in [1 .. DigestLen -> Octets], NEW i \in 0 .. DigestLen, NEW n \in 0 .. DigestLen - i
  PROVE  LET u == SubSeq(d, i + 1, DigestLen)
         IN  /\ SubSeq(d, i + 1, i + n) = SubSeq(u, 1, n)
             /\ SubSeq(d, i + n + 1, DigestLen) = SubSeq(u, n + 1, Len(u))
<1> DEFINE u == SubSeq(d, i + 1, DigestLen)
           j == i + n
<1>1. DigestLen \in Nat /\ d \in Seq(Octets) /\ Len(d) = DigestLen
  BY WholeDigest, HashAssumption
<1>2. u \in Seq(Octets) /\ Len(u) = DigestLen - i /\ \A k \in 1 .. DigestLen - i : u[k] = d[i + k]
  BY UnreadRight
<1>3. j \in 0 .. DigestLen /\ n \in Nat /\ n \in 0 .. Len(u) /\ i \in Nat
  BY <1>1, <1>2
<1>4. SubSeq(d, i + 1, j) = SubSeq(u, 1, n)
  <2> DEFINE a == SubSeq(d, i + 1, j)
             b == SubSeq(u, 1, n)
  <2>1. b \in Seq(Octets) /\ Len(b) = n /\ \A k \in 1 .. n : b[k] = u[k]
    <3> HIDE DEF u
    <3> QED BY <1>2, <1>3, CutAt
  <2>2. a = [k \in 1 .. n |-> d[i + k]]
    BY <1>1, <1>3
  <2>3. \A k \in 1 .. n : b[k] = d[i + k]
    <3> HIDE DEF u, b
    <3> TAKE k \in 1 .. n
    <3>1. k \in 1 .. DigestLen - i
      BY <1>1, <1>3
    <3>2. b[k] = u[k] /\ u[k] = d[i + k]
      BY <1>2, <2>1, <3>1
    <3> QED BY <3>2
  <2> HIDE DEF a, b, u
  <2>4. b = [k \in 1 .. n |-> d[i + k]]
    BY <2>1, <2>3
  <2> QED BY <2>2, <2>4 DEF a, b
<1>5. SubSeq(d, j + 1, DigestLen) = SubSeq(u, n + 1, Len(u))
  <2> DEFINE a == SubSeq(d, j + 1, DigestLen)
             b == SubSeq(u, n + 1, Len(u))
             m == DigestLen - j
  <2>1. a \in Seq(Octets) /\ Len(a) = m /\ \A k \in 1 .. m : a[k] = d[j + k]
    <3> HIDE DEF j
    <3> QED BY <1>3, UnreadRight
  <2>2. m \in Nat /\ Len(u) - n = m
    BY <1>1, <1>2, <1>3
  <2>3. b \in Seq(Octets) /\ Len(b) = Len(u) - n /\ \A k \in 1 .. Len(u) - n : b[k] = u[n + k]
    <3> HIDE DEF u
    <3> QED BY <1>2, <1>3, CutAt
  <2>4. \A k \in 1 .. m : b[k] = a[k]
    <3> HIDE DEF a, b, u, m
    <3> TAKE k \in 1 .. m
    <3>1. b[k] = u[n + k] /\ a[k] = d[j + k]
      BY <2>1, <2>2, <2>3
    <3>2. n + k \in 1 .. DigestLen - i /\ i + (n + k) = j + k
      BY <1>1, <1>2, <1>3, <2>2
    <3> DEFINE x == n + k
    <3>3. u[x] = d[i + x]
      <4> HIDE DEF x
      <4> QED BY <1>2, <3>2 DEF x
    <3> QED BY <3>1, <3>2, <3>3
  <2> HIDE DEF a, b, m, u
  <2>5. Len(b) = m
    BY <2>2, <2>3
  <2>6. a = b
    BY <2>1, <2>2, <2>3, <2>4, <2>5
  <2> QED BY <2>6 DEF a, b
<1> QED BY <1>4, <1>5

(* Reading keeps the invariant.                                            *)
LEMMA SInvKept ==
  ASSUME SInv, UNCHANGED <<ctx, digest, keyBlock, begun>>, digestIndex' \in 0 .. DigestLen
  PROVE  SInv'
BY DEF SInv

(* What read and peek give.                                                *)
LEMMA NextByte ==
  ASSUME SInv
  PROVE  /\ Unread \in Seq(Octets)
         /\ available = 0 <=> Unread = <<>>
         /\ available = 0 <=> digestIndex = DigestLen
         /\ available # 0 => /\ Head(Unread) = digest[digestIndex + 1]
                             /\ digestIndex + 1 \in 0 .. DigestLen
                             /\ Tail(Unread) = SubSeq(digest, (digestIndex + 1) + 1, DigestLen)
<1> DEFINE u == Unread
           i == digestIndex
<1>1. DigestLen \in Nat /\ digest \in [1 .. DigestLen -> Octets] /\ i \in 0 .. DigestLen
  BY SFields
<1>2. u \in Seq(Octets) /\ Len(u) = DigestLen - i /\ \A k \in 1 .. DigestLen - i : u[k] = digest[i + k]
  BY <1>1, UnreadRight DEF Unread
<1>3. available = 0 <=> i = DigestLen
  BY <1>1 DEF available
<1>4. i = DigestLen <=> u = <<>>
  <2> HIDE DEF u, i
  <2>1. u = <<>> <=> Len(u) = 0
    BY <1>2
  <2> QED BY <1>1, <1>2, <2>1
<1>5. ASSUME i # DigestLen
      PROVE  Head(u) = digest[i + 1] /\ i + 1 \in 0 .. DigestLen /\ Tail(u) = SubSeq(digest, (i + 1) + 1, DigestLen)
  <2>1. i + 1 \in 0 .. DigestLen /\ 1 \in 1 .. DigestLen - i /\ 1 \in 0 .. DigestLen - i /\ Len(u) > 0
    BY <1>1, <1>2, <1>5
  <2>2. Head(u) = digest[i + 1]
    <3> HIDE DEF u, i
    <3> QED BY <1>2, <2>1
  <2>3. SubSeq(digest, i + 1 + 1, DigestLen) = SubSeq(u, 1 + 1, Len(u))
    BY <1>1, <2>1, UnreadCut DEF Unread
  <2>4. Tail(u) = SubSeq(u, 1 + 1, Len(u))
    <3> HIDE DEF u, i
    <3> QED BY <1>2, <2>1
  <2> QED BY <2>1, <2>2, <2>3, <2>4
<1> QED BY <1>2, <1>3, <1>4, <1>5

(* read takes one byte.                                                    *)
LEMMA ReadStep ==
  ASSUME SInv, read
  PROVE  SInv' /\ Promise!ReadByte(1)
<1>1. CASE available = 0
  <2>1. /\ answer' = <<-1>> /\ digestIndex' = digestIndex /\ digest' = digest /\ begun' = begun
        /\ ctx' = ctx /\ keyBlock' = keyBlock
    BY <1>1 DEF read
  <2>2. SInv'
    BY <2>1, SFields, SInvKept
  <2>3. Unread' = Unread /\ Unread = <<>>
    BY <1>1, <2>1, NextByte DEF Unread
  <2>4. Promise!ReadByte(1)
    BY <2>1, <2>3 DEF Promise!ReadByte, Promise!NoByte, Unread
  <2> QED BY <2>2, <2>4
<1>2. CASE available # 0
  <2>1. /\ answer' = <<digest[digestIndex + 1]>> /\ digestIndex' = digestIndex + 1 /\ digest' = digest /\ begun' = begun
        /\ ctx' = ctx /\ keyBlock' = keyBlock
    BY <1>2 DEF read
  <2>2. SInv'
    BY <1>2, <2>1, NextByte, SInvKept
  <2>3. Unread # <<>> /\ Unread' = Tail(Unread) /\ answer' = <<Head(Unread)>>
    BY <1>2, <2>1, NextByte DEF Unread
  <2>4. /\ answer' = IF Unread = <<>> THEN <<-1>> ELSE <<Head(Unread)>>
        /\ Unread' = IF Unread = <<>> \/ 1 = 0 THEN Unread ELSE Tail(Unread)
    BY <2>3
  <2>5. Promise!ReadByte(1)
    BY <2>1, <2>4 DEF Promise!ReadByte, Promise!NoByte, Unread
  <2> QED BY <2>2, <2>5
<1> QED BY <1>1, <1>2

(* peek takes none.                                                        *)
LEMMA PeekStep ==
  ASSUME SInv, peek
  PROVE  SInv' /\ Promise!ReadByte(0)
<1>1. /\ digestIndex' = digestIndex /\ digest' = digest /\ begun' = begun /\ ctx' = ctx /\ keyBlock' = keyBlock
      /\ answer' = IF available = 0 THEN <<-1>> ELSE <<digest[digestIndex + 1]>>
  BY DEF peek
<1>2. SInv'
  BY <1>1, SFields, SInvKept
<1>3. Unread' = Unread
  BY <1>1 DEF Unread
<1>4. answer' = IF Unread = <<>> THEN <<-1>> ELSE <<Head(Unread)>>
  BY <1>1, NextByte
<1>5. Promise!ReadByte(0)
  BY <1>1, <1>3, <1>4 DEF Promise!ReadByte, Promise!NoByte, Unread
<1> QED BY <1>2, <1>5

(* readBytes takes several.                                                *)
LEMMA ReadBytesStep ==
  ASSUME SInv, NEW length \in 0 .. DigestLen + 1, readBytes(length)
  PROVE  SInv' /\ Promise!ReadBytes(length)
<1> DEFINE n == ToCopy(length)
           i == digestIndex
<1>1. /\ answer' = SubSeq(digest, i + 1, i + n) /\ digestIndex' = i + n
      /\ digest' = digest /\ begun' = begun /\ ctx' = ctx /\ keyBlock' = keyBlock
  BY DEF readBytes
<1>2. DigestLen \in Nat /\ digest \in [1 .. DigestLen -> Octets] /\ i \in 0 .. DigestLen
  BY SFields
<1>3. Unread \in Seq(Octets) /\ Len(Unread) = DigestLen - i
  BY <1>2, UnreadRight DEF Unread
<1>4. n \in 0 .. DigestLen - i /\ n = IF length < Len(Unread) THEN length ELSE Len(Unread)
  BY <1>2, <1>3 DEF ToCopy, available
<1> HIDE DEF n
<1>5. SInv'
  <2>1. digestIndex' \in 0 .. DigestLen
    BY <1>1, <1>2, <1>4
  <2> QED BY <1>1, <2>1, SInvKept
<1>6. answer' = SubSeq(Unread, 1, n) /\ Unread' = SubSeq(Unread, n + 1, Len(Unread))
  <2>1. /\ SubSeq(digest, i + 1, i + n) = SubSeq(Unread, 1, n)
        /\ SubSeq(digest, i + n + 1, DigestLen) = SubSeq(Unread, n + 1, Len(Unread))
    BY <1>2, <1>4, UnreadCut DEF Unread
  <2> QED BY <1>1, <2>1 DEF Unread
<1>7. Promise!ReadBytes(length)
  BY <1>1, <1>4, <1>6 DEF Promise!ReadBytes, Unread
<1> QED BY <1>5, <1>7

(* Every call keeps the invariant and is a step of the promise.            *)
LEMMA SNextRight ==
  ASSUME EncodesBytes, SInv, [SNext]_svars
  PROVE  SInv' /\ [UNCHANGED svars \/ Promise!DNext]_(Promise!dvars)
<1>1. CASE UNCHANGED svars
  <2>1. SInv'
    BY <1>1, SFields, SInvKept DEF svars
  <2> QED BY <1>1, <2>1
<1>2. CASE beginHash
  BY <1>2, BeginHashStep DEF Promise!DNext
<1>3. CASE endHash
  BY <1>3, EndHashStep DEF Promise!DNext
<1>4. CASE endHmac
  BY <1>4, EndHmacStep DEF Promise!DNext
<1>5. CASE read
  BY <1>5, ReadStep DEF Promise!DNext
<1>6. CASE peek
  BY <1>6, PeekStep DEF Promise!DNext
<1>7. ASSUME NEW secret \in Secrets, beginHmac(secret)
      PROVE  SInv' /\ Promise!DNext
  BY <1>7, BeginHmacStep, ShaAssumption DEF Promise!DNext
<1>8. ASSUME NEW bytes \in Data, write(bytes)
      PROVE  SInv' /\ Promise!DNext
  BY <1>8, WriteStep, ShaAssumption DEF Promise!DNext
<1>9. ASSUME NEW length \in 0 .. DigestLen + 1, readBytes(length)
      PROVE  SInv' /\ Promise!DNext
  BY <1>9, ReadBytesStep DEF Promise!DNext
<1> QED BY <1>1, <1>2, <1>3, <1>4, <1>5, <1>6, <1>7, <1>8, <1>9 DEF SNext

(* For every hash function, block and digest length, secrets and data: the *)
(* hash objects of SHA.cpp, their buffers shared by hashes and HMACs in    *)
(* any order of calls, implement the stream of digests that they promise.  *)
THEOREM HashesImplementDigestStream ==
  ASSUME EncodesBytes
  PROVE  SSpec => ImplementsDigestStream
<1>1. SInit => SInv /\ Promise!DInit
  BY SInitRight
<1>2. SInv /\ [SNext]_svars => SInv' /\ [UNCHANGED svars \/ Promise!DNext]_(Promise!dvars)
  BY SNextRight
<1> QED BY <1>1, <1>2, PTL DEF SSpec, ImplementsDigestStream
=============================================================================

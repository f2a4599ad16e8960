------------------------------ MODULE AeadModes ------------------------------
(***************************************************************************)
(* The authenticated modes of BearSSL, fed in pieces: GCM, CCM and EAX     *)
(* (src/src/bearssl/gcm.c, ccm.c, eax.c).  A context keeps the last,       *)
(* incomplete block of the additional data or of the message; when it is   *)
(* authenticated depends on the mode.                                      *)
(*                                                                         *)
(* The block cipher is free: what it makes of a block is a term that is    *)
(* equal to another one only if they are the same.  A byte is the set of   *)
(* the terms that were added (XOR) to give it, a MAC the sequence of the   *)
(* blocks that went into it.                                               *)
(***************************************************************************)
EXTENDS Integers, Sequences

CONSTANTS CipherBlock,  \* 16
          ByteValues,   \* 256
          PlainNonce,   \* nonce length that GCM takes as it is (12)
          NonceLens,    \* lengths of nonces that the application uses
          TagLens,      \* tag lengths that it asks for
          ShortAad, LongAad,  \* limits of the encodings of a length (0xFF00, 2^32)
          MaxPart, MaxAad, MaxInput   \* bounds: one call, and all of them

ASSUME ModesAssumption ==
  /\ CipherBlock \in Nat /\ CipherBlock >= 4 /\ CipherBlock % 4 = 0
  /\ ShortAad \in Nat /\ LongAad \in Nat /\ ShortAad <= LongAad
  /\ NonceLens \subseteq Nat /\ TagLens \subseteq Nat
  /\ MaxPart \in Nat /\ MaxAad \in Nat /\ MaxInput \in Nat

Zero == {}
Added(x, y) == (x \ y) \cup (y \ x)
XorBytes(s, t) == [i \in DOMAIN s |-> Added(s[i], t[i])]
ZeroBytes(n) == [i \in 1 .. n |-> Zero]
Named(name, n) == [i \in 1 .. n |-> {<<name, i>>}]

First(s, n) == SubSeq(s, 1, n)
Rest(s, n) == SubSeq(s, n + 1, Len(s))
AtMost(n, limit) == IF n > limit THEN limit ELSE n
Overwritten(buf, ptr, bytes) ==
  [i \in DOMAIN buf |-> IF i - ptr \in DOMAIN bytes THEN bytes[i - ptr] ELSE buf[i]]

(* Whole blocks; a last one that is filled up with zeros.                  *)
BlocksOf(s) == [k \in 1 .. Len(s) \div CipherBlock |-> SubSeq(s, (k - 1) * CipherBlock + 1, k * CipherBlock)]
Filled(s) == s \o ZeroBytes(CipherBlock - Len(s))
ZeroPadded(s) == BlocksOf(s \o ZeroBytes((CipherBlock - (Len(s) % CipherBlock)) % CipherBlock))

(* The stream of counter mode, from counter n, and the bytes of a MAC.     *)
Stream(ctr, n, len) == [i \in 1 .. len |-> {<<ctr, n + (i - 1) \div CipherBlock, ((i - 1) % CipherBlock) + 1>>}]
MacBytes(mac) == [i \in 1 .. CipherBlock |-> {<<mac, i, 0, 0>>}]

-----------------------------------------------------------------------------
(* A context: mac is y or cbcmac; ptr the number of bytes in buf; ctr and  *)
(* next are the base and the value of the counter.  This is one in which a *)
(* computation was given up.                                               *)
UsedContext ==
  LET old == <<Named("old", CipherBlock)>>
  IN  [mac |-> old, buf |-> old[1], ptr |-> 1, ctr |-> old, next |-> 7, first |-> 7,
       countAad |-> 3, countCtr |-> 2,             \* of GCM
       tagLen |-> CipherBlock,                     \* of CCM
       nonce |-> old, head |-> old, headFlag |-> 1] \* of EAX

(* br_ccm_aad_inject (br_gcm_aad_inject is the same on its counter): full  *)
(* blocks are authenticated at once.                                       *)
InjectEager(c, data) ==
  LET room == CipherBlock - c.ptr
      aligned == c.ptr = 0
      rest == IF aligned THEN data ELSE Rest(data, room)
      ptr == Len(rest) % CipherBlock
      whole == First(rest, Len(rest) - ptr)
  IN  IF ~aligned /\ room > Len(data)
      THEN [c EXCEPT !.buf = Overwritten(@, c.ptr, data), !.ptr = @ + Len(data)]
      ELSE [c EXCEPT !.mac = @ \o (IF aligned THEN <<>> ELSE <<First(c.buf, c.ptr) \o First(data, room)>>)
                                \o BlocksOf(whole),
                     !.buf = Overwritten(IF aligned THEN @ ELSE Overwritten(@, c.ptr, First(data, room)),
                                         0, Rest(rest, Len(whole))),
                     !.ptr = ptr]

(* br_ccm_flip                                                             *)
FlipEager(c) ==
  IF c.ptr = 0 THEN c
  ELSE [c EXCEPT !.mac = Append(@, Filled(First(c.buf, c.ptr))), !.ptr = 0]

(* Data meets the stream bytes in buf; buf then has the bytes that the MAC *)
(* is about: the result, or what was given.                                *)
Met(buf, ptr, data, keepsResult) ==
  LET result == XorBytes(data, Rest(buf, ptr))
  IN  [result |-> result,
       buf |-> Overwritten(buf, ptr, IF keepsResult THEN result ELSE data)]

(* br_ccm_run (br_gcm_run is the same on its counter)                      *)
RunEager(c, data, keepsResult) ==
  LET clen == IF c.ptr = 0 THEN 0 ELSE AtMost(Len(data), CipherBlock - c.ptr)
      begun == Met(c.buf, c.ptr, First(data, clen), keepsResult)
      rest == Rest(data, clen)
      ptr == Len(rest) % CipherBlock
      whole == First(rest, Len(rest) - ptr)
      bulk == XorBytes(whole, Stream(c.ctr, c.next, Len(whole)))
      last == c.next + Len(whole) \div CipherBlock
      ended == Met(Stream(c.ctr, last, CipherBlock), 0, Rest(rest, Len(whole)), keepsResult)
  IN  IF c.ptr # 0 /\ c.ptr + clen < CipherBlock
      THEN [c |-> [c EXCEPT !.buf = begun.buf, !.ptr = @ + clen], out |-> begun.result]
      ELSE [c |-> [c EXCEPT !.mac = @ \o (IF c.ptr = 0 THEN <<>> ELSE <<begun.buf>>)
                                      \o BlocksOf(IF keepsResult THEN bulk ELSE whole),
                            !.buf = IF ptr = 0 THEN begun.buf ELSE ended.buf,
                            !.next = IF ptr = 0 THEN last ELSE last + 1,
                            !.ptr = ptr],
            out |-> begun.result \o bulk \o ended.result]

-----------------------------------------------------------------------------
(* GCM.  The counter of additional data, and that of the message, say how  *)
(* much of buf is in use.                                                  *)
GcmLengths(aad, data) == <<ZeroBytes(CipherBlock - 2) \o <<{<<"bits", aad>>}, {<<"bits", data>>}>>>>

GcmReset(c, nonce) ==
  LET plain == Len(nonce) = PlainNonce
  IN  [c EXCEPT !.ctr = IF plain THEN <<nonce>> ELSE ZeroPadded(nonce) \o GcmLengths(0, Len(nonce)),
                !.first = IF plain THEN 1 ELSE 0, !.next = IF plain THEN 2 ELSE 1,
                !.mac = <<>>, !.countAad = 0, !.countCtr = 0]

GcmInject(c, data) ==
  [InjectEager([c EXCEPT !.ptr = c.countAad % CipherBlock], data) EXCEPT !.countAad = @ + Len(data)]

GcmFlip(c) == FlipEager([c EXCEPT !.ptr = c.countAad % CipherBlock])

(* Mutant: the position in the block is that of the additional data.       *)
GcmRunUnaligned(c, data, encrypt) ==
  LET r == RunEager([c EXCEPT !.ptr = (c.countAad + c.countCtr) % CipherBlock], data, encrypt)
  IN  [r EXCEPT !.c.countCtr = @ + Len(data)]

GcmRun(c, data, encrypt) ==
  LET r == RunEager([c EXCEPT !.ptr = c.countCtr % CipherBlock], data, encrypt)
  IN  [r EXCEPT !.c.countCtr = @ + Len(data)]

GcmTag(c) ==
  LET y == FlipEager([c EXCEPT !.ptr = c.countCtr % CipherBlock]).mac
  IN  XorBytes(MacBytes(y \o GcmLengths(c.countAad, c.countCtr)), Stream(c.ctr, c.first, CipherBlock))

-----------------------------------------------------------------------------
(* CCM.  The lengths are announced; what is left of a block by the nonce   *)
(* must hold that of the message.                                          *)
CcmFirst(nonce, hasAad, dataLen, tagLen) ==
  <<{<<"flags", tagLen>>, <<IF hasAad THEN "aad" ELSE "no aad", 0>>}>> \o nonce
    \o ZeroBytes(CipherBlock - 2 - Len(nonce)) \o <<{<<"length", dataLen>>}>>

(* The header of the additional data is shorter than a block.              *)
AadHeader(len) ==
  LET size == CASE len = 0 -> 0
                [] len \in 1 .. ShortAad - 1 -> 1
                [] len \in ShortAad .. LongAad - 1 -> 2
                [] OTHER -> 3
  IN  [i \in 1 .. size |-> {<<"aad length", 10 * len + i>>}]

(* Nonces of 7 to 13 bytes, tags of 4 to 16 (for blocks of 16).            *)
CcmRefuses(nonceLen, dataLen, tagLen) ==
  \/ nonceLen \notin CipherBlock \div 2 - 1 .. CipherBlock - 3
  \/ tagLen \notin CipherBlock \div 4 .. CipherBlock \/ tagLen % 2 # 0
  \/ dataLen >= ByteValues ^ (CipherBlock - 1 - nonceLen)

CcmReset(c, nonce, aadLen, dataLen, tagLen) ==
  LET header == AadHeader(aadLen)
  IN  [c EXCEPT !.mac = <<CcmFirst(nonce, aadLen > 0, dataLen, tagLen)>>,
                !.buf = Overwritten(@, 0, header), !.ptr = Len(header),
                !.ctr = <<nonce>>, !.next = 1, !.tagLen = tagLen]

(* tagmask is the first block of the stream.                               *)
CcmTag(c) == First(XorBytes(MacBytes(FlipEager(c).mac), Stream(c.ctr, 0, CipherBlock)), c.tagLen)

-----------------------------------------------------------------------------
(* EAX.  A block is authenticated when the next byte comes: the last one   *)
(* is treated differently.                                                 *)
OmacFirst(val) == ZeroBytes(CipherBlock - 1) \o <<{<<"omac", val>>}>>
OmacStart(c, val) == [c EXCEPT !.mac = <<>>, !.buf = OmacFirst(val), !.ptr = CipherBlock]

DoPad(c) ==
  LET whole == c.ptr = CipherBlock
      block == IF whole THEN c.buf ELSE Filled(Append(First(c.buf, c.ptr), {<<"0x80", 0>>}))
      last == XorBytes(block, Named(IF whole THEN "L2" ELSE "L4", CipherBlock))
  IN  [c EXCEPT !.buf = last, !.mac = Append(@, last)]

LastPart(len) == ((len - 1) % CipherBlock) + 1

DoCbcmacChunk(c, data) ==
  LET len == Len(data) - LastPart(Len(data))
  IN  IF data = <<>> THEN c
      ELSE [c EXCEPT !.mac = @ \o (IF c.ptr = CipherBlock THEN <<c.buf>> ELSE <<>>) \o BlocksOf(First(data, len)),
                     !.buf = Overwritten(@, 0, Rest(data, len)), !.ptr = Len(data) - len]

(* br_eax_reset, and the two forms that begin with captured MACs.          *)
EaxReset(c, nonce) ==
  LET n == DoPad(DoCbcmacChunk(OmacStart(c, 0), nonce))
  IN  [OmacStart(n, 1) EXCEPT !.nonce = n.mac, !.headFlag = 0]

EaxCapture == [i \in 1 .. 3 |-> <<OmacFirst(i - 1)>>]

CapturedNonce(c, st, nonce) ==
  DoPad(IF nonce = <<>> THEN OmacStart(c, 0)
        ELSE DoCbcmacChunk([c EXCEPT !.mac = st[1], !.ptr = 0], nonce))

EaxResetPreAad(c, st, nonce) ==
  LET n == CapturedNonce(c, st, nonce)
  IN  [n EXCEPT !.nonce = n.mac, !.mac = st[2], !.ptr = 0, !.ctr = st[3], !.headFlag = 1]

EaxResetPostAad(c, st, nonce) ==
  LET n == CapturedNonce(c, st, nonce)
  IN  [n EXCEPT !.nonce = n.mac, !.ctr = n.mac, !.next = 0, !.head = st[2], !.mac = st[3], !.ptr = 0]

EaxInject(c, data) ==
  LET room == CipherBlock - c.ptr
  IN  IF c.ptr < CipherBlock /\ Len(data) <= room
      THEN [c EXCEPT !.buf = Overwritten(@, c.ptr, data), !.ptr = @ + Len(data)]
      ELSE DoCbcmacChunk([c EXCEPT !.buf = Overwritten(@, c.ptr, First(data, AtMost(Len(data), room)))],
                         Rest(data, room))

EaxFlip(c) ==
  LET head == DoPad(c).mac
      begun == IF c.headFlag = 1 THEN [c EXCEPT !.mac = c.ctr, !.ptr = 0] ELSE OmacStart(c, 2)
  IN  [begun EXCEPT !.head = head, !.ctr = c.nonce, !.next = 0]

EaxRun(c, data, encrypt) ==
  LET clen == IF c.ptr \in {0, CipherBlock} THEN 0 ELSE AtMost(Len(data), CipherBlock - c.ptr)
      begun == Met(c.buf, c.ptr, First(data, clen), encrypt)
      rest == Rest(data, clen)
      len == Len(rest) - LastPart(Len(rest))
      whole == First(rest, len)
      bulk == XorBytes(whole, Stream(c.ctr, c.next, len))
      last == c.next + len \div CipherBlock
      ended == Met(Stream(c.ctr, last, CipherBlock), 0, Rest(rest, len), encrypt)
  IN  IF data = <<>> THEN [c |-> c, out |-> <<>>]
      ELSE IF rest = <<>>
      THEN [c |-> [c EXCEPT !.buf = begun.buf, !.ptr = @ + clen], out |-> begun.result]
      ELSE [c |-> [c EXCEPT !.mac = @ \o (IF c.ptr = 0 THEN <<>> ELSE <<begun.buf>>)
                                      \o BlocksOf(IF encrypt THEN bulk ELSE whole),
                            !.buf = ended.buf, !.ptr = Len(rest) - len, !.next = last + 1],
            out |-> begun.result \o bulk \o ended.result]

(* br_eax_get_aad_mac, after additional data in one piece.                 *)
CapturedAad(aad) == [EaxCapture EXCEPT ![2] = EaxFlip(EaxInject(EaxReset(UsedContext, <<>>), aad)).head]

(* do_final                                                                *)
EaxTag(c) == XorBytes(XorBytes(MacBytes(DoPad(c).mac), MacBytes(c.nonce)), MacBytes(c.head))

-----------------------------------------------------------------------------
(* The modes as they are defined, on whole messages.                       *)
Aad(n) == Named("a", n)
Input(n) == Named("m", n)

OmacOf(val, s) ==
  LET all == OmacFirst(val) \o s
      ptr == LastPart(Len(all))
      last == Rest(all, Len(all) - ptr)
      ending == IF ptr = CipherBlock THEN XorBytes(last, Named("L2", CipherBlock))
                ELSE XorBytes(Filled(Append(last, {<<"0x80", 0>>})), Named("L4", CipherBlock))
  IN  Append(BlocksOf(First(all, Len(all) - ptr)), ending)

Output(mode, nonce, n) ==
  XorBytes(Input(n),
    CASE mode = "gcm" -> IF Len(nonce) = PlainNonce THEN Stream(<<nonce>>, 2, n)
                         ELSE Stream(ZeroPadded(nonce) \o GcmLengths(0, Len(nonce)), 1, n)
      [] mode = "ccm" -> Stream(<<nonce>>, 1, n)
      [] mode = "eax" -> Stream(OmacOf(0, nonce), 0, n))

TagOf(mode, nonce, aad, input, ciphertext, plaintext, tagLen) ==
  CASE mode = "gcm" ->
         XorBytes(MacBytes(ZeroPadded(aad) \o ZeroPadded(ciphertext) \o GcmLengths(Len(aad), input)),
                  IF Len(nonce) = PlainNonce THEN Stream(<<nonce>>, 1, CipherBlock)
                  ELSE Stream(ZeroPadded(nonce) \o GcmLengths(0, Len(nonce)), 0, CipherBlock))
    [] mode = "ccm" ->
         First(XorBytes(MacBytes(<<CcmFirst(nonce, aad # <<>>, input, tagLen)>>
                                   \o ZeroPadded(AadHeader(Len(aad)) \o aad) \o ZeroPadded(plaintext)),
                        Stream(<<nonce>>, 0, CipherBlock)), tagLen)
    [] mode = "eax" ->
         XorBytes(XorBytes(MacBytes(OmacOf(0, nonce)), MacBytes(OmacOf(1, aad))),
                  MacBytes(OmacOf(2, ciphertext)))

-----------------------------------------------------------------------------
VARIABLE aead

NoMode == [step |-> "idle"]

Begun(mode, nonce, c, aad, least, most, encrypt, tagLen) ==
  [step |-> "aad", mode |-> mode, nonce |-> nonce, c |-> c, encrypt |-> encrypt,
   aad |-> aad, input |-> 0, out |-> <<>>, tag |-> <<>>, tagLen |-> tagLen,
   least |-> least, most |-> most, torn |-> FALSE]

Unlimited == [aad |-> MaxAad, input |-> MaxInput]
NoInput == [aad |-> 0, input |-> 0]

(* What the application may do after each reset: with CCM it keeps to what *)
(* it announced, with captured MACs it has data for each of them.          *)
ModeReset ==
  \E n \in NonceLens, encrypt \in BOOLEAN :
    LET nonce == Named("n", n)
    IN  \/ aead' = Begun("gcm", nonce, GcmReset(UsedContext, nonce), 0, NoInput, Unlimited, encrypt,
                         CipherBlock)
        \/ \E a \in 0 .. MaxAad, i \in 0 .. MaxInput, tagLen \in TagLens :
             aead' = IF CcmRefuses(n, i, tagLen) THEN [step |-> "refused"]
                     ELSE Begun("ccm", nonce, CcmReset(UsedContext, nonce, a, i, tagLen), 0,
                                [aad |-> a, input |-> i], [aad |-> a, input |-> i], encrypt, tagLen)
        \/ aead' = Begun("eax", nonce, EaxReset(UsedContext, nonce), 0, NoInput, Unlimited, encrypt,
                         CipherBlock)
        \/ aead' = Begun("eax", nonce, EaxResetPreAad(UsedContext, EaxCapture, nonce), 0,
                         [aad |-> 1, input |-> 1], Unlimited, encrypt, CipherBlock)
        \/ \E a \in 0 .. MaxAad :
             aead' = [Begun("eax", nonce, EaxResetPostAad(UsedContext, CapturedAad(Aad(a)), nonce), a,
                            [aad |-> a, input |-> 1], Unlimited, encrypt, CipherBlock)
                        EXCEPT !.step = "data"]

(* torn: EAX had part of a block, or none of its first one, and was given  *)
(* more than the rest of it.                                               *)
ModeInject(n) ==
  LET data == Rest(Aad(aead.aad + n), aead.aad)
  IN  /\ aead.step = "aad" /\ aead.aad + n <= aead.most.aad
      /\ aead' = [aead EXCEPT
           !.aad = @ + n,
           !.torn = @ \/ (aead.mode = "eax" /\ aead.c.ptr < CipherBlock /\ n > CipherBlock - aead.c.ptr),
           !.c = CASE aead.mode = "gcm" -> GcmInject(@, data)
                   [] aead.mode = "ccm" -> InjectEager(@, data)
                   [] aead.mode = "eax" -> EaxInject(@, data)]

ModeFlip ==
  /\ aead.step = "aad" /\ aead.aad >= aead.least.aad
  /\ aead' = [aead EXCEPT
       !.step = "data",
       !.c = CASE aead.mode = "gcm" -> GcmFlip(@)
               [] aead.mode = "ccm" -> FlipEager(@)
               [] aead.mode = "eax" -> EaxFlip(@)]

(* CCM authenticates the plaintext.                                        *)
ModeRun(n) ==
  LET data == Rest(Input(aead.input + n), aead.input)
      r == CASE aead.mode = "gcm" -> GcmRun(aead.c, data, aead.encrypt)
             [] aead.mode = "ccm" -> RunEager(aead.c, data, ~aead.encrypt)
             [] aead.mode = "eax" -> EaxRun(aead.c, data, aead.encrypt)
  IN  /\ aead.step = "data" /\ aead.input + n <= aead.most.input
      /\ aead' = [aead EXCEPT !.input = @ + n, !.c = r.c, !.out = @ \o r.out]

(* get_tag, and check_tag which compares its value with a given one.       *)
ModeGetTag ==
  /\ aead.step = "data" /\ aead.input >= aead.least.input
  /\ aead' = [aead EXCEPT
       !.step = "tagged",
       !.tag = CASE aead.mode = "gcm" -> GcmTag(aead.c)
                 [] aead.mode = "ccm" -> CcmTag(aead.c)
                 [] aead.mode = "eax" -> EaxTag(aead.c)]

ModeNext ==
  \/ aead.step = "idle" /\ ModeReset
  \/ \E n \in 0 .. MaxPart : ModeInject(n) \/ ModeRun(n)
  \/ ModeFlip
  \/ ModeGetTag

AeadModesInit == aead = NoMode
AeadModesSpec == AeadModesInit /\ [][ModeNext]_aead

-----------------------------------------------------------------------------
(* The tag in the state is that of the whole message.                      *)
TagIsRight ==
  aead.tag = TagOf(aead.mode, aead.nonce, Aad(aead.aad), aead.input,
                   IF aead.encrypt THEN aead.out ELSE Input(aead.input),
                   IF aead.encrypt THEN Input(aead.input) ELSE aead.out, aead.tagLen)

(* However the additional data and the message are cut into pieces, empty  *)
(* ones included, whatever was left in the context, and whether the MACs   *)
(* start from captured values, GCM, CCM and EAX give the output and the    *)
(* tag of their definitions; of EAX only if no injection goes beyond a     *)
(* block that was partly there (br_gcm_run, br_ccm_run, br_eax_run).       *)
ModesAsDefined ==
  aead.step \in {"aad", "data", "tagged"} =>
    /\ aead.out = Output(aead.mode, aead.nonce, aead.input)
    /\ aead.step = "tagged" /\ ~aead.torn => TagIsRight

(* "Additional data can be injected in several chunks of arbitrary length" *)
(* (bearssl_aead.h, br_eax_aad_inject).                                    *)
EaxTakesPieces == aead.step = "tagged" => TagIsRight
=============================================================================

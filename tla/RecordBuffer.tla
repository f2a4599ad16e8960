---------------------------- MODULE RecordBuffer ----------------------------
(***************************************************************************)
(* The record buffers of the SSL engine (src/src/bearssl/ssl_engine.c):    *)
(* six offsets into an input and an output buffer, which may be the same   *)
(* memory, and the I/O mode that says which of them are meaningful.        *)
(*                                                                         *)
(* Input.  ixa and ixb delimit the plaintext ready for the consumer; when  *)
(* ixa = ixb, the engine wants ixc more bytes from the transport, stored   *)
(* at ixa.  The first HeaderLen bytes are the record header.               *)
(*                                                                         *)
(* Output.  While plaintext is gathered, [oxc, oxa) holds it and [oxa, oxb)*)
(* is free.  Once a record is assembled, oxa = oxb and [oxa, oxc) is what  *)
(* the transport still has to take.                                        *)
(*                                                                         *)
(* The actions are the internal functions that ssl_engine.c builds         *)
(* everything else on.  Callers obtain a length from *_buf and acknowledge *)
(* at most that much, which bearssl_ssl.h demands of them; the bytes, and  *)
(* hence the lengths found in headers, are arbitrary.                      *)
(***************************************************************************)
EXTENDS RecordSizes

CONSTANTS IBufLen, OBufLen,  \* sizes of the two buffers
          Shared,            \* TRUE if they are the same memory
          InFormats,         \* formats the handshake may switch input to
          OutFormats,        \* formats the handshake may switch output to
          FragLens,          \* values of max_frag_len
          RecordLens,        \* lengths announced by record headers
          ForceValues        \* values callers pass as "force" to a flush

(* The smallest buffers for which the arithmetic of the code makes sense:  *)
(* set_buffers_bidi refuses anything below 512 bytes plus overhead.        *)
ASSUME BufferAssumption ==
  /\ IBufLen \in Nat /\ IBufLen > HeaderLen
  /\ OBufLen \in Nat
  /\ Shared \in BOOLEAN
  /\ Shared => IBufLen = OBufLen
ASSUME FormatAssumption ==
  /\ InFormats \subseteq Formats
  /\ OutFormats \subseteq Formats
  /\ \A f \in OutFormats \cup {Clear} : Fits(f, HeaderLen, OBufLen - HeaderLen)
ASSUME LengthAssumption ==
  /\ FragLens \subseteq Nat \ {0}
  /\ RecordLens \subseteq Nat
  /\ ForceValues \subseteq BOOLEAN

VARIABLES iomode,          \* "FAILED", "IN", "OUT", "INOUT"
          ixa, ixb, ixc,   \* input offsets and outstanding length
          oxa, oxb, oxc,   \* output offsets
          inf, outf,       \* current formats; inf = Clear when incrypt = 0
          max_frag_len,
          rlen,            \* history: length of the record being received
          taken,           \* history: plaintext of it given to the consumer
          pay              \* history: plaintext in the record being sent

inRegs == <<ixa, ixb, ixc>>
outRegs == <<oxa, oxb, oxc>>
inVars == <<ixa, ixb, ixc, inf, rlen, taken>>
outVars == <<oxa, oxb, oxc, outf, max_frag_len, pay>>
vars == <<iomode, inVars, outVars>>

Modes == {"FAILED", "IN", "OUT", "INOUT"}

-----------------------------------------------------------------------------
(* make_ready_in and make_ready_out.                                       *)

FreshIn == /\ ixa' = 0 /\ ixb' = 0 /\ ixc' = HeaderLen
           /\ rlen' = 0 /\ taken' = 0
ModeAfterIn(mode) == IF mode = "IN" THEN "INOUT" ELSE mode

ReadyStart(f) == PlainStart(f, HeaderLen)
ReadyEnd(f, mfl) ==
  LET a == ReadyStart(f)
      b == PlainEnd(f, HeaderLen, OBufLen - HeaderLen)
  IN  IF b - a > mfl THEN a + mfl ELSE b

FreshOut(f, mfl) ==
  /\ oxa' = ReadyStart(f) /\ oxb' = ReadyEnd(f, mfl) /\ oxc' = ReadyStart(f)
  /\ pay' = 0
ModeAfterOut(mode) == IF mode = "OUT" THEN "INOUT" ELSE mode

-----------------------------------------------------------------------------
(* What the *_buf functions answer: how many bytes may be moved now.       *)

Receiving == iomode \in {"IN", "INOUT"}
Emitting == iomode \in {"OUT", "INOUT"}

RecvrecLenUnclipped ==  \* mutant: the end of the buffer is not looked at
  IF Receiving /\ ixa = ixb THEN ixc ELSE 0

RecvrecLen == IF Receiving /\ ixa = ixb THEN AtMost(ixc, IBufLen - ixa) ELSE 0
RecvpldLen == IF Receiving THEN ixb - ixa ELSE 0
SendpldLen == IF Emitting THEN oxb - oxa ELSE 0
SendrecLen == IF Emitting /\ oxc > oxa THEN oxc - oxa ELSE 0

has_rec_tosend == oxa = oxb /\ oxa # oxc
has_pld_to_send == oxa # oxb /\ oxa # oxc
recvrec_finished == Receiving => ixc = 0 \/ ixa < HeaderLen

-----------------------------------------------------------------------------
(* recvrec_ack(len): len bytes arrived from the transport.                 *)

ModeAfterBytes == IF iomode = "INOUT" /\ Shared THEN "IN" ELSE iomode

(* The header is still incomplete.                                         *)
RecvPartOfHeader(len) ==
  /\ ixa + len < HeaderLen
  /\ ixa' = ixa + len /\ ixb' = ixa + len /\ ixc' = ixc - len
  /\ iomode' = ModeAfterBytes
  /\ UNCHANGED <<inf, rlen, taken>>

(* The header is complete: it announces n bytes, which are refused when    *)
(* the format cannot produce them or when they do not fit.                 *)
HeaderRefusedByFormatOnly(n) == ~CheckLength(inf, n)  \* mutant

HeaderRefused(n) ==
  \/ ~CheckLength(inf, n)
  \/ inf # Clear /\ n > IBufLen - HeaderLen

RecvHeader(len, n) ==
  /\ ixa + len = HeaderLen
  /\ IF HeaderRefused(n)
     THEN /\ iomode' = "FAILED"
          /\ ixa' = ixa + len /\ ixb' = ixa + len /\ ixc' = ixc - len
          /\ UNCHANGED <<rlen, taken>>
     ELSE IF n = 0
     THEN FreshIn /\ iomode' = ModeAfterIn(ModeAfterBytes)
     ELSE /\ ixa' = HeaderLen /\ ixb' = HeaderLen /\ ixc' = n
          /\ rlen' = n /\ taken' = 0
          /\ iomode' = ModeAfterBytes
  /\ UNCHANGED inf

(* Bad type or version in the header.                                      *)
RecvBadHeader(len) ==
  /\ ixa + len = HeaderLen
  /\ iomode' = "FAILED"
  /\ ixa' = ixa + len /\ ixb' = ixa + len /\ ixc' = ixc - len
  /\ UNCHANGED <<inf, rlen, taken>>

(* Body bytes without encryption are available at once.                    *)
RecvClearBody(len) ==
  /\ ixa + len > HeaderLen
  /\ inf = Clear
  /\ ixa' = HeaderLen /\ ixb' = ixa + len /\ ixc' = ixc - len
  /\ iomode' = ModeAfterBytes
  /\ UNCHANGED <<inf, rlen, taken>>

(* With encryption, nothing is available before the record is complete.    *)
RecvPartOfBody(len) ==
  /\ ixa + len > HeaderLen
  /\ inf # Clear
  /\ len < ixc
  /\ ixa' = ixa + len /\ ixb' = ixa + len /\ ixc' = ixc - len
  /\ iomode' = ModeAfterBytes
  /\ UNCHANGED <<inf, rlen, taken>>

(* The record is complete and decrypts to n bytes of plaintext.            *)
RecvEndOfBody(len, n) ==
  /\ ixa + len > HeaderLen
  /\ inf # Clear
  /\ len = ixc
  /\ n \in Payloads(inf, rlen)
  /\ IF n = 0
     THEN FreshIn /\ iomode' = ModeAfterIn(ModeAfterBytes)
     ELSE /\ ixa' = HeaderLen + BodySkip(inf)
          /\ ixb' = HeaderLen + BodySkip(inf) + n
          /\ ixc' = 0
          /\ iomode' = ModeAfterBytes
          /\ UNCHANGED <<rlen, taken>>
  /\ UNCHANGED inf

(* The record is complete and does not decrypt.                            *)
RecvBadBody(len) ==
  /\ ixa + len > HeaderLen
  /\ inf # Clear
  /\ len = ixc
  /\ iomode' = "FAILED"
  /\ ixa' = ixa + len /\ ixb' = ixa + len /\ ixc' = 0
  /\ UNCHANGED <<inf, rlen, taken>>

recvrec_ack ==
  \E len \in 1 .. RecvrecLen :
    /\ \/ RecvPartOfHeader(len)
       \/ \E n \in RecordLens : RecvHeader(len, n)
       \/ RecvBadHeader(len)
       \/ RecvClearBody(len)
       \/ RecvPartOfBody(len)
       \/ \E n \in 0 .. rlen : RecvEndOfBody(len, n)
       \/ RecvBadBody(len)
    /\ UNCHANGED outVars

-----------------------------------------------------------------------------
(* recvpld_ack(len): the application, the handshake processor or the       *)
(* engine itself (discarding) took len bytes of plaintext.                 *)

TakePayloadDropsRest(len) ==  \* mutant: looks at ixc first
  IF ixc # 0
  THEN /\ ixa' = HeaderLen /\ ixb' = HeaderLen /\ taken' = taken + len
       /\ UNCHANGED <<ixc, rlen, iomode>>
  ELSE IF ixa + len = ixb
  THEN FreshIn /\ iomode' = ModeAfterIn(iomode)
  ELSE /\ ixa' = ixa + len /\ taken' = taken + len
       /\ UNCHANGED <<ixb, ixc, rlen, iomode>>

TakePayload(len) ==
  IF ixa + len # ixb
  THEN /\ ixa' = ixa + len /\ taken' = taken + len
       /\ UNCHANGED <<ixb, ixc, rlen, iomode>>
  ELSE IF ixc = 0
  THEN FreshIn /\ iomode' = ModeAfterIn(iomode)
  ELSE /\ ixa' = HeaderLen /\ ixb' = HeaderLen /\ taken' = taken + len
       /\ UNCHANGED <<ixc, rlen, iomode>>

recvpld_ack ==
  \E len \in 1 .. RecvpldLen :
    TakePayload(len) /\ UNCHANGED <<inf, outVars>>

(* The handshake processor read a ChangeCipherSpec message with nothing    *)
(* after it: input switches to a new format, then the message is           *)
(* acknowledged.                                                           *)
ReadChangeCipherSpec(f) ==
  /\ RecvpldLen = 1 /\ recvrec_finished
  /\ TakePayload(1)
  /\ inf' = f
  /\ UNCHANGED outVars

-----------------------------------------------------------------------------
(* sendpld_ack(len) and sendpld_flush(force).                              *)

(* Assemble the plaintext [oxc, last) into a record.                       *)
Assemble(last, isApp) ==
  LET start == WireStart(outf, isApp, oxc, last - oxc) IN
  /\ oxa' = start /\ oxb' = start
  /\ oxc' = WireEnd(outf, isApp, oxc, last - oxc)
  /\ pay' = last - oxc

ModeAfterPayloadUnshared == iomode  \* mutant: no switch to "OUT"

ModeAfterPayload == IF iomode = "INOUT" /\ Shared THEN "OUT" ELSE iomode

sendpld_ack_late ==  \* mutant: off by one in the test for a full buffer
  \E len \in 1 .. SendpldLen, isApp \in BOOLEAN :
    /\ iomode' = ModeAfterPayload
    /\ IF oxa + len > oxb
       THEN Assemble(oxa + len, isApp)
       ELSE oxa' = oxa + len /\ UNCHANGED <<oxb, oxc, pay>>
    /\ UNCHANGED <<outf, max_frag_len, inVars>>

sendpld_ack ==
  \E len \in 1 .. SendpldLen, isApp \in BOOLEAN :
    /\ iomode' = ModeAfterPayload
    /\ IF oxa + len >= oxb
       THEN Assemble(oxa + len, isApp)
       ELSE oxa' = oxa + len /\ UNCHANGED <<oxb, oxc, pay>>
    /\ UNCHANGED <<outf, max_frag_len, inVars>>

sendpld_flush_unguarded(force) ==  \* mutant: a record is waiting already
  /\ iomode # "FAILED"
  /\ force => inf # Clear /\ outf # Clear
  /\ oxa # oxc \/ force
  /\ \E isApp \in BOOLEAN : Assemble(oxa, isApp)
  /\ UNCHANGED <<iomode, outf, max_frag_len, inVars>>

(* br_ssl_engine_flush, the only caller that may force an empty record,    *)
(* does nothing before application data is possible: both formats are then *)
(* those of a handshake.                                                   *)
sendpld_flush(force) ==
  /\ iomode # "FAILED"
  /\ force => inf # Clear /\ outf # Clear
  /\ oxa # oxb
  /\ oxa # oxc \/ force
  /\ \E isApp \in BOOLEAN : Assemble(oxa, isApp)
  /\ UNCHANGED <<iomode, outf, max_frag_len, inVars>>

(* The handshake processor writes a ChangeCipherSpec message, flushes it   *)
(* and switches output to a new format while the record is still there.    *)
WriteChangeCipherSpec(f) ==
  /\ SendpldLen > 0 /\ ~has_pld_to_send
  /\ iomode' = ModeAfterPayload
  /\ Assemble(oxa + 1, FALSE)
  /\ outf' = f
  /\ UNCHANGED <<max_frag_len, inVars>>

(* sendrec_ack(len): the transport took len bytes.                         *)
sendrec_ack ==
  \E len \in 1 .. SendrecLen :
    /\ IF oxa + len = oxc
       THEN FreshOut(outf, max_frag_len) /\ iomode' = ModeAfterOut(iomode)
       ELSE /\ oxa' = oxa + len /\ oxb' = oxa + len
            /\ UNCHANGED <<oxc, pay, iomode>>
    /\ UNCHANGED <<outf, max_frag_len, inVars>>

-----------------------------------------------------------------------------
(* Negotiated fragment length, failure, and reset.                         *)

new_max_frag_len_always(m) ==  \* mutant: more is gathered already
  /\ iomode # "FAILED"
  /\ max_frag_len' = m
  /\ oxb' = IF oxa < oxb /\ oxb > oxc + m THEN oxc + m ELSE oxb
  /\ UNCHANGED <<iomode, oxa, oxc, outf, pay, inVars>>

new_max_frag_len(m) ==
  /\ iomode # "FAILED"
  /\ max_frag_len' = m
  /\ oxb' = IF oxa < oxb /\ oxb > oxc + m /\ oxa < oxc + m THEN oxc + m ELSE oxb
  /\ UNCHANGED <<iomode, oxa, oxc, outf, pay, inVars>>

engine_fail ==
  /\ iomode # "FAILED"
  /\ iomode' = "FAILED"
  /\ UNCHANGED <<inVars, outVars>>

reset ==
  /\ iomode' = "INOUT"
  /\ FreshIn /\ inf' = Clear
  /\ FreshOut(Clear, max_frag_len) /\ outf' = Clear
  /\ UNCHANGED max_frag_len

Init ==
  /\ iomode = "INOUT"
  /\ ixa = 0 /\ ixb = 0 /\ ixc = HeaderLen
  /\ inf = Clear /\ outf = Clear
  /\ max_frag_len \in FragLens
  /\ oxa = ReadyStart(Clear) /\ oxb = ReadyEnd(Clear, max_frag_len)
  /\ oxc = ReadyStart(Clear)
  /\ rlen = 0 /\ taken = 0 /\ pay = 0

Next ==
  \/ recvrec_ack
  \/ recvpld_ack
  \/ \E f \in InFormats : ReadChangeCipherSpec(f)
  \/ sendpld_ack
  \/ \E force \in ForceValues : sendpld_flush(force)
  \/ \E f \in OutFormats : WriteChangeCipherSpec(f)
  \/ sendrec_ack
  \/ \E m \in FragLens : new_max_frag_len(m)
  \/ engine_fail
  \/ reset

Spec == Init /\ [][Next]_vars

=============================================================================

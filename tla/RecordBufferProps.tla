------------------------- MODULE RecordBufferProps -------------------------
(***************************************************************************)
(* The properties of the record buffers of the SSL engine.                 *)
(***************************************************************************)
EXTENDS RecordBuffer

(* Every offset and length has its type.                                   *)
TypeOK ==
  /\ iomode \in Modes
  /\ ixa \in Nat /\ ixb \in Nat /\ ixc \in Nat
  /\ oxa \in Nat /\ oxb \in Nat /\ oxc \in Nat
  /\ inf \in InFormats \cup {Clear}
  /\ outf \in OutFormats \cup {Clear}
  /\ max_frag_len \in FragLens
  /\ rlen \in Nat /\ taken \in Nat /\ pay \in Nat

(* Every area handed out by a *_buf function, and every record assembled   *)
(* by an encrypt function (headers, explicit IVs, the extra record of the  *)
(* 1/n-1 split, MACs and padding included), lies inside its buffer.        *)
RegionsInBounds ==
  /\ ixa <= ixb /\ ixb <= IBufLen
  /\ ixa + RecvrecLen <= IBufLen
  /\ 0 <= oxa /\ oxa <= oxb /\ oxb <= OBufLen
  /\ oxc <= OBufLen

(* "We cannot get stuck here (buffer is full, but still more data is       *)
(* expected) because oversized records are detected when their header is   *)
(* processed" (recvrec_buf): whenever input is wanted, there is room.      *)
NeverStuck ==
  Receiving /\ ixa = ixb => RecvrecLen > 0

InputIdle == ixa = 0 /\ ixb = 0
OutputIdle == oxa < oxb /\ oxa = oxc

(* With one buffer for both directions, an incoming record and outgoing    *)
(* data are never in it at the same time, and the I/O mode says which one  *)
(* is.                                                                     *)
HalfDuplex ==
  Shared =>
    /\ iomode = "INOUT" => InputIdle /\ OutputIdle
    /\ iomode = "IN" => OutputIdle
    /\ iomode = "OUT" => InputIdle

(* The output buffer either gathers plaintext or holds an assembled        *)
(* record: transport and application are never both invited to use it.     *)
(* This is what setting oxb one past oxa in sendpld_ack protects.          *)
OneUseOfOutput ==
  /\ ~(SendrecLen > 0 /\ SendpldLen > 0)
  /\ Emitting => SendrecLen > 0 \/ SendpldLen > 0

(* Every byte of a record announced by its header is either still expected *)
(* from the transport, or available, or was handed over, exactly once, no  *)
(* matter in which pieces it came and was taken.                           *)
NoByteLost ==
  iomode # "FAILED" =>
    IF inf = Clear
    THEN ixa >= HeaderLen => taken + (ixb - ixa) + ixc = rlen
    ELSE ixc > 0 /\ ixa >= HeaderLen => (ixa - HeaderLen) + ixc = rlen

-----------------------------------------------------------------------------
(* The inductive invariant: the four shapes of the input offsets and the   *)
(* two shapes of the output offsets.                                       *)

AwaitingHeader ==
  /\ ixa = ixb /\ ixa < HeaderLen /\ ixa + ixc = HeaderLen
  /\ rlen = 0 /\ taken = 0
ClearBody ==
  /\ inf = Clear
  /\ ixa >= HeaderLen
  /\ ixa < ixb \/ (ixa = ixb /\ ixa = HeaderLen /\ ixc > 0)
  /\ taken + (ixb - ixa) + ixc = rlen
AwaitingBody ==
  /\ inf # Clear
  /\ ixa = ixb /\ ixa >= HeaderLen /\ ixc > 0
  /\ (ixa - HeaderLen) + ixc = rlen
  /\ rlen <= IBufLen - HeaderLen /\ CheckLength(inf, rlen)
DecryptedBody ==
  /\ inf # Clear
  /\ ixa >= HeaderLen /\ ixa < ixb /\ ixc = 0

InShape ==
  /\ ixa <= ixb /\ ixb <= IBufLen
  /\ iomode # "FAILED" =>
       AwaitingHeader \/ ClearBody \/ AwaitingBody \/ DecryptedBody

Gathering ==
  /\ oxc = ReadyStart(outf) /\ oxc <= oxa /\ oxa < oxb
  /\ oxb <= PlainEnd(outf, HeaderLen, OBufLen - HeaderLen)
Sending == oxa = oxb /\ oxa < oxc /\ oxc <= OBufLen

OutShape == Gathering \/ Sending

Inv == TypeOK /\ InShape /\ OutShape

(* The offsets implement a channel of records.                             *)
Channel == INSTANCE RecordChannel WITH
  InCapacity <- IBufLen,
  OutCapacity <- OBufLen,
  open <- iomode # "FAILED",
  avail <- ixb - ixa,
  gath <- IF oxa = oxb THEN 0 ELSE oxa - oxc,
  fly <- IF oxa = oxb THEN pay ELSE -1

ImplementsChannel == Channel!ChannelSpec

=============================================================================

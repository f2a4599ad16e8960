----------------------------- MODULE SslEngine -----------------------------
(***************************************************************************)
(* The SSL engine of a client at the level of records and messages         *)
(* (src/src/bearssl/ssl_engine.c), with its handshake processor, a         *)
(* coroutine written in T0 (src/src/bearssl/ssl_hs_client.c).              *)
(*                                                                         *)
(* The engine calls the coroutine through jump_handshake, and the          *)
(* coroutine gives control back when it needs more input or an output      *)
(* buffer.  While hs.co is not "idle" the coroutine has control: only its  *)
(* steps, and those of the peer, can happen.                               *)
(*                                                                         *)
(* Input and output buffers are distinct; what happens inside them is      *)
(* the business of RecordBuffer.  Handshake messages and alerts are        *)
(* atomic, a record is received or sent as a whole, an alert record holds  *)
(* one alert, and keys are the number of the handshake they come from      *)
(* (0: no encryption).                                                     *)
(***************************************************************************)
EXTENDS Naturals, Sequences

CONSTANTS OutCap,           \* application data items in one record
          Ephemeral,        \* the cipher suites have a ServerKeyExchange
          ClientCert,       \* the client has a certificate to show
          NoRenegotiation   \* BR_OPT_NO_RENEGOTIATION

ASSUME EngineAssumption ==
  /\ OutCap \in Nat \ {0}
  /\ Ephemeral \in BOOLEAN /\ ClientCert \in BOOLEAN /\ NoRenegotiation \in BOOLEAN

VARIABLES eng,     \* the flags of br_ssl_engine_context
          hs,      \* the coroutine
          inrec,   \* what is unread of the current incoming record
          outbuf,  \* what is gathered for the next outgoing record
          outrec   \* the assembled outgoing record

engineVars == <<eng, hs, inrec, outbuf, outrec>>

-----------------------------------------------------------------------------
(* Records.  An item is a message, an alert, or a numbered piece of        *)
(* application data.                                                       *)

Types == {"change_cipher_spec", "alert", "handshake", "application_data"}
Msg(name) == [msg |-> name, n |-> 0]
Hello(name, ri) == [msg |-> name, n |-> IF ri THEN 1 ELSE 0]
Data(n) == [msg |-> "data", n |-> n]
IsData(item) == item.msg = "data"

Record(type, body, epoch) == [type |-> type, body |-> body, epoch |-> epoch]
NoRecord == Record("none", <<>>, 0)

-----------------------------------------------------------------------------
(* The coroutine's view of the engine.                                     *)

Running(pc) == hs.co = "running" /\ hs.pc = pc
HasInput == inrec.body # <<>> /\ inrec.type # "application_data"
OutputFree == outrec = NoRecord /\ outbuf = <<>>

(* br_ssl_engine_fail, then co: the first error is the one that is kept.   *)
Fail(err) ==
  /\ eng' = [eng EXCEPT !.closed = TRUE, !.err = err]
  /\ hs' = [hs EXCEPT !.co = "idle"]
  /\ UNCHANGED <<inrec, outbuf, outrec>>

(* jump_handshake: the processor gets the output buffer unless there is    *)
(* unfinished output in it.                                                *)
Jump(action) ==
  hs' = [hs EXCEPT !.co = "resumed", !.action = action, !.ate = FALSE,
                   !.can_output = (outrec' = NoRecord /\ outbuf' = <<>>)]

(* co: back to jump_handshake, which calls the processor again if it took  *)
(* all of the input.                                                       *)
Suspend(pc) ==
  /\ hs' = IF hs.ate /\ ~HasInput
           THEN [hs EXCEPT !.pc = pc, !.co = "resumed", !.action = 0,
                           !.ate = FALSE, !.can_output = OutputFree]
           ELSE [hs EXCEPT !.pc = pc, !.co = "idle", !.ate = FALSE]
  /\ UNCHANGED <<eng, inrec, outbuf, outrec>>

Goto(pc) == hs' = [hs EXCEPT !.co = "running", !.pc = pc]
GotoAte(pc) == hs' = [hs EXCEPT !.co = "running", !.pc = pc, !.ate = TRUE]
TakeInput == inrec' = [inrec EXCEPT !.body = Tail(@)]
DropInput == inrec' = [inrec EXCEPT !.body = <<>>]

(* flush-record, and the same after some last items.                       *)
Seal(body) ==
  IF outrec = NoRecord /\ body # <<>>
  THEN outrec' = Record(eng.record_type_out, body, eng.out_epoch) /\ outbuf' = <<>>
  ELSE UNCHANGED <<outrec, outbuf>>

(* The flight of one small record: set its type, write it, flush it.       *)
Emit(type, item) ==
  /\ outrec' = Record(type, <<item>>, eng.out_epoch)
  /\ UNCHANGED outbuf

-----------------------------------------------------------------------------
(* wait-co: what happens when the coroutine is resumed, wherever it waits, *)
(* except during closure.                                                  *)

Closing == {"close_out", "close_wait"}

CloseRequested ==
  /\ hs.action = 1
  /\ hs' = [hs EXCEPT !.co = "running", !.pc = "close", !.cnr = FALSE]
  /\ UNCHANGED <<eng, inrec, outbuf, outrec>>

AlertReceived ==
  /\ hs.action # 1 /\ HasInput /\ inrec.type = "alert"
  /\ LET alert == Head(inrec.body).msg IN
     \/ /\ alert \in {"fatal", "no_renegotiation"}
        /\ Fail(alert)
     \/ /\ alert = "close_notify"
        /\ eng' = [eng EXCEPT !.shutdown_recv = TRUE]
        /\ hs' = [hs EXCEPT !.co = "running", !.pc = "close", !.cnr = TRUE, !.ate = TRUE]
        /\ TakeInput /\ UNCHANGED <<outbuf, outrec>>
     \/ /\ alert = "warning"
        /\ GotoAte(hs.pc)
        /\ TakeInput /\ UNCHANGED <<eng, outbuf, outrec>>

Resumed ==
  /\ hs.action # 1
  /\ ~(HasInput /\ inrec.type = "alert")
  /\ Goto(hs.pc)
  /\ UNCHANGED <<eng, inrec, outbuf, outrec>>

(* Mutant: during closure the processor is resumed like at any other time. *)
wait_co_always == hs.co = "resumed" /\ (CloseRequested \/ AlertReceived \/ Resumed)

wait_co ==
  /\ hs.co = "resumed" /\ hs.pc \notin Closing
  /\ CloseRequested \/ AlertReceived \/ Resumed

-----------------------------------------------------------------------------
(* The main loop.  It suspends before it looks at anything.                *)

Main ==
  /\ Running("main")
  /\ \/ /\ HasInput /\ inrec.type = "handshake"
        /\ eng' = [eng EXCEPT !.application_data = 0]
        /\ Goto("read_HelloRequest")
        /\ UNCHANGED <<inrec, outbuf, outrec>>
     \/ /\ HasInput /\ inrec.type # "handshake"
        /\ Fail("UNEXPECTED")
     \/ /\ ~HasInput /\ hs.action = 2 /\ eng.application_data = 1
        /\ Goto("start")
        /\ UNCHANGED <<eng, inrec, outbuf, outrec>>
     \/ /\ ~HasInput /\ ~(hs.action = 2 /\ eng.application_data = 1)
        /\ Suspend("main")

(* Mutant: the record type is set for the first handshake only.            *)
StartHandshakeKeepsType ==
  /\ Running("start")
  /\ eng' = [eng EXCEPT !.application_data = 0,
                        !.record_type_out = IF @ = "none" THEN "handshake" ELSE @]
  /\ hs' = [hs EXCEPT !.pc = "write_ClientHello", !.auth = FALSE]
  /\ UNCHANGED <<inrec, outbuf, outrec>>

(* do-handshake, up to the ClientHello.                                    *)
StartHandshake ==
  /\ Running("start")
  /\ eng' = [eng EXCEPT !.application_data = 0, !.record_type_out = "handshake"]
  /\ hs' = [hs EXCEPT !.pc = "write_ClientHello", !.auth = FALSE]
  /\ UNCHANGED <<inrec, outbuf, outrec>>

(* Mutant: the ClientHello is written and not flushed.                     *)
WriteClientHelloUnflushed ==
  /\ Running("write_ClientHello")
  /\ \/ /\ hs.can_output
        /\ outbuf' = Append(outbuf, Msg("ClientHello"))
        /\ hs' = [hs EXCEPT !.pc = "read_ServerHello"]
        /\ UNCHANGED <<eng, inrec, outrec>>
     \/ ~hs.can_output /\ Suspend(hs.pc)

WriteClientHello ==
  /\ Running("write_ClientHello")
  /\ \/ /\ hs.can_output
        /\ Emit(eng.record_type_out, Msg("ClientHello"))
        /\ hs' = [hs EXCEPT !.pc = "read_ServerHello", !.can_output = FALSE]
        /\ UNCHANGED <<eng, inrec>>
     \/ ~hs.can_output /\ Suspend(hs.pc)

-----------------------------------------------------------------------------
(* Reading handshake messages.  While a handshake is going on,             *)
(* HelloRequest messages are skipped.                                      *)

Expected(pc) ==
  CASE pc = "read_ServerHello"       -> {"ServerHello", "ServerHelloResumed"}
    [] pc = "read_Certificate"       -> {"Certificate"}
    [] pc = "read_ServerKeyExchange" -> {"ServerKeyExchange"}
    [] pc = "read_ServerHelloDone"   ->
         {"ServerHelloDone"} \cup (IF hs.auth THEN {} ELSE {"CertificateRequest"})
    [] pc = "read_Finished"          -> {"Finished"}
    [] pc = "read_HelloRequest"      -> {"HelloRequest"}
    [] OTHER                         -> {}

Reading == hs.co = "running" /\ Expected(hs.pc) # {}

ReadWaits == Reading /\ ~HasInput /\ Suspend(hs.pc)

Incoming(name) ==
  Reading /\ HasInput /\ inrec.type = "handshake" /\ Head(inrec.body).msg = name

SkipHelloRequest ==
  /\ Incoming("HelloRequest") /\ hs.pc # "read_HelloRequest"
  /\ GotoAte(hs.pc)
  /\ TakeInput /\ UNCHANGED <<eng, outbuf, outrec>>

ReadUnexpected ==
  /\ Reading /\ HasInput
  /\ \/ inrec.type # "handshake"
     \/ Head(inrec.body).msg \notin Expected(hs.pc) \cup {"HelloRequest"}
  /\ Fail("UNEXPECTED")

(* The session is resumed if the server echoes its identifier; the         *)
(* extension of RFC 5746 says whether renegotiation is secure.             *)
ReadServerHello ==
  \E name \in {"ServerHello", "ServerHelloResumed"} :
    /\ Incoming(name) /\ hs.pc = "read_ServerHello"
    /\ LET ri == Head(inrec.body).n = 1
           resumes == name = "ServerHelloResumed" /\ eng.session
       IN  \/ /\ eng.reneg = 0 \/ ri = (eng.reneg = 2)
              /\ eng' = [eng EXCEPT !.session = TRUE, !.reneg = IF ri THEN 2 ELSE 1]
              /\ hs' = [hs EXCEPT !.resuming = resumes, !.ate = TRUE,
                          !.pc = IF resumes THEN "read_CCS" ELSE "read_Certificate"]
              /\ TakeInput /\ UNCHANGED <<outbuf, outrec>>
           \/ /\ eng.reneg # 0 /\ ri # (eng.reneg = 2)
              /\ Fail("BAD_SECRENEG")

ReadCertificate ==
  /\ Incoming("Certificate") /\ hs.pc = "read_Certificate"
  /\ GotoAte(IF Ephemeral THEN "read_ServerKeyExchange" ELSE "read_ServerHelloDone")
  /\ TakeInput /\ UNCHANGED <<eng, outbuf, outrec>>

ReadServerKeyExchange ==
  /\ Incoming("ServerKeyExchange") /\ hs.pc = "read_ServerKeyExchange"
  /\ GotoAte("read_ServerHelloDone")
  /\ TakeInput /\ UNCHANGED <<eng, outbuf, outrec>>

ReadCertificateRequest ==
  /\ Incoming("CertificateRequest") /\ hs.pc = "read_ServerHelloDone" /\ ~hs.auth
  /\ hs' = [hs EXCEPT !.auth = TRUE, !.ate = TRUE]
  /\ TakeInput /\ UNCHANGED <<eng, outbuf, outrec>>

(* Nothing may follow the ServerHelloDone.                                 *)
ReadServerHelloDone ==
  /\ Incoming("ServerHelloDone") /\ hs.pc = "read_ServerHelloDone"
  /\ \/ /\ Len(inrec.body) = 1
        /\ GotoAte(IF hs.auth THEN "write_Certificate" ELSE "write_ClientKeyExchange")
        /\ TakeInput /\ UNCHANGED <<eng, outbuf, outrec>>
     \/ Len(inrec.body) > 1 /\ Fail("UNEXPECTED")

(* read-CCS: the record that switches input to the new keys.               *)
ReadCCS ==
  /\ Running("read_CCS")
  /\ \/ ~HasInput /\ Suspend("read_CCS")
     \/ /\ HasInput /\ inrec.type = "change_cipher_spec"
        /\ eng' = [eng EXCEPT !.in_epoch = @ + 1]
        /\ GotoAte("read_Finished")
        /\ TakeInput /\ UNCHANGED <<outbuf, outrec>>
     \/ HasInput /\ inrec.type # "change_cipher_spec" /\ Fail("UNEXPECTED")

ReadFinished ==
  /\ Incoming("Finished") /\ hs.pc = "read_Finished"
  /\ GotoAte(IF hs.resuming THEN "flush" ELSE "done")
  /\ TakeInput /\ UNCHANGED <<eng, outbuf, outrec>>

(* Mutant: a server without RFC 5746 may renegotiate.                      *)
ReadHelloRequestAccepts ==
  /\ Incoming("HelloRequest") /\ hs.pc = "read_HelloRequest"
  /\ GotoAte(IF NoRenegotiation THEN "decline" ELSE "start")
  /\ TakeInput /\ UNCHANGED <<eng, outbuf, outrec>>

(* A HelloRequest outside of a handshake starts one, or is declined.       *)
ReadHelloRequest ==
  /\ Incoming("HelloRequest") /\ hs.pc = "read_HelloRequest"
  /\ GotoAte(IF eng.reneg = 1 \/ NoRenegotiation THEN "decline" ELSE "start")
  /\ TakeInput /\ UNCHANGED <<eng, outbuf, outrec>>

-----------------------------------------------------------------------------
(* Writing handshake messages.  A message may happen to fill the record.   *)

Flight ==
  [write_Certificate       |-> [item |-> Msg("Certificate"), next |-> "write_ClientKeyExchange"],
   write_ClientKeyExchange |->
     [item |-> Msg("ClientKeyExchange"),
      next |-> IF hs.auth /\ ClientCert THEN "write_CertificateVerify" ELSE "flush"],
   write_CertificateVerify |-> [item |-> Msg("CertificateVerify"), next |-> "flush"]]

WriteFlight ==
  /\ hs.co = "running" /\ hs.pc \in DOMAIN Flight
  /\ LET body == Append(outbuf, Flight[hs.pc].item) IN
     \/ /\ hs.can_output
        /\ outbuf' = body /\ UNCHANGED <<eng, inrec, outrec>>
        /\ Goto(Flight[hs.pc].next)
     \/ /\ hs.can_output
        /\ Seal(body) /\ UNCHANGED <<eng, inrec>>
        /\ hs' = [hs EXCEPT !.pc = Flight[hs.pc].next, !.can_output = FALSE]
     \/ ~hs.can_output /\ Suspend(hs.pc)

(* write-CCS-Finished: the pending record, if any, is sent first; output   *)
(* switches to the new keys after the ChangeCipherSpec.                    *)
FlushFlight ==
  /\ Running("flush")
  /\ Seal(outbuf)
  /\ hs' = [hs EXCEPT !.pc = "write_CCS", !.can_output = (outrec' = NoRecord)]
  /\ UNCHANGED <<eng, inrec>>

(* Mutant: the ChangeCipherSpec is already under the new keys.             *)
WriteCCSUnderNewKeys ==
  /\ Running("write_CCS")
  /\ \/ /\ hs.can_output
        /\ eng' = [eng EXCEPT !.record_type_out = "change_cipher_spec", !.out_epoch = @ + 1]
        /\ outrec' = Record("change_cipher_spec", <<Msg("ccs")>>, eng'.out_epoch)
        /\ hs' = [hs EXCEPT !.pc = "write_Finished", !.can_output = FALSE]
        /\ UNCHANGED <<inrec, outbuf>>
     \/ ~hs.can_output /\ Suspend(hs.pc)

WriteCCS ==
  /\ Running("write_CCS")
  /\ \/ /\ hs.can_output
        /\ Emit("change_cipher_spec", Msg("ccs"))
        /\ eng' = [eng EXCEPT !.record_type_out = "change_cipher_spec", !.out_epoch = @ + 1]
        /\ hs' = [hs EXCEPT !.pc = "write_Finished", !.can_output = FALSE]
        /\ UNCHANGED inrec
     \/ ~hs.can_output /\ Suspend(hs.pc)

(* Mutant: the handshake ends with our Finished, whoever spoke first.      *)
WriteFinishedLast ==
  /\ Running("write_Finished")
  /\ \/ /\ hs.can_output
        /\ Emit("handshake", Msg("Finished"))
        /\ eng' = [eng EXCEPT !.record_type_out = "handshake"]
        /\ hs' = [hs EXCEPT !.pc = "done", !.can_output = FALSE]
        /\ UNCHANGED inrec
     \/ ~hs.can_output /\ Suspend(hs.pc)

WriteFinished ==
  /\ Running("write_Finished")
  /\ \/ /\ hs.can_output
        /\ Emit("handshake", Msg("Finished"))
        /\ eng' = [eng EXCEPT !.record_type_out = "handshake"]
        /\ hs' = [hs EXCEPT !.pc = IF hs.resuming THEN "done" ELSE "read_CCS",
                            !.can_output = FALSE]
        /\ UNCHANGED inrec
     \/ ~hs.can_output /\ Suspend(hs.pc)

OpenChannel == [eng EXCEPT !.application_data = 1, !.record_type_out = "application_data"]

HandshakeDone ==
  /\ Running("done")
  /\ eng' = OpenChannel
  /\ Goto("enter_main")
  /\ UNCHANGED <<inrec, outbuf, outrec>>

EnterMain == Running("enter_main") /\ Suspend("main")

(* The answer to a HelloRequest that is declined.                          *)
Decline ==
  /\ Running("decline")
  /\ Seal(outbuf)
  /\ hs' = [hs EXCEPT !.pc = "write_no_renegotiation", !.can_output = (outrec' = NoRecord)]
  /\ UNCHANGED <<eng, inrec>>

WriteNoRenegotiation ==
  /\ Running("write_no_renegotiation")
  /\ \/ /\ hs.can_output
        /\ Emit("alert", Msg("no_renegotiation"))
        /\ eng' = OpenChannel
        /\ hs' = [hs EXCEPT !.pc = "enter_main", !.can_output = FALSE]
        /\ UNCHANGED inrec
     \/ ~hs.can_output /\ Suspend(hs.pc)

-----------------------------------------------------------------------------
(* do-close: application data is refused (close_notify received) or        *)
(* discarded (not yet received), what is pending is sent, then our         *)
(* close_notify; the engine closes once both alerts went through.          *)

StartClose ==
  /\ Running("close")
  /\ eng' = [eng EXCEPT !.application_data = IF hs.cnr THEN 0 ELSE 2 * @]
  /\ Seal(outbuf)
  /\ hs' = [hs EXCEPT !.pc = "close_out", !.can_output = (outrec' = NoRecord)]
  /\ UNCHANGED inrec

WriteCloseNotify ==
  /\ Running("close_out")
  /\ \/ /\ hs.can_output
        /\ Emit("alert", Msg("close_notify"))
        /\ eng' = [eng EXCEPT !.record_type_out = "alert"]
        /\ hs' = [hs EXCEPT !.pc = "close_wait", !.can_output = FALSE]
        /\ UNCHANGED inrec
     \/ ~hs.can_output /\ Suspend(hs.pc)

(* Mutant: our close_notify is enough.                                     *)
AwaitCloseNotifyUnanswered ==
  /\ Running("close_wait")
  /\ \/ hs.can_output /\ Fail("OK")
     \/ ~hs.can_output /\ Suspend("close_wait")

AwaitCloseNotify ==
  /\ Running("close_wait")
  /\ \/ hs.cnr /\ hs.can_output /\ Fail("OK")
     \/ ~(hs.cnr /\ hs.can_output) /\ Suspend("close_wait")

(* Mutant: the answer to our close_notify is not taken note of.            *)
CloseAlertReceivedForgets ==
  /\ HasInput /\ ~hs.cnr /\ inrec.type = "alert"
  /\ LET alert == Head(inrec.body).msg IN
     \/ alert \in {"fatal", "no_renegotiation"} /\ Fail(alert)
     \/ /\ alert \in {"warning", "close_notify"}
        /\ eng' = [eng EXCEPT !.application_data = 0,
                              !.shutdown_recv = @ \/ alert = "close_notify"]
        /\ GotoAte(hs.pc)
        /\ TakeInput /\ UNCHANGED <<outbuf, outrec>>

(* wait-for-close: how the coroutine is resumed during closure.            *)
CloseAlertReceived ==
  /\ HasInput /\ ~hs.cnr /\ inrec.type = "alert"
  /\ LET alert == Head(inrec.body).msg IN
     \/ alert \in {"fatal", "no_renegotiation"} /\ Fail(alert)
     \/ /\ alert \in {"warning", "close_notify"}
        /\ eng' = [eng EXCEPT !.application_data = 0,
                              !.shutdown_recv = @ \/ alert = "close_notify"]
        /\ hs' = [hs EXCEPT !.co = "running", !.ate = TRUE, !.cnr = (alert = "close_notify")]
        /\ TakeInput /\ UNCHANGED <<outbuf, outrec>>

wait_for_close ==
  /\ hs.co = "resumed" /\ hs.pc \in Closing
  /\ \/ CloseAlertReceived
     \/ /\ HasInput /\ ~hs.cnr /\ inrec.type # "alert"
        /\ GotoAte(hs.pc) /\ DropInput /\ UNCHANGED <<eng, outbuf, outrec>>
     \/ /\ ~HasInput \/ hs.cnr
        /\ Goto(hs.pc) /\ UNCHANGED <<eng, inrec, outbuf, outrec>>

-----------------------------------------------------------------------------
HandshakeStep ==
  \/ wait_co \/ wait_for_close
  \/ Main \/ StartHandshake \/ WriteClientHello
  \/ ReadWaits \/ SkipHelloRequest \/ ReadUnexpected
  \/ ReadServerHello \/ ReadCertificate \/ ReadServerKeyExchange
  \/ ReadCertificateRequest \/ ReadServerHelloDone
  \/ ReadCCS \/ ReadFinished \/ ReadHelloRequest
  \/ WriteFlight \/ FlushFlight \/ WriteCCS \/ WriteFinished
  \/ HandshakeDone \/ EnterMain \/ Decline \/ WriteNoRenegotiation
  \/ StartClose \/ WriteCloseNotify \/ AwaitCloseNotify

-----------------------------------------------------------------------------
(* The engine's interface.  Every call finds the coroutine suspended.      *)

Idle == hs.co = "idle"
SENDREC == ~eng.closed /\ outrec # NoRecord
(* Mutant: a record is received over the unread end of the last one.       *)
RECVREC_overwrites == ~eng.closed /\ ~eng.shutdown_recv
RECVREC == ~eng.closed /\ ~eng.shutdown_recv /\ inrec.body = <<>>
SENDAPP == ~eng.closed /\ eng.application_data = 1 /\ outrec = NoRecord
RECVAPP == ~eng.closed /\ eng.application_data = 1
             /\ inrec.type = "application_data" /\ inrec.body # <<>>

(* Mutant: the processor does not learn that its record was sent.          *)
sendrec_ack_silent ==
  /\ outrec' = NoRecord
  /\ UNCHANGED <<eng, hs, inrec, outbuf>>

(* sendrec_ack of a whole record.                                          *)
sendrec_ack ==
  /\ outrec' = NoRecord
  /\ UNCHANGED <<eng, inrec, outbuf>>
  /\ IF eng.record_type_out # "application_data" \/ eng.application_data # 1
     THEN Jump(0) ELSE UNCHANGED hs

(* recvrec_ack of a whole record.                                          *)
RecvBadRecord(rec) == rec.epoch # eng.in_epoch /\ Fail("BAD_MAC")

RecvHandshake(rec) ==
  /\ rec.epoch = eng.in_epoch /\ rec.type # "application_data"
  /\ inrec' = rec
  /\ UNCHANGED <<eng, outbuf, outrec>>
  /\ Jump(0)

RecvData(rec) ==
  /\ rec.epoch = eng.in_epoch /\ rec.type = "application_data"
  /\ \/ /\ eng.application_data = 1
        /\ inrec' = rec /\ UNCHANGED <<eng, hs, outbuf, outrec>>
     \/ /\ eng.application_data = 2
        /\ UNCHANGED engineVars
     \/ /\ eng.application_data = 0
        /\ Fail("UNEXPECTED")

recvrec_ack(rec) == RecvBadRecord(rec) \/ RecvHandshake(rec) \/ RecvData(rec)

sendapp_ack(items) ==
  /\ IF Len(outbuf \o items) = OutCap
     THEN Seal(outbuf \o items)
     ELSE outbuf' = outbuf \o items /\ UNCHANGED outrec
  /\ UNCHANGED <<eng, hs, inrec>>

recvapp_ack == DropInput /\ UNCHANGED <<eng, hs, outbuf, outrec>>

(* Mutant: the data waits for the record to fill up.                       *)
engine_flush_lazy == UNCHANGED engineVars

(* br_ssl_engine_flush, not forced.                                        *)
engine_flush ==
  /\ IF ~eng.closed /\ eng.application_data = 1
     THEN Seal(outbuf) ELSE UNCHANGED <<outbuf, outrec>>
  /\ UNCHANGED <<eng, hs, inrec>>

engine_close ==
  /\ UNCHANGED <<eng, inrec, outbuf, outrec>>
  /\ IF eng.closed THEN UNCHANGED hs ELSE Jump(1)

MayRenegotiate == ~eng.closed /\ eng.reneg # 1 /\ ~NoRenegotiation /\ ~RECVAPP

engine_renegotiate ==
  /\ UNCHANGED <<eng, inrec, outbuf, outrec>>
  /\ IF MayRenegotiate THEN Jump(2) ELSE UNCHANGED hs

(* br_ssl_client_reset: a fresh engine, whose coroutine starts at once.    *)
FreshEngine ==
  [closed |-> FALSE, err |-> "OK", application_data |-> 0,
   record_type_out |-> "none", shutdown_recv |-> FALSE, reneg |-> 0,
   session |-> FALSE, in_epoch |-> 0, out_epoch |-> 0]

(* Mutant: what the last connection did not send stays in the buffer.      *)
client_reset_keeps_output ==
  /\ eng' = FreshEngine
  /\ hs' = [co |-> "running", pc |-> "start", action |-> 0, ate |-> FALSE,
            can_output |-> TRUE, cnr |-> FALSE, auth |-> FALSE, resuming |-> FALSE]
  /\ inrec' = NoRecord
  /\ UNCHANGED <<outbuf, outrec>>

client_reset ==
  /\ eng' = FreshEngine
  /\ hs' = [co |-> "running", pc |-> "start", action |-> 0, ate |-> FALSE,
            can_output |-> TRUE, cnr |-> FALSE, auth |-> FALSE, resuming |-> FALSE]
  /\ inrec' = NoRecord /\ outbuf' = <<>> /\ outrec' = NoRecord

(* Before the first connection, no buffer is set and nothing runs.         *)
EngineInit ==
  /\ eng = [FreshEngine EXCEPT !.closed = TRUE]
  /\ hs = [co |-> "idle", pc |-> "start", action |-> 0, ate |-> FALSE,
           can_output |-> FALSE, cnr |-> FALSE, auth |-> FALSE, resuming |-> FALSE]
  /\ inrec = NoRecord /\ outbuf = <<>> /\ outrec = NoRecord

=============================================================================

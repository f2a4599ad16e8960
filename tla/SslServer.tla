----------------------------- MODULE SslServer -----------------------------
(***************************************************************************)
(* The server side of the engine: the handshake processor of               *)
(* ssl_hs_server.c, on the engine of ssl_engine.c that client and server   *)
(* share (E, an instance of SslEngine with variables of its own: what the  *)
(* two processors have in common, such as wait-co, the closure and the     *)
(* ChangeCipherSpec, is taken from there).                                 *)
(*                                                                         *)
(* Abstractions are those of SslEngine.  What the hellos and the key       *)
(* exchange say beyond their order is in wire; whether a cached session is *)
(* resumed and whether the hello is refused are choices here, and computed *)
(* in Negotiation.                                                         *)
(***************************************************************************)
EXTENDS Naturals, Sequences

CONSTANTS OutCap, Ephemeral, ClientCert   \* as in SslEngine

VARIABLES seng, shs, sinrec, soutbuf, soutrec,   \* as in SslEngine
          opts,   \* what the server is configured for
          svr,    \* its session parameters and session cache
          wire    \* contents of the messages under way

E == INSTANCE SslEngine WITH
  eng <- seng, hs <- shs, inrec <- sinrec, outbuf <- soutbuf, outrec <- soutrec,
  NoRenegotiation <- FALSE

serverVars == <<seng, shs, sinrec, soutbuf, soutrec, opts, svr, wire>>
unmoved == <<opts, svr, wire>>

(* The kind of key exchange, whether a client certificate is asked for     *)
(* (trust anchors are set), whether its lack is tolerated, and whether     *)
(* renegotiations are refused.                                             *)
Options ==
  [kx : {"ECDHE", "ECDH", "RSA"}, asks : BOOLEAN, tolerant : BOOLEAN, noreneg : BOOLEAN]

-----------------------------------------------------------------------------
(* The main loop.  A HelloRequest leaves application data off until the    *)
(* client answers with a ClientHello.                                      *)

(* Mutant: a renegotiation is accepted from any client.                    *)
ServerMainAccepts ==
  /\ E!Running("main")
  /\ \/ /\ E!HasInput /\ sinrec.type = "handshake"
        /\ E!Goto(IF opts.noreneg THEN "read_declined" ELSE "start")
        /\ UNCHANGED <<seng, sinrec, soutbuf, soutrec>>
     \/ /\ E!HasInput /\ sinrec.type # "handshake"
        /\ E!Fail("UNEXPECTED")
     \/ /\ ~E!HasInput /\ shs.action = 2 /\ seng.application_data = 1
        /\ seng' = [seng EXCEPT !.application_data = 0]
        /\ E!Goto("request")
        /\ UNCHANGED <<sinrec, soutbuf, soutrec>>
     \/ /\ ~E!HasInput /\ ~(shs.action = 2 /\ seng.application_data = 1)
        /\ E!Suspend("main")
  /\ UNCHANGED unmoved

ServerMain ==
  /\ E!Running("main")
  /\ \/ /\ E!HasInput /\ sinrec.type = "handshake"
        /\ E!Goto(IF seng.reneg = 1 \/ opts.noreneg THEN "read_declined" ELSE "start")
        /\ UNCHANGED <<seng, sinrec, soutbuf, soutrec>>
     \/ /\ E!HasInput /\ sinrec.type # "handshake"
        /\ E!Fail("UNEXPECTED")
     \/ /\ ~E!HasInput /\ shs.action = 2 /\ seng.application_data = 1
        /\ seng' = [seng EXCEPT !.application_data = 0]
        /\ E!Goto("request")
        /\ UNCHANGED <<sinrec, soutbuf, soutrec>>
     \/ /\ ~E!HasInput /\ ~(shs.action = 2 /\ seng.application_data = 1)
        /\ E!Suspend("main")
  /\ UNCHANGED unmoved

(* send-HelloRequest                                                       *)
FlushRequest ==
  /\ E!Running("request")
  /\ E!Seal(soutbuf)
  /\ shs' = [shs EXCEPT !.pc = "write_HelloRequest", !.can_output = (soutrec' = E!NoRecord)]
  /\ UNCHANGED <<seng, sinrec>> /\ UNCHANGED unmoved

WriteHelloRequest ==
  /\ E!Running("write_HelloRequest")
  /\ \/ /\ shs.can_output
        /\ E!Emit("handshake", E!Msg("HelloRequest"))
        /\ seng' = [seng EXCEPT !.record_type_out = "application_data"]
        /\ shs' = [shs EXCEPT !.pc = "enter_main", !.can_output = FALSE]
        /\ UNCHANGED sinrec
     \/ ~shs.can_output /\ E!Suspend(shs.pc)
  /\ UNCHANGED unmoved

-----------------------------------------------------------------------------
(* Reading.  HelloRequest messages are skipped, except where a ClientHello *)
(* is about to be declined.                                                *)

ExpectedOf ==
  [read_ClientHello |-> {"ClientHello"}, read_declined |-> {"ClientHello"},
   read_Certificate |-> {"Certificate"},
   read_ClientKeyExchange |-> {"ClientKeyExchange", "EmptyKeyExchange"},
   read_CertificateVerify |-> {"CertificateVerify"}, skip_CertificateVerify |-> {"CertificateVerify"},
   read_Finished |-> {"Finished"}]

ServerReading == shs.co = "running" /\ shs.pc \in DOMAIN ExpectedOf
ServerReads(pc, name) ==
  /\ E!Running(pc) /\ E!HasInput /\ sinrec.type = "handshake" /\ Head(sinrec.body).msg = name
ReadOn(pc) == E!GotoAte(pc) /\ E!TakeInput /\ UNCHANGED <<soutbuf, soutrec>>

ServerReadWaits ==
  ServerReading /\ ~E!HasInput /\ E!Suspend(shs.pc) /\ UNCHANGED unmoved

ServerSkips ==
  /\ ServerReading /\ shs.pc # "read_declined"
  /\ E!HasInput /\ sinrec.type = "handshake" /\ Head(sinrec.body).msg = "HelloRequest"
  /\ ReadOn(shs.pc) /\ UNCHANGED seng /\ UNCHANGED unmoved

ServerReadUnexpected ==
  /\ ServerReading /\ E!HasInput
  /\ \/ sinrec.type # "handshake"
     \/ Head(sinrec.body).msg \notin
          ExpectedOf[shs.pc] \cup (IF shs.pc = "read_declined" THEN {} ELSE {"HelloRequest"})
  /\ E!Fail("UNEXPECTED") /\ UNCHANGED unmoved

(* The refusal of a renegotiation: the ClientHello is skipped.             *)
SkipClientHello ==
  /\ ServerReads("read_declined", "ClientHello")
  /\ ReadOn("decline") /\ UNCHANGED seng /\ UNCHANGED unmoved

ServerDecline == E!Decline /\ UNCHANGED unmoved
WriteRefusal == E!WriteNoRenegotiation /\ UNCHANGED unmoved

(* do-handshake                                                            *)
ServerStart ==
  /\ E!Running("start")
  /\ seng' = [seng EXCEPT !.application_data = 0, !.record_type_out = "handshake"]
  /\ E!Goto("read_ClientHello")
  /\ UNCHANGED <<sinrec, soutbuf, soutrec>> /\ UNCHANGED unmoved

(* Mutant: the extension is expected to be empty in every handshake.       *)
SecureRenegotiationEmpty(hello) ==
  CASE hello.ri = "scsv" -> IF seng.reneg = 0 THEN 2 ELSE 3
    [] hello.ri = "extension" -> IF hello.finished = 0 /\ seng.reneg # 1 THEN 2 ELSE 3
    [] OTHER -> IF seng.reneg = 0 THEN 1 ELSE seng.reneg

(* RFC 5746, by its extension, which quotes the last Finished, or by the   *)
(* value in the list of suites (rneg-scsv).                                *)
SecureRenegotiation(hello) ==
  CASE hello.ri = "scsv" -> IF seng.reneg = 0 THEN 2 ELSE 3
    [] hello.ri = "extension" ->
         IF hello.finished = (IF seng.reneg = 2 THEN seng.in_epoch ELSE 0) /\ seng.reneg # 1 THEN 2 ELSE 3
    [] OTHER -> IF seng.reneg = 0 THEN 1 ELSE seng.reneg

(* Mutant: a resumed session gets the secret of the one before.            *)
ReadClientHelloStale(hello) ==
  /\ ServerReads("read_ClientHello", "ClientHello")
  /\ LET reneg == SecureRenegotiation(hello)
         resumed(id) == id = hello.id /\ id \in DOMAIN svr.cache
     IN  \/ /\ reneg = 3
            /\ E!Fail("BAD_SECRENEG") /\ UNCHANGED svr
         \/ /\ reneg # 3 /\ Len(sinrec.body) = 1
            /\ \E id \in {svr.next} \cup (DOMAIN svr.cache \cap {hello.id}) :
                 /\ svr' = [svr EXCEPT !.id = id, !.next = IF resumed(id) THEN @ ELSE @ + 1]
                 /\ shs' = [shs EXCEPT !.pc = "write_ServerHello", !.resuming = resumed(id), !.ate = TRUE]
            /\ seng' = [seng EXCEPT !.reneg = reneg]
            /\ E!TakeInput /\ UNCHANGED <<soutbuf, soutrec>>
  /\ UNCHANGED <<opts, wire>>

(* Nothing may follow the ClientHello.  The session identifier is taken    *)
(* over, a cached session is resumed or not, a new one gets an identifier. *)
ReadClientHello(hello) ==
  /\ ServerReads("read_ClientHello", "ClientHello")
  /\ LET reneg == SecureRenegotiation(hello)
         cached == hello.id \in DOMAIN svr.cache
     IN  \/ /\ reneg = 3
            /\ E!Fail("BAD_SECRENEG") /\ UNCHANGED svr
         \/ /\ reneg # 3 /\ Len(sinrec.body) > 1
            /\ E!Fail("UNEXPECTED") /\ UNCHANGED svr
         \/ /\ reneg # 3 /\ Len(sinrec.body) = 1 /\ cached
            /\ svr' = [svr EXCEPT !.id = hello.id, !.secret = svr.cache[hello.id]]
            /\ seng' = [seng EXCEPT !.reneg = reneg]
            /\ shs' = [shs EXCEPT !.pc = "write_ServerHello", !.resuming = TRUE, !.ate = TRUE]
            /\ E!TakeInput /\ UNCHANGED <<soutbuf, soutrec>>
         \/ /\ reneg # 3 /\ Len(sinrec.body) = 1
            /\ svr' = [svr EXCEPT !.id = svr.next, !.next = @ + 1,
                                  !.secret = IF cached THEN svr.cache[hello.id] ELSE @]
            /\ seng' = [seng EXCEPT !.reneg = reneg]
            /\ shs' = [shs EXCEPT !.pc = "write_ServerHello", !.resuming = FALSE, !.ate = TRUE]
            /\ E!TakeInput /\ UNCHANGED <<soutbuf, soutrec>>
         \/ /\ reneg # 3
            /\ svr' = [svr EXCEPT !.id = hello.id, !.secret = IF cached THEN svr.cache[hello.id] ELSE @]
            /\ seng' = [seng EXCEPT !.reneg = reneg]
            /\ ReadOn("refuse")
  /\ UNCHANGED <<opts, wire>>

(* fail-alert: a fatal alert goes out before the engine fails.             *)
Refuse ==
  /\ E!Running("refuse")
  /\ E!Seal(soutbuf)
  /\ shs' = [shs EXCEPT !.pc = "write_fatal", !.can_output = (soutrec' = E!NoRecord)]
  /\ UNCHANGED <<seng, sinrec>> /\ UNCHANGED unmoved

WriteFatal ==
  /\ E!Running("write_fatal")
  /\ \/ /\ shs.can_output
        /\ E!Emit("alert", E!Msg("fatal"))
        /\ seng' = [seng EXCEPT !.record_type_out = "alert"]
        /\ shs' = [shs EXCEPT !.pc = "sent_fatal", !.can_output = FALSE]
        /\ UNCHANGED sinrec
     \/ ~shs.can_output /\ E!Suspend(shs.pc)
  /\ UNCHANGED unmoved

FatalSent ==
  /\ E!Running("sent_fatal")
  /\ IF shs.can_output THEN E!Fail("REFUSED") ELSE E!Suspend(shs.pc)
  /\ UNCHANGED unmoved

-----------------------------------------------------------------------------
(* The flight of the server.  A message may happen to fill the record.     *)

AfterHello == IF shs.resuming THEN "flush" ELSE "write_Certificate"
AfterCertificate ==
  IF opts.kx = "ECDHE" THEN "write_ServerKeyExchange"
  ELSE IF opts.asks THEN "write_CertificateRequest" ELSE "write_ServerHelloDone"

ServerFlight ==
  [write_ServerHello |->
     [item |-> E!Hello(IF shs.resuming THEN "ServerHelloResumed" ELSE "ServerHello", seng.reneg = 2),
      next |-> AfterHello],
   write_Certificate |-> [item |-> E!Msg("Certificate"), next |-> AfterCertificate],
   write_ServerKeyExchange |->
     [item |-> E!Msg("ServerKeyExchange"),
      next |-> IF opts.asks THEN "write_CertificateRequest" ELSE "write_ServerHelloDone"],
   write_CertificateRequest |-> [item |-> E!Msg("CertificateRequest"), next |-> "write_ServerHelloDone"],
   write_ServerHelloDone |-> [item |-> E!Msg("ServerHelloDone"), next |-> "flush_flight"]]

WriteServerFlight ==
  /\ shs.co = "running" /\ shs.pc \in DOMAIN ServerFlight
  /\ LET body == Append(soutbuf, ServerFlight[shs.pc].item)
         next == ServerFlight[shs.pc].next
     IN  \/ /\ shs.can_output
            /\ soutbuf' = body /\ UNCHANGED <<seng, sinrec, soutrec>>
            /\ E!Goto(next)
         \/ /\ shs.can_output
            /\ E!Seal(body) /\ UNCHANGED <<seng, sinrec>>
            /\ shs' = [shs EXCEPT !.pc = next, !.can_output = FALSE]
         \/ ~shs.can_output /\ E!Suspend(shs.pc)
  /\ wire' = IF shs.pc = "write_ServerHello" THEN [wire EXCEPT !.granted = svr.id] ELSE wire
  /\ UNCHANGED <<opts, svr>>

EndFlight ==
  /\ E!Running("flush_flight")
  /\ E!Seal(soutbuf)
  /\ shs' = [shs EXCEPT !.pc = IF opts.asks THEN "read_Certificate" ELSE "read_ClientKeyExchange",
                        !.can_output = (soutrec' = E!NoRecord)]
  /\ UNCHANGED <<seng, sinrec>> /\ UNCHANGED unmoved

-----------------------------------------------------------------------------
(* The flight of the client.  Its certificate is missing, not valid, or    *)
(* good for signatures or for a static key exchange.                       *)

Verdicts == {"none", "invalid", "sign", "ecdh", "both"}
Signs == svr.cert \in {"sign", "both"}

(* Mutant: only a missing certificate is refused.                          *)
ReadClientCertificateMissing(verdict) ==
  /\ ServerReads("read_Certificate", "Certificate")
  /\ \/ /\ verdict = "none" /\ ~opts.tolerant
        /\ E!Fail("NO_CLIENT_AUTH") /\ UNCHANGED svr
     \/ /\ verdict # "none" \/ opts.tolerant
        /\ svr' = [svr EXCEPT !.cert = verdict]
        /\ ReadOn("read_ClientKeyExchange") /\ UNCHANGED seng
  /\ UNCHANGED <<opts, wire>>

ReadClientCertificate(verdict) ==
  /\ ServerReads("read_Certificate", "Certificate")
  /\ \/ /\ verdict \in {"none", "invalid"} /\ ~opts.tolerant
        /\ E!Fail("NO_CLIENT_AUTH") /\ UNCHANGED svr
     \/ /\ verdict \notin {"none", "invalid"} \/ opts.tolerant
        /\ svr' = [svr EXCEPT !.cert = verdict]
        /\ ReadOn("read_ClientKeyExchange") /\ UNCHANGED seng
  /\ UNCHANGED <<opts, wire>>

(* Each end has its secret now.  Which signature follows depends on the    *)
(* certificate; the one of a certificate that is not valid is skipped.     *)
AfterKeyExchange ==
  CASE Signs -> "read_CertificateVerify"
    [] svr.cert = "invalid" -> "skip_CertificateVerify"
    [] OTHER -> "read_CCS"

ReadKeyExchange ==
  /\ ServerReads("read_ClientKeyExchange", "ClientKeyExchange")
  /\ svr' = [svr EXCEPT !.secret = wire.premaster]
  /\ IF svr.cert = "ecdh" THEN E!Fail("WRONG_KEY_USAGE")
     ELSE ReadOn(AfterKeyExchange) /\ UNCHANGED seng
  /\ UNCHANGED <<opts, wire>>

(* do-static-ecdh: an empty ClientKeyExchange uses the key of the          *)
(* certificate, which then needs no signature.                             *)
ReadEmptyKeyExchange ==
  /\ ServerReads("read_ClientKeyExchange", "EmptyKeyExchange")
  /\ \/ /\ svr.cert \in {"ecdh", "both"} /\ opts.kx = "ECDH"
        /\ svr' = [svr EXCEPT !.secret = wire.premaster]
        /\ ReadOn("read_CCS") /\ UNCHANGED seng
     \/ /\ ~(svr.cert \in {"ecdh", "both"} /\ opts.kx = "ECDH")
        /\ E!Fail("UNEXPECTED") /\ UNCHANGED svr
  /\ UNCHANGED <<opts, wire>>

(* The signature is verified with the key of the certificate.              *)
ReadCertificateVerify(genuine) ==
  /\ ServerReads("read_CertificateVerify", "CertificateVerify")
  /\ IF genuine THEN ReadOn("read_CCS") /\ UNCHANGED seng ELSE E!Fail("BAD_SIGNATURE")
  /\ UNCHANGED unmoved

SkipCertificateVerify ==
  /\ ServerReads("skip_CertificateVerify", "CertificateVerify")
  /\ ReadOn("read_CCS") /\ UNCHANGED seng /\ UNCHANGED unmoved

-----------------------------------------------------------------------------
(* The end of the handshake: in a new session the client finishes first,   *)
(* in a resumed one the server does.                                       *)

ServerReadCCS == E!ReadCCS /\ UNCHANGED unmoved
ServerFlush == E!FlushFlight /\ UNCHANGED unmoved
ServerWriteCCS == E!WriteCCS /\ UNCHANGED unmoved

ReadClientFinished(genuine) ==
  /\ ServerReads("read_Finished", "Finished")
  /\ IF genuine THEN ReadOn(IF shs.resuming THEN "done" ELSE "flush") /\ UNCHANGED seng
     ELSE E!Fail("BAD_FINISHED")
  /\ UNCHANGED unmoved

(* Mutant: the handshake ends with our Finished, whoever spoke first.      *)
ServerWriteFinishedLast ==
  /\ E!Running("write_Finished")
  /\ \/ /\ shs.can_output
        /\ E!Emit("handshake", E!Msg("Finished"))
        /\ seng' = [seng EXCEPT !.record_type_out = "handshake"]
        /\ shs' = [shs EXCEPT !.pc = "done", !.can_output = FALSE]
        /\ UNCHANGED sinrec
     \/ ~shs.can_output /\ E!Suspend(shs.pc)
  /\ UNCHANGED unmoved

ServerWriteFinished ==
  /\ E!Running("write_Finished")
  /\ \/ /\ shs.can_output
        /\ E!Emit("handshake", E!Msg("Finished"))
        /\ seng' = [seng EXCEPT !.record_type_out = "handshake"]
        /\ shs' = [shs EXCEPT !.pc = IF shs.resuming THEN "read_CCS" ELSE "done",
                              !.can_output = FALSE]
        /\ UNCHANGED sinrec
     \/ ~shs.can_output /\ E!Suspend(shs.pc)
  /\ UNCHANGED unmoved

(* A new session is saved (save-session).                                  *)
ServerDone ==
  /\ E!HandshakeDone
  /\ svr' = [svr EXCEPT !.cert = "none",
               !.cache = IF shs.resuming \/ svr.id \in DOMAIN @ THEN @
                         ELSE [i \in DOMAIN @ \cup {svr.id} |-> IF i = svr.id THEN svr.secret ELSE @[i]]]
  /\ UNCHANGED <<opts, wire>>

ServerEnterMain == E!EnterMain /\ UNCHANGED unmoved

-----------------------------------------------------------------------------
ServerStep(hellos, verdicts, genuine) ==
  \/ E!wait_co /\ UNCHANGED unmoved
  \/ E!wait_for_close /\ UNCHANGED unmoved
  \/ ServerMain \/ FlushRequest \/ WriteHelloRequest
  \/ ServerReadWaits \/ ServerSkips \/ ServerReadUnexpected
  \/ SkipClientHello \/ ServerDecline \/ WriteRefusal
  \/ ServerStart \/ (\E hello \in hellos : ReadClientHello(hello))
  \/ Refuse \/ WriteFatal \/ FatalSent
  \/ WriteServerFlight \/ EndFlight
  \/ (\E verdict \in verdicts : ReadClientCertificate(verdict))
  \/ ReadKeyExchange \/ ReadEmptyKeyExchange
  \/ (\E ok \in genuine : ReadCertificateVerify(ok) \/ ReadClientFinished(ok))
  \/ SkipCertificateVerify
  \/ ServerReadCCS \/ ServerFlush \/ ServerWriteCCS \/ ServerWriteFinished
  \/ ServerDone \/ ServerEnterMain
  \/ E!StartClose /\ UNCHANGED unmoved
  \/ E!WriteCloseNotify /\ UNCHANGED unmoved
  \/ E!AwaitCloseNotify /\ UNCHANGED unmoved

(* br_ssl_server_reset: the session cache stays.                           *)
server_reset ==
  /\ E!client_reset
  /\ svr' = [svr EXCEPT !.cert = "none"]
  /\ UNCHANGED <<opts, wire>>

(* br_ssl_engine_renegotiate of a server.                                  *)
server_renegotiate ==
  /\ IF opts.noreneg THEN UNCHANGED <<seng, shs, sinrec, soutbuf, soutrec>> ELSE E!engine_renegotiate
  /\ UNCHANGED unmoved
=============================================================================

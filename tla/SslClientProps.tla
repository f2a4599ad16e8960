---------------------------- MODULE SslClientProps ----------------------------
(***************************************************************************)
(* The properties of the client.  First those of the engine and of its     *)
(* handshake processor, which hold whatever the peer sends and whatever is *)
(* called; then those of engine, handshake processor, br_sslio and         *)
(* BearSSLClient together, with a peer.                                    *)
(***************************************************************************)
EXTENDS BearSSLClient

(* The flags of the engine and the state of the coroutine have their types.*)
Alerts == {"fatal", "no_renegotiation"}
Errors == {"OK", "IO", "UNEXPECTED", "BAD_MAC", "BAD_SECRENEG"} \cup Alerts
AtHello == {"start", "write_ClientHello", "read_ServerHello"}
Negotiating ==
  {"read_Certificate", "read_ServerKeyExchange", "read_ServerHelloDone",
   "write_Certificate", "write_ClientKeyExchange", "write_CertificateVerify"}
ChangingKeys == {"flush", "write_CCS", "write_Finished", "read_CCS", "read_Finished"}
InSession ==
  {"done", "enter_main", "main", "read_HelloRequest", "decline", "write_no_renegotiation"}
Locations == AtHello \cup Negotiating \cup ChangingKeys \cup InSession \cup {"close"} \cup Closing

EngineFlags ==
  [closed : BOOLEAN, err : Errors, application_data : 0 .. 2,
   record_type_out : Types \cup {"none"}, shutdown_recv : BOOLEAN,
   reneg : 0 .. 2, session : BOOLEAN, in_epoch : Nat, out_epoch : Nat]

Coroutines ==
  [co : {"idle", "resumed", "running"}, pc : Locations, action : 0 .. 2,
   ate : BOOLEAN, can_output : BOOLEAN, cnr : BOOLEAN, auth : BOOLEAN,
   resuming : BOOLEAN]

EngineTypeOK == eng \in EngineFlags /\ hs \in Coroutines

-----------------------------------------------------------------------------
(* "The handshake processor never leaves an unfinished outgoing record, so *)
(* if there is buffered output, then it MUST be some application data"     *)
(* (jump_handshake).                                                       *)
OnlyData == \A i \in DOMAIN outbuf : IsData(outbuf[i])
NoUnfinishedMessage == Idle => OnlyData

(* There is no renegotiation with a server that does not support the secure*)
(* one of RFC 5746, whoever asks for it and when.                          *)
NoInsecureRenegotiation ==
  eng.reneg = 1 => eng.in_epoch <= 1 /\ eng.out_epoch <= 1

(* The engine is a TLS session.                                            *)
Phase ==
  CASE eng.closed -> "closed"
    [] ~eng.closed /\ hs.pc \in Closing -> "closing"
    [] ~eng.closed /\ hs.pc \notin Closing /\ eng.application_data = 1 -> "open"
    [] OTHER -> "handshake"

Session == INSTANCE TlsSession WITH
  phase <- Phase,
  keys_in <- eng.in_epoch,
  keys_out <- eng.out_epoch

ImplementsSession == Session!SessionSpec

-----------------------------------------------------------------------------
(* The inductive invariant: what is true where in the handshake.           *)

(* The processor only has control of an engine that is not closed, and an  *)
(* output buffer only while no record is being sent.                       *)
Control ==
  /\ eng.closed => hs.co = "idle"
  /\ hs.co # "idle" /\ hs.can_output => outrec = NoRecord
  /\ hs.pc = "close" => hs.co = "running"

(* Messages are only gathered in the last flight of the client, which it   *)
(* writes without giving up control.                                       *)
Gathered ==
  \/ OnlyData
  \/ /\ hs.co = "running" /\ hs.can_output
     /\ hs.pc \in {"write_ClientKeyExchange", "write_CertificateVerify", "flush"}

(* Items are numbered as far as the application got.                       *)
Item ==
  [msg : {"data", "Certificate", "ClientKeyExchange", "CertificateVerify"}, n : Nat]
Items == outbuf \in Seq(Item) /\ wrote \in Nat /\ todo \in Int

(* How many times the keys of each direction were changed.                 *)
KeysMatch ==
  /\ hs.pc \in AtHello \cup Negotiating \cup InSession => eng.in_epoch = eng.out_epoch
  /\ hs.pc \in Negotiating => ~hs.resuming
  /\ hs.pc \in {"flush", "write_CCS", "read_Finished"} =>
       eng.in_epoch = IF hs.resuming THEN eng.out_epoch + 1 ELSE eng.out_epoch
  /\ hs.pc \in {"read_CCS", "write_Finished"} =>
       eng.out_epoch = IF hs.resuming THEN eng.in_epoch ELSE eng.in_epoch + 1
  /\ hs.pc \in InSession \cup {"read_Finished"} => eng.in_epoch > 0
  /\ hs.pc = "write_Finished" => eng.out_epoch > 0

(* Application data is off during a handshake.                             *)
DataOff ==
  /\ hs.pc \in Locations \ (Closing \cup {"start", "enter_main", "main", "close"}) =>
       eng.application_data = 0
  /\ hs.pc \notin Closing => eng.application_data # 2

(* A server without RFC 5746 never gets beyond its first handshake.        *)
FirstHandshake ==
  /\ eng.reneg = 0 =>
       /\ eng.in_epoch = 0 /\ eng.out_epoch = 0 /\ ~eng.session
       /\ hs.pc \in AtHello \cup {"close"} \cup Closing
  /\ eng.reneg = 1 =>
       /\ eng.in_epoch <= 1 /\ eng.out_epoch <= 1 /\ ~hs.resuming
       /\ hs.pc \notin AtHello
       /\ hs.pc \in Negotiating \cup {"flush", "write_CCS"} => eng.out_epoch = 0
       /\ hs.pc = "read_CCS" => eng.in_epoch = 0
  /\ hs.pc = "main" /\ hs.action = 2 /\ hs.co # "idle" => eng.reneg # 1

EngineInv ==
  EngineTypeOK /\ Control /\ Gathered /\ Items /\ KeysMatch /\ DataOff /\ FirstHandshake

-----------------------------------------------------------------------------
(* The application's data.                                                 *)

Bodies(records) == [i \in DOMAIN records |-> records[i].body]
Pieces(items) == {items[i].n : i \in {j \in DOMAIN items : IsData(items[j])}}
Increasing(items) ==
  \A i, j \in DOMAIN items :
    i < j /\ IsData(items[i]) /\ IsData(items[j]) => items[i].n < items[j].n
Ahead(items, others) == \A m \in Pieces(items), n \in Pieces(others) : m < n

(* The data in these parts, one part after the other: the pieces from      *)
(* first to last, each of them once and in order.                          *)
InOrder(parts, first, last) ==
  /\ \A i \in DOMAIN parts : Increasing(parts[i])
  /\ \A i, j \in DOMAIN parts : i < j => Ahead(parts[i], parts[j])
  /\ UNION {Pieces(parts[i]) : i \in DOMAIN parts} = first .. last

(* Every piece of data that write accepted is buffered, in the record      *)
(* being sent, on its way or with the server, once and in order, across    *)
(* renegotiation and closure.                                              *)
WrittenInOrder ==
  InOrder(<<srv.rcvd>> \o Bodies(toPeer) \o <<outrec.body, outbuf>>, 1, wrote)

(* What the server sent is handed out in order and without loss as long as *)
(* the session is in use: closing discards data, a lost link loses it.     *)
DeliveredInOrder ==
  link = "up" /\ ~eng.closed /\ hs.pc \notin Closing =>
    InOrder(<<Unread>> \o Bodies(toClient), got + 1, srv.sent)

OnWire == {toPeer[i] : i \in DOMAIN toPeer} \cup {outrec}

(* Application data travels in records of its own type, under keys, and    *)
(* nothing else does: "[the handshake processor] is responsible for        *)
(* producing the contents of all records except application data"          *)
(* (ssl_engine.c).                                                         *)
DataProtected ==
  \A rec \in OnWire : \A i \in DOMAIN rec.body :
    IsData(rec.body[i]) <=> rec.type = "application_data" /\ rec.epoch > 0

(* "This call makes sure that any buffered application data in the         *)
(* provided context [...] has been sent to the transport medium"           *)
(* (br_sslio_flush).                                                       *)
FlushDelivers ==
  [][io = "flush" /\ io' = "none" /\ ret' = 0 => OutputFree]_vars

-----------------------------------------------------------------------------
(* The handshake, as the server sees it.                                   *)

(* The records the server can make sense of where it stands.               *)
Understood(rec) ==
  /\ rec.epoch = srv.in_epoch
  /\ \/ Carries(rec, "handshake", "ClientHello") /\ srv.pc \in {"hello", "open", "closing"}
     \/ Carries(rec, "handshake", "ClientKeyExchange") /\ srv.pc = "flight"
     \/ Carries(rec, "handshake", "Certificate") /\ srv.pc = "flight"
     \/ Carries(rec, "handshake", "CertificateVerify") /\ srv.pc = "flight"
     \/ Carries(rec, "change_cipher_spec", "ccs") /\ srv.pc \in {"flight", "resumed"}
     \/ Carries(rec, "handshake", "Finished") /\ srv.pc \in {"finished", "confirmed"}
     \/ Carries(rec, "application_data", "data") /\ srv.pc \in {"open", "closing"}
     \/ Carries(rec, "alert", "close_notify") /\ srv.pc # "closed"
     \/ Carries(rec, "alert", "no_renegotiation") /\ srv.pc # "closed"

(* Whatever the server does at the same time (data, HelloRequest, closure),*)
(* each record the client sends has the type, the order and the keys that  *)
(* the server expects.                                                     *)
ServerUnderstands ==
  toPeer # <<>> => Understood(Head(toPeer))

-----------------------------------------------------------------------------
(* Closure.                                                                *)

CloseNotifySent ==
  srv.pc = "closed" \/ \E i \in DOMAIN toPeer : Carries(toPeer[i], "alert", "close_notify")

(* The engine only closes without error when both sides have sent a        *)
(* close_notify, ours completely.                                          *)
CloseAgreed ==
  eng.closed /\ eng.err = "OK" /\ connects > 0 =>
    srv.pc \in {"closing", "closed"} /\ CloseNotifySent

ConnectComesBack == call = "connect" ~> call # "connect"
WriteComesBack == call = "write" ~> call \notin {"write", "write_flush"}
StopComesBack == call = "stop" /\ Unread = <<>> ~> call # "stop"

(* Calls come back when the server is there and answers: no order of       *)
(* messages leaves both sides waiting, or br_sslio_close in its loop.      *)
CallsComeBack == ConnectComesBack /\ WriteComesBack /\ StopComesBack

-----------------------------------------------------------------------------
(* What the documentation says and the code does not do.                   *)

(* "If no flag at all is set (state value is 0), then the engine is not    *)
(* fully initialised yet" (br_ssl_engine_current_state).                   *)
StateNotZero ==
  connects > 0 /\ Idle => eng.closed \/ SENDREC \/ RECVREC \/ SENDAPP \/ RECVAPP

(* "On error, the callbacks return -1. [...] Errors are permanent: the SSL *)
(* connection is terminated" (br_sslio_init).                              *)
ErrorsArePermanent ==
  [][run = "running" /\ run' = "error" => eng'.closed]_vars

=============================================================================

----------------------------- MODULE TlsServer -----------------------------
(***************************************************************************)
(* The other end of the connection, which is not part of the repository:   *)
(* a TLS 1.2 server, and a peer that sends whatever it likes.  What the    *)
(* server may send is what the handshake processor is written for (the     *)
(* messages it reads, and the order in which it reads them).               *)
(*                                                                         *)
(* The peer only takes steps while the engine's coroutine is suspended:    *)
(* the steps of the coroutine touch neither pipe, so doing them first      *)
(* changes nothing.                                                        *)
(***************************************************************************)
EXTENDS SslIo

CONSTANTS Honest,         \* FALSE: the peer sends any record at any time
          MaxRecords,     \* how many records such a peer sends
          SecureReneg,    \* whether the server supports RFC 5746, or may do so
          RequestsCert,   \* the server asks for a client certificate
          Resumes,        \* the server resumes sessions
          MaxData,        \* pieces of application data the server sends
          MaxRequests,    \* HelloRequest messages the server sends
          MaxWarnings,    \* warning alerts the server sends
          ServerCloses    \* the server may close the connection first

ASSUME ServerAssumption ==
  /\ {Honest, RequestsCert, Resumes, ServerCloses} \subseteq BOOLEAN
  /\ SecureReneg \in (SUBSET BOOLEAN) \ {{}}
  /\ {MaxRecords, MaxData, MaxRequests, MaxWarnings} \subseteq Nat

VARIABLE srv

FreshServer(ri) ==
  [pc |-> "hello", ri |-> ri, in_epoch |-> 0, out_epoch |-> 0, session |-> FALSE,
   sent |-> 0, rcvd |-> <<>>, requests |-> 0, warnings |-> 0, records |-> 0]

peerVars == <<linkVars, srv>>

Reply(type, body) == Record(type, body, srv.out_epoch)
Send(records) == toClient' = toClient \o records

(* The server reads the next record if it has this type and content.       *)
Carries(rec, type, name) ==
  rec.type = type /\ \E i \in DOMAIN rec.body : rec.body[i].msg = name

Takes(type, name) ==
  /\ Honest /\ Idle /\ toPeer # <<>>
  /\ Carries(Head(toPeer), type, name) /\ Head(toPeer).epoch = srv.in_epoch
  /\ toPeer' = Tail(toPeer)
  /\ UNCHANGED link

-----------------------------------------------------------------------------
(* The handshake.                                                          *)

ServerFlight ==
  <<Hello("ServerHello", srv.ri), Msg("Certificate")>>
    \o (IF Ephemeral THEN <<Msg("ServerKeyExchange")>> ELSE <<>>)
    \o (IF RequestsCert THEN <<Msg("CertificateRequest")>> ELSE <<>>)
    \o <<Msg("ServerHelloDone")>>

(* In one record, or in one record for each message.                       *)
FullHandshake ==
  /\ Takes("handshake", "ClientHello") /\ srv.pc \in {"hello", "open"}
  /\ \/ Send(<<Reply("handshake", ServerFlight)>>)
     \/ Send([i \in DOMAIN ServerFlight |-> Reply("handshake", <<ServerFlight[i]>>)])
  /\ srv' = [srv EXCEPT !.pc = "flight"]

ChangeKeys ==
  <<Reply("change_cipher_spec", <<Msg("ccs")>>),
    Record("handshake", <<Msg("Finished")>>, srv.out_epoch + 1)>>

AbbreviatedHandshake ==
  /\ Resumes /\ srv.session
  /\ Takes("handshake", "ClientHello") /\ srv.pc \in {"hello", "open"}
  /\ Send(<<Reply("handshake", <<Hello("ServerHelloResumed", srv.ri)>>)>> \o ChangeKeys)
  /\ srv' = [srv EXCEPT !.pc = "resumed", !.out_epoch = @ + 1]

ClientFlight ==
  /\ srv.pc = "flight"
  /\ \E name \in {"Certificate", "ClientKeyExchange", "CertificateVerify"} :
       Takes("handshake", name)
  /\ UNCHANGED <<toClient, srv>>

ClientCCS ==
  /\ Takes("change_cipher_spec", "ccs") /\ srv.pc \in {"flight", "resumed"}
  /\ srv' = [srv EXCEPT !.in_epoch = @ + 1,
                        !.pc = IF @ = "flight" THEN "finished" ELSE "confirmed"]
  /\ UNCHANGED toClient

ClientFinished ==
  /\ Takes("handshake", "Finished")
  /\ \/ /\ srv.pc = "finished"
        /\ Send(ChangeKeys)
        /\ srv' = [srv EXCEPT !.pc = "open", !.out_epoch = @ + 1, !.session = TRUE]
     \/ /\ srv.pc = "confirmed"
        /\ srv' = [srv EXCEPT !.pc = "open"] /\ UNCHANGED toClient

ClientDeclines ==
  Takes("alert", "no_renegotiation") /\ srv.pc # "closed" /\ UNCHANGED <<toClient, srv>>

-----------------------------------------------------------------------------
(* Data and closure.                                                       *)

ClientData ==
  /\ Takes("application_data", "data") /\ srv.pc \in {"open", "closing"}
  /\ srv' = [srv EXCEPT !.rcvd = @ \o Head(toPeer).body]
  /\ UNCHANGED toClient

ClientCloses ==
  /\ Takes("alert", "close_notify") /\ srv.pc # "closed"
  /\ IF srv.pc = "closing" THEN UNCHANGED toClient
     ELSE Send(<<Reply("alert", <<Msg("close_notify")>>)>>)
  /\ srv' = [srv EXCEPT !.pc = "closed"]

(* A server that closes reads nothing but the answer, and data.            *)
ServerIgnores ==
  /\ srv.pc = "closing" /\ Takes("handshake", "ClientHello")
  /\ UNCHANGED <<toClient, srv>>

Speaks == Honest /\ Idle /\ link = "up" /\ Len(toClient) < PipeLen

SendData ==
  /\ Speaks /\ srv.pc = "open" /\ srv.sent < MaxData
  /\ Send(<<Reply("application_data", <<Data(srv.sent + 1)>>)>>)
  /\ srv' = [srv EXCEPT !.sent = @ + 1]
  /\ UNCHANGED <<link, toPeer>>

SendHelloRequest ==
  /\ Speaks /\ srv.pc = "open" /\ srv.requests < MaxRequests
  /\ Send(<<Reply("handshake", <<Msg("HelloRequest")>>)>>)
  /\ srv' = [srv EXCEPT !.requests = @ + 1]
  /\ UNCHANGED <<link, toPeer>>

SendWarning ==
  /\ Speaks /\ srv.pc \notin {"closing", "closed"} /\ srv.warnings < MaxWarnings
  /\ Send(<<Reply("alert", <<Msg("warning")>>)>>)
  /\ srv' = [srv EXCEPT !.warnings = @ + 1]
  /\ UNCHANGED <<link, toPeer>>

SendCloseNotify ==
  /\ Speaks /\ ServerCloses /\ srv.pc = "open"
  /\ Send(<<Reply("alert", <<Msg("close_notify")>>)>>)
  /\ srv' = [srv EXCEPT !.pc = "closing"]
  /\ UNCHANGED <<link, toPeer>>

-----------------------------------------------------------------------------
(* The link, and the peer that sends anything.                             *)

(* The server has closed its end; what it sent can still be read.          *)
PeerHangsUp ==
  /\ LinkFaults /\ Idle /\ link = "up" /\ srv.pc \in {"closing", "closed"}
  /\ link' = "draining"
  /\ UNCHANGED <<toPeer, toClient, srv>>

LinkLost ==
  /\ LinkFaults /\ Idle /\ link # "down"
  /\ link' = "down" /\ toClient' = <<>>
  /\ UNCHANGED <<toPeer, srv>>

AnyBody ==
  [type : {"handshake"},
   body : {<<m>> : m \in {Msg("HelloRequest"), Hello("ServerHello", TRUE),
                          Hello("ServerHello", FALSE), Hello("ServerHelloResumed", TRUE),
                          Msg("Finished"), Msg("ServerHelloDone")}}
          \cup {ServerFlight, <<Msg("Finished"), Msg("HelloRequest")>>,
                <<Msg("ServerHelloDone"), Msg("HelloRequest")>>}]
  \cup [type : {"alert"},
        body : {<<Msg(m)>> : m \in {"warning", "close_notify", "fatal", "no_renegotiation"}}]
  \cup [type : {"change_cipher_spec"}, body : {<<Msg("ccs")>>}]
  \cup [type : {"application_data"}, body : {<<Data(1)>>}]

SendAnything ==
  /\ ~Honest /\ Idle /\ link = "up" /\ srv.records < MaxRecords /\ toClient = <<>>
  /\ \E r \in AnyBody, epoch \in {eng.in_epoch, 0} :
       Send(<<Record(r.type, r.body, epoch)>>)
  /\ srv' = [srv EXCEPT !.records = @ + 1]
  /\ UNCHANGED <<link, toPeer>>

ReceiveAnything ==
  /\ ~Honest /\ Idle /\ toPeer # <<>>
  /\ toPeer' = Tail(toPeer)
  /\ UNCHANGED <<link, toClient, srv>>

-----------------------------------------------------------------------------
(* What the server does in answer to the client, and of its own accord.    *)
ServerAnswers ==
  \/ FullHandshake \/ AbbreviatedHandshake \/ ClientFlight \/ ClientCCS
  \/ ClientFinished \/ ClientDeclines \/ ClientData \/ ClientCloses
  \/ ServerIgnores \/ ReceiveAnything

ServerSpeaks ==
  \/ SendData \/ SendHelloRequest \/ SendWarning \/ SendCloseNotify
  \/ PeerHangsUp \/ LinkLost \/ SendAnything

PeerStep ==
  /\ ServerAnswers \/ ServerSpeaks
  /\ UNCHANGED <<engineVars, ioVars, history>>

=============================================================================

------------------------------ MODULE TlsPair ------------------------------
(***************************************************************************)
(* A client and a server of the library, each an engine with its handshake *)
(* processor (SslEngine, SslServer), and two pipes between them.  Their    *)
(* applications use the engines directly (bearssl_ssl.h): they move        *)
(* records whenever a flag of the state allows it, write a piece of data   *)
(* and flush it, read, close, ask for a renegotiation.  The connection may *)
(* be lost at any time and be followed by another one; the client keeps    *)
(* its session for it, or not, the server keeps its session cache.         *)
(*                                                                         *)
(* Or else the peer of the server is any program, which sends any record   *)
(* at any time.                                                            *)
(***************************************************************************)
EXTENDS SslEngine

CONSTANTS ServerOptions,    \* the configurations of the server
          Peers,            \* subset of {"client", "anything"}
          PipeLen,          \* bound: records in a pipe
          Limits            \* bound: for each peer, how often what may happen: a set of records

VARIABLES seng, shs, sinrec, soutbuf, soutrec, opts, svr, wire,  \* of SslServer
          cli,                  \* the client's session parameters, and those it saved
          proven,               \* sessions in which the client proved who it is
          toServer, toClient,   \* the pipes
          peer, limit, used     \* who talks to the server; what may happen, and did

S == INSTANCE SslServer

serverVars == <<seng, shs, sinrec, soutbuf, soutrec, opts, svr, wire>>
unmoved == <<opts, svr, wire>>
clientVars == <<eng, hs, inrec, outbuf, outrec>>
pipeVars == <<toServer, toClient>>
pairVars == <<clientVars, serverVars, cli, proven, pipeVars, peer, limit, used>>

NoSession == [id |-> 0, secret |-> 0]
NoOffer == [ri |-> "none", finished |-> 0, id |-> 0]

Begin(p) ==
  /\ EngineInit /\ S!E!EngineInit
  /\ opts \in ServerOptions /\ peer = p
  /\ peer = "client" => (opts.kx = "ECDHE") = Ephemeral
  /\ svr = [id |-> 0, secret |-> 0, cache |-> [i \in {} |-> 0], next |-> 1, cert |-> "none"]
  /\ wire = [offer |-> NoOffer, granted |-> 0, premaster |-> 0]
  /\ cli = [id |-> 0, secret |-> 0, fresh |-> 1, saved |-> NoSession]
  /\ proven = {}
  /\ toServer = <<>> /\ toClient = <<>>
  /\ limit \in Limits[peer] /\ used = [what \in DOMAIN limit |-> 0]

PairInit == \E p \in Peers : Begin(p)

(* A processor has control until it suspends itself; the steps of one do   *)
(* not touch what the other one uses.                                      *)
BothIdle == Idle /\ S!E!Idle
Uses(what) == used[what] < limit[what] /\ used' = [used EXCEPT ![what] = @ + 1]
Happened(what) == used[what] > 0

-----------------------------------------------------------------------------
(* The client's processor, and what its messages say.                      *)

Spoke(pc, next) == Running(pc) /\ hs'.co = "running" /\ hs'.pc \in next

ClientProcesses ==
  /\ peer = "client" /\ HandshakeStep
  /\ CASE Spoke("write_ClientHello", {"read_ServerHello"}) ->
            /\ wire' = [wire EXCEPT !.offer =
                 [ri |-> IF eng.reneg = 1 THEN "none" ELSE "extension",
                  finished |-> IF eng.reneg = 2 THEN eng.out_epoch ELSE 0, id |-> cli.id]]
            /\ UNCHANGED cli
       [] Spoke("read_ServerHello", {"read_CCS", "read_Certificate"}) ->
            cli' = [cli EXCEPT !.id = wire.granted] /\ UNCHANGED wire
       [] Spoke("write_ClientKeyExchange", {"write_CertificateVerify", "flush"}) ->
            /\ cli' = [cli EXCEPT !.secret = cli.fresh, !.fresh = @ + 1]
            /\ wire' = [wire EXCEPT !.premaster = cli.fresh]
       [] OTHER -> UNCHANGED <<cli, wire>>
  /\ UNCHANGED <<seng, shs, sinrec, soutbuf, soutrec, opts, svr, proven, pipeVars, peer, limit, used>>

(* The server's processor.  Any hello, certificate and signature may come  *)
(* from another peer.                                                      *)
AnyHello == [ri : {"none", "scsv", "extension"}, finished : {0, seng.in_epoch}, id : {0, 1}]

(* What proves that the client owns the key of its certificate: a          *)
(* signature, or a secret that is exchanged with that key.                 *)
Proof ==
  /\ shs.co = "running" /\ shs'.co = "running" /\ shs'.pc = "read_CCS"
  /\ \/ shs.pc = "read_CertificateVerify"
     \/ shs.pc = "read_ClientKeyExchange" /\ Head(sinrec.body).msg = "EmptyKeyExchange"

ServerProcesses ==
  /\ Idle
  /\ IF peer = "client"
     THEN S!ServerStep({wire.offer}, IF ClientCert THEN {"sign", "invalid"} ELSE {"none"}, {TRUE})
     ELSE S!ServerStep(AnyHello, S!Verdicts, BOOLEAN)
  /\ proven' = IF Proof THEN proven \cup {svr.id} ELSE proven
  /\ UNCHANGED <<clientVars, cli, pipeVars, peer, limit, used>>

-----------------------------------------------------------------------------
(* The applications and the pipes.                                         *)

ClientActs(A) == BothIdle /\ peer = "client" /\ A /\ UNCHANGED <<serverVars, cli, proven, peer, limit>>
ServerActs(A) == BothIdle /\ A /\ UNCHANGED <<clientVars, cli, proven, peer, limit>>

ClientSends ==
  /\ SENDREC /\ Len(toServer) < PipeLen
  /\ toServer' = Append(toServer, outrec) /\ sendrec_ack
  /\ UNCHANGED <<toClient, used>>

ClientReceives ==
  /\ RECVREC /\ toClient # <<>>
  /\ toClient' = Tail(toClient) /\ recvrec_ack(Head(toClient))
  /\ UNCHANGED <<toServer, used>>

ClientWrites ==
  /\ SENDAPP /\ Uses("writes")
  /\ Seal(Append(outbuf, Data(1))) /\ UNCHANGED <<eng, hs, inrec, pipeVars>>

ClientReads == RECVAPP /\ recvapp_ack /\ UNCHANGED <<pipeVars, used>>
ClientCloses == ~eng.closed /\ Uses("closes") /\ engine_close /\ UNCHANGED pipeVars
ClientRenegotiates == MayRenegotiate /\ Uses("requests") /\ engine_renegotiate /\ UNCHANGED pipeVars

ServerSends ==
  /\ S!E!SENDREC /\ Len(toClient) < PipeLen
  /\ toClient' = IF peer = "client" THEN Append(toClient, soutrec) ELSE toClient
  /\ S!E!sendrec_ack /\ UNCHANGED unmoved
  /\ UNCHANGED <<toServer, used>>

ServerReceives ==
  /\ S!E!RECVREC /\ toServer # <<>>
  /\ toServer' = Tail(toServer) /\ S!E!recvrec_ack(Head(toServer)) /\ UNCHANGED unmoved
  /\ UNCHANGED <<toClient, used>>

ServerWrites ==
  /\ S!E!SENDAPP /\ Uses("writes")
  /\ S!E!Seal(Append(soutbuf, Data(1))) /\ UNCHANGED <<seng, shs, sinrec, pipeVars>> /\ UNCHANGED unmoved

ServerReads == S!E!RECVAPP /\ S!E!recvapp_ack /\ UNCHANGED unmoved /\ UNCHANGED <<pipeVars, used>>
ServerCloses ==
  ~seng.closed /\ Uses("closes") /\ S!E!engine_close /\ UNCHANGED unmoved /\ UNCHANGED pipeVars
ServerRenegotiates ==
  S!E!MayRenegotiate /\ Uses("requests") /\ S!server_renegotiate /\ UNCHANGED pipeVars

(* A peer that is not the client.  What it sends matters when the server   *)
(* takes it, so that it may as well wait until the server can.             *)
AnyBody ==
  [type : {"handshake"},
   body : {<<Msg(m)>> : m \in {"ClientHello", "HelloRequest", "Certificate", "ClientKeyExchange",
                               "EmptyKeyExchange", "CertificateVerify", "Finished"}}
          \cup {<<Msg("Certificate"), Msg("ClientKeyExchange"), Msg("CertificateVerify")>>,
                <<Msg("ClientHello"), Msg("HelloRequest")>>, <<Msg("Finished"), Msg("ClientHello")>>}]
  \cup [type : {"alert"},
        body : {<<Msg(m)>> : m \in {"warning", "close_notify", "fatal"}}]
  \cup [type : {"change_cipher_spec"}, body : {<<Msg("ccs")>>}]
  \cup [type : {"application_data"}, body : {<<Data(1)>>}]

AnythingComes ==
  /\ peer = "anything" /\ S!E!RECVREC /\ toServer = <<>> /\ Uses("records")
  /\ \E r \in AnyBody : toServer' = <<Record(r.type, r.body, seng.in_epoch)>>
  /\ UNCHANGED <<seng, shs, sinrec, soutbuf, soutrec, toClient>> /\ UNCHANGED unmoved

(* br_ssl_engine_get_session_parameters, once the session is open.         *)
ClientSaves ==
  /\ BothIdle /\ peer = "client" /\ eng.application_data = 1
  /\ cli' = [cli EXCEPT !.saved = [id |-> cli.id, secret |-> cli.secret]]
  /\ UNCHANGED <<clientVars, serverVars, proven, pipeVars, peer, limit, used>>

(* A new connection, which may come before the end of the last one         *)
(* (br_ssl_client_reset and br_ssl_server_reset).  The client offers the   *)
(* session it has, the one it saved                                        *)
(* (br_ssl_engine_set_session_parameters), or none.                        *)
Connect ==
  /\ BothIdle /\ Uses("connections")
  /\ \E offered \in {NoSession, [id |-> cli.id, secret |-> cli.secret], cli.saved} :
       /\ eng' = [FreshEngine EXCEPT !.session = (offered.id # 0)]
       /\ cli' = [cli EXCEPT !.id = offered.id, !.secret = offered.secret]
  /\ IF peer = "client"
     THEN /\ hs' = [co |-> "running", pc |-> "start", action |-> 0, ate |-> FALSE,
                    can_output |-> TRUE, cnr |-> FALSE, auth |-> FALSE, resuming |-> FALSE]
          /\ inrec' = NoRecord /\ outbuf' = <<>> /\ outrec' = NoRecord
     ELSE UNCHANGED <<hs, inrec, outbuf, outrec>>
  /\ S!server_reset
  /\ toServer' = <<>> /\ toClient' = <<>> /\ UNCHANGED <<proven, peer, limit>>

PairNext ==
  \/ ClientProcesses \/ ServerProcesses
  \/ ClientActs(ClientSends) \/ ClientActs(ClientReceives) \/ ClientActs(ClientWrites)
  \/ ClientActs(ClientReads) \/ ClientActs(ClientCloses) \/ ClientActs(ClientRenegotiates)
  \/ ServerActs(ServerSends) \/ ServerActs(ServerReceives) \/ ServerActs(ServerWrites)
  \/ ServerActs(ServerReads) \/ ServerActs(ServerCloses) \/ ServerActs(ServerRenegotiates)
  \/ ServerActs(AnythingComes) \/ ClientSaves \/ Connect

(* The processors run to their end, and the applications move what the     *)
(* engines let them move.                                                  *)
PairFairness ==
  /\ WF_pairVars(ClientProcesses) /\ WF_pairVars(ServerProcesses)
  /\ WF_pairVars(ClientActs(ClientSends)) /\ WF_pairVars(ClientActs(ClientReceives))
  /\ WF_pairVars(ClientActs(ClientReads)) /\ WF_pairVars(ServerActs(ServerSends))
  /\ WF_pairVars(ServerActs(ServerReceives)) /\ WF_pairVars(ServerActs(ServerReads))

PairSpec == PairInit /\ [][PairNext]_pairVars /\ PairFairness

-----------------------------------------------------------------------------
(* The server keeps the promises that TlsSession states for an engine.     *)
ServerPhase ==
  CASE seng.closed -> "closed"
    [] ~seng.closed /\ shs.pc \in Closing -> "closing"
    [] ~seng.closed /\ shs.pc \notin Closing /\ seng.application_data = 1 -> "open"
    [] OTHER -> "handshake"

ServerSession == INSTANCE TlsSession WITH
  phase <- ServerPhase, keys_in <- seng.in_epoch, keys_out <- seng.out_epoch

(* Whatever the peer sends, the server changes each key once in a          *)
(* handshake, opens the session after both changes only, and does nothing  *)
(* but close once it is closing.                                           *)
ServerImplementsSession == ServerSession!SessionSpec

(* When one end finds the Finished of the other, in a new session, a       *)
(* resumed one or after connections were lost at any point, both have the  *)
(* same session with the same secret, so that the Finished is the expected *)
(* one.                                                                    *)
FinishedAgrees ==
  /\ peer = "client"
  /\ \/ Running("read_Finished") /\ HasInput
     \/ S!E!Running("read_Finished") /\ S!E!HasInput
  => cli.id = svr.id /\ cli.secret = svr.secret

(* A server that insists on a client certificate is open, and remembers a  *)
(* session, only if the client once proved in a handshake of that session  *)
(* that it owns the key of a valid certificate.                            *)
ClientProven ==
  opts.asks /\ ~opts.tolerant =>
    /\ DOMAIN svr.cache \subseteq proven
    /\ seng.application_data = 1 => svr.id \in proven

(* A server changes keys for a second time only with a client that has     *)
(* announced RFC 5746 in its hello, by the extension or by the suite value,*)
(* and never if it is configured to refuse renegotiations, whether the     *)
(* client or the application asks for one (main and read-ClientHello of    *)
(* ssl_hs_server.c, br_ssl_engine_renegotiate).                            *)
RenegotiationSecure ==
  seng.in_epoch > 1 \/ seng.out_epoch > 1 => seng.reneg = 2 /\ ~opts.noreneg

(* Two ends of this library never fail each other, except by what their    *)
(* applications do: data that meets a renegotiation or a closure in a      *)
(* handshake, a renegotiation or a hello that is refused, a certificate    *)
(* that is missing, a closure that makes an end ignore the                 *)
(* ChangeCipherSpec of the other.                                          *)
HonestErrors ==
  peer = "client" =>
    /\ {eng.err, seng.err} \subseteq
         {"OK", "REFUSED", "fatal", "NO_CLIENT_AUTH", "no_renegotiation", "UNEXPECTED", "BAD_MAC"}
    /\ "no_renegotiation" \in {eng.err, seng.err} => opts.noreneg
    /\ "UNEXPECTED" \in {eng.err, seng.err} =>
         Happened("writes") /\ (Happened("requests") \/ Happened("closes"))
    /\ "BAD_MAC" \in {eng.err, seng.err} => Happened("closes")

(* A closure ends: once one end is closing both get closed, although both  *)
(* may start it at the same time, in a handshake, and with data under way. *)
(* Two exceptions: an end that fails tells the other nothing, and data     *)
(* that nobody read keeps an end from receiving the close_notify.  (The    *)
(* last connection is one that is not lost.)                               *)
Unread == \/ inrec.type = "application_data" /\ inrec.body # <<>>
          \/ sinrec.type = "application_data" /\ sinrec.body # <<>>
ClosesEnd ==
  /\ peer = "client" /\ used.connections = limit.connections
  /\ hs.pc \in Closing \/ shs.pc \in Closing
  ~> \/ eng.closed /\ seng.closed
     \/ eng.err # "OK" \/ seng.err # "OK" \/ Unread
=============================================================================

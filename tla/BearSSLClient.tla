--------------------------- MODULE BearSSLClient ---------------------------
(***************************************************************************)
(* The Arduino class BearSSLClient (src/src/BearSSLClient.cpp) and an      *)
(* application that uses it, or that uses the br_sslio functions below it  *)
(* directly.  The application makes one call at a time.                    *)
(***************************************************************************)
EXTENDS TlsServer

CONSTANTS Calls,      \* the calls the application makes
          MaxWrites,  \* pieces of application data it writes
          MaxConnects, \* connections it opens
          MaxEpochs   \* handshakes after which it asks for no renegotiation

ASSUME CallsAssumption ==
  /\ Calls \subseteq {"write", "read", "available", "flush", "stop", "br_sslio_read",
                      "br_sslio_write", "br_sslio_flush", "br_sslio_close",
                      "br_ssl_engine_renegotiate"}
  /\ {MaxWrites, MaxConnects, MaxEpochs} \subseteq Nat

VARIABLES call,      \* the BearSSLClient method in progress, or "none"
          todo,      \* pieces a write still has to hand over
          connects   \* how many connections were opened

appVars == <<call, todo, connects>>
vars == <<engineVars, linkVars, ioVars, history, srv, appVars>>

Free == Idle /\ call = "none" /\ io = "none"

-----------------------------------------------------------------------------
(* connect and connectSSL: open the link, reset the engine, flush, wait;   *)
(* whatever session was there is given up.                                 *)

Connect ==
  /\ Free /\ connects < MaxConnects
  /\ call' = "connect" /\ connects' = connects + 1
  /\ link' = "up" /\ toPeer' = <<>> /\ toClient' = <<>>
  /\ \E ri \in SecureReneg : srv' = FreshServer(ri)
  /\ client_reset
  /\ io' = "flush" /\ run' = "running" /\ UNCHANGED ret
  /\ wrote' = 0 /\ got' = 0
  /\ UNCHANGED todo

(* The last loop of connectSSL ends when the engine is ready or closed.    *)
ConnectReturns ==
  /\ Idle /\ call = "connect" /\ io = "none"
  /\ SENDAPP \/ eng.closed
  /\ call' = "none"
  /\ UNCHANGED <<todo, connects, engineVars, linkVars, ioVars, history, srv>>

(* write: br_sslio_write until everything is accepted, then a flush.       *)
Write ==
  /\ Free /\ "write" \in Calls /\ connects > 0
  /\ \E n \in 1 .. MaxWrites - wrote : todo' = n
  /\ call' = "write"
  /\ BeginWrite
  /\ UNCHANGED <<connects, linkVars, history, srv>>

WriteLoop ==
  /\ Idle /\ call = "write" /\ io = "none" /\ todo > 0
  /\ \/ ret >= 0 /\ BeginWrite /\ UNCHANGED <<call, todo>>
     \/ ret < 0 /\ call' = "none" /\ todo' = 0 /\ UNCHANGED <<engineVars, ioVars>>
  /\ UNCHANGED <<connects, linkVars, history, srv>>

WriteFlush ==
  /\ Idle /\ call = "write" /\ io = "none" /\ todo = 0
  /\ call' = "write_flush"
  /\ BeginFlush
  /\ UNCHANGED <<todo, connects, linkVars, history, srv>>

Read ==
  /\ Free /\ "read" \in Calls /\ connects > 0
  /\ call' = "read"
  /\ BeginRead
  /\ UNCHANGED <<todo, connects, linkVars, history, srv>>

(* available and peek.                                                     *)
Available ==
  /\ Free /\ "available" \in Calls /\ connects > 0
  /\ call' = "available"
  /\ BeginAvailable
  /\ UNCHANGED <<todo, connects, linkVars, history, srv>>

Flush ==
  /\ Free /\ "flush" \in Calls /\ connects > 0
  /\ call' = "flush"
  /\ BeginFlush
  /\ UNCHANGED <<todo, connects, linkVars, history, srv>>

(* These calls return when the br_sslio function does.                     *)
Return ==
  /\ Idle /\ call \in {"write_flush", "read", "available", "flush"} /\ io = "none"
  /\ call' = "none"
  /\ UNCHANGED <<todo, connects, engineVars, linkVars, ioVars, history, srv>>

(* stop: the closure protocol if the link is there and the engine open,    *)
(* then the end of the link.                                               *)
Stop ==
  /\ Free /\ "stop" \in Calls /\ Connected
  /\ call' = "stop"
  /\ IF eng.closed THEN UNCHANGED <<engineVars, ioVars>> ELSE BeginClose
  /\ UNCHANGED <<todo, connects, linkVars, history, srv>>

Stopped ==
  /\ Idle /\ call = "stop" /\ io = "none"
  /\ call' = "none"
  /\ link' = "down" /\ toClient' = <<>>
  /\ UNCHANGED <<todo, connects, engineVars, toPeer, ioVars, history, srv>>

-----------------------------------------------------------------------------
(* An application that uses br_sslio directly.                             *)

SslIoCall ==
  /\ Free /\ connects > 0
  /\ \/ "br_sslio_read" \in Calls /\ BeginRead /\ UNCHANGED todo
     \/ /\ "br_sslio_write" \in Calls /\ wrote < MaxWrites
        /\ BeginWrite /\ todo' = 1
     \/ "br_sslio_flush" \in Calls /\ BeginFlush /\ UNCHANGED todo
     \/ "br_sslio_close" \in Calls /\ BeginClose /\ UNCHANGED todo
     \/ /\ "br_ssl_engine_renegotiate" \in Calls /\ eng.out_epoch < MaxEpochs
        /\ engine_renegotiate /\ UNCHANGED <<ioVars, todo>>
  /\ UNCHANGED <<call, connects, linkVars, history, srv>>

-----------------------------------------------------------------------------
FinishIo ==
  \/ (FinishRead \/ FinishAvailable \/ FinishFlush \/ CloseLoop) /\ UNCHANGED todo
  \/ /\ FinishWrite(todo)
     /\ todo' = todo - (wrote' - wrote)

EngineStep ==
  HandshakeStep /\ UNCHANGED <<linkVars, ioVars, history, srv, appVars>>

IoStep ==
  \/ run_until /\ UNCHANGED <<srv, appVars>>
  \/ FinishIo /\ UNCHANGED <<srv, call, connects>>

CallReturns == ConnectReturns \/ WriteLoop \/ WriteFlush \/ Return \/ Stopped
CallStarts == Connect \/ Write \/ Read \/ Available \/ Flush \/ Stop \/ SslIoCall

Init ==
  /\ IoInit
  /\ srv = FreshServer(FALSE)
  /\ call = "none" /\ todo = 0 /\ connects = 0

Next ==
  \/ EngineStep \/ IoStep \/ CallReturns \/ CallStarts
  \/ PeerStep /\ UNCHANGED appVars

Spec == Init /\ [][Next]_vars

(* The client's code keeps running, and a server answers what it is sent.  *)
Fairness ==
  /\ WF_vars(EngineStep \/ IoStep \/ CallReturns)
  /\ WF_vars(ServerAnswers /\ UNCHANGED <<engineVars, ioVars, history, appVars>>)

FairSpec == Spec /\ Fairness

=============================================================================

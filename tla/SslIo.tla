------------------------------- MODULE SslIo -------------------------------
(***************************************************************************)
(* The blocking I/O wrapper br_sslio_* (src/src/bearssl/ssl_io.c) around   *)
(* the engine, and the transport below it: the Arduino Client that         *)
(* BearSSLClient::clientRead and clientWrite call.                         *)
(*                                                                         *)
(* br_sslio functions run the engine until a target state is reached.      *)
(* Polling a transport that has nothing to say changes nothing: it is not  *)
(* a step of the model.                                                    *)
(***************************************************************************)
EXTENDS SslEngine, Integers

CONSTANTS PipeLen,   \* records the transport accepts before the peer reads them
          LinkFaults  \* the link may be lost

ASSUME PipeAssumption == PipeLen \in Nat \ {0} /\ LinkFaults \in BOOLEAN

VARIABLES link,      \* "up", "draining" (closed by the peer), "down"
          toPeer,    \* records given to the transport, not yet read
          toClient,  \* records of the peer, not yet read
          io,        \* the br_sslio function in progress, or "none"
          run,       \* its run_until: "off", "running", "done", "error"
          ret,       \* what the last br_sslio function returned
          wrote,     \* history: pieces of application data accepted
          got        \* history: pieces of application data handed out

ioVars == <<io, run, ret>>
linkVars == <<link, toPeer, toClient>>
history == <<wrote, got>>

Functions == {"read", "write", "flush", "close", "available"}

(* Client::connected is true as long as there is something left to read.   *)
Connected == link = "up" \/ (link = "draining" /\ toClient # <<>>)

(* clientWrite and clientRead.  A write returns 0, which is an error, when  *)
(* the transport is gone or gave up waiting for room.                      *)
Accepts == link = "up" /\ Len(toPeer) < PipeLen
Refuses == link # "up" \/ (LinkFaults /\ Len(toPeer) = PipeLen)
Arrived == Connected /\ toClient # <<>>

Unread == IF inrec.type = "application_data" THEN inrec.body ELSE <<>>

Returns(result) == io' = "none" /\ run' = "off" /\ ret' = result

-----------------------------------------------------------------------------
(* run_until, one iteration at a time.                                     *)

Target ==
  \/ io \in {"write", "flush"} /\ SENDAPP
  \/ io \in {"read", "flush", "close"} /\ RECVAPP

InRun == Idle /\ run = "running" /\ io # "available"

RunClosed ==
  /\ InRun /\ eng.closed
  /\ run' = "error"
  /\ UNCHANGED <<io, ret, linkVars, history, engineVars>>

(* Sending comes before everything else.                                   *)
LowWriteAccepts ==
  /\ InRun /\ SENDREC
  /\ Accepts
  /\ toPeer' = Append(toPeer, outrec)
  /\ sendrec_ack
  /\ UNCHANGED <<ioVars, link, toClient, history>>

(* An error is fatal unless the peer has sent its close_notify.            *)
LowWriteFails ==
  /\ InRun /\ SENDREC
  /\ Refuses
  /\ run' = "error"
  /\ IF eng.shutdown_recv THEN UNCHANGED engineVars ELSE Fail("IO")
  /\ UNCHANGED <<io, ret, linkVars, history>>

(* Mutant: the target is tested before what is left to send.               *)
TargetReachedFirst ==
  /\ InRun /\ Target
  /\ run' = "done"
  /\ UNCHANGED <<io, ret, linkVars, history, engineVars>>

TargetReached ==
  /\ InRun /\ ~SENDREC /\ Target
  /\ run' = "done"
  /\ UNCHANGED <<io, ret, linkVars, history, engineVars>>

MayReceive == RECVREC /\ (io = "available" \/ (~SENDREC /\ ~Target))

LowReadDelivers ==
  /\ Idle /\ run = "running" /\ MayReceive
  /\ Arrived
  /\ recvrec_ack(Head(toClient))
  /\ toClient' = Tail(toClient)
  /\ run' = IF io = "available" THEN "done" ELSE run
  /\ UNCHANGED <<io, ret, link, toPeer, history>>

LowReadFails ==
  /\ Idle /\ run = "running" /\ MayReceive
  /\ ~Connected
  /\ run' = "error"
  /\ Fail("IO")
  /\ UNCHANGED <<io, ret, linkVars, history>>

(* Nothing to receive and no target: gathered data may be in the way.      *)
RunFlush ==
  /\ InRun /\ ~eng.closed /\ ~SENDREC /\ ~Target /\ ~RECVREC
  /\ engine_flush
  /\ UNCHANGED <<ioVars, linkVars, history>>

run_until ==
  \/ RunClosed \/ LowWriteAccepts \/ LowWriteFails \/ TargetReached
  \/ LowReadDelivers \/ LowReadFails \/ RunFlush

-----------------------------------------------------------------------------
(* The br_sslio functions: how they start and what they do with the result *)
(* of run_until.                                                           *)

Enter(f) == io = "none" /\ Idle /\ io' = f /\ run' = "running" /\ UNCHANGED ret

BeginRead == Enter("read") /\ UNCHANGED engineVars
BeginWrite == Enter("write") /\ UNCHANGED engineVars
BeginFlush == Enter("flush") /\ engine_flush
BeginClose == Enter("close") /\ engine_close

(* br_sslio_read_available and br_sslio_peek read at most once, and never  *)
(* send; a single poll may also find nothing.                              *)
BeginAvailable == Enter("available") /\ UNCHANGED engineVars

FinishAvailable ==
  /\ Idle /\ io = "available"
  /\ run \in {"done", "error"} \/ ~RECVREC \/ (Connected /\ toClient = <<>>)
  /\ Returns(IF run = "error" THEN -1 ELSE IF RECVAPP THEN Len(inrec.body) ELSE 0)
  /\ UNCHANGED <<linkVars, history, engineVars>>

FinishRead ==
  /\ Idle /\ io = "read" /\ run \in {"done", "error"}
  /\ \/ /\ run = "done"
        /\ got' = Head(Unread).n
        /\ TakeInput /\ UNCHANGED <<eng, hs, outbuf, outrec, wrote>>
        /\ Returns(1)
     \/ run = "error" /\ Returns(-1) /\ UNCHANGED <<engineVars, history>>
  /\ UNCHANGED linkVars

(* As many of the n pieces as the record has room for are taken.           *)
Accept(n) ==
  \E k \in 1 .. n :
    /\ k = n \/ Len(outbuf) + k = OutCap
    /\ Len(outbuf) + k <= OutCap
    /\ sendapp_ack([i \in 1 .. k |-> Data(wrote + i)])
    /\ wrote' = wrote + k

FinishWrite(n) ==
  /\ Idle /\ io = "write" /\ run \in {"done", "error"}
  /\ \/ run = "done" /\ Accept(n) /\ Returns(wrote' - wrote) /\ UNCHANGED got
     \/ run = "error" /\ Returns(-1) /\ UNCHANGED <<engineVars, history>>
  /\ UNCHANGED linkVars

FinishFlush ==
  /\ Idle /\ io = "flush" /\ run \in {"done", "error"}
  /\ Returns(IF run = "done" THEN 0 ELSE -1)
  /\ UNCHANGED <<linkVars, history, engineVars>>

(* br_sslio_close discards what comes in until the engine is closed, and   *)
(* returns the value of the test last_error == BR_ERR_OK.                  *)
CloseLoop ==
  /\ Idle /\ io = "close" /\ run \in {"done", "error"}
  /\ IF RECVAPP THEN recvapp_ack ELSE UNCHANGED engineVars
  /\ IF eng.closed
     THEN Returns(IF eng.err = "OK" THEN 1 ELSE 0)
     ELSE run' = "running" /\ UNCHANGED <<io, ret>>
  /\ UNCHANGED <<linkVars, history>>

IoInit ==
  /\ EngineInit
  /\ link = "down" /\ toPeer = <<>> /\ toClient = <<>>
  /\ io = "none" /\ run = "off" /\ ret = 0
  /\ wrote = 0 /\ got = 0

=============================================================================

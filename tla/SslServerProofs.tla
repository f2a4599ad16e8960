-------------------------- MODULE SslServerProofs --------------------------
(***************************************************************************)
(* The safety of the server, proved for every peer, every sequence of      *)
(* calls, every loss of a connection and every value of the constants: the *)
(* inductive invariant ServerInv, what it implies, and that the server     *)
(* implements the abstract session of TlsSession.                          *)
(*                                                                         *)
(* The invariant relates the location of the handshake processor to the    *)
(* keys, to the flags and to what the client has proved.  It says nothing  *)
(* of the buffers: what the peer sends may be anything.                    *)
(*                                                                         *)
(* The last part is of a client of this library at the other end: both     *)
(* agree on the session when one finds the Finished of the other.  Its     *)
(* invariant, PairSafe, follows the messages of the handshake in the       *)
(* buffers of both ends and in the pipes between them.                     *)
(***************************************************************************)
EXTENDS TlsPair, TLAPS

(* Where the processor is.                                                 *)
Greeting == {"start", "read_ClientHello"}
FullOnly ==
  {"write_Certificate", "write_ServerKeyExchange", "write_CertificateRequest",
   "write_ServerHelloDone", "flush_flight", "read_Certificate", "read_ClientKeyExchange",
   "read_CertificateVerify", "skip_CertificateVerify"}
Negotiating == FullOnly \cup {"refuse", "write_fatal", "sent_fatal", "write_ServerHello"}
Finishing == {"read_CCS", "read_Finished", "flush", "write_CCS", "write_Finished", "done"}
Established ==
  {"enter_main", "main", "request", "write_HelloRequest", "read_declined", "decline",
   "write_no_renegotiation"}

(* The fields of the records, and the numbers among them.                  *)
ServerShape ==
  /\ DOMAIN seng = {"closed", "err", "application_data", "record_type_out", "shutdown_recv",
                    "reneg", "session", "in_epoch", "out_epoch"}
  /\ DOMAIN shs = {"co", "pc", "action", "ate", "can_output", "cnr", "auth", "resuming"}
  /\ DOMAIN svr = {"id", "secret", "cache", "next", "cert"}
ServerFields ==
  /\ seng.application_data \in 0 .. 2 /\ seng.reneg \in 0 .. 2
  /\ seng.in_epoch \in Nat /\ seng.out_epoch \in Nat

(* The processor has control of an engine that is not closed only.         *)
ServerControl ==
  /\ seng.closed => shs.co = "idle"
  /\ ~seng.closed /\ seng.application_data = 2 => shs.pc \in S!E!Closing

(* How many times the keys of each direction were changed.                 *)
ServerKeys ==
  ~seng.closed =>
    /\ shs.pc \in Greeting \cup Negotiating \cup Established \cup {"done"} =>
         seng.in_epoch = seng.out_epoch
    /\ shs.pc \in FullOnly => ~shs.resuming
    /\ shs.pc \in {"flush", "write_CCS", "read_Finished"} =>
         seng.in_epoch = IF shs.resuming THEN seng.out_epoch ELSE seng.out_epoch + 1
    /\ shs.pc \in {"read_CCS", "write_Finished"} =>
         seng.out_epoch = IF shs.resuming THEN seng.in_epoch + 1 ELSE seng.in_epoch
    /\ shs.pc \in Established \cup {"done", "read_Finished"} => seng.in_epoch > 0
    /\ shs.pc = "write_Finished" => seng.out_epoch > 0
    /\ seng.application_data = 1 => shs.pc \in Established \cup {"start", "close"} \cup S!E!Closing

(* Without RFC 5746, or if renegotiations are refused, there is one        *)
(* handshake, the first.                                                   *)
ServerSecure ==
  /\ ~seng.closed =>
       /\ shs.pc \in Negotiating \cup Finishing \cup Established => seng.reneg # 0
       /\ shs.pc \in Greeting => seng.reneg # 1
  /\ seng.reneg # 2 \/ opts.noreneg =>
       /\ seng.in_epoch <= 1 /\ seng.out_epoch <= 1
       /\ ~seng.closed =>
            /\ shs.pc \in Greeting \cup Negotiating \cup {"read_CCS"} => seng.in_epoch = 0
            /\ shs.pc \in {"flush", "write_CCS"} => seng.out_epoch = 0

(* What a server that insists on a certificate knows of its session.       *)
ServerProven ==
  opts.asks /\ ~opts.tolerant =>
    /\ DOMAIN svr.cache \subseteq proven
    /\ seng.application_data = 1 => svr.id \in proven
    /\ ~seng.closed =>
         /\ shs.pc \in Finishing \cup Established => svr.id \in proven
         /\ shs.pc = "write_ServerHello" /\ shs.resuming => svr.id \in proven
         /\ shs.pc = "read_ClientKeyExchange" => svr.cert \in {"sign", "ecdh", "both"}
         /\ shs.pc # "skip_CertificateVerify"

ServerInv ==
  ServerShape /\ ServerFields /\ ServerControl /\ ServerKeys /\ ServerSecure /\ ServerProven

-----------------------------------------------------------------------------
(* What a step may do, in terms of what the invariant speaks of.           *)

SameKeys ==
  /\ seng'.reneg = seng.reneg
  /\ seng'.in_epoch = seng.in_epoch /\ seng'.out_epoch = seng.out_epoch
SameData == seng'.application_data = seng.application_data
SameSession ==
  /\ shs'.resuming = shs.resuming
  /\ svr'.id = svr.id /\ svr'.cert = svr.cert /\ DOMAIN svr'.cache = DOMAIN svr.cache

(* It leaves the processor where it is,                                    *)
Stays ==
  /\ SameKeys /\ SameData /\ SameSession
  /\ seng'.closed = seng.closed /\ shs'.pc = shs.pc
  /\ seng.closed => shs'.co = shs.co

(* it fails,                                                               *)
Fails ==
  /\ SameKeys /\ SameData /\ SameSession
  /\ ~seng.closed /\ seng'.closed /\ shs'.co = "idle"

(* or the processor goes on from one location to another one:              *)
Goes ==
  /\ SameKeys /\ SameSession
  /\ ~seng.closed /\ ~seng'.closed

(* it requests a handshake, or declines one,                               *)
Requests ==
  \/ shs.pc = "main" /\ shs'.pc = "request" /\ seng'.application_data = 0
  \/ shs.pc = "request" /\ shs'.pc = "write_HelloRequest" /\ SameData
  \/ shs.pc = "write_HelloRequest" /\ shs'.pc = "enter_main" /\ SameData
  \/ shs.pc = "enter_main" /\ shs'.pc = "main" /\ SameData
Declines ==
  \/ shs.pc = "main" /\ shs'.pc = "read_declined" /\ SameData
  \/ shs.pc = "read_declined" /\ shs'.pc = "decline" /\ SameData
  \/ shs.pc = "decline" /\ shs'.pc = "write_no_renegotiation" /\ SameData
  \/ shs.pc = "write_no_renegotiation" /\ shs'.pc = "enter_main" /\ seng'.application_data = 1

(* it begins a handshake, refuses the hello, writes its flight,            *)
Greets ==
  \/ shs.pc = "main" /\ shs'.pc = "start" /\ seng.reneg # 1 /\ ~opts.noreneg /\ SameData
  \/ shs.pc = "start" /\ shs'.pc = "read_ClientHello" /\ seng'.application_data = 0
Refuses ==
  \/ shs.pc = "refuse" /\ shs'.pc = "write_fatal" /\ SameData
  \/ shs.pc = "write_fatal" /\ shs'.pc = "sent_fatal" /\ SameData
Answers ==
  /\ SameData
  /\ \/ shs.pc = "write_ServerHello" /\ shs.resuming /\ shs'.pc = "flush"
     \/ shs.pc = "write_ServerHello" /\ ~shs.resuming /\ shs'.pc = "write_Certificate"
     \/ /\ shs.pc \in {"write_Certificate", "write_ServerKeyExchange", "write_CertificateRequest"}
        /\ shs'.pc \in {"write_ServerKeyExchange", "write_CertificateRequest",
                        "write_ServerHelloDone"}
     \/ shs.pc = "write_ServerHelloDone" /\ shs'.pc = "flush_flight"
     \/ shs.pc = "flush_flight" /\ opts.asks /\ shs'.pc = "read_Certificate"
     \/ shs.pc = "flush_flight" /\ ~opts.asks /\ shs'.pc = "read_ClientKeyExchange"

(* reads the one of the client, with or without a proof,                   *)
Exchanges ==
  /\ SameData
  /\ \/ /\ shs.pc = "read_ClientKeyExchange" /\ shs'.pc = "read_CertificateVerify"
     \/ /\ shs.pc = "read_ClientKeyExchange" /\ svr.cert = "invalid"
        /\ shs'.pc = "skip_CertificateVerify"
     \/ /\ shs.pc = "read_ClientKeyExchange" /\ svr.cert \notin {"sign", "ecdh", "both"}
        /\ shs'.pc = "read_CCS"
     \/ /\ shs.pc \in {"read_ClientKeyExchange", "read_CertificateVerify"}
        /\ shs'.pc = "read_CCS" /\ svr.id \in proven'
     \/ /\ shs.pc = "skip_CertificateVerify" /\ shs'.pc = "read_CCS"

(* finishes, or closes.                                                    *)
Finishes ==
  /\ SameData
  /\ \/ shs.pc = "read_Finished" /\ shs'.pc = IF shs.resuming THEN "done" ELSE "flush"
     \/ shs.pc = "flush" /\ shs'.pc = "write_CCS"
     \/ shs.pc = "write_Finished" /\ shs'.pc = IF shs.resuming THEN "read_CCS" ELSE "done"
Closes ==
  \/ shs.pc \notin S!E!Closing /\ shs'.pc = "close" /\ SameData
  \/ /\ shs.pc = "close" /\ shs'.pc = "close_out"
     /\ seng'.application_data \in {0, 2 * seng.application_data}
  \/ shs.pc = "close_out" /\ shs'.pc = "close_wait" /\ SameData
  \/ shs.pc \in S!E!Closing /\ shs'.pc = shs.pc /\ seng'.application_data = 0

(* The other steps read the hello, take the certificate, change a key, open*)
(* the session.                                                            *)
Hears ==
  /\ shs.pc = "read_ClientHello" /\ ~seng.closed /\ ~seng'.closed /\ SameData
  /\ seng'.reneg \in {1, 2} /\ (seng.reneg = 2 => seng'.reneg = 2)
  /\ seng'.in_epoch = seng.in_epoch /\ seng'.out_epoch = seng.out_epoch
  /\ DOMAIN svr'.cache = DOMAIN svr.cache
  /\ \/ shs'.pc = "write_ServerHello" /\ shs'.resuming /\ svr'.id \in DOMAIN svr.cache
     \/ shs'.pc = "write_ServerHello" /\ ~shs'.resuming
     \/ shs'.pc = "refuse"
Accepts ==
  /\ shs.pc = "read_Certificate" /\ shs'.pc = "read_ClientKeyExchange"
  /\ ~seng.closed /\ ~seng'.closed /\ SameKeys /\ SameData
  /\ shs'.resuming = shs.resuming /\ svr'.id = svr.id /\ DOMAIN svr'.cache = DOMAIN svr.cache
  /\ opts.tolerant \/ svr'.cert \in {"sign", "ecdh", "both"}
ChangesIn ==
  /\ shs.pc = "read_CCS" /\ shs'.pc = "read_Finished"
  /\ ~seng.closed /\ ~seng'.closed /\ SameData /\ SameSession
  /\ seng'.reneg = seng.reneg
  /\ seng'.in_epoch = seng.in_epoch + 1 /\ seng'.out_epoch = seng.out_epoch
ChangesOut ==
  /\ shs.pc = "write_CCS" /\ shs'.pc = "write_Finished"
  /\ ~seng.closed /\ ~seng'.closed /\ SameData /\ SameSession
  /\ seng'.reneg = seng.reneg
  /\ seng'.in_epoch = seng.in_epoch /\ seng'.out_epoch = seng.out_epoch + 1
Opens ==
  /\ shs.pc = "done" /\ shs'.pc = "enter_main"
  /\ ~seng.closed /\ ~seng'.closed /\ SameKeys /\ seng'.application_data = 1
  /\ svr'.id = svr.id /\ DOMAIN svr'.cache \subseteq DOMAIN svr.cache \cup {svr.id}

Path ==
  Requests \/ Declines \/ Greets \/ Refuses \/ Answers \/ Exchanges \/ Finishes \/ Closes
Effect ==
  Stays \/ Fails \/ (Goes /\ Path) \/ Hears \/ Accepts \/ ChangesIn \/ ChangesOut \/ Opens

-----------------------------------------------------------------------------
(* Every effect keeps the invariant.                                       *)
LEMMA EffectKeeps ==
  ASSUME ServerInv, ServerShape', UNCHANGED opts, proven \subseteq proven', Effect
  PROVE  ServerInv'
<1> USE DEF ServerInv, ServerFields, ServerControl, SameKeys, SameData, SameSession
<1>1. CASE Stays
  <2>1. ServerFields' /\ ServerControl'
    BY <1>1 DEF Stays, S!E!Closing
  <2>2. ServerKeys'
    BY <1>1 DEF Stays, ServerKeys, Greeting, Negotiating, FullOnly, Finishing, Established,
       S!E!Closing
  <2>3. ServerSecure'
    BY <1>1 DEF Stays, ServerKeys, ServerSecure, Greeting, Negotiating, FullOnly, Finishing,
       Established, S!E!Closing
  <2>4. ServerProven'
    BY <1>1 DEF Stays, ServerKeys, ServerProven, Greeting, Negotiating, FullOnly, Finishing,
       Established, S!E!Closing
  <2> QED BY <2>1, <2>2, <2>3, <2>4
<1>2. CASE Fails
  <2>1. ServerFields' /\ ServerControl'
    BY <1>2 DEF Fails, S!E!Closing
  <2>2. ServerKeys'
    BY <1>2 DEF Fails, ServerKeys, Greeting, Negotiating, FullOnly, Finishing, Established,
       S!E!Closing
  <2>3. ServerSecure'
    BY <1>2 DEF Fails, ServerKeys, ServerSecure, Greeting, Negotiating, FullOnly, Finishing,
       Established, S!E!Closing
  <2>4. ServerProven'
    BY <1>2 DEF Fails, ServerKeys, ServerProven, Greeting, Negotiating, FullOnly, Finishing,
       Established, S!E!Closing
  <2> QED BY <2>1, <2>2, <2>3, <2>4
<1>3. CASE Goes /\ Requests
  <2>1. ServerFields' /\ ServerControl'
    BY <1>3 DEF Goes, Requests, S!E!Closing
  <2>2. ServerKeys'
    BY <1>3 DEF Goes, Requests, ServerKeys, Greeting, Negotiating, FullOnly, Finishing,
       Established, S!E!Closing
  <2>3. ServerSecure'
    BY <1>3 DEF Goes, Requests, ServerKeys, ServerSecure, Greeting, Negotiating, FullOnly,
       Finishing, Established, S!E!Closing
  <2>4. ServerProven'
    BY <1>3 DEF Goes, Requests, ServerKeys, ServerProven, Greeting, Negotiating, FullOnly,
       Finishing, Established, S!E!Closing
  <2> QED BY <2>1, <2>2, <2>3, <2>4
<1>4. CASE Goes /\ Declines
  <2>1. ServerFields' /\ ServerControl'
    BY <1>4 DEF Goes, Declines, S!E!Closing
  <2>2. ServerKeys'
    BY <1>4 DEF Goes, Declines, ServerKeys, Greeting, Negotiating, FullOnly, Finishing,
       Established, S!E!Closing
  <2>3. ServerSecure'
    BY <1>4 DEF Goes, Declines, ServerKeys, ServerSecure, Greeting, Negotiating, FullOnly,
       Finishing, Established, S!E!Closing
  <2>4. ServerProven'
    BY <1>4 DEF Goes, Declines, ServerKeys, ServerProven, Greeting, Negotiating, FullOnly,
       Finishing, Established, S!E!Closing
  <2> QED BY <2>1, <2>2, <2>3, <2>4
<1>5. CASE Goes /\ Greets
  <2>1. ServerFields' /\ ServerControl'
    BY <1>5 DEF Goes, Greets, S!E!Closing
  <2>2. ServerKeys'
    BY <1>5 DEF Goes, Greets, ServerKeys, Greeting, Negotiating, FullOnly, Finishing, Established,
       S!E!Closing
  <2>3. ServerSecure'
    BY <1>5 DEF Goes, Greets, ServerKeys, ServerSecure, Greeting, Negotiating, FullOnly,
       Finishing, Established, S!E!Closing
  <2>4. ServerProven'
    BY <1>5 DEF Goes, Greets, ServerKeys, ServerProven, Greeting, Negotiating, FullOnly,
       Finishing, Established, S!E!Closing
  <2> QED BY <2>1, <2>2, <2>3, <2>4
<1>6. CASE Goes /\ Refuses
  <2>1. ServerFields' /\ ServerControl'
    BY <1>6 DEF Goes, Refuses, S!E!Closing
  <2>2. ServerKeys'
    BY <1>6 DEF Goes, Refuses, ServerKeys, Greeting, Negotiating, FullOnly, Finishing,
       Established, S!E!Closing
  <2>3. ServerSecure'
    BY <1>6 DEF Goes, Refuses, ServerKeys, ServerSecure, Greeting, Negotiating, FullOnly,
       Finishing, Established, S!E!Closing
  <2>4. ServerProven'
    BY <1>6 DEF Goes, Refuses, ServerKeys, ServerProven, Greeting, Negotiating, FullOnly,
       Finishing, Established, S!E!Closing
  <2> QED BY <2>1, <2>2, <2>3, <2>4
<1>7. CASE Goes /\ Answers
  <2>1. ServerFields' /\ ServerControl'
    BY <1>7 DEF Goes, Answers, S!E!Closing
  <2>2. ServerKeys'
    BY <1>7 DEF Goes, Answers, ServerKeys, Greeting, Negotiating, FullOnly, Finishing,
       Established, S!E!Closing
  <2>3. ServerSecure'
    BY <1>7 DEF Goes, Answers, ServerKeys, ServerSecure, Greeting, Negotiating, FullOnly,
       Finishing, Established, S!E!Closing
  <2>4. ServerProven'
    BY <1>7 DEF Goes, Answers, ServerKeys, ServerProven, Greeting, Negotiating, FullOnly,
       Finishing, Established, S!E!Closing
  <2> QED BY <2>1, <2>2, <2>3, <2>4
<1>8. CASE Goes /\ Exchanges
  <2>1. ServerFields' /\ ServerControl'
    BY <1>8 DEF Goes, Exchanges, S!E!Closing
  <2>2. ServerKeys'
    BY <1>8 DEF Goes, Exchanges, ServerKeys, Greeting, Negotiating, FullOnly, Finishing,
       Established, S!E!Closing
  <2>3. ServerSecure'
    BY <1>8 DEF Goes, Exchanges, ServerKeys, ServerSecure, Greeting, Negotiating, FullOnly,
       Finishing, Established, S!E!Closing
  <2>4. ServerProven'
    BY <1>8 DEF Goes, Exchanges, ServerKeys, ServerProven, Greeting, Negotiating, FullOnly,
       Finishing, Established, S!E!Closing
  <2> QED BY <2>1, <2>2, <2>3, <2>4
<1>9. CASE Goes /\ Finishes
  <2>1. ServerFields' /\ ServerControl'
    BY <1>9 DEF Goes, Finishes, S!E!Closing
  <2>2. ServerKeys'
    BY <1>9 DEF Goes, Finishes, ServerKeys, Greeting, Negotiating, FullOnly, Finishing,
       Established, S!E!Closing
  <2>3. ServerSecure'
    BY <1>9 DEF Goes, Finishes, ServerKeys, ServerSecure, Greeting, Negotiating, FullOnly,
       Finishing, Established, S!E!Closing
  <2>4. ServerProven'
    BY <1>9 DEF Goes, Finishes, ServerKeys, ServerProven, Greeting, Negotiating, FullOnly,
       Finishing, Established, S!E!Closing
  <2> QED BY <2>1, <2>2, <2>3, <2>4
<1>10. CASE Goes /\ Closes
  <2>1. ServerFields' /\ ServerControl'
    BY <1>10 DEF Goes, Closes, S!E!Closing
  <2>2. ServerKeys'
    BY <1>10 DEF Goes, Closes, ServerKeys, Greeting, Negotiating, FullOnly, Finishing,
       Established, S!E!Closing
  <2>3. ServerSecure'
    BY <1>10 DEF Goes, Closes, ServerKeys, ServerSecure, Greeting, Negotiating, FullOnly,
       Finishing, Established, S!E!Closing
  <2>4. ServerProven'
    BY <1>10 DEF Goes, Closes, ServerKeys, ServerProven, Greeting, Negotiating, FullOnly,
       Finishing, Established, S!E!Closing
  <2> QED BY <2>1, <2>2, <2>3, <2>4
<1>11. CASE Hears
  <2>1. ServerFields' /\ ServerControl'
    BY <1>11 DEF Hears, S!E!Closing
  <2>2. ServerKeys'
    BY <1>11 DEF Hears, ServerKeys, Greeting, Negotiating, FullOnly, Finishing, Established,
       S!E!Closing
  <2>3. ServerSecure'
    BY <1>11 DEF Hears, ServerKeys, ServerSecure, Greeting, Negotiating, FullOnly, Finishing,
       Established, S!E!Closing
  <2>4. ServerProven'
    BY <1>11 DEF Hears, ServerKeys, ServerProven, Greeting, Negotiating, FullOnly, Finishing,
       Established, S!E!Closing
  <2> QED BY <2>1, <2>2, <2>3, <2>4
<1>12. CASE Accepts
  <2>1. ServerFields' /\ ServerControl'
    BY <1>12 DEF Accepts, S!E!Closing
  <2>2. ServerKeys'
    BY <1>12 DEF Accepts, ServerKeys, Greeting, Negotiating, FullOnly, Finishing, Established,
       S!E!Closing
  <2>3. ServerSecure'
    BY <1>12 DEF Accepts, ServerKeys, ServerSecure, Greeting, Negotiating, FullOnly, Finishing,
       Established, S!E!Closing
  <2>4. ServerProven'
    BY <1>12 DEF Accepts, ServerKeys, ServerProven, Greeting, Negotiating, FullOnly, Finishing,
       Established, S!E!Closing
  <2> QED BY <2>1, <2>2, <2>3, <2>4
<1>13. CASE ChangesIn
  <2>1. ServerFields' /\ ServerControl'
    BY <1>13 DEF ChangesIn, S!E!Closing
  <2>2. ServerKeys'
    BY <1>13 DEF ChangesIn, ServerKeys, Greeting, Negotiating, FullOnly, Finishing, Established,
       S!E!Closing
  <2>3. ServerSecure'
    BY <1>13 DEF ChangesIn, ServerKeys, ServerSecure, Greeting, Negotiating, FullOnly, Finishing,
       Established, S!E!Closing
  <2>4. ServerProven'
    BY <1>13 DEF ChangesIn, ServerKeys, ServerProven, Greeting, Negotiating, FullOnly, Finishing,
       Established, S!E!Closing
  <2> QED BY <2>1, <2>2, <2>3, <2>4
<1>14. CASE ChangesOut
  <2>1. ServerFields' /\ ServerControl'
    BY <1>14 DEF ChangesOut, S!E!Closing
  <2>2. ServerKeys'
    BY <1>14 DEF ChangesOut, ServerKeys, Greeting, Negotiating, FullOnly, Finishing, Established,
       S!E!Closing
  <2>3. ServerSecure'
    BY <1>14 DEF ChangesOut, ServerKeys, ServerSecure, Greeting, Negotiating, FullOnly, Finishing,
       Established, S!E!Closing
  <2>4. ServerProven'
    BY <1>14 DEF ChangesOut, ServerKeys, ServerProven, Greeting, Negotiating, FullOnly, Finishing,
       Established, S!E!Closing
  <2> QED BY <2>1, <2>2, <2>3, <2>4
<1>15. CASE Opens
  <2>1. ServerFields' /\ ServerControl'
    BY <1>15 DEF Opens, S!E!Closing
  <2>2. ServerKeys'
    BY <1>15 DEF Opens, ServerKeys, Greeting, Negotiating, FullOnly, Finishing, Established,
       S!E!Closing
  <2>3. ServerSecure'
    BY <1>15 DEF Opens, ServerKeys, ServerSecure, Greeting, Negotiating, FullOnly, Finishing,
       Established, S!E!Closing
  <2>4. ServerProven'
    BY <1>15 DEF Opens, ServerKeys, ServerProven, Greeting, Negotiating, FullOnly, Finishing,
       Established, S!E!Closing
  <2> QED BY <2>1, <2>2, <2>3, <2>4
<1> QED BY <1>1, <1>2, <1>3, <1>4, <1>5, <1>6, <1>7, <1>8, <1>9, <1>10, <1>11, <1>12, <1>13,
       <1>14, <1>15 DEF Effect, Path

-----------------------------------------------------------------------------
(* The steps of the handshake processor have these effects.                *)

(* The ClientHello.                                                        *)
LEMMA HelloEffects ==
  ASSUME ServerShape, ServerFields, shs.co = "running" => ~seng.closed,
         NEW hello, S!ReadClientHello(hello)
  PROVE  ServerShape' /\ (Fails \/ Hears)
<1> DEFINE reneg == S!SecureRenegotiation(hello)
           cached == hello.id \in DOMAIN svr.cache
<1>1. /\ shs.pc = "read_ClientHello" /\ ~seng.closed
      /\ reneg \in 1 .. 3 /\ (seng.reneg = 2 => reneg # 1)
  BY DEF S!ReadClientHello, S!ServerReads, S!E!Running, S!SecureRenegotiation, ServerFields
<1> USE DEF ServerShape, Hears, Fails, SameKeys, SameData, SameSession
<1>2. CASE S!E!Fail("BAD_SECRENEG") /\ UNCHANGED svr
  BY <1>1, <1>2 DEF S!E!Fail
<1>3. CASE S!E!Fail("UNEXPECTED") /\ UNCHANGED svr
  BY <1>1, <1>3 DEF S!E!Fail
<1>4. CASE /\ reneg # 3 /\ cached
           /\ svr' = [svr EXCEPT !.id = hello.id, !.secret = svr.cache[hello.id]]
           /\ seng' = [seng EXCEPT !.reneg = reneg]
           /\ shs' = [shs EXCEPT !.pc = "write_ServerHello", !.resuming = TRUE, !.ate = TRUE]
  <2> HIDE DEF reneg
  <2>1. shs'.resuming = TRUE /\ shs'.pc = "write_ServerHello" /\ DOMAIN shs' = DOMAIN shs
    BY <1>4
  <2>2. svr'.id \in DOMAIN svr.cache /\ svr'.cache = svr.cache /\ DOMAIN svr' = DOMAIN svr
    BY <1>4
  <2>3. /\ ~seng'.closed /\ SameData /\ DOMAIN seng' = DOMAIN seng
        /\ seng'.reneg \in {1, 2} /\ (seng.reneg = 2 => seng'.reneg = 2)
        /\ seng'.in_epoch = seng.in_epoch /\ seng'.out_epoch = seng.out_epoch
    BY <1>1, <1>4
  <2> QED BY <1>1, <2>1, <2>2, <2>3
<1>5. CASE /\ reneg # 3
           /\ svr' = [svr EXCEPT !.id = svr.next, !.next = @ + 1,
                                 !.secret = IF cached THEN svr.cache[hello.id] ELSE @]
           /\ seng' = [seng EXCEPT !.reneg = reneg]
           /\ shs' = [shs EXCEPT !.pc = "write_ServerHello", !.resuming = FALSE, !.ate = TRUE]
  <2> HIDE DEF reneg, cached
  <2>1. shs'.resuming = FALSE /\ shs'.pc = "write_ServerHello" /\ DOMAIN shs' = DOMAIN shs
    BY <1>5
  <2>2. svr'.cache = svr.cache /\ DOMAIN svr' = DOMAIN svr
    BY <1>5
  <2>3. /\ ~seng'.closed /\ SameData /\ DOMAIN seng' = DOMAIN seng
        /\ seng'.reneg \in {1, 2} /\ (seng.reneg = 2 => seng'.reneg = 2)
        /\ seng'.in_epoch = seng.in_epoch /\ seng'.out_epoch = seng.out_epoch
    BY <1>1, <1>5
  <2> QED BY <1>1, <2>1, <2>2, <2>3
<1>6. CASE /\ reneg # 3
           /\ svr' = [svr EXCEPT !.id = hello.id,
                                 !.secret = IF cached THEN svr.cache[hello.id] ELSE @]
           /\ seng' = [seng EXCEPT !.reneg = reneg]
           /\ S!ReadOn("refuse")
  <2> HIDE DEF reneg, cached
  <2> QED BY <1>1, <1>6 DEF S!ReadOn, S!E!GotoAte
<1> QED BY <1>2, <1>3, <1>4, <1>5, <1>6 DEF S!ReadClientHello

(* The flight of the server.                                               *)
LEMMA FlightEffects ==
  ASSUME ServerShape, shs.co = "running" => ~seng.closed, S!WriteServerFlight
  PROVE  ServerShape' /\ (Stays \/ (Goes /\ Answers))
<1> USE DEF ServerShape, Stays, Goes, Answers, SameKeys, SameData, SameSession
<1>1. ~seng.closed /\ shs.pc \in DOMAIN S!ServerFlight /\ UNCHANGED <<seng, svr, opts>>
  BY DEF S!WriteServerFlight, S!E!Suspend
<1>2. CASE S!E!Suspend(shs.pc)
  BY <1>1, <1>2 DEF S!E!Suspend
<1>3. CASE /\ shs'.pc = S!ServerFlight[shs.pc].next
           /\ DOMAIN shs' = DOMAIN shs /\ shs'.resuming = shs.resuming
  <2>1. /\ shs.pc = "write_ServerHello" => shs'.pc = S!AfterHello
        /\ shs.pc = "write_Certificate" => shs'.pc = S!AfterCertificate
        /\ shs.pc = "write_ServerKeyExchange" =>
             shs'.pc \in {"write_CertificateRequest", "write_ServerHelloDone"}
        /\ shs.pc = "write_CertificateRequest" => shs'.pc = "write_ServerHelloDone"
        /\ shs.pc = "write_ServerHelloDone" => shs'.pc = "flush_flight"
    BY <1>3 DEF S!ServerFlight
  <2> QED BY <1>1, <1>3, <2>1 DEF S!ServerFlight, S!AfterHello, S!AfterCertificate
<1>4. S!E!Suspend(shs.pc) \/ S!E!Goto(S!ServerFlight[shs.pc].next)
        \/ shs' = [shs EXCEPT !.pc = S!ServerFlight[shs.pc].next, !.can_output = FALSE]
  BY DEF S!WriteServerFlight
<1> QED BY <1>2, <1>3, <1>4 DEF S!E!Goto

(* What comes from the client, with a verdict on it.                       *)
LEMMA CertificateEffects ==
  ASSUME ServerShape, shs.co = "running" => ~seng.closed,
         NEW verdict \in S!Verdicts, S!ReadClientCertificate(verdict)
  PROVE  ServerShape' /\ (Fails \/ Accepts)
<1> USE DEF ServerShape, Fails, Accepts, SameKeys, SameData, SameSession
<1>1. shs.pc = "read_Certificate" /\ ~seng.closed
  BY DEF S!ReadClientCertificate, S!ServerReads, S!E!Running
<1>2. CASE S!E!Fail("NO_CLIENT_AUTH") /\ UNCHANGED svr
  BY <1>1, <1>2 DEF S!E!Fail
<1>3. CASE /\ verdict \notin {"none", "invalid"} \/ opts.tolerant
           /\ svr' = [svr EXCEPT !.cert = verdict]
           /\ S!ReadOn("read_ClientKeyExchange") /\ UNCHANGED seng
  BY <1>1, <1>3 DEF S!ReadOn, S!E!GotoAte, S!Verdicts
<1> QED BY <1>2, <1>3 DEF S!ReadClientCertificate

LEMMA VerifyEffects ==
  ASSUME ServerShape, shs.co = "running" => ~seng.closed, NEW ok,
         proven' = IF Proof THEN proven \cup {svr.id} ELSE proven,
         S!ReadCertificateVerify(ok)
  PROVE  ServerShape' /\ (Fails \/ (Goes /\ Exchanges))
<1> USE DEF ServerShape, Fails, Goes, Exchanges, SameKeys, SameData, SameSession
<1>1. /\ shs.co = "running" /\ shs.pc = "read_CertificateVerify" /\ ~seng.closed
      /\ UNCHANGED svr
  BY DEF S!ReadCertificateVerify, S!ServerReads, S!E!Running, S!unmoved
<1>2. CASE S!E!Fail("BAD_SIGNATURE")
  BY <1>1, <1>2 DEF S!E!Fail
<1>3. CASE S!ReadOn("read_CCS") /\ UNCHANGED seng
  BY <1>1, <1>3 DEF S!ReadOn, S!E!GotoAte, Proof
<1> QED BY <1>2, <1>3 DEF S!ReadCertificateVerify

LEMMA FinishedEffects ==
  ASSUME ServerShape, shs.co = "running" => ~seng.closed, NEW ok, S!ReadClientFinished(ok)
  PROVE  ServerShape' /\ (Fails \/ (Goes /\ Finishes))
<1> USE DEF ServerShape, Fails, Goes, Finishes, SameKeys, SameData, SameSession
<1>1. shs.pc = "read_Finished" /\ ~seng.closed /\ UNCHANGED svr
  BY DEF S!ReadClientFinished, S!ServerReads, S!E!Running, S!unmoved
<1>2. CASE S!E!Fail("BAD_FINISHED")
  BY <1>1, <1>2 DEF S!E!Fail
<1>3. CASE S!ReadOn(IF shs.resuming THEN "done" ELSE "flush") /\ UNCHANGED seng
  BY <1>1, <1>3 DEF S!ReadOn, S!E!GotoAte
<1> QED BY <1>2, <1>3 DEF S!ReadClientFinished

(* All of them.                                                            *)
LEMMA ServerEffects ==
  ASSUME ServerShape, ServerFields, seng.closed => shs.co = "idle",
         NEW hellos, NEW verdicts \in SUBSET S!Verdicts, NEW genuine,
         S!ServerStep(hellos, verdicts, genuine),
         proven' = IF Proof THEN proven \cup {svr.id} ELSE proven
  PROVE  ServerShape' /\ Effect
<1>1. shs.co = "running" => ~seng.closed
  OBVIOUS
<1> USE DEF S!E!Running, S!unmoved
<1>2. CASE S!E!wait_co /\ UNCHANGED S!unmoved
  <2>1. ServerShape' /\ (Stays \/ Fails \/ (Goes /\ Closes))
    BY <1>2 DEF S!E!wait_co, S!E!CloseRequested, S!E!AlertReceived, S!E!Resumed, S!E!Fail,
       S!E!GotoAte, S!E!Goto, Closes, ServerShape, ServerFields, SameKeys, SameData, SameSession,
       Stays, Fails, Goes
  <2> QED BY <2>1 DEF Effect, Path
<1>3. CASE S!E!wait_for_close /\ UNCHANGED S!unmoved
  <2>1. ServerShape' /\ (Stays \/ Fails \/ (Goes /\ Closes))
    BY <1>3 DEF S!E!wait_for_close, S!E!CloseAlertReceived, S!E!Fail, S!E!GotoAte, S!E!Goto,
       Closes, ServerShape, ServerFields, SameKeys, SameData, SameSession, Stays, Fails, Goes
  <2> QED BY <2>1 DEF Effect, Path
<1>4. CASE S!ServerMain
  <2>1. ServerShape' /\ (Stays \/ Fails \/ (Goes /\ (Requests \/ Declines \/ Greets)))
    BY <1>4 DEF S!ServerMain, S!E!Goto, S!E!Fail, S!E!Suspend, Requests, Declines, Greets,
       ServerShape, ServerFields, SameKeys, SameData, SameSession, Stays, Fails, Goes
  <2> QED BY <2>1 DEF Effect, Path
<1>5. CASE S!FlushRequest
  <2>1. ServerShape' /\ (Stays \/ Fails \/ (Goes /\ Requests))
    BY <1>5 DEF S!FlushRequest, Requests, ServerShape, ServerFields, SameKeys, SameData,
       SameSession, Stays, Fails, Goes
  <2> QED BY <2>1 DEF Effect, Path
<1>6. CASE S!WriteHelloRequest
  <2>1. ServerShape' /\ (Stays \/ Fails \/ (Goes /\ Requests))
    BY <1>6 DEF S!WriteHelloRequest, S!E!Suspend, Requests, ServerShape, ServerFields, SameKeys,
       SameData, SameSession, Stays, Fails, Goes
  <2> QED BY <2>1 DEF Effect, Path
<1>7. CASE S!ServerReadWaits
  <2>1. ServerShape' /\ (Stays \/ Fails)
    BY <1>7 DEF S!ServerReadWaits, S!ServerReading, S!E!Suspend, ServerShape, ServerFields,
       SameKeys, SameData, SameSession, Stays, Fails
  <2> QED BY <2>1 DEF Effect, Path
<1>8. CASE S!ServerSkips
  <2>1. ServerShape' /\ (Stays \/ Fails)
    BY <1>8 DEF S!ServerSkips, S!ServerReading, S!ReadOn, S!E!GotoAte, ServerShape, ServerFields,
       SameKeys, SameData, SameSession, Stays, Fails
  <2> QED BY <2>1 DEF Effect, Path
<1>9. CASE S!ServerReadUnexpected
  <2>1. ServerShape' /\ (Stays \/ Fails)
    BY <1>9 DEF S!ServerReadUnexpected, S!ServerReading, S!E!Fail, ServerShape, ServerFields,
       SameKeys, SameData, SameSession, Stays, Fails
  <2> QED BY <2>1 DEF Effect, Path
<1>10. CASE S!SkipClientHello
  <2>1. ServerShape' /\ (Stays \/ Fails \/ (Goes /\ Declines))
    BY <1>10 DEF S!SkipClientHello, S!ServerReads, S!ReadOn, S!E!GotoAte, Declines, ServerShape,
       ServerFields, SameKeys, SameData, SameSession, Stays, Fails, Goes
  <2> QED BY <2>1 DEF Effect, Path
<1>11. CASE S!ServerDecline
  <2>1. ServerShape' /\ (Stays \/ Fails \/ (Goes /\ Declines))
    BY <1>11 DEF S!ServerDecline, S!E!Decline, Declines, ServerShape, ServerFields, SameKeys,
       SameData, SameSession, Stays, Fails, Goes
  <2> QED BY <2>1 DEF Effect, Path
<1>12. CASE S!WriteRefusal
  <2>1. ServerShape' /\ (Stays \/ Fails \/ (Goes /\ Declines))
    BY <1>12 DEF S!WriteRefusal, S!E!WriteNoRenegotiation, S!E!OpenChannel, S!E!Suspend, Declines,
       ServerShape, ServerFields, SameKeys, SameData, SameSession, Stays, Fails, Goes
  <2> QED BY <2>1 DEF Effect, Path
<1>13. CASE S!ServerStart
  <2>1. ServerShape' /\ (Stays \/ Fails \/ (Goes /\ Greets))
    BY <1>13 DEF S!ServerStart, S!E!Goto, Greets, ServerShape, ServerFields, SameKeys, SameData,
       SameSession, Stays, Fails, Goes
  <2> QED BY <2>1 DEF Effect, Path
<1>14. CASE \E hello \in hellos : S!ReadClientHello(hello)
  BY <1>1, <1>14, HelloEffects DEF Effect, Path
<1>15. CASE S!Refuse
  <2>1. ServerShape' /\ (Stays \/ Fails \/ (Goes /\ Refuses))
    BY <1>15 DEF S!Refuse, Refuses, ServerShape, ServerFields, SameKeys, SameData, SameSession,
       Stays, Fails, Goes
  <2> QED BY <2>1 DEF Effect, Path
<1>16. CASE S!WriteFatal
  <2>1. ServerShape' /\ (Stays \/ Fails \/ (Goes /\ Refuses))
    BY <1>16 DEF S!WriteFatal, S!E!Suspend, Refuses, ServerShape, ServerFields, SameKeys,
       SameData, SameSession, Stays, Fails, Goes
  <2> QED BY <2>1 DEF Effect, Path
<1>17. CASE S!FatalSent
  <2>1. ServerShape' /\ (Stays \/ Fails)
    BY <1>17 DEF S!FatalSent, S!E!Suspend, S!E!Fail, ServerShape, ServerFields, SameKeys,
       SameData, SameSession, Stays, Fails
  <2> QED BY <2>1 DEF Effect, Path
<1>18. CASE S!WriteServerFlight
  BY <1>1, <1>18, FlightEffects DEF Effect, Path
<1>19. CASE S!EndFlight
  <2>1. ServerShape' /\ (Stays \/ Fails \/ (Goes /\ Answers))
    BY <1>19 DEF S!EndFlight, Answers, ServerShape, ServerFields, SameKeys, SameData, SameSession,
       Stays, Fails, Goes
  <2> QED BY <2>1 DEF Effect, Path
<1>20. CASE \E verdict \in verdicts : S!ReadClientCertificate(verdict)
  BY <1>1, <1>20, CertificateEffects DEF Effect, Path
<1>21. CASE S!ReadKeyExchange
  <2>1. ServerShape' /\ (Stays \/ Fails \/ (Goes /\ Exchanges))
    BY <1>21 DEF S!ReadKeyExchange, S!AfterKeyExchange, S!Signs, S!ServerReads, S!E!Fail,
       S!ReadOn, S!E!GotoAte, Exchanges, ServerShape, ServerFields, SameKeys, SameData,
       SameSession, Stays, Fails, Goes
  <2> QED BY <2>1 DEF Effect, Path
<1>22. CASE S!ReadEmptyKeyExchange
  <2>1. ServerShape' /\ (Stays \/ Fails \/ (Goes /\ Exchanges))
    BY <1>22 DEF S!ReadEmptyKeyExchange, S!ServerReads, S!E!Fail, S!ReadOn, S!E!GotoAte,
       Exchanges, Proof, ServerShape, ServerFields, SameKeys, SameData, SameSession, Stays, Fails,
       Goes
  <2> QED BY <2>1 DEF Effect, Path
<1>23. CASE \E ok \in genuine : S!ReadCertificateVerify(ok)
  BY <1>1, <1>23, VerifyEffects DEF Effect, Path
<1>24. CASE \E ok \in genuine : S!ReadClientFinished(ok)
  BY <1>1, <1>24, FinishedEffects DEF Effect, Path
<1>25. CASE S!SkipCertificateVerify
  <2>1. ServerShape' /\ (Stays \/ Fails \/ (Goes /\ Exchanges))
    BY <1>25 DEF S!SkipCertificateVerify, S!ServerReads, S!ReadOn, S!E!GotoAte, Exchanges,
       ServerShape, ServerFields, SameKeys, SameData, SameSession, Stays, Fails, Goes
  <2> QED BY <2>1 DEF Effect, Path
<1>26. CASE S!ServerReadCCS
  <2>1. ServerShape' /\ (Stays \/ Fails \/ ChangesIn)
    BY <1>26 DEF S!ServerReadCCS, S!E!ReadCCS, S!E!Fail, S!E!Suspend, S!E!GotoAte, ChangesIn,
       ServerShape, ServerFields, SameKeys, SameData, SameSession, Stays, Fails
  <2> QED BY <2>1 DEF Effect, Path
<1>27. CASE S!ServerFlush
  <2>1. ServerShape' /\ (Stays \/ Fails \/ (Goes /\ Finishes))
    BY <1>27 DEF S!ServerFlush, S!E!FlushFlight, Finishes, ServerShape, ServerFields, SameKeys,
       SameData, SameSession, Stays, Fails, Goes
  <2> QED BY <2>1 DEF Effect, Path
<1>28. CASE S!ServerWriteCCS
  <2>1. ServerShape' /\ (Stays \/ Fails \/ ChangesOut)
    BY <1>28 DEF S!ServerWriteCCS, S!E!WriteCCS, S!E!Suspend, ChangesOut, ServerShape,
       ServerFields, SameKeys, SameData, SameSession, Stays, Fails
  <2> QED BY <2>1 DEF Effect, Path
<1>29. CASE S!ServerWriteFinished
  <2>1. ServerShape' /\ (Stays \/ Fails \/ (Goes /\ Finishes))
    BY <1>29 DEF S!ServerWriteFinished, S!E!Suspend, Finishes, ServerShape, ServerFields,
       SameKeys, SameData, SameSession, Stays, Fails, Goes
  <2> QED BY <2>1 DEF Effect, Path
<1>30. CASE S!ServerDone
  <2>1. ServerShape' /\ (Stays \/ Fails \/ Opens)
    BY <1>30 DEF S!ServerDone, S!E!HandshakeDone, S!E!OpenChannel, S!E!Goto, Opens, ServerShape,
       ServerFields, SameKeys, SameData, SameSession, Stays, Fails
  <2> QED BY <2>1 DEF Effect, Path
<1>31. CASE S!ServerEnterMain
  <2>1. ServerShape' /\ (Stays \/ Fails \/ (Goes /\ Requests))
    BY <1>31 DEF S!ServerEnterMain, S!E!EnterMain, S!E!Suspend, Requests, ServerShape,
       ServerFields, SameKeys, SameData, SameSession, Stays, Fails, Goes
  <2> QED BY <2>1 DEF Effect, Path
<1>32. CASE S!E!StartClose /\ UNCHANGED S!unmoved
  <2>1. ServerShape' /\ (Stays \/ Fails \/ (Goes /\ Closes))
    BY <1>32 DEF S!E!StartClose, Closes, ServerShape, ServerFields, SameKeys, SameData,
       SameSession, Stays, Fails, Goes
  <2> QED BY <2>1 DEF Effect, Path
<1>33. CASE S!E!WriteCloseNotify /\ UNCHANGED S!unmoved
  <2>1. ServerShape' /\ (Stays \/ Fails \/ (Goes /\ Closes))
    BY <1>33 DEF S!E!WriteCloseNotify, S!E!Suspend, Closes, ServerShape, ServerFields, SameKeys,
       SameData, SameSession, Stays, Fails, Goes
  <2> QED BY <2>1 DEF Effect, Path
<1>34. CASE S!E!AwaitCloseNotify /\ UNCHANGED S!unmoved
  <2>1. ServerShape' /\ (Stays \/ Fails)
    BY <1>34 DEF S!E!AwaitCloseNotify, S!E!Suspend, S!E!Fail, ServerShape, ServerFields, SameKeys,
       SameData, SameSession, Stays, Fails
  <2> QED BY <2>1 DEF Effect, Path
<1> QED BY <1>2, <1>3, <1>4, <1>5, <1>6, <1>7, <1>8, <1>9, <1>10, <1>11, <1>12, <1>13, <1>14,
       <1>15, <1>16, <1>17, <1>18, <1>19, <1>20, <1>21, <1>22, <1>23, <1>24, <1>25, <1>26, <1>27,
       <1>28, <1>29, <1>30, <1>31, <1>32, <1>33, <1>34 DEF S!ServerStep

-----------------------------------------------------------------------------
(* The calls of the application and the records that arrive: the processor *)
(* is woken up where it is, or a bad record makes the engine fail.         *)
LEMMA CallEffects ==
  ASSUME ServerShape, S!E!Idle,
         \/ ServerSends \/ ServerReceives \/ ServerWrites \/ ServerReads \/ ServerCloses
         \/ ServerRenegotiates \/ AnythingComes
  PROVE  ServerShape' /\ (Stays \/ Fails)
<1> USE DEF ServerShape, Stays, Fails, SameKeys, SameData, SameSession, unmoved
<1>1. CASE ServerSends
  BY <1>1 DEF ServerSends, S!E!SENDREC, S!E!sendrec_ack, S!E!Jump
<1>2. CASE ServerReceives
  <2> DEFINE rec == Head(toServer)
  <2>1. ~seng.closed /\ UNCHANGED svr
    BY <1>2 DEF ServerReceives, S!E!RECVREC
  <2>2. CASE S!E!RecvBadRecord(rec)
    BY <2>1, <2>2 DEF S!E!RecvBadRecord, S!E!Fail
  <2>3. CASE S!E!RecvHandshake(rec)
    BY <2>1, <2>3 DEF S!E!RecvHandshake, S!E!Jump
  <2>4. CASE S!E!RecvData(rec)
    BY <2>1, <2>4 DEF S!E!RecvData, S!E!Fail, S!E!engineVars
  <2> QED BY <1>2, <2>2, <2>3, <2>4 DEF ServerReceives, S!E!recvrec_ack
<1>3. CASE ServerWrites \/ ServerReads \/ AnythingComes
  BY <1>3 DEF ServerWrites, ServerReads, AnythingComes, S!E!recvapp_ack
<1>4. CASE ServerCloses
  BY <1>4 DEF ServerCloses, S!E!engine_close, S!E!Jump
<1>5. CASE ServerRenegotiates
  BY <1>5 DEF ServerRenegotiates, S!server_renegotiate, S!E!engine_renegotiate,
       S!E!MayRenegotiate, S!E!Jump, S!unmoved
<1> QED BY <1>1, <1>2, <1>3, <1>4, <1>5

(* br_ssl_server_reset: the session cache stays.                           *)
LEMMA ResetKeeps ==
  ASSUME ServerInv, S!server_reset, UNCHANGED proven
  PROVE  ServerInv'
<1>1. /\ ~seng'.closed /\ seng'.application_data = 0 /\ seng'.reneg = 0
      /\ seng'.in_epoch = 0 /\ seng'.out_epoch = 0
      /\ shs'.pc = "start" /\ UNCHANGED <<opts, proven>>
      /\ DOMAIN svr'.cache = DOMAIN svr.cache /\ ServerShape'
  BY DEF S!server_reset, S!E!client_reset, S!E!FreshEngine, ServerInv, ServerShape
<1>2. ServerFields' /\ ServerControl' /\ ServerKeys'
  BY <1>1 DEF ServerFields, ServerControl, ServerKeys, Greeting, Negotiating, FullOnly,
       Finishing, Established
<1>3. ServerSecure' /\ ServerProven'
  BY <1>1 DEF ServerInv, ServerSecure, ServerProven, Greeting, Negotiating, FullOnly,
       Finishing, Established
<1> QED BY <1>1, <1>2, <1>3 DEF ServerInv

(* Whatever happens, the server starts over or one of these effects shows. *)
LEMMA PairEffects ==
  ASSUME ServerInv, [PairNext]_pairVars
  PROVE  \/ S!server_reset /\ UNCHANGED proven
         \/ ServerShape' /\ Effect /\ UNCHANGED opts /\ proven \subseteq proven'
<1>1. CASE UNCHANGED <<seng, shs, opts, svr, proven>>
  BY <1>1 DEF ServerInv, ServerShape, Effect, Stays, SameKeys, SameData, SameSession
<1>2. CASE ServerProcesses
  <2>1. \E hellos, genuine : \E verdicts \in SUBSET S!Verdicts :
             S!ServerStep(hellos, verdicts, genuine)
    <3>1. CASE peer = "client"
      <4> DEFINE verdicts == IF ClientCert THEN {"sign", "invalid"} ELSE {"none"}
      <4>1. S!ServerStep({wire.offer}, verdicts, {TRUE})
        BY <1>2, <3>1 DEF ServerProcesses
      <4>2. verdicts \in SUBSET S!Verdicts
        BY DEF S!Verdicts
      <4> HIDE DEF verdicts
      <4> QED BY <4>1, <4>2
    <3>2. CASE peer # "client"
      BY <1>2, <3>2 DEF ServerProcesses
    <3> QED BY <3>1, <3>2
  <2>2. proven' = IF Proof THEN proven \cup {svr.id} ELSE proven
    BY <1>2 DEF ServerProcesses
  <2>3. ServerShape' /\ Effect
    BY <2>1, <2>2, ServerEffects DEF ServerInv, ServerControl
  <2>4. UNCHANGED opts
    BY <2>1 DEF S!ServerStep, S!unmoved, S!ServerMain, S!FlushRequest, S!WriteHelloRequest,
         S!ServerReadWaits, S!ServerSkips, S!ServerReadUnexpected, S!SkipClientHello,
         S!ServerDecline, S!WriteRefusal, S!ServerStart, S!ReadClientHello, S!Refuse,
         S!WriteFatal, S!FatalSent, S!WriteServerFlight, S!EndFlight, S!ReadClientCertificate,
         S!ReadKeyExchange, S!ReadEmptyKeyExchange, S!ReadCertificateVerify,
         S!ReadClientFinished, S!SkipCertificateVerify, S!ServerReadCCS, S!ServerFlush,
         S!ServerWriteCCS, S!ServerWriteFinished, S!ServerDone, S!ServerEnterMain
  <2> QED BY <2>2, <2>3, <2>4
<1>3. CASE ServerActs(ServerSends) \/ ServerActs(ServerReceives) \/ ServerActs(ServerWrites)
             \/ ServerActs(ServerReads) \/ ServerActs(ServerCloses)
             \/ ServerActs(ServerRenegotiates) \/ ServerActs(AnythingComes)
  <2>1. ServerShape' /\ (Stays \/ Fails)
    BY <1>3, CallEffects DEF ServerActs, BothIdle, ServerInv
  <2>2. UNCHANGED <<opts, proven>>
    BY <1>3 DEF ServerActs, ServerSends, ServerReceives, ServerWrites, ServerReads,
         ServerCloses, ServerRenegotiates, AnythingComes, S!server_renegotiate, S!unmoved, unmoved
  <2> QED BY <2>1, <2>2 DEF Effect
<1>4. CASE Connect
  BY <1>4 DEF Connect
<1>5. CASE ClientProcesses \/ ClientSaves \/ UNCHANGED pairVars
  <2>1. ClientProcesses => UNCHANGED <<seng, shs, opts, svr, proven>>
    BY DEF ClientProcesses
  <2>2. ClientSaves \/ UNCHANGED pairVars => UNCHANGED <<seng, shs, opts, svr, proven>>
    BY DEF ClientSaves, pairVars, serverVars
  <2> QED BY <1>1, <1>5, <2>1, <2>2
<1>6. CASE ClientActs(ClientSends) \/ ClientActs(ClientReceives) \/ ClientActs(ClientWrites)
             \/ ClientActs(ClientReads) \/ ClientActs(ClientCloses)
             \/ ClientActs(ClientRenegotiates)
  <2>1. UNCHANGED <<seng, shs, opts, svr, proven>>
    BY <1>6 DEF ClientActs, serverVars
  <2> QED BY <1>1, <2>1
<1> QED BY <1>2, <1>3, <1>4, <1>5, <1>6 DEF PairNext

(* The server is safe with any peer, and over any number of connections.   *)
THEOREM ServerSafe == PairSpec => []ServerInv
<1>1. PairInit => ServerInv
  BY DEF PairInit, Begin, S!E!EngineInit, S!E!FreshEngine, ServerInv, ServerShape, ServerFields,
         ServerControl, ServerKeys, ServerSecure, ServerProven
<1>2. ServerInv /\ [PairNext]_pairVars => ServerInv'
  BY PairEffects, EffectKeeps, ResetKeeps
<1> QED BY <1>1, <1>2, PTL DEF PairSpec

(* A server that insists on a client certificate is open, and remembers a  *)
(* session, only if the client proved in a handshake of that session that  *)
(* it owns the key of a valid certificate: whatever it sends, in sessions  *)
(* that are resumed and renegotiated.                                      *)
THEOREM ClientAlwaysProven == PairSpec => []ClientProven
<1>1. ServerInv => ClientProven
  BY DEF ServerInv, ServerProven, ClientProven
<1> QED BY <1>1, ServerSafe, PTL

(* Whatever the peer sends, and in every connection: a server changes keys *)
(* for a second time only with a client that has announced RFC 5746, and   *)
(* one that refuses renegotiations never does.                             *)
THEOREM RenegotiationAlwaysSecure == PairSpec => []RenegotiationSecure
<1>1. ServerInv => RenegotiationSecure
  BY DEF ServerInv, ServerFields, ServerSecure, RenegotiationSecure
<1> QED BY <1>1, ServerSafe, PTL

-----------------------------------------------------------------------------
(* The steps of the server are steps of the session, or none.              *)
SameEpochs == seng'.in_epoch = seng.in_epoch /\ seng'.out_epoch = seng.out_epoch
SessionStep == [ServerSession!SessionNext]_ServerSession!session

LEMMA PhaseValue ==
  /\ seng.closed => ServerPhase = "closed"
  /\ ~seng.closed /\ shs.pc \in S!E!Closing => ServerPhase = "closing"
  /\ ~seng.closed /\ shs.pc \notin S!E!Closing =>
       ServerPhase = IF seng.application_data = 1 THEN "open" ELSE "handshake"
BY DEF ServerPhase, S!E!Closing, Closing

LEMMA PhaseNext ==
  /\ seng'.closed => ServerPhase' = "closed"
  /\ ~seng'.closed /\ shs'.pc \in S!E!Closing => ServerPhase' = "closing"
  /\ ~seng'.closed /\ shs'.pc \notin S!E!Closing =>
       ServerPhase' = IF seng'.application_data = 1 THEN "open" ELSE "handshake"
BY DEF ServerPhase, S!E!Closing, Closing

LEMMA SamePhaseSteps ==
  ASSUME ServerPhase' = ServerPhase, SameEpochs
  PROVE  SessionStep
BY DEF SessionStep, ServerSession!session, SameEpochs

(* Each effect.                                                            *)
LEMMA EffectSteps ==
  ASSUME ServerInv, Effect
  PROVE  SessionStep
<1> USE DEF ServerInv, ServerFields, SameKeys, SameData, S!E!Closing
<1>1. CASE Stays
  <2>1. ServerPhase' = ServerPhase
    BY <1>1, PhaseValue, PhaseNext DEF Stays
  <2>2. ServerPhase' = ServerPhase => SameEpochs
    BY <1>1 DEF Stays, SameEpochs
  <2> QED BY <2>1, <2>2, SamePhaseSteps
<1>2. CASE Fails
  <2>1. ServerSession!Closed
    BY <1>2, PhaseValue, PhaseNext DEF Fails, ServerSession!Closed
  <2> QED BY <2>1 DEF SessionStep, ServerSession!SessionNext
<1>3. CASE Goes /\ (Requests \/ Greets)
  <2>1. ServerPhase' = ServerPhase \/ ServerSession!Reopen
    BY <1>3, PhaseValue, PhaseNext DEF Goes, Requests, Greets, ServerSession!Reopen
  <2>2. ServerPhase' = ServerPhase => SameEpochs
    BY <1>3 DEF Goes, Requests, Greets, SameEpochs
  <2> QED BY <2>1, <2>2, SamePhaseSteps DEF SessionStep, ServerSession!SessionNext
<1>4. CASE Goes /\ Declines
  <2>1. ServerPhase' = ServerPhase \/ ServerSession!Open
    BY <1>4, PhaseValue, PhaseNext DEF Goes, Declines, ServerKeys, Established, ServerSession!Open
  <2>2. ServerPhase' = ServerPhase => SameEpochs
    BY <1>4 DEF Goes, Declines, ServerKeys, Established, SameEpochs
  <2> QED BY <2>1, <2>2, SamePhaseSteps DEF SessionStep, ServerSession!SessionNext
<1>5. CASE Goes /\ (Refuses \/ Answers \/ Exchanges \/ Finishes)
  <2>1. ServerPhase' = ServerPhase
    BY <1>5, PhaseValue, PhaseNext DEF Goes, Refuses, Answers, Exchanges, Finishes
  <2>2. ServerPhase' = ServerPhase => SameEpochs
    BY <1>5 DEF Goes, Refuses, Answers, Exchanges, Finishes, SameEpochs
  <2> QED BY <2>1, <2>2, SamePhaseSteps
<1>6. CASE Goes /\ Closes
  <2>1. ServerPhase' = ServerPhase \/ ServerSession!Closing
    BY <1>6, PhaseValue, PhaseNext DEF Goes, Closes, ServerSession!Closing
  <2>2. ServerPhase' = ServerPhase => SameEpochs
    BY <1>6 DEF Goes, Closes, SameEpochs
  <2> QED BY <2>1, <2>2, SamePhaseSteps DEF SessionStep, ServerSession!SessionNext
<1>7. CASE Hears
  <2>1. ServerPhase' = ServerPhase
    BY <1>7, PhaseValue, PhaseNext DEF Hears
  <2>2. ServerPhase' = ServerPhase => SameEpochs
    BY <1>7 DEF Hears, SameEpochs
  <2> QED BY <2>1, <2>2, SamePhaseSteps
<1>8. CASE Accepts
  <2>1. ServerPhase' = ServerPhase
    BY <1>8, PhaseValue, PhaseNext DEF Accepts
  <2>2. ServerPhase' = ServerPhase => SameEpochs
    BY <1>8 DEF Accepts, SameEpochs
  <2> QED BY <2>1, <2>2, SamePhaseSteps
<1>9. CASE ChangesIn
  <2>1. ServerSession!ChangeKeysIn
    BY <1>9, PhaseValue, PhaseNext DEF ChangesIn, ServerKeys, Established,
       ServerSession!ChangeKeysIn
  <2> QED BY <2>1 DEF SessionStep, ServerSession!SessionNext
<1>10. CASE ChangesOut
  <2>1. ServerSession!ChangeKeysOut
    BY <1>10, PhaseValue, PhaseNext DEF ChangesOut, ServerKeys, Established,
       ServerSession!ChangeKeysOut
  <2> QED BY <2>1 DEF SessionStep, ServerSession!SessionNext
<1>11. CASE Opens
  <2>1. ServerPhase' = ServerPhase \/ ServerSession!Open
    BY <1>11, PhaseValue, PhaseNext DEF Opens, ServerKeys, Established, ServerSession!Open
  <2>2. ServerPhase' = ServerPhase => SameEpochs
    BY <1>11 DEF Opens, ServerKeys, Established, SameEpochs
  <2> QED BY <2>1, <2>2, SamePhaseSteps DEF SessionStep, ServerSession!SessionNext
<1> QED BY <1>1, <1>2, <1>3, <1>4, <1>5, <1>6, <1>7, <1>8, <1>9, <1>10, <1>11 DEF Effect, Path

(* The server implements the abstract TLS session: whatever the peer       *)
(* sends, each key changes once in a handshake, the session opens after    *)
(* both changes only, and a server that closes does nothing else.          *)
THEOREM ServerImplementsTlsSession == PairSpec => ServerImplementsSession
<1>1. PairInit => ServerSession!SessionInit
  BY PhaseValue DEF PairInit, Begin, S!E!EngineInit, S!E!FreshEngine, ServerSession!SessionInit
<1>2. ServerInv /\ S!server_reset => SessionStep
  <2> SUFFICES ASSUME ServerInv, S!server_reset PROVE ServerSession!Reset
    BY DEF SessionStep, ServerSession!SessionNext
  <2> QED BY PhaseNext DEF S!server_reset, S!E!client_reset, S!E!FreshEngine, S!E!Closing,
            ServerSession!Reset
<1>3. ServerInv /\ [PairNext]_pairVars => [ServerSession!SessionNext]_ServerSession!session
  BY <1>2, PairEffects, EffectSteps DEF SessionStep
<1> QED BY <1>1, <1>3, ServerSafe, PTL DEF PairSpec, ServerImplementsSession,
           ServerSession!SessionSpec

-----------------------------------------------------------------------------
(* Client and server together: what is on its way between the processors.  *)

(* The items, and the records that hold them.                              *)
Said ==
  {Msg(name) : name \in {"ClientHello", "HelloRequest", "Certificate", "ServerKeyExchange",
                         "CertificateRequest", "ServerHelloDone", "ClientKeyExchange",
                         "CertificateVerify", "ccs", "Finished", "fatal", "close_notify",
                         "no_renegotiation"}}
  \cup {Hello(name, ri) : name \in {"ServerHello", "ServerHelloResumed"}, ri \in BOOLEAN}
  \cup {Data(1)}
RecordKinds == Types \cup {"none"}
SaidRecord == [type : RecordKinds, body : Seq(Said), epoch : Nat]

(* One of these messages is in what is unread (a), in the records on their *)
(* way (q), in the record that leaves (r) or in the output buffer (b).     *)
Holds(items, names) == \E i \in DOMAIN items : items[i].msg \in names
Along(a, q, r, b, names) ==
  Holds(a, names) \/ (\E k \in DOMAIN q : Holds(q[k].body, names)) \/ Holds(r, names) \/ Holds(b, names)

(* Not more than one of them is.                                           *)
Single(items, names) ==
  \A i, j \in DOMAIN items : items[i].msg \in names /\ items[j].msg \in names => i = j
Once(a, q, r, b, names) ==
  /\ Single(a, names) /\ Single(r, names) /\ Single(b, names)
  /\ \A k \in DOMAIN q : Single(q[k].body, names)
  /\ \A k, l \in DOMAIN q : Holds(q[k].body, names) /\ Holds(q[l].body, names) => k = l
  /\ \A k \in DOMAIN q : Holds(q[k].body, names) =>
       ~Holds(a, names) /\ ~Holds(r, names) /\ ~Holds(b, names)
  /\ Holds(a, names) => ~Holds(r, names) /\ ~Holds(b, names)
  /\ Holds(r, names) => ~Holds(b, names)

(* Nothing is added.                                                       *)
Fewer(a, q, r, b, a2, q2, r2, b2) ==
  \A names : /\ Along(a2, q2, r2, b2, names) => Along(a, q, r, b, names)
             /\ Once(a, q, r, b, names) => Once(a2, q2, r2, b2, names)
(* One item is added.                                                      *)
OneMore(item, a, q, r, b, a2, q2, r2, b2) ==
  \A names : /\ Along(a2, q2, r2, b2, names) => Along(a, q, r, b, names) \/ item.msg \in names
             /\ Once(a, q, r, b, names) /\ (item.msg \in names => ~Along(a, q, r, b, names)) =>
                  Once(a2, q2, r2, b2, names)

LEMMA HoldsNothing == \A names : ~Holds(<<>>, names) /\ Single(<<>>, names)
BY DEF Holds, Single

(* The first item that is unread is taken.                                 *)
LEMMA TakeFewer ==
  ASSUME NEW I, NEW a \in Seq(I), a # <<>>, NEW q, NEW r, NEW b
  PROVE  /\ Fewer(a, q, r, b, Tail(a), q, r, b)
         /\ \A names : Head(a).msg \in names /\ Once(a, q, r, b, names) =>
              ~Along(Tail(a), q, r, b, names)
<1> DEFINE t == Tail(a)
<1>1. /\ 1 \in DOMAIN a /\ a[1] = Head(a)
      /\ \A i \in DOMAIN t : i + 1 \in DOMAIN a /\ t[i] = a[i + 1] /\ i + 1 # 1
      /\ \A i, j \in DOMAIN t : i + 1 = j + 1 => i = j
  OBVIOUS
<1> HIDE DEF t
<1>2. \A names : /\ Holds(t, names) => Holds(a, names)
                 /\ Single(a, names) => Single(t, names)
                 /\ Single(a, names) /\ Head(a).msg \in names => ~Holds(t, names) /\ Holds(a, names)
  BY <1>1 DEF Holds, Single
<1>3. Fewer(a, q, r, b, t, q, r, b)
  BY <1>2 DEF Fewer, Along, Once
<1>4. ASSUME NEW names, Head(a).msg \in names, Once(a, q, r, b, names)
      PROVE  ~Along(t, q, r, b, names)
  BY <1>2, <1>4 DEF Along, Once
<1> QED BY <1>3, <1>4 DEF t

(* All that is unread is dropped.                                          *)
LEMMA DropFewer ==
  ASSUME NEW a, NEW q, NEW r, NEW b
  PROVE  Fewer(a, q, r, b, <<>>, q, r, b)
BY HoldsNothing DEF Fewer, Along, Once

(* What is gathered becomes the record that leaves.                        *)
LEMMA SealFewer ==
  ASSUME NEW a, NEW q, NEW b
  PROVE  Fewer(a, q, <<>>, b, a, q, b, <<>>)
BY HoldsNothing DEF Fewer, Along, Once

(* A record leaves.                                                        *)
LEMMA SendFewer ==
  ASSUME NEW R, NEW a, NEW q \in Seq(R), NEW rec \in R, NEW b
  PROVE  Fewer(a, q, rec.body, b, a, Append(q, rec), <<>>, b)
<1> DEFINE s == Append(q, rec)
           n == Len(q) + 1
<1>1. /\ DOMAIN s = DOMAIN q \cup {n} /\ n \notin DOMAIN q /\ s[n] = rec
      /\ \A k \in DOMAIN q : s[k] = q[k]
  OBVIOUS
<1> HIDE DEF s, n
<1>2. ASSUME NEW names PROVE Along(a, s, <<>>, b, names) => Along(a, q, rec.body, b, names)
  BY <1>1, HoldsNothing DEF Along
<1>3. ASSUME NEW names, Once(a, q, rec.body, b, names) PROVE Once(a, s, <<>>, b, names)
  <2>1. \A k \in DOMAIN s : Single(s[k].body, names)
    BY <1>1, <1>3 DEF Once
  <2>2. \A k, l \in DOMAIN s : Holds(s[k].body, names) /\ Holds(s[l].body, names) => k = l
    BY <1>1, <1>3 DEF Once
  <2>3. \A k \in DOMAIN s : Holds(s[k].body, names) => ~Holds(a, names) /\ ~Holds(b, names)
    BY <1>1, <1>3 DEF Once
  <2> QED BY <1>3, <2>1, <2>2, <2>3, HoldsNothing DEF Once
<1> QED BY <1>2, <1>3 DEF Fewer, s

(* A record arrives where nothing is unread, or is lost.                   *)
LEMMA ArriveFewer ==
  ASSUME NEW R, NEW q \in Seq(R), q # <<>>, NEW a, NEW r, NEW b
  PROVE  /\ Fewer(a, q, r, b, a, Tail(q), r, b)
         /\ Fewer(<<>>, q, r, b, Head(q).body, Tail(q), r, b)
<1> DEFINE t == Tail(q)
<1>1. /\ 1 \in DOMAIN q /\ q[1] = Head(q)
      /\ \A k \in DOMAIN t : k + 1 \in DOMAIN q /\ t[k] = q[k + 1] /\ k + 1 # 1
      /\ \A k, l \in DOMAIN t : k + 1 = l + 1 => k = l
  OBVIOUS
<1> HIDE DEF t
<1>2. ASSUME NEW names PROVE Along(a, t, r, b, names) => Along(a, q, r, b, names)
  BY <1>1 DEF Along
<1>3. ASSUME NEW names PROVE Along(Head(q).body, t, r, b, names) => Along(<<>>, q, r, b, names)
  BY <1>1 DEF Along
<1>4. ASSUME NEW names, NEW x, Once(x, q, r, b, names)
      PROVE  /\ \A k \in DOMAIN t : Single(t[k].body, names)
             /\ \A k, l \in DOMAIN t : Holds(t[k].body, names) /\ Holds(t[l].body, names) => k = l
             /\ \A k \in DOMAIN t : Holds(t[k].body, names) =>
                  /\ ~Holds(x, names) /\ ~Holds(r, names) /\ ~Holds(b, names)
                  /\ ~Holds(Head(q).body, names)
             /\ Single(Head(q).body, names)
             /\ Holds(Head(q).body, names) => ~Holds(r, names) /\ ~Holds(b, names)
  BY <1>1, <1>4 DEF Once
<1>5. ASSUME NEW names, Once(a, q, r, b, names) PROVE Once(a, t, r, b, names)
  BY <1>4, <1>5 DEF Once
<1>6. ASSUME NEW names, Once(<<>>, q, r, b, names) PROVE Once(Head(q).body, t, r, b, names)
  BY <1>4, <1>6 DEF Once
<1> QED BY <1>2, <1>3, <1>5, <1>6 DEF Fewer, t

(* A record of one item takes the place of the one that leaves.            *)
LEMMA EmitOneMore ==
  ASSUME NEW item, NEW a, NEW q, NEW r, NEW b
  PROVE  OneMore(item, a, q, r, b, a, q, <<item>>, b)
<1>1. \A names : /\ Holds(<<item>>, names) <=> item.msg \in names
                 /\ Single(<<item>>, names)
  BY DEF Holds, Single
<1> QED BY <1>1 DEF OneMore, Along, Once

(* An item is gathered.                                                    *)
LEMMA GatherOneMore ==
  ASSUME NEW I, NEW item \in I, NEW a, NEW q, NEW r, NEW b \in Seq(I)
  PROVE  OneMore(item, a, q, r, b, a, q, r, Append(b, item))
<1> DEFINE s == Append(b, item)
           n == Len(b) + 1
<1>1. /\ DOMAIN s = DOMAIN b \cup {n} /\ n \notin DOMAIN b /\ s[n] = item
      /\ \A k \in DOMAIN b : s[k] = b[k]
  OBVIOUS
<1> HIDE DEF s, n
<1>2. \A names : /\ Holds(s, names) <=> Holds(b, names) \/ item.msg \in names
                 /\ Single(b, names) /\ (item.msg \in names => ~Holds(b, names)) => Single(s, names)
  BY <1>1 DEF Holds, Single
<1>3. ASSUME NEW names, Once(a, q, r, b, names), item.msg \in names => ~Along(a, q, r, b, names)
      PROVE  Once(a, q, r, s, names)
  <2>1. item.msg \in names => ~Holds(a, names) /\ ~Holds(r, names) /\ ~Holds(b, names)
            /\ \A k \in DOMAIN q : ~Holds(q[k].body, names)
    BY <1>3 DEF Along
  <2> QED BY <1>2, <1>3, <2>1 DEF Once
<1>4. \A names : Along(a, q, r, s, names) => Along(a, q, r, b, names) \/ item.msg \in names
  BY <1>2 DEF Along
<1> QED BY <1>3, <1>4 DEF OneMore, s

LEMMA SealOneMore ==
  ASSUME NEW item, NEW a, NEW q, NEW r, NEW b, NEW s, OneMore(item, a, q, <<>>, b, a, q, <<>>, s)
  PROVE  OneMore(item, a, q, <<>>, b, a, q, s, <<>>)
<1>1. Fewer(a, q, <<>>, s, a, q, s, <<>>)
  BY SealFewer
<1> QED BY <1>1 DEF OneMore, Fewer

-----------------------------------------------------------------------------
(* The two ends: what is in their buffers.                                 *)

Gone == {"close", "close_out", "close_wait"}
MayBeOpen ==
  {"start", "enter_main", "main", "read_HelloRequest", "read_declined", "decline",
   "write_no_renegotiation"} \cup Gone
CipherRecord(rec) ==
  rec.type = "change_cipher_spec" => \A i \in DOMAIN rec.body : rec.body[i].msg = "ccs"
KnownRecord == {rec \in SaidRecord : CipherRecord(rec)}

(* Of an end with the flags e, the processor h, the input i, the buffer b  *)
(* and the record r: records of type change_cipher_spec hold nothing else, *)
(* because nothing is gathered when the type is this one.                  *)
Frame(e, h) ==
  /\ DOMAIN e = {"closed", "err", "application_data", "record_type_out", "shutdown_recv",
                 "reneg", "session", "in_epoch", "out_epoch"}
  /\ DOMAIN h = {"co", "pc", "action", "ate", "can_output", "cnr", "auth", "resuming"}
  /\ e.record_type_out \in RecordKinds /\ e.out_epoch \in Nat /\ e.application_data \in Nat
EndShape(e, h, i, b, r) ==
  Frame(e, h) /\ i \in KnownRecord /\ r \in KnownRecord /\ b \in Seq(Said)
EndTypes(e, h, b) ==
  /\ e.record_type_out = "change_cipher_spec" =>
       b = <<>> /\ h.pc \in {"write_Finished"} \cup Gone /\ e.application_data # 1
  /\ h.pc = "write_CCS" /\ h.can_output => b = <<>>
  /\ e.application_data = 1 => h.pc \in MayBeOpen

(* What an end does with its input, and with its output: it leaves it, it  *)
(* seals the record, or adds an item.                                      *)
Reads(i, next) ==
  \/ next = i
  \/ i.body # <<>> /\ next = [i EXCEPT !.body = Tail(@)]
  \/ next = [i EXCEPT !.body = <<>>]
Sealed(e, body, r, b, r2, b2) ==
  IF r = NoRecord /\ body # <<>>
  THEN r2 = Record(e.record_type_out, body, e.out_epoch) /\ b2 = <<>>
  ELSE r2 = r /\ b2 = b
Emits(e, type, item, b, r2, b2) == r2 = Record(type, <<item>>, e.out_epoch) /\ b2 = b
Outputs(e, item, r, b, r2, b2) ==
  \/ r2 = r /\ b2 = b
  \/ Sealed(e, b, r, b, r2, b2)
  \/ \E type \in RecordKinds : /\ type = "change_cipher_spec" => item = Msg("ccs")
                               /\ Emits(e, type, item, b, r2, b2)
  \/ /\ e.record_type_out # "change_cipher_spec"
     /\ \/ r2 = r /\ b2 = Append(b, item)
        \/ Sealed(e, Append(b, item), r, b, r2, b2)

LEMMA SaidItems ==
  /\ Msg("ClientHello") \in Said /\ Msg("HelloRequest") \in Said /\ Msg("Certificate") \in Said
  /\ Msg("ServerKeyExchange") \in Said /\ Msg("CertificateRequest") \in Said
  /\ Msg("ServerHelloDone") \in Said /\ Msg("ClientKeyExchange") \in Said
  /\ Msg("CertificateVerify") \in Said /\ Msg("ccs") \in Said /\ Msg("Finished") \in Said
  /\ Msg("fatal") \in Said /\ Msg("close_notify") \in Said /\ Msg("no_renegotiation") \in Said
  /\ Data(1) \in Said
  /\ \A name \in {"ServerHello", "ServerHelloResumed"} : \A ri \in BOOLEAN : Hello(name, ri) \in Said
BY DEF Said

LEMMA SaidWords ==
  \A name : Msg(name).msg = name /\ \A ri : Hello(name, ri).msg = name
BY DEF Msg, Hello

(* The records that the ends make.                                         *)
LEMMA MadeRecords ==
  /\ NoRecord \in KnownRecord /\ NoRecord.body = <<>>
  /\ \A type \in RecordKinds, body \in Seq(Said), epoch \in Nat :
       /\ Record(type, body, epoch).body = body
       /\ type # "change_cipher_spec" => Record(type, body, epoch) \in KnownRecord
  /\ \A epoch \in Nat : Record("change_cipher_spec", <<Msg("ccs")>>, epoch) \in KnownRecord
  /\ {"change_cipher_spec", "alert", "handshake", "application_data"} \subseteq RecordKinds
<1> USE DEF Record, CipherRecord
<1>1. <<>> \in Seq(Said) /\ <<Msg("ccs")>> \in Seq(Said)
  BY SaidItems
<1>2. {"change_cipher_spec", "alert", "handshake", "application_data", "none"} = RecordKinds
  BY DEF RecordKinds, Types
<1>3. NoRecord \in KnownRecord
  BY <1>1, <1>2 DEF NoRecord, KnownRecord, SaidRecord
<1>4. ASSUME NEW type \in RecordKinds, NEW body \in Seq(Said), NEW epoch \in Nat
      PROVE  /\ Record(type, body, epoch).body = body
             /\ type # "change_cipher_spec" => Record(type, body, epoch) \in KnownRecord
  BY DEF KnownRecord, SaidRecord
<1>5. ASSUME NEW epoch \in Nat
      PROVE  Record("change_cipher_spec", <<Msg("ccs")>>, epoch) \in KnownRecord
  <2>1. \A i \in DOMAIN <<Msg("ccs")>> : <<Msg("ccs")>>[i].msg = "ccs"
    BY SaidWords
  <2> QED BY <1>1, <1>2, <2>1 DEF KnownRecord, SaidRecord
<1> QED BY <1>2, <1>3, <1>4, <1>5 DEF NoRecord

(* The records that are read.                                              *)
LEMMA ReadRecords ==
  ASSUME NEW i \in KnownRecord, NEW next, Reads(i, next)
  PROVE  next \in KnownRecord
<1>1. CASE i.body # <<>> /\ next = [i EXCEPT !.body = Tail(@)]
  <2> DEFINE t == Tail(i.body)
  <2>1. i \in SaidRecord /\ CipherRecord(i) /\ i.body \in Seq(Said)
    BY DEF KnownRecord, SaidRecord
  <2>2. t \in Seq(Said) /\ \A k \in DOMAIN t : k + 1 \in DOMAIN i.body /\ t[k] = i.body[k + 1]
    BY <1>1, <2>1
  <2>3. next.type = i.type /\ next.body = t
    BY <1>1, <2>1 DEF SaidRecord
  <2> HIDE DEF t
  <2>4. CipherRecord(next)
    BY <2>1, <2>2, <2>3 DEF CipherRecord
  <2>5. next \in SaidRecord
    BY <1>1, <2>1, <2>2 DEF SaidRecord, t
  <2> QED BY <2>4, <2>5 DEF KnownRecord
<1>2. CASE next = [i EXCEPT !.body = <<>>]
  <2>1. i \in SaidRecord /\ <<>> \in Seq(Said)
    BY DEF KnownRecord
  <2>2. next.body = <<>> /\ next \in SaidRecord
    BY <1>2, <2>1 DEF SaidRecord
  <2> QED BY <2>2 DEF KnownRecord, CipherRecord
<1> QED BY <1>1, <1>2 DEF Reads

(* What is sent.                                                           *)
LEMMA OutputFits ==
  ASSUME NEW e, NEW h, NEW item \in Said, NEW r \in KnownRecord, NEW b \in Seq(Said), NEW r2, NEW b2,
         Frame(e, h), e.record_type_out = "change_cipher_spec" => b = <<>>,
         Outputs(e, item, r, b, r2, b2)
  PROVE  /\ r2 \in KnownRecord /\ b2 \in Seq(Said)
         /\ \A a, q : OneMore(item, a, q, r.body, b, a, q, r2.body, b2)
<1>1. /\ e.record_type_out \in RecordKinds /\ e.out_epoch \in Nat
      /\ Append(b, item) \in Seq(Said) /\ <<item>> \in Seq(Said) /\ <<>> \in Seq(Said)
  BY DEF Frame
<1>2. CASE r2 = r /\ b2 = b
  BY <1>2 DEF OneMore
<1>3. CASE Sealed(e, b, r, b, r2, b2) /\ ~(r2 = r /\ b2 = b)
  <2>1. /\ r = NoRecord /\ b # <<>> /\ b2 = <<>>
        /\ r2 = Record(e.record_type_out, b, e.out_epoch)
    BY <1>3 DEF Sealed
  <2>2. r2 \in KnownRecord /\ r2.body = b /\ r.body = <<>>
    BY <1>1, <2>1, MadeRecords
  <2> QED BY <1>1, <2>1, <2>2, SealFewer DEF OneMore, Fewer
<1>4. ASSUME NEW type \in RecordKinds, type = "change_cipher_spec" => item = Msg("ccs"),
             Emits(e, type, item, b, r2, b2)
      PROVE  /\ r2 \in KnownRecord /\ b2 \in Seq(Said)
             /\ \A a, q : OneMore(item, a, q, r.body, b, a, q, r2.body, b2)
  <2>1. r2 \in KnownRecord /\ r2.body = <<item>> /\ b2 = b
    BY <1>1, <1>4, MadeRecords DEF Emits
  <2> QED BY <2>1, EmitOneMore
<1>5. CASE r2 = r /\ b2 = Append(b, item)
  BY <1>1, <1>5, GatherOneMore
<1>6. CASE /\ e.record_type_out # "change_cipher_spec" /\ Sealed(e, Append(b, item), r, b, r2, b2)
           /\ ~(r2 = r /\ b2 = b)
  <2>1. /\ r = NoRecord /\ b2 = <<>>
        /\ r2 = Record(e.record_type_out, Append(b, item), e.out_epoch)
    BY <1>6 DEF Sealed
  <2>2. r2 \in KnownRecord /\ r2.body = Append(b, item) /\ r.body = <<>>
    BY <1>1, <1>6, <2>1, MadeRecords
  <2>3. \A a, q : OneMore(item, a, q, <<>>, b, a, q, <<>>, Append(b, item))
    BY GatherOneMore
  <2> QED BY <1>1, <2>1, <2>2, <2>3, SealOneMore
<1> QED BY <1>2, <1>3, <1>4, <1>5, <1>6 DEF Outputs

-----------------------------------------------------------------------------
(* The messages that matter, and those that are under way.                 *)
Hi == {"ClientHello"}
Exchange == {"ClientKeyExchange", "EmptyKeyExchange"}
Answer == {"ServerHello", "ServerHelloResumed"}
Cipher == {"ccs"}
Finish == {"Finished"}

Up(names) == Along(sinrec.body, toServer, outrec.body, outbuf, names)
Down(names) == Along(inrec.body, toClient, soutrec.body, soutbuf, names)
OnceUp(names) == Once(sinrec.body, toServer, outrec.body, outbuf, names)
OnceDown(names) == Once(inrec.body, toClient, soutrec.body, soutbuf, names)

HelloUp == Up(Hi)
ExchangeUp == Up(Exchange)
CipherUp == Up(Cipher)
FinishedUp == Up(Finish)
NewDown == Down({"ServerHello"})
ResumedDown == Down({"ServerHelloResumed"})
CipherDown == Down(Cipher)
FinishedDown == Down(Finish)
FinishedArrives == Along(inrec.body, toClient, <<>>, <<>>, Finish)

OneHello == OnceUp(Hi)
OneExchange == OnceUp(Exchange)
OneCipherUp == OnceUp(Cipher)
OneFinishedUp == OnceUp(Finish)
OneAnswer == OnceDown(Answer)
OneCipherDown == OnceDown(Cipher)
OneFinishedDown == OnceDown(Finish)

(* Nothing is added to what goes up, or comes down.                        *)
UpKeeps ==
  /\ HelloUp' => HelloUp
  /\ ExchangeUp' => ExchangeUp
  /\ CipherUp' => CipherUp
  /\ FinishedUp' => FinishedUp
  /\ OneHello => OneHello'
  /\ OneExchange => OneExchange'
  /\ OneCipherUp => OneCipherUp'
  /\ OneFinishedUp => OneFinishedUp'
DownKeeps ==
  /\ NewDown' => NewDown
  /\ ResumedDown' => ResumedDown
  /\ CipherDown' => CipherDown
  /\ FinishedDown' => FinishedDown
  /\ FinishedArrives' => FinishedArrives
  /\ OneAnswer => OneAnswer'
  /\ OneCipherDown => OneCipherDown'
  /\ OneFinishedDown => OneFinishedDown'

(* A message that is called m is added.                                    *)
UpGets(m) ==
  /\ HelloUp' => HelloUp \/ m \in Hi
  /\ ExchangeUp' => ExchangeUp \/ m \in Exchange
  /\ CipherUp' => CipherUp \/ m \in Cipher
  /\ FinishedUp' => FinishedUp \/ m \in Finish
  /\ OneHello /\ (m \in Hi => ~HelloUp) => OneHello'
  /\ OneExchange /\ (m \in Exchange => ~ExchangeUp) => OneExchange'
  /\ OneCipherUp /\ (m \in Cipher => ~CipherUp) => OneCipherUp'
  /\ OneFinishedUp /\ (m \in Finish => ~FinishedUp) => OneFinishedUp'
DownGets(m) ==
  /\ NewDown' => NewDown \/ m = "ServerHello"
  /\ ResumedDown' => ResumedDown \/ m = "ServerHelloResumed"
  /\ CipherDown' => CipherDown \/ m \in Cipher
  /\ FinishedDown' => FinishedDown \/ m \in Finish
  /\ FinishedArrives' => FinishedArrives
  /\ OneAnswer /\ (m \in Answer => ~NewDown /\ ~ResumedDown) => OneAnswer'
  /\ OneCipherDown /\ (m \in Cipher => ~CipherDown) => OneCipherDown'
  /\ OneFinishedDown /\ (m \in Finish => ~FinishedDown) => OneFinishedDown'

(* The message that is called m was the first one that is unread, and is   *)
(* taken.                                                                  *)
UpLoses(m) ==
  /\ UpKeeps
  /\ m \in Hi => HelloUp /\ (OneHello => ~HelloUp')
  /\ m \in Exchange => ExchangeUp /\ (OneExchange => ~ExchangeUp')
  /\ m \in Cipher => CipherUp /\ (OneCipherUp => ~CipherUp')
  /\ m \in Finish => FinishedUp /\ (OneFinishedUp => ~FinishedUp')
DownLoses(m) ==
  /\ DownKeeps
  /\ m \in Answer /\ OneAnswer => ~NewDown' /\ ~ResumedDown'
  /\ m = "ServerHello" => NewDown
  /\ m = "ServerHelloResumed" => ResumedDown
  /\ m \in Cipher => CipherDown /\ (OneCipherDown => ~CipherDown')
  /\ m \in Finish => FinishedDown /\ FinishedArrives /\ (OneFinishedDown => ~FinishedDown')

(* What answers a hello opens a new session or resumes one.                *)
LEMMA AnswerDown == Down(Answer) => NewDown \/ ResumedDown
BY DEF Down, Answer, NewDown, ResumedDown, Along, Holds

(* What goes up is at most what it was.                                    *)
LEMMA UpFewer ==
  ASSUME Fewer(sinrec.body, toServer, outrec.body, outbuf,
               sinrec.body', toServer', outrec.body', outbuf')
  PROVE  UpKeeps
<1>1. /\ \A names : Up(names)' => Up(names)
      /\ \A names : OnceUp(names) => OnceUp(names)'
  BY DEF Fewer, Up, OnceUp
<1> QED BY <1>1 DEF UpKeeps, HelloUp, ExchangeUp, CipherUp, FinishedUp, OneHello, OneExchange,
           OneCipherUp, OneFinishedUp

(* What goes up is what it was and one item.                               *)
LEMMA UpOneMore ==
  ASSUME NEW item, OneMore(item, sinrec.body, toServer, outrec.body, outbuf,
                           sinrec.body', toServer', outrec.body', outbuf')
  PROVE  UpGets(item.msg)
<1>1. /\ \A names : Up(names)' => Up(names) \/ item.msg \in names
      /\ \A names : OnceUp(names) /\ (item.msg \in names => ~Up(names)) => OnceUp(names)'
  BY DEF OneMore, Up, OnceUp
<1> QED BY <1>1 DEF UpGets, HelloUp, ExchangeUp, CipherUp, FinishedUp, OneHello, OneExchange,
           OneCipherUp, OneFinishedUp

(* What comes down is at most what it was.                                 *)
LEMMA DownFewer ==
  ASSUME Fewer(inrec.body, toClient, soutrec.body, soutbuf,
               inrec.body', toClient', soutrec.body', soutbuf'),
         FinishedArrives' => FinishedArrives
  PROVE  DownKeeps
<1>1. /\ \A names : Down(names)' => Down(names)
      /\ \A names : OnceDown(names) => OnceDown(names)'
  BY DEF Fewer, Down, OnceDown
<1> QED BY <1>1 DEF DownKeeps, NewDown, ResumedDown, CipherDown, FinishedDown, OneAnswer,
           OneCipherDown, OneFinishedDown

(* What comes down is what it was and one item.                            *)
LEMMA DownOneMore ==
  ASSUME NEW item, OneMore(item, inrec.body, toClient, soutrec.body, soutbuf,
                           inrec.body', toClient', soutrec.body', soutbuf'),
         UNCHANGED <<inrec, toClient>>
  PROVE  DownGets(item.msg)
<1>1. /\ \A names : Down(names)' => Down(names) \/ item.msg \in names
      /\ \A names : OnceDown(names) /\ (item.msg \in names => ~Down(names)) => OnceDown(names)'
  BY DEF OneMore, Down, OnceDown
<1>2. FinishedArrives' => FinishedArrives
  BY DEF FinishedArrives
<1> QED BY <1>1, <1>2, AnswerDown DEF DownGets, NewDown, ResumedDown, CipherDown, FinishedDown,
           OneAnswer, OneCipherDown, OneFinishedDown

-----------------------------------------------------------------------------
(* What the client does with its buffers.                                  *)
ClientShape == EndShape(eng, hs, inrec, outbuf, outrec)
ClientTypes == EndTypes(eng, hs, outbuf)
ServerRecords == EndShape(seng, shs, sinrec, soutbuf, soutrec)
ServerTypes == EndTypes(seng, shs, soutbuf)
Pipes == toServer \in Seq(KnownRecord) /\ toClient \in Seq(KnownRecord)

(* Records hold what the ends say.                                         *)
LEMMA KnownBody == \A rec \in KnownRecord : rec.body \in Seq(Said)
BY DEF KnownRecord, SaidRecord

(* What is read leaves the rest in its order.                              *)
LEMMA ReadFewer ==
  ASSUME NEW i \in KnownRecord, NEW next, Reads(i, next)
  PROVE  \A q, r, b : Fewer(i.body, q, r, b, next.body, q, r, b)
<1>1. i.body \in Seq(Said) /\ i \in SaidRecord
  BY KnownBody DEF KnownRecord
<1>2. CASE next = i
  BY <1>2 DEF Fewer
<1>3. CASE i.body # <<>> /\ next = [i EXCEPT !.body = Tail(@)]
  <2>1. next.body = Tail(i.body)
    BY <1>1, <1>3 DEF SaidRecord
  <2> QED BY <1>1, <1>3, <2>1, TakeFewer
<1>4. CASE next = [i EXCEPT !.body = <<>>]
  <2>1. next.body = <<>>
    BY <1>1, <1>4 DEF SaidRecord
  <2> QED BY <2>1, DropFewer
<1> QED BY <1>2, <1>3, <1>4 DEF Reads

(* The first item that is unread was under way; once taken, one that was   *)
(* alone is not.                                                           *)
LEMMA ReadTakes ==
  ASSUME NEW i \in KnownRecord, i.body # <<>>
  PROVE  \A q, r, b, names :
           Head(i.body).msg \in names =>
             /\ Along(i.body, q, r, b, names)
             /\ Once(i.body, q, r, b, names) =>
                  ~Along([i EXCEPT !.body = Tail(@)].body, q, r, b, names)
<1> DEFINE next == [i EXCEPT !.body = Tail(@)]
<1>1. i.body \in Seq(Said) /\ i \in SaidRecord /\ next.body = Tail(i.body)
  BY KnownBody DEF KnownRecord, SaidRecord
<1>2. 1 \in DOMAIN i.body /\ i.body[1] = Head(i.body)
  BY <1>1
<1> HIDE DEF next
<1>3. \A q, r, b, names : Head(i.body).msg \in names /\ Once(i.body, q, r, b, names) =>
         ~Along(next.body, q, r, b, names)
  BY <1>1, TakeFewer
<1>4. \A q, r, b, names : Head(i.body).msg \in names => Along(i.body, q, r, b, names)
  BY <1>2 DEF Along, Holds
<1> QED BY <1>3, <1>4 DEF next

(* A step of the client that says one item adds that one to what goes up.  *)
LEMMA ClientMoves ==
  ASSUME ClientShape, ClientTypes, Frame(eng', hs'), NEW item \in Said,
         Reads(inrec, inrec'), Outputs(eng, item, outrec, outbuf, outrec', outbuf'),
         UNCHANGED <<sinrec, toServer, toClient, soutrec, soutbuf>>
  PROVE  ClientShape' /\ DownKeeps /\ UpGets(item.msg)
<1>1. inrec \in KnownRecord /\ outrec \in KnownRecord /\ outbuf \in Seq(Said) /\ Frame(eng, hs)
  BY DEF ClientShape, EndShape
<1>2. inrec' \in KnownRecord
  BY <1>1, ReadRecords
<1>3. /\ outrec' \in KnownRecord /\ outbuf' \in Seq(Said)
      /\ \A a, q : OneMore(item, a, q, outrec.body, outbuf, a, q, outrec'.body, outbuf')
  BY <1>1, OutputFits DEF ClientTypes, EndTypes
<1>4. ClientShape'
  BY <1>2, <1>3 DEF ClientShape, EndShape
<1>5. UpGets(item.msg)
  BY <1>3, UpOneMore
<1>6. \A q, r, b : Fewer(inrec.body, q, r, b, inrec'.body, q, r, b)
  BY <1>1, ReadFewer
<1>7. FinishedArrives' => FinishedArrives
  BY <1>6 DEF FinishedArrives, Fewer
<1>8. DownKeeps
  BY <1>6, <1>7, DownFewer
<1> QED BY <1>4, <1>5, <1>8

(* A message that the client takes no longer comes down.                   *)
LEMMA ClientTakes ==
  ASSUME ClientShape, inrec.body # <<>>, TakeInput, DownKeeps,
         UNCHANGED <<toClient, soutrec, soutbuf>>
  PROVE  DownLoses(Head(inrec.body).msg)
<1> DEFINE m == Head(inrec.body).msg
<1>1. inrec \in KnownRecord
  BY DEF ClientShape, EndShape
<1>2. \A q, r, b, names : m \in names =>
         /\ Along(inrec.body, q, r, b, names)
         /\ Once(inrec.body, q, r, b, names) =>
              ~Along([inrec EXCEPT !.body = Tail(@)].body, q, r, b, names)
  BY <1>1, ReadTakes
<1> HIDE DEF m
<1>3. inrec' = [inrec EXCEPT !.body = Tail(@)] /\ UNCHANGED <<toClient, soutrec, soutbuf>>
  BY DEF TakeInput
<1>4. \A q, r, b, names : m \in names =>
         /\ Along(inrec.body, q, r, b, names)
         /\ Once(inrec.body, q, r, b, names) => ~Along(inrec.body', q, r, b, names)
  BY <1>2, <1>3
<1>5. \A names : m \in names =>
         /\ Down(names)
         /\ Along(inrec.body, toClient, <<>>, <<>>, names)
         /\ OnceDown(names) => ~Down(names)'
  BY <1>3, <1>4 DEF Down, OnceDown
<1>6. ~Down(Answer)' => ~NewDown' /\ ~ResumedDown'
  BY DEF Down, Along, Holds, Answer, NewDown, ResumedDown
<1>7. DownLoses(m)
  BY <1>5, <1>6 DEF DownLoses, NewDown, ResumedDown, CipherDown, FinishedDown, FinishedArrives,
     OneAnswer, OneCipherDown, OneFinishedDown
<1> QED BY <1>7 DEF m

-----------------------------------------------------------------------------
(* What the server does with its buffers.                                  *)
LEMMA ServerMoves ==
  ASSUME ServerRecords, ServerTypes, Frame(seng', shs'), NEW item \in Said,
         Reads(sinrec, sinrec'), Outputs(seng, item, soutrec, soutbuf, soutrec', soutbuf'),
         UNCHANGED <<inrec, toServer, toClient, outrec, outbuf>>
  PROVE  ServerRecords' /\ UpKeeps /\ DownGets(item.msg)
<1>1. sinrec \in KnownRecord /\ soutrec \in KnownRecord /\ soutbuf \in Seq(Said) /\ Frame(seng, shs)
  BY DEF ServerRecords, EndShape
<1>2. sinrec' \in KnownRecord
  BY <1>1, ReadRecords
<1>3. /\ soutrec' \in KnownRecord /\ soutbuf' \in Seq(Said)
      /\ \A a, q : OneMore(item, a, q, soutrec.body, soutbuf, a, q, soutrec'.body, soutbuf')
  BY <1>1, OutputFits DEF ServerTypes, EndTypes
<1>4. ServerRecords'
  BY <1>2, <1>3 DEF ServerRecords, EndShape
<1>5. DownGets(item.msg)
  BY <1>3, DownOneMore
<1>6. \A q, r, b : Fewer(sinrec.body, q, r, b, sinrec'.body, q, r, b)
  BY <1>1, ReadFewer
<1>7. UpKeeps
  BY <1>6, UpFewer
<1> QED BY <1>4, <1>5, <1>7

(* A message that the server takes no longer goes up.                      *)
LEMMA ServerTakes ==
  ASSUME ServerRecords, sinrec.body # <<>>, S!E!TakeInput, UpKeeps,
         UNCHANGED <<toServer, outrec, outbuf>>
  PROVE  UpLoses(Head(sinrec.body).msg)
<1> DEFINE m == Head(sinrec.body).msg
<1>1. sinrec \in KnownRecord
  BY DEF ServerRecords, EndShape
<1>2. \A q, r, b, names : m \in names =>
         /\ Along(sinrec.body, q, r, b, names)
         /\ Once(sinrec.body, q, r, b, names) =>
              ~Along([sinrec EXCEPT !.body = Tail(@)].body, q, r, b, names)
  BY <1>1, ReadTakes
<1> HIDE DEF m
<1>3. sinrec' = [sinrec EXCEPT !.body = Tail(@)] /\ UNCHANGED <<toServer, outrec, outbuf>>
  BY DEF S!E!TakeInput
<1>4. \A q, r, b, names : m \in names =>
         /\ Along(sinrec.body, q, r, b, names)
         /\ Once(sinrec.body, q, r, b, names) => ~Along(sinrec.body', q, r, b, names)
  BY <1>2, <1>3
<1>5. \A names : m \in names =>
         /\ Up(names)
         /\ OnceUp(names) => ~Up(names)'
  BY <1>3, <1>4 DEF Up, OnceUp
<1>6. UpLoses(m)
  BY <1>5 DEF UpLoses, HelloUp, ExchangeUp, CipherUp, FinishedUp, OneHello, OneExchange,
     OneCipherUp, OneFinishedUp
<1> QED BY <1>6 DEF m

-----------------------------------------------------------------------------
(* What a step of the client's processor may do: it goes on within a phase *)
(* of the handshake, or leaves it, and says nothing that matters,          *)
ClientOpen ==
  {"start", "write_ClientHello", "done", "enter_main", "main", "read_HelloRequest", "decline",
   "write_no_renegotiation"}
ClientFlight ==
  {"read_Certificate", "read_ServerKeyExchange", "read_ServerHelloDone", "write_Certificate",
   "write_ClientKeyExchange"}
ClientSame == hs'.resuming = hs.resuming /\ eng'.session = eng.session
ClientData == eng'.application_data = eng.application_data

ClientPath ==
  \/ hs'.pc = hs.pc \/ hs'.pc \in Gone
  \/ hs.pc \in ClientOpen /\ hs'.pc \in ClientOpen
  \/ hs.pc \in ClientFlight /\ hs'.pc \in ClientFlight
  \/ hs.pc = "write_CertificateVerify" /\ hs'.pc = "flush"
  \/ hs.pc = "flush" /\ hs'.pc = "write_CCS"
ClientOpens ==
  eng'.application_data = 1 =>
    \/ eng.application_data = 1 /\ (hs'.pc = "write_ClientHello" => hs.pc = "write_ClientHello")
    \/ hs.pc \in {"done", "write_no_renegotiation"} /\ hs'.pc = "enter_main"
ClientGoesOn == ClientSame /\ ClientPath /\ ClientOpens
ClientQuiet == ClientGoesOn /\ UpKeeps /\ DownKeeps

(* or it sends, or takes, a message that the other end waits for.          *)
SendsHello ==
  /\ hs.pc = "write_ClientHello" /\ hs'.pc = "read_ServerHello"
  /\ ClientSame /\ ClientData /\ DownKeeps /\ UpGets("ClientHello")
TakesNew ==
  /\ hs.pc = "read_ServerHello" /\ hs'.pc = "read_Certificate"
  /\ ~hs'.resuming /\ eng'.session /\ ClientData /\ UpKeeps
  /\ DownLoses("ServerHello") \/ (DownLoses("ServerHelloResumed") /\ ~eng.session)
TakesResumed ==
  /\ hs.pc = "read_ServerHello" /\ hs'.pc = "read_CCS"
  /\ hs'.resuming /\ eng'.session /\ ClientData /\ UpKeeps
  /\ DownLoses("ServerHelloResumed")
SendsExchange ==
  /\ hs.pc = "write_ClientKeyExchange" /\ hs'.pc \in {"write_CertificateVerify", "flush"}
  /\ ClientSame /\ ClientData /\ DownKeeps /\ UpGets("ClientKeyExchange")
SendsCipher ==
  /\ hs.pc = "write_CCS" /\ hs'.pc = "write_Finished"
  /\ ClientSame /\ ClientData /\ DownKeeps /\ UpGets("ccs")
SendsFinished ==
  /\ hs.pc = "write_Finished" /\ hs'.pc = IF hs.resuming THEN "done" ELSE "read_CCS"
  /\ ClientSame /\ ClientData /\ DownKeeps /\ UpGets("Finished")
TakesCipher ==
  /\ hs.pc = "read_CCS" /\ hs'.pc = "read_Finished"
  /\ ClientSame /\ ClientData /\ UpKeeps /\ DownLoses("ccs")
TakesFinished ==
  /\ hs.pc = "read_Finished" /\ hs'.pc = IF hs.resuming THEN "flush" ELSE "done"
  /\ ClientSame /\ ClientData /\ UpKeeps /\ DownLoses("Finished")

Speaks == hs'.co = "running" /\ (SendsHello \/ TakesNew \/ TakesResumed \/ SendsExchange)
ClientEffect == ClientQuiet \/ Speaks \/ SendsCipher \/ SendsFinished \/ TakesCipher \/ TakesFinished

(* A message that nothing waits for adds nothing.                          *)
LEMMA UpGetsNothing ==
  ASSUME NEW m, m \notin Hi, m \notin Exchange, m \notin Cipher, m \notin Finish, UpGets(m)
  PROVE  UpKeeps
BY DEF UpGets, UpKeeps

(* What the client's processor does with its input.                        *)
LEMMA InputForms ==
  /\ UNCHANGED inrec => Reads(inrec, inrec')
  /\ TakeInput /\ inrec.body # <<>> => Reads(inrec, inrec')
  /\ DropInput => Reads(inrec, inrec')
BY DEF Reads, TakeInput, DropInput

(* What the client's processor does with its output.                       *)
LEMMA OutputForms ==
  ASSUME NEW item
  PROVE  /\ UNCHANGED <<outrec, outbuf>> => Outputs(eng, item, outrec, outbuf, outrec', outbuf')
         /\ Seal(outbuf) => Outputs(eng, item, outrec, outbuf, outrec', outbuf')
         /\ \A type \in RecordKinds :
              (type = "change_cipher_spec" => item = Msg("ccs")) /\ Emit(type, item) =>
                Outputs(eng, item, outrec, outbuf, outrec', outbuf')
         /\ eng.record_type_out # "change_cipher_spec" =>
              /\ outbuf' = Append(outbuf, item) /\ UNCHANGED outrec =>
                   Outputs(eng, item, outrec, outbuf, outrec', outbuf')
              /\ Seal(Append(outbuf, item)) => Outputs(eng, item, outrec, outbuf, outrec', outbuf')
<1>1. \A body : Seal(body) => Sealed(eng, body, outrec, outbuf, outrec', outbuf')
  BY DEF Seal, Sealed
<1>2. \A type : Emit(type, item) => Emits(eng, type, item, outbuf, outrec', outbuf')
  BY DEF Emit, Emits
<1> QED BY <1>1, <1>2 DEF Outputs

(* The buffers after a step that sends nothing that matters.               *)
LEMMA ClientKeeps ==
  ASSUME ClientShape, ClientTypes, Frame(eng', hs'), NEW item \in Said,
         item.msg \notin Hi \cup Exchange \cup Cipher \cup Finish,
         Reads(inrec, inrec'), Outputs(eng, item, outrec, outbuf, outrec', outbuf'),
         UNCHANGED <<sinrec, toServer, toClient, soutrec, soutbuf>>
  PROVE  ClientShape' /\ DownKeeps /\ UpKeeps
BY ClientMoves, UpGetsNothing

Plain == {"data", "Certificate", "CertificateVerify", "no_renegotiation", "close_notify",
          "HelloRequest", "ServerKeyExchange", "CertificateRequest", "ServerHelloDone", "fatal"}
(* The messages that nothing waits for.                                    *)
LEMMA PlainWords ==
  /\ Data(1) \in Said /\ Data(1).msg \in Plain
  /\ Msg("Certificate").msg \in Plain /\ Msg("CertificateVerify").msg \in Plain
  /\ Msg("no_renegotiation").msg \in Plain /\ Msg("close_notify").msg \in Plain
  /\ \A m \in Plain : m \notin Hi \cup Exchange \cup Cipher \cup Finish \cup Answer
BY SaidItems, SaidWords DEF Data, Plain, Hi, Exchange, Cipher, Finish, Answer

(* Each step of the client's processor has one of these effects.           *)
LEMMA ClientEffects ==
  ASSUME ClientShape, ClientTypes, HandshakeStep,
         UNCHANGED <<sinrec, toServer, toClient, soutrec, soutbuf>>
  PROVE  ClientShape' /\ ClientTypes' /\ ClientEffect
<1> DEFINE Out(item) == Outputs(eng, item, outrec, outbuf, outrec', outbuf')
<1>1. Frame(eng, hs) /\ inrec \in KnownRecord
  BY DEF ClientShape, EndShape
<1>2. ASSUME NEW item \in Said, item.msg \in Plain, ClientTypes', Frame(eng', hs'), ClientGoesOn,
             Reads(inrec, inrec'), Out(item)
      PROVE  ClientShape' /\ ClientTypes' /\ ClientEffect
  BY <1>2, ClientKeeps, PlainWords DEF ClientEffect, ClientQuiet
<1>3. ASSUME ClientTypes', Frame(eng', hs'), ClientGoesOn, Reads(inrec, inrec'),
             UNCHANGED <<outrec, outbuf>> \/ Seal(outbuf)
      PROVE  ClientShape' /\ ClientTypes' /\ ClientEffect
  <2>1. Out(Data(1))
    BY <1>3, OutputForms
  <2> QED BY <1>2, <1>3, <2>1, PlainWords
<1>4. ASSUME NEW item \in Said, item.msg \in Plain, ClientTypes', Frame(eng', hs'), ClientGoesOn,
             UNCHANGED inrec, \/ \E type \in {"alert", "handshake"} : Emit(type, item)
                              \/ /\ eng.record_type_out # "change_cipher_spec"
                                 /\ \/ outbuf' = Append(outbuf, item) /\ UNCHANGED outrec
                                    \/ Seal(Append(outbuf, item))
      PROVE  ClientShape' /\ ClientTypes' /\ ClientEffect
  <2>1. Out(item)
    BY <1>4, OutputForms, MadeRecords
  <2> QED BY <1>2, <1>4, <2>1, InputForms
<1>5. ASSUME NEW item \in Said, ClientTypes', Frame(eng', hs'), UNCHANGED inrec, Out(item)
      PROVE  ClientShape' /\ ClientTypes' /\ DownKeeps /\ UpGets(item.msg)
  BY <1>5, ClientMoves, InputForms
<1>6. ASSUME ClientTypes', Frame(eng', hs'), TakeInput, inrec.body # <<>>, UNCHANGED <<outrec, outbuf>>
      PROVE  ClientShape' /\ ClientTypes' /\ UpKeeps /\ DownLoses(Head(inrec.body).msg)
  <2>1. Out(Data(1)) /\ Reads(inrec, inrec')
    BY <1>6, OutputForms, InputForms
  <2>2. ClientShape' /\ UpKeeps /\ DownKeeps
    BY <1>6, <2>1, ClientKeeps, PlainWords
  <2> QED BY <1>6, <2>2, ClientTakes
<1> HIDE DEF Out
<1> DEFINE Local == ClientTypes' /\ Frame(eng', hs')
<1> USE DEF ClientTypes, EndTypes, Frame

<1>7. CASE wait_co /\ ~AlertReceived
  <2>1. Local /\ ClientGoesOn
    BY <1>1, <1>7 DEF wait_co, CloseRequested, Resumed, Goto, ClientGoesOn, ClientSame,
       ClientPath, ClientOpens, ClientOpen, ClientFlight, Gone, MayBeOpen, RecordKinds, Types
  <2>2. /\ UNCHANGED inrec \/ (TakeInput /\ inrec.body # <<>>) \/ DropInput
        /\ UNCHANGED <<outrec, outbuf>> \/ Seal(outbuf)
    BY <1>7 DEF wait_co, CloseRequested, Resumed, Goto
  <2> QED BY <1>3, <2>1, <2>2, InputForms
<1>8. CASE wait_co /\ AlertReceived
  <2>1. Local /\ ClientGoesOn
    BY <1>1, <1>8 DEF wait_co, AlertReceived, Fail, GotoAte, HasInput, ClientGoesOn,
       ClientSame, ClientPath, ClientOpens, ClientOpen, ClientFlight, Gone, MayBeOpen,
       RecordKinds, Types
  <2>2. /\ UNCHANGED inrec \/ (TakeInput /\ inrec.body # <<>>) \/ DropInput
        /\ UNCHANGED <<outrec, outbuf>> \/ Seal(outbuf)
    BY <1>8 DEF wait_co, AlertReceived, Fail, GotoAte, HasInput
  <2> QED BY <1>3, <2>1, <2>2, InputForms
<1>9. CASE wait_for_close
  <2>1. hs.pc \in {"close_out", "close_wait"}
    BY <1>9 DEF wait_for_close, Closing
  <2>2. CASE CloseAlertReceived
    <3> DEFINE heard == eng.shutdown_recv \/ Head(inrec.body).msg = "close_notify"
               answered == Head(inrec.body).msg = "close_notify"
    <3>1. \/ \E err : Fail(err)
          \/ /\ eng' = [eng EXCEPT !.application_data = 0, !.shutdown_recv = heard]
             /\ hs' = [hs EXCEPT !.co = "running", !.ate = TRUE, !.cnr = answered]
             /\ TakeInput /\ UNCHANGED <<outbuf, outrec>>
      BY <2>2 DEF CloseAlertReceived
    <3> HIDE DEF heard, answered
    <3>2. CASE \E err : Fail(err)
      <4>1. Local /\ ClientGoesOn
        BY <1>1, <2>1, <3>2 DEF Fail, ClientGoesOn, ClientSame, ClientPath, ClientOpens,
           ClientOpen, ClientFlight, Gone, MayBeOpen
      <4> QED BY <1>3, <3>2, <4>1, InputForms DEF Fail
    <3>4. ASSUME eng' = [eng EXCEPT !.application_data = 0, !.shutdown_recv = heard],
                 hs' = [hs EXCEPT !.co = "running", !.ate = TRUE, !.cnr = answered],
                 TakeInput, UNCHANGED <<outbuf, outrec>>
          PROVE  Local /\ ClientGoesOn
      <4>1. /\ DOMAIN eng' = DOMAIN eng /\ DOMAIN hs' = DOMAIN hs
            /\ eng'.application_data = 0 /\ eng'.session = eng.session
            /\ eng'.record_type_out = eng.record_type_out /\ eng'.out_epoch = eng.out_epoch
            /\ hs'.pc = hs.pc /\ hs'.resuming = hs.resuming /\ hs'.can_output = hs.can_output
        BY <1>1, <3>4
      <4> QED BY <1>1, <2>1, <3>4, <4>1 DEF ClientGoesOn, ClientSame, ClientPath, ClientOpens,
         ClientOpen, ClientFlight, Gone, MayBeOpen
    <3>3. /\ UNCHANGED inrec \/ (TakeInput /\ inrec.body # <<>>)
          /\ UNCHANGED <<outrec, outbuf>>
      BY <2>2, <3>1 DEF Fail, CloseAlertReceived, HasInput
    <3> QED BY <1>3, <3>1, <3>2, <3>3, <3>4, InputForms
  <2>3. CASE ~CloseAlertReceived
    <3>1. /\ GotoAte(hs.pc) \/ Goto(hs.pc)
          /\ DropInput \/ UNCHANGED inrec
          /\ UNCHANGED <<eng, outbuf, outrec>>
      BY <1>9, <2>3 DEF wait_for_close
    <3>2. Local /\ ClientGoesOn
      BY <1>1, <3>1 DEF Goto, GotoAte, ClientGoesOn, ClientSame, ClientPath, ClientOpens,
         ClientOpen, ClientFlight, Gone, MayBeOpen
    <3> QED BY <1>3, <3>1, <3>2, InputForms
  <2> QED BY <2>2, <2>3
<1>10. CASE Main
  <2>1. hs.pc = "main" /\ UNCHANGED <<inrec, outbuf, outrec>>
    BY <1>10 DEF Main, Running, Fail, Suspend
  <2>2. \/ eng' = [eng EXCEPT !.application_data = 0] /\ Goto("read_HelloRequest")
        \/ Fail("UNEXPECTED")
        \/ UNCHANGED eng /\ Goto("start")
        \/ Suspend("main")
    BY <1>10 DEF Main
  <2>3. CASE eng' = [eng EXCEPT !.application_data = 0] /\ Goto("read_HelloRequest")
    BY <1>1, <1>3, <2>1, <2>3, InputForms DEF Goto, ClientGoesOn, ClientSame, ClientPath,
       ClientOpens, ClientOpen, ClientFlight, Gone, MayBeOpen
  <2>4. CASE Fail("UNEXPECTED") \/ (UNCHANGED eng /\ Goto("start"))
    BY <1>1, <1>3, <2>1, <2>4, InputForms DEF Fail, Goto, ClientGoesOn, ClientSame, ClientPath,
       ClientOpens, ClientOpen, ClientFlight, Gone, MayBeOpen
  <2>5. CASE Suspend("main")
    BY <1>1, <1>3, <2>1, <2>5, InputForms DEF Suspend, OutputFree, ClientGoesOn, ClientSame,
       ClientPath, ClientOpens, ClientOpen, ClientFlight, Gone, MayBeOpen
  <2> QED BY <2>2, <2>3, <2>4, <2>5
<1>11. CASE StartHandshake
  <2>1. Local /\ ClientGoesOn
    BY <1>1, <1>11 DEF StartHandshake, Running, ClientGoesOn, ClientSame, ClientPath,
       ClientOpens, ClientOpen, ClientFlight, Gone, MayBeOpen, RecordKinds, Types
  <2>2. /\ UNCHANGED inrec \/ (TakeInput /\ inrec.body # <<>>) \/ DropInput
        /\ UNCHANGED <<outrec, outbuf>> \/ Seal(outbuf)
    BY <1>11 DEF StartHandshake, Running
  <2> QED BY <1>3, <2>1, <2>2, InputForms
<1>12. CASE WriteClientHello
  <2>1. CASE ~hs.can_output
    <3>1. Suspend(hs.pc) /\ hs.pc = "write_ClientHello"
      BY <1>12, <2>1 DEF WriteClientHello, Running
    <3>2. Local /\ ClientGoesOn /\ UNCHANGED <<inrec, outrec, outbuf>>
      BY <1>1, <3>1 DEF Suspend, OutputFree, ClientGoesOn, ClientSame, ClientPath, ClientOpens,
         ClientOpen, ClientFlight, Gone, MayBeOpen
    <3> QED BY <1>3, <3>2, InputForms
  <2>2. CASE hs.can_output
    <3>1. /\ Running("write_ClientHello") /\ Emit(eng.record_type_out, Msg("ClientHello"))
          /\ hs' = [hs EXCEPT !.pc = "read_ServerHello", !.can_output = FALSE]
          /\ UNCHANGED <<eng, inrec>>
      BY <1>12, <2>2 DEF WriteClientHello
    <3>2. eng.record_type_out # "change_cipher_spec" /\ eng.record_type_out \in RecordKinds
      BY <1>1, <3>1 DEF Running, Gone
    <3>3. Local /\ ClientSame /\ ClientData /\ hs'.co = "running" /\ hs'.pc = "read_ServerHello"
      BY <1>1, <3>1, <3>2 DEF Running, ClientSame, ClientData, Emit, Gone, MayBeOpen
    <3>4. Out(Msg("ClientHello"))
      BY <3>1, <3>2, OutputForms DEF Out
    <3>5. ClientShape' /\ ClientTypes' /\ DownKeeps /\ UpGets("ClientHello")
      BY <1>5, <3>1, <3>3, <3>4, SaidItems, SaidWords
    <3> QED BY <3>1, <3>3, <3>5 DEF ClientEffect, Speaks, SendsHello, Running
  <2> QED BY <2>1, <2>2
<1>13. CASE ReadWaits
  <2>1. Local /\ ClientGoesOn
    BY <1>1, <1>13 DEF ReadWaits, Suspend, OutputFree, ClientGoesOn, ClientSame, ClientPath,
       ClientOpens, ClientOpen, ClientFlight, Gone, MayBeOpen, RecordKinds, Types
  <2>2. /\ UNCHANGED inrec \/ (TakeInput /\ inrec.body # <<>>) \/ DropInput
        /\ UNCHANGED <<outrec, outbuf>> \/ Seal(outbuf)
    BY <1>13 DEF ReadWaits, Suspend, OutputFree
  <2> QED BY <1>3, <2>1, <2>2, InputForms
<1>14. CASE SkipHelloRequest
  <2>1. Local /\ ClientGoesOn
    BY <1>1, <1>14 DEF SkipHelloRequest, Incoming, HasInput, GotoAte, ClientGoesOn, ClientSame,
       ClientPath, ClientOpens, ClientOpen, ClientFlight, Gone, MayBeOpen, RecordKinds, Types
  <2>2. /\ UNCHANGED inrec \/ (TakeInput /\ inrec.body # <<>>) \/ DropInput
        /\ UNCHANGED <<outrec, outbuf>> \/ Seal(outbuf)
    BY <1>14 DEF SkipHelloRequest, Incoming, HasInput, GotoAte
  <2> QED BY <1>3, <2>1, <2>2, InputForms
<1>15. CASE ReadUnexpected
  <2>1. Local /\ ClientGoesOn
    BY <1>1, <1>15 DEF ReadUnexpected, Fail, ClientGoesOn, ClientSame, ClientPath, ClientOpens,
       ClientOpen, ClientFlight, Gone, MayBeOpen, RecordKinds, Types
  <2>2. /\ UNCHANGED inrec \/ (TakeInput /\ inrec.body # <<>>) \/ DropInput
        /\ UNCHANGED <<outrec, outbuf>> \/ Seal(outbuf)
    BY <1>15 DEF ReadUnexpected, Fail
  <2> QED BY <1>3, <2>1, <2>2, InputForms
<1>16. CASE ReadServerHello
  <2>1. PICK name \in {"ServerHello", "ServerHelloResumed"} :
             /\ Incoming(name) /\ hs.pc = "read_ServerHello"
             /\ \/ /\ eng' = [eng EXCEPT !.session = TRUE, !.reneg = IF Head(inrec.body).n = 1 THEN 2 ELSE 1]
                   /\ hs' = [hs EXCEPT !.resuming = (name = "ServerHelloResumed" /\ eng.session), !.ate = TRUE,
                                !.pc = IF name = "ServerHelloResumed" /\ eng.session THEN "read_CCS"
                                       ELSE "read_Certificate"]
                   /\ TakeInput /\ UNCHANGED <<outbuf, outrec>>
                \/ Fail("BAD_SECRENEG")
    BY <1>16 DEF ReadServerHello
  <2>2. CASE Fail("BAD_SECRENEG")
    <3>1. Local /\ ClientGoesOn
      BY <1>1, <2>2 DEF Fail, ClientGoesOn, ClientSame, ClientPath, ClientOpens, ClientOpen,
         ClientFlight, Gone, MayBeOpen
    <3>2. UNCHANGED <<inrec, outrec, outbuf>>
      BY <2>2 DEF Fail
    <3> QED BY <1>3, <3>1, <3>2, InputForms
  <2>3. CASE ~Fail("BAD_SECRENEG")
    <3> DEFINE resumes == name = "ServerHelloResumed" /\ eng.session
    <3>1. /\ eng' = [eng EXCEPT !.session = TRUE, !.reneg = IF Head(inrec.body).n = 1 THEN 2 ELSE 1]
          /\ hs' = [hs EXCEPT !.resuming = resumes, !.ate = TRUE,
                                !.pc = IF resumes THEN "read_CCS" ELSE "read_Certificate"]
          /\ TakeInput /\ UNCHANGED <<outbuf, outrec>>
      BY <2>1, <2>3
    <3>2. /\ hs.pc = "read_ServerHello" /\ hs.co = "running" /\ inrec.body # <<>>
          /\ Head(inrec.body).msg = name
      BY <2>1 DEF Incoming, Reading, HasInput
    <3> HIDE DEF resumes
    <3>3. /\ Local /\ ClientData /\ hs'.co = "running" /\ eng'.session = TRUE
          /\ hs'.resuming = resumes /\ hs'.pc = IF resumes THEN "read_CCS" ELSE "read_Certificate"
      BY <1>1, <3>1, <3>2 DEF ClientData, Gone, MayBeOpen
    <3>4. ClientShape' /\ ClientTypes' /\ UpKeeps /\ DownLoses(name)
      BY <1>6, <3>1, <3>2, <3>3
    <3>5. CASE resumes
      <4>1. DownLoses("ServerHelloResumed")
        BY <3>4, <3>5 DEF resumes
      <4> QED BY <3>2, <3>3, <3>4, <3>5, <4>1 DEF ClientEffect, Speaks, TakesResumed
    <3>6. CASE ~resumes
      <4>1. DownLoses("ServerHello") \/ (DownLoses("ServerHelloResumed") /\ ~eng.session)
        BY <2>1, <3>4, <3>6 DEF resumes
      <4> QED BY <3>2, <3>3, <3>4, <3>6, <4>1 DEF ClientEffect, Speaks, TakesNew
    <3> QED BY <3>5, <3>6
  <2> QED BY <2>2, <2>3
<1>17. CASE ReadCertificate
  <2>1. Local /\ ClientGoesOn
    BY <1>1, <1>17 DEF ReadCertificate, Incoming, HasInput, GotoAte, ClientGoesOn, ClientSame,
       ClientPath, ClientOpens, ClientOpen, ClientFlight, Gone, MayBeOpen, RecordKinds, Types
  <2>2. /\ UNCHANGED inrec \/ (TakeInput /\ inrec.body # <<>>) \/ DropInput
        /\ UNCHANGED <<outrec, outbuf>> \/ Seal(outbuf)
    BY <1>17 DEF ReadCertificate, Incoming, HasInput, GotoAte
  <2> QED BY <1>3, <2>1, <2>2, InputForms
<1>18. CASE ReadServerKeyExchange
  <2>1. Local /\ ClientGoesOn
    BY <1>1, <1>18 DEF ReadServerKeyExchange, Incoming, HasInput, GotoAte, ClientGoesOn,
       ClientSame, ClientPath, ClientOpens, ClientOpen, ClientFlight, Gone, MayBeOpen,
       RecordKinds, Types
  <2>2. /\ UNCHANGED inrec \/ (TakeInput /\ inrec.body # <<>>) \/ DropInput
        /\ UNCHANGED <<outrec, outbuf>> \/ Seal(outbuf)
    BY <1>18 DEF ReadServerKeyExchange, Incoming, HasInput, GotoAte
  <2> QED BY <1>3, <2>1, <2>2, InputForms
<1>19. CASE ReadCertificateRequest
  <2>1. Local /\ ClientGoesOn
    BY <1>1, <1>19 DEF ReadCertificateRequest, Incoming, HasInput, ClientGoesOn, ClientSame,
       ClientPath, ClientOpens, ClientOpen, ClientFlight, Gone, MayBeOpen, RecordKinds, Types
  <2>2. /\ UNCHANGED inrec \/ (TakeInput /\ inrec.body # <<>>) \/ DropInput
        /\ UNCHANGED <<outrec, outbuf>> \/ Seal(outbuf)
    BY <1>19 DEF ReadCertificateRequest, Incoming, HasInput
  <2> QED BY <1>3, <2>1, <2>2, InputForms
<1>20. CASE ReadServerHelloDone
  <2>1. Local /\ ClientGoesOn
    BY <1>1, <1>20 DEF ReadServerHelloDone, Incoming, HasInput, GotoAte, Fail, ClientGoesOn,
       ClientSame, ClientPath, ClientOpens, ClientOpen, ClientFlight, Gone, MayBeOpen,
       RecordKinds, Types
  <2>2. /\ UNCHANGED inrec \/ (TakeInput /\ inrec.body # <<>>) \/ DropInput
        /\ UNCHANGED <<outrec, outbuf>> \/ Seal(outbuf)
    BY <1>20 DEF ReadServerHelloDone, Incoming, HasInput, GotoAte, Fail
  <2> QED BY <1>3, <2>1, <2>2, InputForms
<1>21. CASE ReadCCS
  <2>1. CASE HasInput /\ inrec.type = "change_cipher_spec"
    <3>1. /\ hs.pc = "read_CCS" /\ eng' = [eng EXCEPT !.in_epoch = @ + 1] /\ GotoAte("read_Finished")
          /\ TakeInput /\ UNCHANGED <<outbuf, outrec>> /\ inrec.body # <<>>
      BY <1>21, <2>1 DEF ReadCCS, Running, HasInput
    <3>2. Local /\ ClientSame /\ ClientData /\ hs'.pc = "read_Finished"
      BY <1>1, <3>1 DEF GotoAte, ClientSame, ClientData, Gone, MayBeOpen
    <3>3. Head(inrec.body).msg = "ccs"
      <4>1. inrec.body \in Seq(Said) /\ \A i \in DOMAIN inrec.body : inrec.body[i].msg = "ccs"
        BY <1>1, <2>1, KnownBody DEF KnownRecord, CipherRecord
      <4>2. 1 \in DOMAIN inrec.body /\ Head(inrec.body) = inrec.body[1]
        BY <3>1, <4>1
      <4> QED BY <4>1, <4>2
    <3>4. ClientShape' /\ ClientTypes' /\ UpKeeps /\ DownLoses("ccs")
      BY <1>6, <3>1, <3>2, <3>3
    <3> QED BY <3>1, <3>2, <3>4 DEF ClientEffect, TakesCipher
  <2>2. CASE ~(HasInput /\ inrec.type = "change_cipher_spec")
    <3>1. Local /\ ClientGoesOn
      BY <1>1, <1>21, <2>2 DEF ReadCCS, Running, Fail, Suspend, OutputFree, ClientGoesOn,
         ClientSame, ClientPath, ClientOpens, ClientOpen, ClientFlight, Gone, MayBeOpen
    <3>2. UNCHANGED <<inrec, outrec, outbuf>>
      BY <1>21, <2>2 DEF ReadCCS, Fail, Suspend
    <3> QED BY <1>3, <3>1, <3>2, InputForms
  <2> QED BY <2>1, <2>2
<1>22. CASE ReadFinished
  <2>1. /\ hs.pc = "read_Finished" /\ GotoAte(IF hs.resuming THEN "flush" ELSE "done")
        /\ TakeInput /\ UNCHANGED <<eng, outbuf, outrec>> /\ inrec.body # <<>>
        /\ Head(inrec.body).msg = "Finished"
    BY <1>22 DEF ReadFinished, Incoming, HasInput
  <2>2. /\ Local /\ ClientSame /\ ClientData
        /\ hs'.pc = IF hs.resuming THEN "flush" ELSE "done"
    BY <1>1, <2>1 DEF GotoAte, ClientSame, ClientData, Gone, MayBeOpen
  <2>3. ClientShape' /\ ClientTypes' /\ UpKeeps /\ DownLoses("Finished")
    BY <1>6, <2>1, <2>2
  <2> QED BY <2>1, <2>2, <2>3 DEF ClientEffect, TakesFinished
<1>23. CASE ReadHelloRequest
  <2>1. Local /\ ClientGoesOn
    BY <1>1, <1>23 DEF ReadHelloRequest, Incoming, HasInput, GotoAte, ClientGoesOn, ClientSame,
       ClientPath, ClientOpens, ClientOpen, ClientFlight, Gone, MayBeOpen, RecordKinds, Types
  <2>2. /\ UNCHANGED inrec \/ (TakeInput /\ inrec.body # <<>>) \/ DropInput
        /\ UNCHANGED <<outrec, outbuf>> \/ Seal(outbuf)
    BY <1>23 DEF ReadHelloRequest, Incoming, HasInput, GotoAte
  <2> QED BY <1>3, <2>1, <2>2, InputForms
<1>24. CASE WriteFlight
  <2>1. CASE ~hs.can_output
    <3>1. Suspend(hs.pc)
      BY <1>24, <2>1 DEF WriteFlight
    <3>2. Local /\ ClientGoesOn /\ UNCHANGED <<inrec, outrec, outbuf>>
      BY <1>1, <3>1 DEF Suspend, OutputFree, ClientGoesOn, ClientSame, ClientPath, ClientOpens,
         ClientOpen, ClientFlight, Gone, MayBeOpen
    <3> QED BY <1>3, <3>2, InputForms
  <2>2. CASE hs.can_output
    <3> DEFINE item == Flight[hs.pc].item
               next == Flight[hs.pc].next
    <3>1. /\ hs.co = "running"
          /\ hs.pc \in {"write_Certificate", "write_ClientKeyExchange", "write_CertificateVerify"}
          /\ \/ outbuf' = Append(outbuf, item) /\ UNCHANGED outrec /\ Goto(next)
             \/ Seal(Append(outbuf, item)) /\ hs' = [hs EXCEPT !.pc = next, !.can_output = FALSE]
          /\ UNCHANGED <<eng, inrec>>
      BY <1>24, <2>2 DEF WriteFlight, Flight
    <3>2. /\ hs.pc = "write_Certificate" =>
               item = Msg("Certificate") /\ next = "write_ClientKeyExchange"
          /\ hs.pc = "write_ClientKeyExchange" =>
               item = Msg("ClientKeyExchange") /\ next \in {"write_CertificateVerify", "flush"}
          /\ hs.pc = "write_CertificateVerify" =>
               item = Msg("CertificateVerify") /\ next = "flush"
      BY DEF Flight
    <3>3. item \in Said /\ next \in {"write_ClientKeyExchange", "write_CertificateVerify", "flush"}
      BY <3>1, <3>2, SaidItems
    <3> HIDE DEF item, next
    <3>4. eng.record_type_out # "change_cipher_spec" /\ eng.application_data # 1
      BY <3>1 DEF Gone, MayBeOpen
    <3>5. Local /\ ClientSame /\ ClientData /\ hs'.co = "running" /\ hs'.pc = next
      BY <1>1, <3>1, <3>3, <3>4 DEF Goto, ClientSame, ClientData, MayBeOpen, Gone
    <3>6. Out(item)
      BY <3>1, <3>4, OutputForms DEF Out
    <3>7. CASE hs.pc = "write_ClientKeyExchange"
      <4>1. ClientShape' /\ ClientTypes' /\ DownKeeps /\ UpGets("ClientKeyExchange")
        BY <1>5, <3>1, <3>2, <3>3, <3>5, <3>6, <3>7, SaidWords
      <4> QED BY <3>2, <3>5, <3>7, <4>1 DEF ClientEffect, Speaks, SendsExchange
    <3>8. CASE hs.pc # "write_ClientKeyExchange"
      <4>1. item.msg \in Plain
        BY <3>1, <3>2, <3>8, PlainWords
      <4>2. ClientGoesOn
        BY <3>1, <3>2, <3>4, <3>5, <3>8 DEF ClientData, ClientGoesOn, ClientSame, ClientPath,
           ClientOpens, ClientOpen, ClientFlight, Gone, MayBeOpen
      <4> QED BY <1>2, <3>1, <3>3, <3>5, <3>6, <4>1, <4>2, InputForms
    <3> QED BY <3>7, <3>8
  <2> QED BY <2>1, <2>2
<1>25. CASE FlushFlight
  <2>1. Local /\ ClientGoesOn
    BY <1>1, <1>25 DEF FlushFlight, Running, Seal, Record, NoRecord, ClientGoesOn, ClientSame,
       ClientPath, ClientOpens, ClientOpen, ClientFlight, Gone, MayBeOpen, RecordKinds, Types
  <2>2. /\ UNCHANGED inrec \/ (TakeInput /\ inrec.body # <<>>) \/ DropInput
        /\ UNCHANGED <<outrec, outbuf>> \/ Seal(outbuf)
    BY <1>25 DEF FlushFlight
  <2> QED BY <1>3, <2>1, <2>2, InputForms
<1>26. CASE WriteCCS
  <2>1. CASE ~hs.can_output
    <3>1. Suspend(hs.pc) /\ hs.pc = "write_CCS"
      BY <1>26, <2>1 DEF WriteCCS, Running
    <3>2. Local /\ ClientGoesOn /\ UNCHANGED <<inrec, outrec, outbuf>>
      BY <1>1, <3>1 DEF Suspend, OutputFree, ClientGoesOn, ClientSame, ClientPath, ClientOpens,
         ClientOpen, ClientFlight, Gone, MayBeOpen
    <3> QED BY <1>3, <3>2, InputForms
  <2>2. CASE hs.can_output
    <3>1. /\ hs.pc = "write_CCS" /\ Emit("change_cipher_spec", Msg("ccs"))
          /\ eng' = [eng EXCEPT !.record_type_out = "change_cipher_spec", !.out_epoch = @ + 1]
          /\ hs' = [hs EXCEPT !.pc = "write_Finished", !.can_output = FALSE]
          /\ UNCHANGED inrec
      BY <1>26, <2>2 DEF WriteCCS, Running
    <3>2. Local /\ ClientSame /\ ClientData /\ hs'.pc = "write_Finished"
      BY <1>1, <2>2, <3>1 DEF Emit, ClientSame, ClientData, Gone, MayBeOpen, RecordKinds, Types
    <3>3. Out(Msg("ccs"))
      BY <3>1, OutputForms, MadeRecords DEF Out
    <3>4. ClientShape' /\ ClientTypes' /\ DownKeeps /\ UpGets("ccs")
      BY <1>5, <3>1, <3>2, <3>3, SaidItems, SaidWords
    <3> QED BY <3>1, <3>2, <3>4 DEF ClientEffect, SendsCipher
  <2> QED BY <2>1, <2>2
<1>27. CASE WriteFinished
  <2>1. CASE ~hs.can_output
    <3>1. Suspend(hs.pc) /\ hs.pc = "write_Finished"
      BY <1>27, <2>1 DEF WriteFinished, Running
    <3>2. Local /\ ClientGoesOn /\ UNCHANGED <<inrec, outrec, outbuf>>
      BY <1>1, <3>1 DEF Suspend, OutputFree, ClientGoesOn, ClientSame, ClientPath, ClientOpens,
         ClientOpen, ClientFlight, Gone, MayBeOpen
    <3> QED BY <1>3, <3>2, InputForms
  <2>2. CASE hs.can_output
    <3>1. /\ hs.pc = "write_Finished" /\ Emit("handshake", Msg("Finished"))
          /\ eng' = [eng EXCEPT !.record_type_out = "handshake"]
          /\ hs' = [hs EXCEPT !.pc = IF hs.resuming THEN "done" ELSE "read_CCS", !.can_output = FALSE]
          /\ UNCHANGED inrec
      BY <1>27, <2>2 DEF WriteFinished, Running
    <3>2. Local /\ ClientSame /\ ClientData /\ hs'.pc = IF hs.resuming THEN "done" ELSE "read_CCS"
      BY <1>1, <2>2, <3>1 DEF Emit, ClientSame, ClientData, Gone, MayBeOpen, RecordKinds, Types
    <3>3. Out(Msg("Finished"))
      BY <3>1, OutputForms, MadeRecords DEF Out
    <3>4. ClientShape' /\ ClientTypes' /\ DownKeeps /\ UpGets("Finished")
      BY <1>5, <3>1, <3>2, <3>3, SaidItems, SaidWords
    <3> QED BY <3>1, <3>2, <3>4 DEF ClientEffect, SendsFinished
  <2> QED BY <2>1, <2>2
<1>28. CASE HandshakeDone
  <2>1. Local /\ ClientGoesOn
    BY <1>1, <1>28 DEF HandshakeDone, Running, Goto, OpenChannel, ClientGoesOn, ClientSame,
       ClientPath, ClientOpens, ClientOpen, ClientFlight, Gone, MayBeOpen, RecordKinds, Types
  <2>2. /\ UNCHANGED inrec \/ (TakeInput /\ inrec.body # <<>>) \/ DropInput
        /\ UNCHANGED <<outrec, outbuf>> \/ Seal(outbuf)
    BY <1>28 DEF HandshakeDone, Running, Goto, OpenChannel
  <2> QED BY <1>3, <2>1, <2>2, InputForms
<1>29. CASE EnterMain
  <2>1. Local /\ ClientGoesOn
    BY <1>1, <1>29 DEF EnterMain, Running, Suspend, OutputFree, ClientGoesOn, ClientSame,
       ClientPath, ClientOpens, ClientOpen, ClientFlight, Gone, MayBeOpen, RecordKinds, Types
  <2>2. /\ UNCHANGED inrec \/ (TakeInput /\ inrec.body # <<>>) \/ DropInput
        /\ UNCHANGED <<outrec, outbuf>> \/ Seal(outbuf)
    BY <1>29 DEF EnterMain, Running, Suspend, OutputFree
  <2> QED BY <1>3, <2>1, <2>2, InputForms
<1>30. CASE Decline
  <2>1. Local /\ ClientGoesOn
    BY <1>1, <1>30 DEF Decline, Running, Seal, ClientGoesOn, ClientSame, ClientPath,
       ClientOpens, ClientOpen, ClientFlight, Gone, MayBeOpen, RecordKinds, Types
  <2>2. /\ UNCHANGED inrec \/ (TakeInput /\ inrec.body # <<>>) \/ DropInput
        /\ UNCHANGED <<outrec, outbuf>> \/ Seal(outbuf)
    BY <1>30 DEF Decline
  <2> QED BY <1>3, <2>1, <2>2, InputForms
<1>31. CASE WriteNoRenegotiation
  <2>1. CASE ~hs.can_output
    <3>1. Suspend(hs.pc) /\ hs.pc = "write_no_renegotiation"
      BY <1>31, <2>1 DEF WriteNoRenegotiation, Running
    <3>2. Local /\ ClientGoesOn /\ UNCHANGED <<inrec, outrec, outbuf>>
      BY <1>1, <3>1 DEF Suspend, OutputFree, ClientGoesOn, ClientSame, ClientPath, ClientOpens,
         ClientOpen, ClientFlight, Gone, MayBeOpen
    <3> QED BY <1>3, <3>2, InputForms
  <2>2. CASE hs.can_output
    <3>1. /\ hs.pc = "write_no_renegotiation" /\ Emit("alert", Msg("no_renegotiation"))
          /\ eng' = OpenChannel
          /\ hs' = [hs EXCEPT !.pc = "enter_main", !.can_output = FALSE]
          /\ UNCHANGED inrec
      BY <1>31, <2>2 DEF WriteNoRenegotiation, Running
    <3>2. Local /\ ClientGoesOn
      BY <1>1, <3>1 DEF Emit, RecordKinds, Types, OpenChannel, ClientGoesOn, ClientSame,
         ClientPath, ClientOpens, ClientOpen, ClientFlight, Gone, MayBeOpen
    <3> QED BY <1>4, <3>1, <3>2, SaidItems, PlainWords
  <2> QED BY <2>1, <2>2
<1>32. CASE StartClose
  <2>1. 2 * eng.application_data \in Nat /\ 2 * eng.application_data # 1
    BY <1>1
  <2>2. Local /\ ClientGoesOn
    BY <1>1, <1>32, <2>1 DEF StartClose, Running, Seal, ClientGoesOn, ClientSame, ClientPath,
       ClientOpens, ClientOpen, ClientFlight, Gone, MayBeOpen
  <2>3. UNCHANGED inrec /\ Seal(outbuf)
    BY <1>32 DEF StartClose
  <2> QED BY <1>3, <2>2, <2>3, InputForms
<1>33. CASE WriteCloseNotify
  <2>1. CASE ~hs.can_output
    <3>1. Suspend(hs.pc) /\ hs.pc = "close_out"
      BY <1>33, <2>1 DEF WriteCloseNotify, Running
    <3>2. Local /\ ClientGoesOn /\ UNCHANGED <<inrec, outrec, outbuf>>
      BY <1>1, <3>1 DEF Suspend, OutputFree, ClientGoesOn, ClientSame, ClientPath, ClientOpens,
         ClientOpen, ClientFlight, Gone, MayBeOpen
    <3> QED BY <1>3, <3>2, InputForms
  <2>2. CASE hs.can_output
    <3>1. /\ hs.pc = "close_out" /\ Emit("alert", Msg("close_notify"))
          /\ eng' = [eng EXCEPT !.record_type_out = "alert"]
          /\ hs' = [hs EXCEPT !.pc = "close_wait", !.can_output = FALSE]
          /\ UNCHANGED inrec
      BY <1>33, <2>2 DEF WriteCloseNotify, Running
    <3>2. Local /\ ClientGoesOn
      BY <1>1, <3>1 DEF Emit, RecordKinds, Types, ClientGoesOn, ClientSame, ClientPath,
         ClientOpens, ClientOpen, ClientFlight, Gone, MayBeOpen
    <3> QED BY <1>4, <3>1, <3>2, SaidItems, PlainWords
  <2> QED BY <2>1, <2>2
<1>34. CASE AwaitCloseNotify
  <2>1. Local /\ ClientGoesOn
    <3>1. CASE Fail("OK")
      BY <1>1, <1>34, <3>1 DEF AwaitCloseNotify, Running, Fail, ClientGoesOn, ClientSame,
         ClientPath, ClientOpens, ClientOpen, ClientFlight, Gone, MayBeOpen, RecordKinds, Types
    <3>2. CASE Suspend("close_wait")
      BY <1>1, <1>34, <3>2 DEF AwaitCloseNotify, Running, Suspend, OutputFree, ClientGoesOn,
         ClientSame, ClientPath, ClientOpens, ClientOpen, ClientFlight, Gone, MayBeOpen,
         RecordKinds, Types
    <3> QED BY <1>34, <3>1, <3>2 DEF AwaitCloseNotify
  <2>2. /\ UNCHANGED inrec \/ (TakeInput /\ inrec.body # <<>>) \/ DropInput
        /\ UNCHANGED <<outrec, outbuf>> \/ Seal(outbuf)
    BY <1>34 DEF AwaitCloseNotify, Running, Fail, Suspend, OutputFree
  <2> QED BY <1>3, <2>1, <2>2, InputForms
<1> QED BY <1>7, <1>8, <1>9, <1>10, <1>11, <1>12, <1>13, <1>14, <1>15, <1>16, <1>17, <1>18,
   <1>19, <1>20, <1>21, <1>22, <1>23, <1>24, <1>25, <1>26, <1>27, <1>28, <1>29, <1>30, <1>31,
   <1>32, <1>33, <1>34 DEF HandshakeStep

-----------------------------------------------------------------------------
(* What a step of the server's processor may do: it goes on within a phase *)
(* of the handshake, or leaves it, and says nothing that matters,          *)
ServerOpen ==
  {"start", "read_ClientHello", "enter_main", "main", "request", "write_HelloRequest",
   "read_declined", "decline", "write_no_renegotiation"}
ServerRefusing == {"refuse", "write_fatal", "sent_fatal"}
ServerNew ==
  {"write_Certificate", "write_ServerKeyExchange", "write_CertificateRequest",
   "write_ServerHelloDone", "flush_flight", "read_Certificate", "read_ClientKeyExchange"}
ServerVerifying == {"read_CertificateVerify", "skip_CertificateVerify", "read_CCS"}
ServerKept == svr'.id = svr.id /\ svr'.cache = svr.cache /\ svr'.next = svr.next
ServerSame == ServerKept /\ shs'.resuming = shs.resuming /\ svr'.secret = svr.secret
WireSame ==
  /\ wire'.offer = wire.offer /\ wire'.premaster = wire.premaster
  /\ wire'.granted \in {wire.granted, svr.id}
ServerPath ==
  \/ shs'.pc = shs.pc \/ shs'.pc \in Gone
  \/ shs.pc \in ServerOpen /\ shs'.pc \in ServerOpen
  \/ shs.pc \in ServerRefusing /\ shs'.pc \in ServerRefusing
  \/ shs.pc \in ServerNew /\ shs'.pc \in ServerNew
  \/ shs.pc \in ServerVerifying /\ shs'.pc = "read_CCS"
  \/ shs.pc = "flush" /\ shs'.pc = "write_CCS"
(* (the processor does not wait in "done")                                 *)
ServerRests == shs'.pc = "done" => seng'.closed \/ shs'.co = "running"
ServerGoesOn == ServerSame /\ ServerPath /\ ServerRests
ServerQuiet == ServerGoesOn /\ WireSame /\ UpKeeps /\ DownKeeps

(* or it takes the hello, answers it, and so on.                           *)
TakesHelloNew ==
  /\ shs.pc = "read_ClientHello" /\ shs'.pc = "write_ServerHello" /\ ~shs'.resuming
  /\ svr'.id = svr.next /\ svr'.next = svr.next + 1 /\ svr'.cache = svr.cache
  /\ UNCHANGED wire /\ DownKeeps /\ UpLoses("ClientHello")
TakesHelloCached ==
  /\ shs.pc = "read_ClientHello" /\ shs'.pc = "write_ServerHello" /\ shs'.resuming
  /\ wire.offer.id \in DOMAIN svr.cache
  /\ svr'.id = wire.offer.id /\ svr'.secret = svr.cache[wire.offer.id]
  /\ svr'.next = svr.next /\ svr'.cache = svr.cache
  /\ UNCHANGED wire /\ DownKeeps /\ UpLoses("ClientHello")
TakesHelloRefused ==
  /\ shs.pc = "read_ClientHello" /\ shs'.pc = "refuse"
  /\ svr'.id = wire.offer.id /\ svr'.next = svr.next /\ svr'.cache = svr.cache
  /\ UNCHANGED wire /\ DownKeeps /\ UpLoses("ClientHello")
SendsAnswer ==
  /\ shs.pc = "write_ServerHello" /\ shs'.pc = IF shs.resuming THEN "flush" ELSE "write_Certificate"
  /\ ServerSame /\ wire'.offer = wire.offer /\ wire'.premaster = wire.premaster
  /\ wire'.granted = svr.id /\ UpKeeps
  /\ DownGets(IF shs.resuming THEN "ServerHelloResumed" ELSE "ServerHello")
TakesExchange ==
  /\ shs.pc = "read_ClientKeyExchange" /\ shs'.pc \in ServerVerifying
  /\ ServerKept /\ shs'.resuming = shs.resuming /\ svr'.secret = wire.premaster
  /\ UNCHANGED wire /\ DownKeeps /\ UpKeeps /\ ExchangeUp /\ (OneExchange => ~ExchangeUp')
RejectsExchange ==
  /\ shs.pc = "read_ClientKeyExchange" /\ shs'.pc = "read_ClientKeyExchange"
  /\ ServerKept /\ shs'.resuming = shs.resuming /\ svr'.secret = wire.premaster
  /\ UNCHANGED wire /\ DownKeeps /\ UpKeeps /\ ExchangeUp
ServerTakesCipher ==
  /\ shs.pc = "read_CCS" /\ shs'.pc = "read_Finished"
  /\ ServerSame /\ UNCHANGED wire /\ DownKeeps /\ UpLoses("ccs")
ServerTakesFinished ==
  /\ shs.pc = "read_Finished" /\ shs'.pc = IF shs.resuming THEN "done" ELSE "flush"
  /\ ServerSame /\ ServerRests /\ UNCHANGED wire /\ DownKeeps /\ UpLoses("Finished")
ServerSendsCipher ==
  /\ shs.pc = "write_CCS" /\ shs'.pc = "write_Finished"
  /\ ServerSame /\ UNCHANGED wire /\ UpKeeps /\ DownGets("ccs")
ServerSendsFinished ==
  /\ shs.pc = "write_Finished" /\ shs'.pc = IF shs.resuming THEN "read_CCS" ELSE "done"
  /\ ServerSame /\ ServerRests /\ UNCHANGED wire /\ UpKeeps /\ DownGets("Finished")
ServerEnds ==
  /\ shs.pc = "done" /\ shs'.pc = "enter_main"
  /\ shs'.resuming = shs.resuming /\ svr'.id = svr.id /\ svr'.secret = svr.secret
  /\ svr'.next = svr.next /\ UNCHANGED wire /\ UpKeeps /\ DownKeeps
  /\ \/ svr'.cache = svr.cache
     \/ /\ ~shs.resuming
        /\ svr'.cache = [i \in DOMAIN svr.cache \cup {svr.id} |->
                           IF i = svr.id THEN svr.secret ELSE svr.cache[i]]

HelloTaken == TakesHelloNew \/ TakesHelloCached \/ TakesHelloRefused
ServerEffect ==
  \/ ServerQuiet \/ HelloTaken \/ SendsAnswer \/ TakesExchange \/ RejectsExchange
  \/ ServerTakesCipher \/ ServerTakesFinished \/ ServerSendsCipher \/ ServerSendsFinished
  \/ ServerEnds

(* The server's engine is an instance of the same module.                  *)
LEMMA EngineWords ==
  /\ S!E!NoRecord = NoRecord
  /\ \A type, body, epoch : S!E!Record(type, body, epoch) = Record(type, body, epoch)
  /\ \A name : S!E!Msg(name) = Msg(name) /\ \A ri : S!E!Hello(name, ri) = Hello(name, ri)
  /\ S!E!Data(1) = Data(1)
BY DEF S!E!NoRecord, NoRecord, S!E!Record, Record, S!E!Msg, Msg, S!E!Hello, Hello, S!E!Data, Data

(* A message that the client does not wait for adds nothing.               *)
LEMMA DownGetsNothing ==
  ASSUME NEW m, m \notin Answer, m \notin Cipher, m \notin Finish, DownGets(m)
  PROVE  DownKeeps
BY DEF DownGets, DownKeeps, Answer

(* What the server's processor does with its input.                        *)
LEMMA ServerInputForms ==
  /\ UNCHANGED sinrec => Reads(sinrec, sinrec')
  /\ S!E!TakeInput /\ sinrec.body # <<>> => Reads(sinrec, sinrec')
  /\ S!E!DropInput => Reads(sinrec, sinrec')
BY DEF Reads, S!E!TakeInput, S!E!DropInput

(* What the server's processor does with its output.                       *)
LEMMA ServerOutputForms ==
  ASSUME NEW item
  PROVE  /\ UNCHANGED <<soutrec, soutbuf>> => Outputs(seng, item, soutrec, soutbuf, soutrec', soutbuf')
         /\ S!E!Seal(soutbuf) => Outputs(seng, item, soutrec, soutbuf, soutrec', soutbuf')
         /\ \A type \in RecordKinds :
              (type = "change_cipher_spec" => item = Msg("ccs")) /\ S!E!Emit(type, item) =>
                Outputs(seng, item, soutrec, soutbuf, soutrec', soutbuf')
         /\ seng.record_type_out # "change_cipher_spec" =>
              /\ soutbuf' = Append(soutbuf, item) /\ UNCHANGED soutrec =>
                   Outputs(seng, item, soutrec, soutbuf, soutrec', soutbuf')
              /\ S!E!Seal(Append(soutbuf, item)) =>
                   Outputs(seng, item, soutrec, soutbuf, soutrec', soutbuf')
<1>1. \A body : S!E!Seal(body) => Sealed(seng, body, soutrec, soutbuf, soutrec', soutbuf')
  BY EngineWords DEF S!E!Seal, Sealed
<1>2. \A type : S!E!Emit(type, item) => Emits(seng, type, item, soutbuf, soutrec', soutbuf')
  BY EngineWords DEF S!E!Emit, Emits
<1> QED BY <1>1, <1>2 DEF Outputs

(* The buffers after a step of the server that sends nothing that matters. *)
LEMMA ServerKeeps ==
  ASSUME ServerRecords, ServerTypes, Frame(seng', shs'), NEW item \in Said,
         item.msg \notin Answer \cup Cipher \cup Finish,
         Reads(sinrec, sinrec'), Outputs(seng, item, soutrec, soutbuf, soutrec', soutbuf'),
         UNCHANGED <<inrec, toServer, toClient, outrec, outbuf>>
  PROVE  ServerRecords' /\ DownKeeps /\ UpKeeps
BY ServerMoves, DownGetsNothing

(* The server's messages that nothing waits for.                           *)
LEMMA ServerPlainWords ==
  /\ \A name \in Plain : Msg(name).msg \in Plain
  /\ Msg("Certificate") \in Said /\ Msg("ServerKeyExchange") \in Said
  /\ Msg("CertificateRequest") \in Said /\ Msg("ServerHelloDone") \in Said
  /\ Msg("HelloRequest") \in Said /\ Msg("fatal") \in Said /\ Msg("close_notify") \in Said
  /\ Msg("no_renegotiation") \in Said
  /\ {"Certificate", "ServerKeyExchange", "CertificateRequest", "ServerHelloDone", "HelloRequest",
      "fatal", "close_notify", "no_renegotiation"} \subseteq Plain
BY SaidItems, SaidWords DEF Plain

(* Each step of the server's processor has one of these effects.           *)
LEMMA ServerEndEffects ==
  ASSUME ServerRecords, ServerTypes, ServerShape, DOMAIN wire = {"offer", "granted", "premaster"},
         NEW hellos, hellos = {wire.offer}, NEW verdicts, NEW genuine,
         S!ServerStep(hellos, verdicts, genuine), shs.pc \in ServerNew => ~shs.resuming,
         UNCHANGED <<inrec, toServer, toClient, outrec, outbuf>>
  PROVE  ServerRecords' /\ ServerTypes' /\ ServerEffect
<1> DEFINE Out(item) == Outputs(seng, item, soutrec, soutbuf, soutrec', soutbuf')
<1>1. Frame(seng, shs) /\ sinrec \in KnownRecord
  BY DEF ServerRecords, EndShape
<1>2. ASSUME NEW item \in Said, item.msg \in Plain, ServerTypes', Frame(seng', shs'), ServerGoesOn,
             Reads(sinrec, sinrec'), Out(item), WireSame
      PROVE  ServerRecords' /\ ServerTypes' /\ ServerEffect
  BY <1>2, ServerKeeps, PlainWords DEF ServerEffect, ServerQuiet
<1>3. ASSUME ServerTypes', Frame(seng', shs'), ServerGoesOn, Reads(sinrec, sinrec'),
             UNCHANGED <<soutrec, soutbuf>> \/ S!E!Seal(soutbuf), WireSame
      PROVE  ServerRecords' /\ ServerTypes' /\ ServerEffect
  <2>1. Out(Data(1))
    BY <1>3, ServerOutputForms
  <2> QED BY <1>2, <1>3, <2>1, PlainWords
<1>4. ASSUME NEW item \in Said, item.msg \in Plain, ServerTypes', Frame(seng', shs'), ServerGoesOn,
             UNCHANGED sinrec, WireSame,
             \/ \E type \in {"alert", "handshake"} : S!E!Emit(type, item)
             \/ /\ seng.record_type_out # "change_cipher_spec"
                /\ \/ soutbuf' = Append(soutbuf, item) /\ UNCHANGED soutrec
                   \/ S!E!Seal(Append(soutbuf, item))
      PROVE  ServerRecords' /\ ServerTypes' /\ ServerEffect
  <2>1. Out(item)
    BY <1>4, ServerOutputForms, MadeRecords
  <2> QED BY <1>2, <1>4, <2>1, ServerInputForms
<1>5. ASSUME NEW item \in Said, ServerTypes', Frame(seng', shs'), UNCHANGED sinrec, Out(item)
      PROVE  ServerRecords' /\ ServerTypes' /\ UpKeeps /\ DownGets(item.msg)
  BY <1>5, ServerMoves, ServerInputForms
<1>6. ASSUME ServerTypes', Frame(seng', shs'), S!E!TakeInput, sinrec.body # <<>>,
             UNCHANGED <<soutrec, soutbuf>>
      PROVE  ServerRecords' /\ ServerTypes' /\ DownKeeps /\ UpLoses(Head(sinrec.body).msg)
  <2>1. Out(Data(1)) /\ Reads(sinrec, sinrec')
    BY <1>6, ServerOutputForms, ServerInputForms
  <2>2. ServerRecords' /\ UpKeeps /\ DownKeeps
    BY <1>6, <2>1, ServerKeeps, PlainWords
  <2> QED BY <1>6, <2>2, ServerTakes
<1>7. UNCHANGED <<svr, wire>> => ServerKept /\ svr'.secret = svr.secret /\ WireSame
  BY DEF ServerKept, WireSame
<1> HIDE DEF Out
<1> DEFINE Local == ServerTypes' /\ Frame(seng', shs')
<1> USE DEF ServerTypes, EndTypes, Frame

<1>8. CASE S!E!wait_co /\ ~S!E!AlertReceived /\ UNCHANGED S!unmoved
  <2>1. UNCHANGED <<svr, wire>>
    BY <1>8 DEF S!E!wait_co, S!E!CloseRequested, S!E!Resumed, S!E!Goto, S!unmoved
  <2>2. Local /\ ServerGoesOn
    BY <1>1, <1>7, <1>8, <2>1 DEF S!E!wait_co, S!E!CloseRequested, S!E!Resumed, S!E!Goto,
       ServerGoesOn, ServerSame, ServerPath, ServerRests, ServerOpen, ServerRefusing, ServerNew,
       ServerVerifying, Gone, MayBeOpen, RecordKinds, Types
  <2>3. /\ UNCHANGED sinrec \/ (S!E!TakeInput /\ sinrec.body # <<>>) \/ S!E!DropInput
        /\ UNCHANGED <<soutrec, soutbuf>> \/ S!E!Seal(soutbuf)
    BY <1>8 DEF S!E!wait_co, S!E!CloseRequested, S!E!Resumed, S!E!Goto
  <2> QED BY <1>3, <1>7, <2>1, <2>2, <2>3, ServerInputForms
<1>9. CASE S!E!wait_co /\ S!E!AlertReceived /\ UNCHANGED S!unmoved
  <2>1. UNCHANGED <<svr, wire>>
    BY <1>9 DEF S!E!wait_co, S!E!AlertReceived, S!E!Fail, S!E!GotoAte, S!E!HasInput, S!unmoved
  <2>2. Local /\ ServerGoesOn
    BY <1>1, <1>7, <1>9, <2>1 DEF S!E!wait_co, S!E!AlertReceived, S!E!Fail, S!E!GotoAte,
       S!E!HasInput, ServerGoesOn, ServerSame, ServerPath, ServerRests, ServerOpen,
       ServerRefusing, ServerNew, ServerVerifying, Gone, MayBeOpen, RecordKinds, Types
  <2>3. /\ UNCHANGED sinrec \/ (S!E!TakeInput /\ sinrec.body # <<>>) \/ S!E!DropInput
        /\ UNCHANGED <<soutrec, soutbuf>> \/ S!E!Seal(soutbuf)
    BY <1>9 DEF S!E!wait_co, S!E!AlertReceived, S!E!Fail, S!E!GotoAte, S!E!HasInput
  <2> QED BY <1>3, <1>7, <2>1, <2>2, <2>3, ServerInputForms
<1>10. CASE S!E!wait_for_close /\ UNCHANGED S!unmoved
  <2>1. shs.pc \in {"close_out", "close_wait"} /\ UNCHANGED <<svr, wire>>
    BY <1>10 DEF S!E!wait_for_close, S!E!Closing, S!unmoved
  <2>2. CASE S!E!CloseAlertReceived
    <3> DEFINE heard == seng.shutdown_recv \/ Head(sinrec.body).msg = "close_notify"
               answered == Head(sinrec.body).msg = "close_notify"
    <3>1. \/ \E err : S!E!Fail(err)
          \/ /\ seng' = [seng EXCEPT !.application_data = 0, !.shutdown_recv = heard]
             /\ shs' = [shs EXCEPT !.co = "running", !.ate = TRUE, !.cnr = answered]
             /\ S!E!TakeInput /\ UNCHANGED <<soutbuf, soutrec>>
      BY <2>2 DEF S!E!CloseAlertReceived
    <3> HIDE DEF heard, answered
    <3>2. CASE \E err : S!E!Fail(err)
      <4>1. Local /\ ServerGoesOn
        BY <1>1, <1>7, <2>1, <3>2 DEF S!E!Fail, ServerGoesOn, ServerSame, ServerPath,
           ServerRests, ServerOpen, ServerRefusing, ServerNew, ServerVerifying, Gone, MayBeOpen
      <4> QED BY <1>3, <1>7, <2>1, <3>2, <4>1, ServerInputForms DEF S!E!Fail
    <3>4. ASSUME seng' = [seng EXCEPT !.application_data = 0, !.shutdown_recv = heard],
                 shs' = [shs EXCEPT !.co = "running", !.ate = TRUE, !.cnr = answered],
                 S!E!TakeInput, UNCHANGED <<soutbuf, soutrec>>
          PROVE  Local /\ ServerGoesOn
      <4>1. /\ DOMAIN seng' = DOMAIN seng /\ DOMAIN shs' = DOMAIN shs
            /\ seng'.application_data = 0
            /\ seng'.record_type_out = seng.record_type_out /\ seng'.out_epoch = seng.out_epoch
            /\ shs'.pc = shs.pc /\ shs'.resuming = shs.resuming /\ shs'.can_output = shs.can_output
        BY <1>1, <3>4
      <4> QED BY <1>1, <1>7, <2>1, <3>4, <4>1 DEF ServerGoesOn, ServerSame, ServerPath,
         ServerRests, ServerOpen, ServerRefusing, ServerNew, ServerVerifying, Gone, MayBeOpen
    <3>3. /\ UNCHANGED sinrec \/ (S!E!TakeInput /\ sinrec.body # <<>>)
          /\ UNCHANGED <<soutrec, soutbuf>>
      BY <2>2, <3>1 DEF S!E!Fail, S!E!CloseAlertReceived, S!E!HasInput
    <3> QED BY <1>3, <1>7, <2>1, <3>1, <3>2, <3>3, <3>4, ServerInputForms
  <2>3. CASE ~S!E!CloseAlertReceived
    <3>1. /\ S!E!GotoAte(shs.pc) \/ S!E!Goto(shs.pc)
          /\ S!E!DropInput \/ UNCHANGED sinrec
          /\ UNCHANGED <<seng, soutbuf, soutrec>>
      BY <1>10, <2>3 DEF S!E!wait_for_close
    <3>2. Local /\ ServerGoesOn
      BY <1>1, <1>7, <2>1, <3>1 DEF S!E!Goto, S!E!GotoAte, ServerGoesOn, ServerSame,
         ServerPath, ServerRests, ServerOpen, ServerRefusing, ServerNew, ServerVerifying, Gone,
         MayBeOpen
    <3> QED BY <1>3, <1>7, <2>1, <3>1, <3>2, ServerInputForms
  <2> QED BY <2>2, <2>3
<1>11. CASE S!ServerMain
  <2>1. /\ shs.pc = "main" /\ shs.co = "running" /\ UNCHANGED <<sinrec, soutbuf, soutrec>>
        /\ UNCHANGED <<svr, wire>>
    BY <1>11 DEF S!ServerMain, S!E!Running, S!E!Fail, S!E!Suspend, S!unmoved
  <2>2. \/ UNCHANGED seng /\ (S!E!Goto("read_declined") \/ S!E!Goto("start"))
        \/ S!E!Fail("UNEXPECTED")
        \/ seng' = [seng EXCEPT !.application_data = 0] /\ S!E!Goto("request")
        \/ S!E!Suspend("main")
    BY <1>11 DEF S!ServerMain
  <2>3. CASE seng' = [seng EXCEPT !.application_data = 0] /\ S!E!Goto("request")
    <3>1. Local /\ ServerGoesOn
      BY <1>1, <1>7, <2>1, <2>3 DEF S!E!Goto, ServerGoesOn, ServerSame, ServerPath,
         ServerRests, ServerOpen, ServerRefusing, ServerNew, ServerVerifying, Gone, MayBeOpen
    <3> QED BY <1>3, <1>7, <2>1, <3>1, ServerInputForms
  <2>4. CASE S!E!Fail("UNEXPECTED") \/ (UNCHANGED seng /\ (S!E!Goto("read_declined") \/ S!E!Goto("start")))
    <3>1. Local /\ ServerGoesOn
      BY <1>1, <1>7, <2>1, <2>4 DEF S!E!Fail, S!E!Goto, ServerGoesOn, ServerSame, ServerPath,
         ServerRests, ServerOpen, ServerRefusing, ServerNew, ServerVerifying, Gone, MayBeOpen
    <3> QED BY <1>3, <1>7, <2>1, <3>1, ServerInputForms
  <2>5. CASE S!E!Suspend("main")
    <3>1. Local /\ ServerGoesOn
      BY <1>1, <1>7, <2>1, <2>5 DEF S!E!Suspend, S!E!OutputFree, ServerGoesOn, ServerSame,
         ServerPath, ServerRests, ServerOpen, ServerRefusing, ServerNew, ServerVerifying, Gone,
         MayBeOpen
    <3> QED BY <1>3, <1>7, <2>1, <3>1, ServerInputForms
  <2> QED BY <2>2, <2>3, <2>4, <2>5
<1>12. CASE S!FlushRequest
  <2>1. UNCHANGED <<svr, wire>>
    BY <1>12 DEF S!FlushRequest, S!unmoved
  <2>2. Local /\ ServerGoesOn
    BY <1>1, <1>7, <1>12, <2>1 DEF S!FlushRequest, S!E!Running, S!E!Seal, ServerGoesOn,
       ServerSame, ServerPath, ServerRests, ServerOpen, ServerRefusing, ServerNew,
       ServerVerifying, Gone, MayBeOpen, RecordKinds, Types
  <2>3. /\ UNCHANGED sinrec \/ (S!E!TakeInput /\ sinrec.body # <<>>) \/ S!E!DropInput
        /\ UNCHANGED <<soutrec, soutbuf>> \/ S!E!Seal(soutbuf)
    BY <1>12 DEF S!FlushRequest
  <2> QED BY <1>3, <1>7, <2>1, <2>2, <2>3, ServerInputForms
<1>13. CASE S!WriteHelloRequest
  <2>0. UNCHANGED <<svr, wire>>
    BY <1>13 DEF S!WriteHelloRequest, S!unmoved
  <2>1. CASE ~shs.can_output
    <3>1. S!E!Suspend(shs.pc) /\ shs.pc = "write_HelloRequest"
      BY <1>13, <2>1 DEF S!WriteHelloRequest, S!E!Running
    <3>2. Local /\ ServerGoesOn /\ UNCHANGED <<sinrec, soutrec, soutbuf>>
      BY <1>1, <1>7, <2>0, <3>1 DEF S!E!Suspend, S!E!OutputFree, ServerGoesOn, ServerSame,
         ServerPath, ServerRests, ServerOpen, ServerRefusing, ServerNew, ServerVerifying, Gone,
         MayBeOpen
    <3> QED BY <1>3, <1>7, <2>0, <3>2, ServerInputForms
  <2>2. CASE shs.can_output
    <3>1. /\ shs.pc = "write_HelloRequest" /\ shs.co = "running" /\ S!E!Emit("handshake", Msg("HelloRequest"))
          /\ seng' = [seng EXCEPT !.record_type_out = "application_data"]
          /\ shs' = [shs EXCEPT !.pc = "enter_main", !.can_output = FALSE]
          /\ UNCHANGED sinrec
      BY <1>13, <2>2, EngineWords DEF S!WriteHelloRequest, S!E!Running
    <3>2. Local /\ ServerGoesOn
      BY <1>1, <1>7, <2>0, <3>1 DEF S!E!Emit, RecordKinds, Types, ServerGoesOn, ServerSame,
         ServerPath, ServerRests, ServerOpen, ServerRefusing, ServerNew, ServerVerifying, Gone,
         MayBeOpen
    <3> QED BY <1>4, <1>7, <2>0, <3>1, <3>2, ServerPlainWords
  <2> QED BY <2>1, <2>2
<1>14. CASE S!ServerReadWaits
  <2>1. UNCHANGED <<svr, wire>>
    BY <1>14 DEF S!ServerReadWaits, S!ServerReading, S!ExpectedOf, S!E!Suspend, S!E!OutputFree,
       S!unmoved
  <2>2. Local /\ ServerGoesOn
    BY <1>1, <1>7, <1>14, <2>1 DEF S!ServerReadWaits, S!ServerReading, S!ExpectedOf,
       S!E!Suspend, S!E!OutputFree, ServerGoesOn, ServerSame, ServerPath, ServerRests, ServerOpen,
       ServerRefusing, ServerNew, ServerVerifying, Gone, MayBeOpen, RecordKinds, Types
  <2>3. /\ UNCHANGED sinrec \/ (S!E!TakeInput /\ sinrec.body # <<>>) \/ S!E!DropInput
        /\ UNCHANGED <<soutrec, soutbuf>> \/ S!E!Seal(soutbuf)
    BY <1>14 DEF S!ServerReadWaits, S!ServerReading, S!ExpectedOf, S!E!Suspend, S!E!OutputFree
  <2> QED BY <1>3, <1>7, <2>1, <2>2, <2>3, ServerInputForms
<1>15. CASE S!ServerSkips
  <2>1. UNCHANGED <<svr, wire>>
    BY <1>15 DEF S!ServerSkips, S!ServerReading, S!ExpectedOf, S!E!HasInput, S!ReadOn,
       S!E!GotoAte, S!unmoved
  <2>2. Local /\ ServerGoesOn
    BY <1>1, <1>7, <1>15, <2>1 DEF S!ServerSkips, S!ServerReading, S!ExpectedOf, S!E!HasInput,
       S!ReadOn, S!E!GotoAte, ServerGoesOn, ServerSame, ServerPath, ServerRests, ServerOpen,
       ServerRefusing, ServerNew, ServerVerifying, Gone, MayBeOpen, RecordKinds, Types
  <2>3. /\ UNCHANGED sinrec \/ (S!E!TakeInput /\ sinrec.body # <<>>) \/ S!E!DropInput
        /\ UNCHANGED <<soutrec, soutbuf>> \/ S!E!Seal(soutbuf)
    BY <1>15 DEF S!ServerSkips, S!ServerReading, S!ExpectedOf, S!E!HasInput, S!ReadOn, S!E!GotoAte
  <2> QED BY <1>3, <1>7, <2>1, <2>2, <2>3, ServerInputForms
<1>16. CASE S!ServerReadUnexpected
  <2>1. UNCHANGED <<svr, wire>>
    BY <1>16 DEF S!ServerReadUnexpected, S!E!Fail, S!unmoved
  <2>2. Local /\ ServerGoesOn
    BY <1>1, <1>7, <1>16, <2>1 DEF S!ServerReadUnexpected, S!E!Fail, ServerGoesOn, ServerSame,
       ServerPath, ServerRests, ServerOpen, ServerRefusing, ServerNew, ServerVerifying, Gone,
       MayBeOpen, RecordKinds, Types
  <2>3. /\ UNCHANGED sinrec \/ (S!E!TakeInput /\ sinrec.body # <<>>) \/ S!E!DropInput
        /\ UNCHANGED <<soutrec, soutbuf>> \/ S!E!Seal(soutbuf)
    BY <1>16 DEF S!ServerReadUnexpected, S!E!Fail
  <2> QED BY <1>3, <1>7, <2>1, <2>2, <2>3, ServerInputForms
<1>17. CASE S!SkipClientHello
  <2>1. UNCHANGED <<svr, wire>>
    BY <1>17 DEF S!SkipClientHello, S!ServerReads, S!E!Running, S!E!HasInput, S!ReadOn,
       S!E!GotoAte, S!unmoved
  <2>2. Local /\ ServerGoesOn
    BY <1>1, <1>7, <1>17, <2>1 DEF S!SkipClientHello, S!ServerReads, S!E!Running, S!E!HasInput,
       S!ReadOn, S!E!GotoAte, ServerGoesOn, ServerSame, ServerPath, ServerRests, ServerOpen,
       ServerRefusing, ServerNew, ServerVerifying, Gone, MayBeOpen, RecordKinds, Types
  <2>3. /\ UNCHANGED sinrec \/ (S!E!TakeInput /\ sinrec.body # <<>>) \/ S!E!DropInput
        /\ UNCHANGED <<soutrec, soutbuf>> \/ S!E!Seal(soutbuf)
    BY <1>17 DEF S!SkipClientHello, S!ServerReads, S!E!Running, S!E!HasInput, S!ReadOn, S!E!GotoAte
  <2> QED BY <1>3, <1>7, <2>1, <2>2, <2>3, ServerInputForms
<1>18. CASE S!ServerDecline
  <2>1. UNCHANGED <<svr, wire>>
    BY <1>18 DEF S!ServerDecline, S!E!Decline, S!unmoved
  <2>2. Local /\ ServerGoesOn
    BY <1>1, <1>7, <1>18, <2>1 DEF S!ServerDecline, S!E!Decline, S!E!Running, S!E!Seal,
       ServerGoesOn, ServerSame, ServerPath, ServerRests, ServerOpen, ServerRefusing, ServerNew,
       ServerVerifying, Gone, MayBeOpen, RecordKinds, Types
  <2>3. /\ UNCHANGED sinrec \/ (S!E!TakeInput /\ sinrec.body # <<>>) \/ S!E!DropInput
        /\ UNCHANGED <<soutrec, soutbuf>> \/ S!E!Seal(soutbuf)
    BY <1>18 DEF S!ServerDecline, S!E!Decline
  <2> QED BY <1>3, <1>7, <2>1, <2>2, <2>3, ServerInputForms
<1>19. CASE S!WriteRefusal
  <2>0. UNCHANGED <<svr, wire>>
    BY <1>19 DEF S!WriteRefusal,S!E!WriteNoRenegotiation, S!unmoved
  <2>1. CASE ~shs.can_output
    <3>1. S!E!Suspend(shs.pc) /\ shs.pc = "write_no_renegotiation"
      BY <1>19, <2>1 DEF S!WriteRefusal, S!E!WriteNoRenegotiation, S!E!Running
    <3>2. Local /\ ServerGoesOn /\ UNCHANGED <<sinrec, soutrec, soutbuf>>
      BY <1>1, <1>7, <2>0, <3>1 DEF S!E!Suspend, S!E!OutputFree, ServerGoesOn, ServerSame,
         ServerPath, ServerRests, ServerOpen, ServerRefusing, ServerNew, ServerVerifying, Gone,
         MayBeOpen
    <3> QED BY <1>3, <1>7, <2>0, <3>2, ServerInputForms
  <2>2. CASE shs.can_output
    <3>1. /\ shs.pc = "write_no_renegotiation" /\ shs.co = "running" /\ S!E!Emit("alert", Msg("no_renegotiation"))
          /\ seng' = S!E!OpenChannel
          /\ shs' = [shs EXCEPT !.pc = "enter_main", !.can_output = FALSE]
          /\ UNCHANGED sinrec
      BY <1>19, <2>2, EngineWords DEF S!WriteRefusal, S!E!WriteNoRenegotiation, S!E!Running
    <3>2. Local /\ ServerGoesOn
      BY <1>1, <1>7, <2>0, <3>1 DEF S!E!Emit, RecordKinds, Types, S!E!OpenChannel,
         ServerGoesOn, ServerSame, ServerPath, ServerRests, ServerOpen, ServerRefusing, ServerNew,
         ServerVerifying, Gone, MayBeOpen
    <3> QED BY <1>4, <1>7, <2>0, <3>1, <3>2, ServerPlainWords
  <2> QED BY <2>1, <2>2
<1>20. CASE S!ServerStart
  <2>1. UNCHANGED <<svr, wire>>
    BY <1>20 DEF S!ServerStart, S!E!Running, S!E!Goto, S!unmoved
  <2>2. Local /\ ServerGoesOn
    BY <1>1, <1>7, <1>20, <2>1 DEF S!ServerStart, S!E!Running, S!E!Goto, ServerGoesOn,
       ServerSame, ServerPath, ServerRests, ServerOpen, ServerRefusing, ServerNew,
       ServerVerifying, Gone, MayBeOpen, RecordKinds, Types
  <2>3. /\ UNCHANGED sinrec \/ (S!E!TakeInput /\ sinrec.body # <<>>) \/ S!E!DropInput
        /\ UNCHANGED <<soutrec, soutbuf>> \/ S!E!Seal(soutbuf)
    BY <1>20 DEF S!ServerStart, S!E!Running, S!E!Goto
  <2> QED BY <1>3, <1>7, <2>1, <2>2, <2>3, ServerInputForms
<1>21. CASE \E hello \in hellos : S!ReadClientHello(hello)
  <2> DEFINE hello == wire.offer
             cached == hello.id \in DOMAIN svr.cache
             reneg == S!SecureRenegotiation(hello)
  <2>1. S!ReadClientHello(hello) /\ UNCHANGED wire
    BY <1>21 DEF S!ReadClientHello
  <2>2. /\ shs.pc = "read_ClientHello" /\ shs.co = "running" /\ sinrec.body # <<>>
        /\ Head(sinrec.body).msg = "ClientHello"
    BY <2>1 DEF S!ReadClientHello, S!ServerReads, S!E!Running, S!E!HasInput
  <2>3. \/ UNCHANGED svr /\ \E err : S!E!Fail(err)
        \/ /\ seng' = [seng EXCEPT !.reneg = reneg] /\ S!E!TakeInput /\ UNCHANGED <<soutbuf, soutrec>>
           /\ shs' = [shs EXCEPT !.pc = "write_ServerHello", !.resuming = TRUE, !.ate = TRUE]
           /\ cached /\ svr' = [svr EXCEPT !.id = hello.id, !.secret = svr.cache[hello.id]]
        \/ /\ seng' = [seng EXCEPT !.reneg = reneg] /\ S!E!TakeInput /\ UNCHANGED <<soutbuf, soutrec>>
           /\ shs' = [shs EXCEPT !.pc = "write_ServerHello", !.resuming = FALSE, !.ate = TRUE]
           /\ svr' = [svr EXCEPT !.id = svr.next, !.next = @ + 1,
                                  !.secret = IF cached THEN svr.cache[hello.id] ELSE @]
        \/ /\ seng' = [seng EXCEPT !.reneg = reneg] /\ S!E!TakeInput /\ UNCHANGED <<soutbuf, soutrec>>
           /\ S!E!GotoAte("refuse")
           /\ svr' = [svr EXCEPT !.id = hello.id, !.secret = IF cached THEN svr.cache[hello.id] ELSE @]
    BY <2>1 DEF S!ReadClientHello, S!ReadOn
  <2> HIDE DEF reneg
  <2>4. CASE UNCHANGED svr /\ \E err : S!E!Fail(err)
    <3>1. Local /\ ServerGoesOn
      BY <1>1, <1>7, <2>1, <2>2, <2>4 DEF S!E!Fail, ServerGoesOn, ServerSame, ServerPath,
         ServerRests, ServerOpen, ServerRefusing, ServerNew, ServerVerifying, Gone, MayBeOpen
    <3>2. UNCHANGED <<sinrec, soutrec, soutbuf>>
      BY <2>4 DEF S!E!Fail
    <3> QED BY <1>3, <1>7, <2>1, <2>4, <3>1, <3>2, ServerInputForms
  <2>5. ASSUME seng' = [seng EXCEPT !.reneg = reneg], S!E!TakeInput, UNCHANGED <<soutbuf, soutrec>>,
               \/ shs' = [shs EXCEPT !.pc = "write_ServerHello", !.resuming = TRUE, !.ate = TRUE]
               \/ shs' = [shs EXCEPT !.pc = "write_ServerHello", !.resuming = FALSE, !.ate = TRUE]
               \/ S!E!GotoAte("refuse")
        PROVE  ServerRecords' /\ ServerTypes' /\ DownKeeps /\ UpLoses("ClientHello")
    <3>1. Local
      BY <1>1, <2>2, <2>5 DEF S!E!GotoAte, Gone, MayBeOpen
    <3> QED BY <1>6, <2>2, <2>5, <3>1
  <2>6. ASSUME S!E!TakeInput, seng' = [seng EXCEPT !.reneg = reneg], UNCHANGED <<soutbuf, soutrec>>,
               shs' = [shs EXCEPT !.pc = "write_ServerHello", !.resuming = TRUE, !.ate = TRUE],
               cached, svr' = [svr EXCEPT !.id = hello.id, !.secret = svr.cache[hello.id]]
        PROVE  ServerRecords' /\ ServerTypes' /\ ServerEffect
    <3>1. /\ shs'.pc = "write_ServerHello" /\ shs'.resuming
          /\ svr'.id = hello.id /\ svr'.secret = svr.cache[hello.id] /\ svr'.next = svr.next
          /\ svr'.cache = svr.cache
      BY <1>1, <2>6 DEF ServerShape
    <3> QED BY <2>1, <2>2, <2>5, <2>6, <3>1 DEF ServerEffect, HelloTaken, TakesHelloCached
  <2>7. ASSUME S!E!TakeInput, seng' = [seng EXCEPT !.reneg = reneg], UNCHANGED <<soutbuf, soutrec>>,
               shs' = [shs EXCEPT !.pc = "write_ServerHello", !.resuming = FALSE, !.ate = TRUE],
               svr' = [svr EXCEPT !.id = svr.next, !.next = @ + 1,
                                  !.secret = IF cached THEN svr.cache[hello.id] ELSE @]
        PROVE  ServerRecords' /\ ServerTypes' /\ ServerEffect
    <3>1. /\ shs'.pc = "write_ServerHello" /\ ~shs'.resuming
          /\ svr'.id = svr.next /\ svr'.next = svr.next + 1 /\ svr'.cache = svr.cache
      BY <1>1, <2>7 DEF ServerShape
    <3> QED BY <2>1, <2>2, <2>5, <2>7, <3>1 DEF ServerEffect, HelloTaken, TakesHelloNew
  <2>8. ASSUME S!E!TakeInput, seng' = [seng EXCEPT !.reneg = reneg], UNCHANGED <<soutbuf, soutrec>>,
               S!E!GotoAte("refuse"),
               svr' = [svr EXCEPT !.id = hello.id, !.secret = IF cached THEN svr.cache[hello.id] ELSE @]
        PROVE  ServerRecords' /\ ServerTypes' /\ ServerEffect
    <3>1. /\ shs'.pc = "refuse"
          /\ svr'.id = hello.id /\ svr'.next = svr.next /\ svr'.cache = svr.cache
      BY <1>1, <2>8 DEF ServerShape, S!E!GotoAte
    <3> QED BY <2>1, <2>2, <2>5, <2>8, <3>1 DEF ServerEffect, HelloTaken, TakesHelloRefused
  <2> QED BY <2>3, <2>4, <2>6, <2>7, <2>8
<1>22. CASE S!Refuse
  <2>1. UNCHANGED <<svr, wire>>
    BY <1>22 DEF S!Refuse, S!unmoved
  <2>2. Local /\ ServerGoesOn
    BY <1>1, <1>7, <1>22, <2>1 DEF S!Refuse, S!E!Running, S!E!Seal, ServerGoesOn, ServerSame,
       ServerPath, ServerRests, ServerOpen, ServerRefusing, ServerNew, ServerVerifying, Gone,
       MayBeOpen, RecordKinds, Types
  <2>3. /\ UNCHANGED sinrec \/ (S!E!TakeInput /\ sinrec.body # <<>>) \/ S!E!DropInput
        /\ UNCHANGED <<soutrec, soutbuf>> \/ S!E!Seal(soutbuf)
    BY <1>22 DEF S!Refuse
  <2> QED BY <1>3, <1>7, <2>1, <2>2, <2>3, ServerInputForms
<1>23. CASE S!WriteFatal
  <2>0. UNCHANGED <<svr, wire>>
    BY <1>23 DEF S!WriteFatal, S!unmoved
  <2>1. CASE ~shs.can_output
    <3>1. S!E!Suspend(shs.pc) /\ shs.pc = "write_fatal"
      BY <1>23, <2>1 DEF S!WriteFatal, S!E!Running
    <3>2. Local /\ ServerGoesOn /\ UNCHANGED <<sinrec, soutrec, soutbuf>>
      BY <1>1, <1>7, <2>0, <3>1 DEF S!E!Suspend, S!E!OutputFree, ServerGoesOn, ServerSame,
         ServerPath, ServerRests, ServerOpen, ServerRefusing, ServerNew, ServerVerifying, Gone,
         MayBeOpen
    <3> QED BY <1>3, <1>7, <2>0, <3>2, ServerInputForms
  <2>2. CASE shs.can_output
    <3>1. /\ shs.pc = "write_fatal" /\ shs.co = "running" /\ S!E!Emit("alert", Msg("fatal"))
          /\ seng' = [seng EXCEPT !.record_type_out = "alert"]
          /\ shs' = [shs EXCEPT !.pc = "sent_fatal", !.can_output = FALSE]
          /\ UNCHANGED sinrec
      BY <1>23, <2>2, EngineWords DEF S!WriteFatal, S!E!Running
    <3>2. Local /\ ServerGoesOn
      BY <1>1, <1>7, <2>0, <3>1 DEF S!E!Emit, RecordKinds, Types, ServerGoesOn, ServerSame,
         ServerPath, ServerRests, ServerOpen, ServerRefusing, ServerNew, ServerVerifying, Gone,
         MayBeOpen
    <3> QED BY <1>4, <1>7, <2>0, <3>1, <3>2, ServerPlainWords
  <2> QED BY <2>1, <2>2
<1>24. CASE S!FatalSent
  <2>1. UNCHANGED <<svr, wire>>
    BY <1>24 DEF S!FatalSent, S!E!Running, S!E!Fail, S!E!Suspend, S!E!OutputFree, S!unmoved
  <2>2. Local /\ ServerGoesOn
    BY <1>1, <1>7, <1>24, <2>1 DEF S!FatalSent, S!E!Running, S!E!Fail, S!E!Suspend,
       S!E!OutputFree, ServerGoesOn, ServerSame, ServerPath, ServerRests, ServerOpen,
       ServerRefusing, ServerNew, ServerVerifying, Gone, MayBeOpen, RecordKinds, Types
  <2>3. /\ UNCHANGED sinrec \/ (S!E!TakeInput /\ sinrec.body # <<>>) \/ S!E!DropInput
        /\ UNCHANGED <<soutrec, soutbuf>> \/ S!E!Seal(soutbuf)
    BY <1>24 DEF S!FatalSent, S!E!Running, S!E!Fail, S!E!Suspend, S!E!OutputFree
  <2> QED BY <1>3, <1>7, <2>1, <2>2, <2>3, ServerInputForms
<1>25. CASE S!WriteServerFlight
  <2>0. /\ shs.co = "running" /\ UNCHANGED svr
        /\ shs.pc \in {"write_ServerHello", "write_Certificate", "write_ServerKeyExchange",
                       "write_CertificateRequest", "write_ServerHelloDone"}
    BY <1>25 DEF S!WriteServerFlight, S!ServerFlight
  <2>1. ServerKept /\ svr'.secret = svr.secret
    BY <2>0 DEF ServerKept
  <2>2. wire' = IF shs.pc = "write_ServerHello" THEN [wire EXCEPT !.granted = svr.id] ELSE wire
    BY <1>25 DEF S!WriteServerFlight
  <2>3. /\ wire'.offer = wire.offer /\ wire'.premaster = wire.premaster
        /\ wire'.granted = IF shs.pc = "write_ServerHello" THEN svr.id ELSE wire.granted
    BY <2>2
  <2>4. WireSame
    BY <2>3 DEF WireSame
  <2>5. CASE ~shs.can_output
    <3>1. S!E!Suspend(shs.pc)
      BY <1>25, <2>5 DEF S!WriteServerFlight
    <3>2. Local /\ ServerGoesOn /\ UNCHANGED <<sinrec, soutrec, soutbuf>>
      BY <1>1, <2>0, <2>1, <3>1 DEF S!E!Suspend, S!E!OutputFree, ServerGoesOn, ServerSame,
         ServerPath, ServerRests, ServerOpen, ServerRefusing, ServerNew, ServerVerifying, Gone,
         MayBeOpen
    <3> QED BY <1>3, <2>4, <3>2, ServerInputForms
  <2>6. CASE shs.can_output
    <3> DEFINE item == S!ServerFlight[shs.pc].item
               next == S!ServerFlight[shs.pc].next
    <3>1. /\ \/ soutbuf' = Append(soutbuf, item) /\ UNCHANGED soutrec /\ S!E!Goto(next)
             \/ S!E!Seal(Append(soutbuf, item)) /\ shs' = [shs EXCEPT !.pc = next, !.can_output = FALSE]
          /\ UNCHANGED <<seng, sinrec>>
      BY <1>25, <2>6 DEF S!WriteServerFlight
    <3>2. /\ shs.pc = "write_ServerHello" =>
               /\ item = Hello(IF shs.resuming THEN "ServerHelloResumed" ELSE "ServerHello", seng.reneg = 2)
               /\ next = IF shs.resuming THEN "flush" ELSE "write_Certificate"
          /\ shs.pc # "write_ServerHello" =>
               /\ \E name \in {"Certificate", "ServerKeyExchange", "CertificateRequest", "ServerHelloDone"} :
                    item = Msg(name)
               /\ next \in {"write_ServerKeyExchange", "write_CertificateRequest",
                             "write_ServerHelloDone", "flush_flight"}
      BY <2>0, EngineWords DEF S!ServerFlight, S!AfterHello, S!AfterCertificate
    <3>3. item \in Said /\ next # "write_CCS" /\ next # "done"
      BY <2>0, <3>2, SaidItems
    <3> HIDE DEF item, next
    <3>4. seng.record_type_out # "change_cipher_spec" /\ seng.application_data # 1
      BY <2>0 DEF Gone, MayBeOpen
    <3>5. Local /\ ServerSame /\ ServerRests /\ shs'.pc = next
      BY <1>1, <2>0, <2>1, <3>1, <3>3, <3>4 DEF S!E!Goto, ServerSame, ServerRests
    <3>6. Out(item)
      BY <3>1, <3>4, ServerOutputForms DEF Out
    <3>7. CASE shs.pc = "write_ServerHello"
      <4>1. ServerRecords' /\ ServerTypes' /\ UpKeeps /\ DownGets(item.msg)
        BY <1>5, <3>1, <3>3, <3>5, <3>6
      <4>2. item.msg = IF shs.resuming THEN "ServerHelloResumed" ELSE "ServerHello"
        BY <3>2, <3>7, SaidWords
      <4>3. DownGets(IF shs.resuming THEN "ServerHelloResumed" ELSE "ServerHello")
        BY <4>1, <4>2
      <4> QED BY <2>3, <3>2, <3>5, <3>7, <4>1, <4>3 DEF ServerEffect, SendsAnswer
    <3>8. CASE shs.pc # "write_ServerHello"
      <4>1. item.msg \in Plain
        BY <3>2, <3>8, ServerPlainWords
      <4>2. shs.pc \in ServerNew /\ next \in ServerNew
        BY <2>0, <3>2, <3>8 DEF ServerNew
      <4>3. ServerGoesOn
        BY <3>5, <4>2 DEF ServerGoesOn, ServerPath
      <4> QED BY <1>2, <2>4, <3>1, <3>3, <3>5, <3>6, <4>1, <4>3, ServerInputForms
    <3> QED BY <3>7, <3>8
  <2> QED BY <2>5, <2>6
<1>26. CASE S!EndFlight
  <2>1. UNCHANGED <<svr, wire>>
    BY <1>26 DEF S!EndFlight, S!unmoved
  <2>2. Local /\ ServerGoesOn
    BY <1>1, <1>7, <1>26, <2>1 DEF S!EndFlight, S!E!Running, S!E!Seal, ServerGoesOn,
       ServerSame, ServerPath, ServerRests, ServerOpen, ServerRefusing, ServerNew,
       ServerVerifying, Gone, MayBeOpen, RecordKinds, Types
  <2>3. /\ UNCHANGED sinrec \/ (S!E!TakeInput /\ sinrec.body # <<>>) \/ S!E!DropInput
        /\ UNCHANGED <<soutrec, soutbuf>> \/ S!E!Seal(soutbuf)
    BY <1>26 DEF S!EndFlight
  <2> QED BY <1>3, <1>7, <2>1, <2>2, <2>3, ServerInputForms
<1>27. CASE \E verdict \in verdicts : S!ReadClientCertificate(verdict)
  <2>1. PICK verdict : S!ReadClientCertificate(verdict)
    BY <1>27
  <2>2. /\ shs.pc = "read_Certificate" /\ UNCHANGED wire /\ sinrec.body # <<>>
        /\ svr' = svr \/ svr' = [svr EXCEPT !.cert = verdict]
    BY <2>1 DEF S!ReadClientCertificate, S!ServerReads, S!E!Running, S!E!HasInput
  <2>3. ServerKept /\ svr'.secret = svr.secret /\ WireSame
    BY <2>2 DEF ServerKept, WireSame, ServerShape
  <2>4. \/ S!E!Fail("NO_CLIENT_AUTH")
        \/ S!ReadOn("read_ClientKeyExchange") /\ UNCHANGED seng
    BY <2>1 DEF S!ReadClientCertificate
  <2>5. Local /\ ServerGoesOn
    <3>1. CASE S!E!Fail("NO_CLIENT_AUTH")
      BY <1>1, <2>2, <2>3, <3>1 DEF S!E!Fail, ServerGoesOn, ServerSame, ServerPath,
         ServerRests, ServerOpen, ServerRefusing, ServerNew, ServerVerifying, Gone, MayBeOpen
    <3>2. CASE S!ReadOn("read_ClientKeyExchange") /\ UNCHANGED seng
      <4>1. S!E!GotoAte("read_ClientKeyExchange") /\ UNCHANGED <<seng, soutbuf>>
        BY <3>2 DEF S!ReadOn
      <4> QED BY <1>1, <2>2, <2>3, <4>1 DEF S!E!GotoAte, ServerGoesOn, ServerSame, ServerPath,
         ServerRests, ServerOpen, ServerRefusing, ServerNew, ServerVerifying, Gone, MayBeOpen
    <3> QED BY <2>4, <3>1, <3>2
  <2>6. /\ UNCHANGED sinrec \/ (S!E!TakeInput /\ sinrec.body # <<>>)
        /\ UNCHANGED <<soutrec, soutbuf>>
    BY <2>2, <2>4 DEF S!ReadOn, S!E!Fail
  <2> QED BY <1>3, <2>3, <2>5, <2>6, ServerInputForms
<1>28. CASE S!ReadKeyExchange \/ S!ReadEmptyKeyExchange
  <2>1. /\ shs.pc = "read_ClientKeyExchange" /\ UNCHANGED wire /\ sinrec.body # <<>>
        /\ Head(sinrec.body).msg \in {"ClientKeyExchange", "EmptyKeyExchange"}
    BY <1>28 DEF S!ReadKeyExchange, S!ReadEmptyKeyExchange, S!ServerReads, S!E!Running, S!E!HasInput
  <2>2. \/ UNCHANGED svr /\ S!E!Fail("UNEXPECTED")
        \/ /\ svr' = [svr EXCEPT !.secret = wire.premaster]
           /\ \/ S!E!Fail("WRONG_KEY_USAGE")
              \/ /\ UNCHANGED seng
                 /\ \/ S!ReadOn("read_CertificateVerify") \/ S!ReadOn("skip_CertificateVerify")
                    \/ S!ReadOn("read_CCS")
    BY <1>28 DEF S!ReadKeyExchange, S!ReadEmptyKeyExchange, S!AfterKeyExchange
  <2>3. ASSUME NEW err, S!E!Fail(err)
        PROVE  Local /\ ServerRests /\ shs'.pc = shs.pc /\ shs'.resuming = shs.resuming
                 /\ UNCHANGED <<sinrec, soutrec, soutbuf>>
    BY <1>1, <2>1, <2>3 DEF S!E!Fail, ServerRests
  <2>4. CASE UNCHANGED svr /\ S!E!Fail("UNEXPECTED")
    <3>1. ServerGoesOn
      BY <1>7, <2>1, <2>3, <2>4 DEF ServerGoesOn, ServerSame, ServerPath
    <3> QED BY <1>3, <1>7, <2>1, <2>3, <2>4, <3>1, ServerInputForms
  <2>5. CASE svr' = [svr EXCEPT !.secret = wire.premaster]
    <3>1. ServerKept /\ svr'.secret = wire.premaster
      BY <2>5 DEF ServerKept, ServerShape
    <3>2. CASE S!E!Fail("WRONG_KEY_USAGE")
      <4>1. Out(Data(1)) /\ Reads(sinrec, sinrec')
        BY <2>3, <3>2, ServerOutputForms, ServerInputForms DEF Out
      <4>2. ServerRecords' /\ UpKeeps /\ DownKeeps
        BY <2>3, <3>2, <4>1, ServerKeeps, PlainWords DEF Out
      <4>3. ExchangeUp
        <5>1. sinrec.body \in Seq(Said)
          BY <1>1, KnownBody
        <5>2. 1 \in DOMAIN sinrec.body /\ Head(sinrec.body) = sinrec.body[1]
          BY <2>1, <5>1
        <5> QED BY <2>1, <5>2 DEF ExchangeUp, Up, Along, Holds, Exchange
      <4> QED BY <2>1, <2>3, <3>1, <3>2, <4>2, <4>3 DEF ServerEffect, RejectsExchange
    <3>3. CASE ~S!E!Fail("WRONG_KEY_USAGE") /\ ~(UNCHANGED svr /\ S!E!Fail("UNEXPECTED"))
      <4>1. /\ S!E!TakeInput /\ UNCHANGED <<seng, soutrec, soutbuf>>
            /\ \/ S!E!GotoAte("read_CertificateVerify") \/ S!E!GotoAte("skip_CertificateVerify")
               \/ S!E!GotoAte("read_CCS")
        BY <2>2, <3>3 DEF S!ReadOn
      <4>2. Local /\ shs'.pc \in ServerVerifying /\ shs'.resuming = shs.resuming
        <5>1. PICK pc \in ServerVerifying : S!E!GotoAte(pc)
          BY <4>1 DEF ServerVerifying
        <5>2. shs' = [shs EXCEPT !.pc = pc, !.co = "running", !.ate = TRUE]
          BY <5>1 DEF S!E!GotoAte
        <5>3. shs'.pc = pc /\ DOMAIN shs' = DOMAIN shs /\ shs'.resuming = shs.resuming
          BY <1>1, <5>2
        <5> QED BY <1>1, <2>1, <4>1, <5>3 DEF ServerVerifying, Gone, MayBeOpen
      <4>3. ServerRecords' /\ ServerTypes' /\ DownKeeps /\ UpLoses(Head(sinrec.body).msg)
        BY <1>6, <2>1, <4>1, <4>2
      <4>4. UpKeeps /\ ExchangeUp /\ (OneExchange => ~ExchangeUp')
        BY <2>1, <4>3 DEF UpLoses, Exchange
      <4> QED BY <2>1, <3>1, <4>2, <4>3, <4>4 DEF ServerEffect, TakesExchange
    <3> QED BY <2>4, <3>2, <3>3
  <2> QED BY <2>2, <2>4, <2>5
<1>29. CASE \E ok \in genuine : S!ReadCertificateVerify(ok)
  <2>1. PICK ok : S!ReadCertificateVerify(ok)
    BY <1>29
  <2>2. /\ shs.pc = "read_CertificateVerify" /\ UNCHANGED <<svr, wire>> /\ sinrec.body # <<>>
        /\ S!E!Fail("BAD_SIGNATURE") \/ (S!ReadOn("read_CCS") /\ UNCHANGED seng)
    BY <2>1 DEF S!ReadCertificateVerify, S!ServerReads, S!E!Running, S!E!HasInput, S!unmoved
  <2>5. Local /\ ServerGoesOn
    <3>1. CASE S!E!Fail("BAD_SIGNATURE")
      BY <1>1, <1>7, <2>2, <3>1 DEF S!E!Fail, ServerGoesOn, ServerSame, ServerPath,
         ServerRests, ServerOpen, ServerRefusing, ServerNew, ServerVerifying, Gone, MayBeOpen
    <3>2. CASE S!ReadOn("read_CCS") /\ UNCHANGED seng
      <4>1. S!E!GotoAte("read_CCS") /\ UNCHANGED <<seng, soutbuf>>
        BY <3>2 DEF S!ReadOn
      <4> QED BY <1>1, <1>7, <2>2, <4>1 DEF S!E!GotoAte, ServerGoesOn, ServerSame, ServerPath,
         ServerRests, ServerOpen, ServerRefusing, ServerNew, ServerVerifying, Gone, MayBeOpen
    <3> QED BY <2>2, <3>1, <3>2
  <2>6. /\ UNCHANGED sinrec \/ (S!E!TakeInput /\ sinrec.body # <<>>)
        /\ UNCHANGED <<soutrec, soutbuf>>
    BY <2>2 DEF S!ReadOn, S!E!Fail
  <2> QED BY <1>3, <1>7, <2>2, <2>5, <2>6, ServerInputForms
<1>30. CASE \E ok \in genuine : S!ReadClientFinished(ok)
  <2>1. PICK ok : S!ReadClientFinished(ok)
    BY <1>30
  <2>2. /\ shs.pc = "read_Finished" /\ UNCHANGED <<svr, wire>> /\ sinrec.body # <<>>
        /\ Head(sinrec.body).msg = "Finished"
        /\ \/ S!E!Fail("BAD_FINISHED")
           \/ S!ReadOn(IF shs.resuming THEN "done" ELSE "flush") /\ UNCHANGED seng
    BY <2>1 DEF S!ReadClientFinished, S!ServerReads, S!E!Running, S!E!HasInput, S!unmoved
  <2>3. CASE S!E!Fail("BAD_FINISHED")
    <3>1. Local /\ ServerGoesOn
      BY <1>1, <1>7, <2>2, <2>3 DEF S!E!Fail, ServerGoesOn, ServerSame, ServerPath,
         ServerRests, ServerOpen, ServerRefusing, ServerNew, ServerVerifying, Gone, MayBeOpen
    <3> QED BY <1>3, <1>7, <2>2, <2>3, <3>1, ServerInputForms DEF S!E!Fail
  <2>4. CASE S!ReadOn(IF shs.resuming THEN "done" ELSE "flush") /\ UNCHANGED seng
    <3>1. /\ S!E!TakeInput /\ UNCHANGED <<soutrec, soutbuf>>
          /\ S!E!GotoAte(IF shs.resuming THEN "done" ELSE "flush")
      BY <2>4 DEF S!ReadOn
    <3>2. /\ Local /\ ServerSame /\ ServerRests
          /\ shs'.pc = IF shs.resuming THEN "done" ELSE "flush"
      BY <1>1, <1>7, <2>2, <2>4, <3>1 DEF S!E!GotoAte, ServerSame, ServerRests, Gone, MayBeOpen
    <3>3. ServerRecords' /\ ServerTypes' /\ DownKeeps /\ UpLoses("Finished")
      BY <1>6, <2>2, <3>1, <3>2
    <3> QED BY <2>2, <3>2, <3>3 DEF ServerEffect, ServerTakesFinished
  <2> QED BY <2>2, <2>3, <2>4
<1>31. CASE S!SkipCertificateVerify
  <2>1. UNCHANGED <<svr, wire>>
    BY <1>31 DEF S!SkipCertificateVerify, S!ServerReads, S!E!Running, S!E!HasInput, S!ReadOn,
       S!E!GotoAte, S!unmoved
  <2>2. Local /\ ServerGoesOn
    BY <1>1, <1>7, <1>31, <2>1 DEF S!SkipCertificateVerify, S!ServerReads, S!E!Running,
       S!E!HasInput, S!ReadOn, S!E!GotoAte, ServerGoesOn, ServerSame, ServerPath, ServerRests,
       ServerOpen, ServerRefusing, ServerNew, ServerVerifying, Gone, MayBeOpen, RecordKinds, Types
  <2>3. /\ UNCHANGED sinrec \/ (S!E!TakeInput /\ sinrec.body # <<>>) \/ S!E!DropInput
        /\ UNCHANGED <<soutrec, soutbuf>> \/ S!E!Seal(soutbuf)
    BY <1>31 DEF S!SkipCertificateVerify, S!ServerReads, S!E!Running, S!E!HasInput, S!ReadOn,
       S!E!GotoAte
  <2> QED BY <1>3, <1>7, <2>1, <2>2, <2>3, ServerInputForms
<1>32. CASE S!ServerReadCCS
  <2>0. UNCHANGED <<svr, wire>>
    BY <1>32 DEF S!ServerReadCCS, S!unmoved
  <2>1. CASE S!E!HasInput /\ sinrec.type = "change_cipher_spec"
    <3>1. /\ shs.pc = "read_CCS" /\ seng' = [seng EXCEPT !.in_epoch = @ + 1]
          /\ S!E!GotoAte("read_Finished")
          /\ S!E!TakeInput /\ UNCHANGED <<soutbuf, soutrec>> /\ sinrec.body # <<>>
      BY <1>32, <2>1 DEF S!ServerReadCCS, S!E!ReadCCS, S!E!Running, S!E!HasInput
    <3>2. Local /\ ServerSame /\ shs'.pc = "read_Finished"
      BY <1>1, <1>7, <2>0, <3>1 DEF S!E!GotoAte, ServerSame, Gone, MayBeOpen
    <3>3. Head(sinrec.body).msg = "ccs"
      <4>1. sinrec.body \in Seq(Said) /\ \A i \in DOMAIN sinrec.body : sinrec.body[i].msg = "ccs"
        BY <1>1, <2>1, KnownBody DEF KnownRecord, CipherRecord
      <4>2. 1 \in DOMAIN sinrec.body /\ Head(sinrec.body) = sinrec.body[1]
        BY <3>1, <4>1
      <4> QED BY <4>1, <4>2
    <3>4. ServerRecords' /\ ServerTypes' /\ DownKeeps /\ UpLoses("ccs")
      BY <1>6, <3>1, <3>2, <3>3
    <3> QED BY <2>0, <3>1, <3>2, <3>4 DEF ServerEffect, ServerTakesCipher
  <2>2. CASE ~(S!E!HasInput /\ sinrec.type = "change_cipher_spec")
    <3>1. Local /\ ServerGoesOn
      BY <1>1, <1>7, <1>32, <2>0, <2>2 DEF S!ServerReadCCS, S!E!ReadCCS, S!E!Running, S!E!Fail,
         S!E!Suspend,
         S!E!OutputFree, ServerGoesOn, ServerSame, ServerPath, ServerRests, ServerOpen, ServerRefusing, ServerNew, ServerVerifying, Gone, MayBeOpen
    <3>2. UNCHANGED <<sinrec, soutrec, soutbuf>>
      BY <1>32, <2>2 DEF S!ServerReadCCS, S!E!ReadCCS, S!E!Fail, S!E!Suspend
    <3> QED BY <1>3, <1>7, <2>0, <3>1, <3>2, ServerInputForms
  <2> QED BY <2>1, <2>2
<1>33. CASE S!ServerFlush
  <2>1. UNCHANGED <<svr, wire>>
    BY <1>33 DEF S!ServerFlush, S!E!FlushFlight, S!unmoved
  <2>2. Local /\ ServerGoesOn
    BY <1>1, <1>7, <1>33, <2>1 DEF S!ServerFlush, S!E!FlushFlight, S!E!Running, S!E!Seal,
       S!E!Record, S!E!NoRecord, ServerGoesOn, ServerSame, ServerPath, ServerRests, ServerOpen,
       ServerRefusing, ServerNew, ServerVerifying, Gone, MayBeOpen, RecordKinds, Types
  <2>3. /\ UNCHANGED sinrec \/ (S!E!TakeInput /\ sinrec.body # <<>>) \/ S!E!DropInput
        /\ UNCHANGED <<soutrec, soutbuf>> \/ S!E!Seal(soutbuf)
    BY <1>33 DEF S!ServerFlush, S!E!FlushFlight
  <2> QED BY <1>3, <1>7, <2>1, <2>2, <2>3, ServerInputForms
<1>34. CASE S!ServerWriteCCS
  <2>0. UNCHANGED <<svr, wire>>
    BY <1>34 DEF S!ServerWriteCCS,S!E!WriteCCS, S!unmoved
  <2>1. CASE ~shs.can_output
    <3>1. S!E!Suspend(shs.pc) /\ shs.pc = "write_CCS"
      BY <1>34, <2>1 DEF S!ServerWriteCCS, S!E!WriteCCS, S!E!Running
    <3>2. Local /\ ServerGoesOn /\ UNCHANGED <<sinrec, soutrec, soutbuf>>
      BY <1>1, <1>7, <2>0, <3>1 DEF S!E!Suspend, S!E!OutputFree, ServerGoesOn, ServerSame,
         ServerPath, ServerRests, ServerOpen, ServerRefusing, ServerNew, ServerVerifying, Gone,
         MayBeOpen
    <3> QED BY <1>3, <1>7, <2>0, <3>2, ServerInputForms
  <2>2. CASE shs.can_output
    <3>1. /\ shs.pc = "write_CCS" /\ shs.co = "running" /\ S!E!Emit("change_cipher_spec", Msg("ccs"))
          /\ seng' = [seng EXCEPT !.record_type_out = "change_cipher_spec", !.out_epoch = @ + 1]
          /\ shs' = [shs EXCEPT !.pc = "write_Finished", !.can_output = FALSE]
          /\ UNCHANGED sinrec
      BY <1>34, <2>2, EngineWords DEF S!ServerWriteCCS, S!E!WriteCCS, S!E!Running
    <3>2. Local /\ ServerSame /\ ServerRests /\ shs'.pc = "write_Finished"
      BY <1>1, <1>7, <2>0, <2>2, <3>1 DEF S!E!Emit, ServerSame, ServerRests, Gone, MayBeOpen,
         RecordKinds,
         Types
    <3>3. Out(Msg("ccs"))
      BY <3>1, ServerOutputForms, MadeRecords DEF Out
    <3>4. ServerRecords' /\ ServerTypes' /\ UpKeeps /\ DownGets("ccs")
      BY <1>5, <3>1, <3>2, <3>3, SaidItems, SaidWords
    <3> QED BY <2>0, <3>1, <3>2, <3>4 DEF ServerEffect, ServerSendsCipher
  <2> QED BY <2>1, <2>2
<1>35. CASE S!ServerWriteFinished
  <2>0. UNCHANGED <<svr, wire>>
    BY <1>35 DEF S!ServerWriteFinished, S!unmoved
  <2>1. CASE ~shs.can_output
    <3>1. S!E!Suspend(shs.pc) /\ shs.pc = "write_Finished"
      BY <1>35, <2>1 DEF S!ServerWriteFinished, S!E!Running
    <3>2. Local /\ ServerGoesOn /\ UNCHANGED <<sinrec, soutrec, soutbuf>>
      BY <1>1, <1>7, <2>0, <3>1 DEF S!E!Suspend, S!E!OutputFree, ServerGoesOn, ServerSame,
         ServerPath, ServerRests, ServerOpen, ServerRefusing, ServerNew, ServerVerifying, Gone,
         MayBeOpen
    <3> QED BY <1>3, <1>7, <2>0, <3>2, ServerInputForms
  <2>2. CASE shs.can_output
    <3>1. /\ shs.pc = "write_Finished" /\ shs.co = "running" /\ S!E!Emit("handshake", Msg("Finished"))
          /\ seng' = [seng EXCEPT !.record_type_out = "handshake"]
          /\ shs' = [shs EXCEPT !.pc = IF shs.resuming THEN "read_CCS" ELSE "done", !.can_output = FALSE]
          /\ UNCHANGED sinrec
      BY <1>35, <2>2, EngineWords DEF S!ServerWriteFinished, S!E!Running
    <3>2. Local /\ ServerSame /\ ServerRests /\ shs'.pc = IF shs.resuming THEN "read_CCS" ELSE "done"
      BY <1>1, <1>7, <2>0, <2>2, <3>1 DEF S!E!Emit, ServerSame, ServerRests, Gone, MayBeOpen,
         RecordKinds,
         Types
    <3>3. Out(Msg("Finished"))
      BY <3>1, ServerOutputForms, MadeRecords DEF Out
    <3>4. ServerRecords' /\ ServerTypes' /\ UpKeeps /\ DownGets("Finished")
      BY <1>5, <3>1, <3>2, <3>3, SaidItems, SaidWords
    <3> QED BY <2>0, <3>1, <3>2, <3>4 DEF ServerEffect, ServerSendsFinished
  <2> QED BY <2>1, <2>2
<1>36. CASE S!ServerDone
  <2> DEFINE saved == [i \in DOMAIN svr.cache \cup {svr.id} |->
                        IF i = svr.id THEN svr.secret ELSE svr.cache[i]]
             cache == IF shs.resuming \/ svr.id \in DOMAIN svr.cache THEN svr.cache ELSE saved
  <2>1. /\ shs.pc = "done" /\ shs.co = "running" /\ S!E!Goto("enter_main")
        /\ seng' = [seng EXCEPT !.application_data = 1, !.record_type_out = "application_data"]
        /\ UNCHANGED <<sinrec, soutbuf, soutrec, wire>>
        /\ svr' = [svr EXCEPT !.cert = "none", !.cache = cache]
    BY <1>36 DEF S!ServerDone, S!E!HandshakeDone, S!E!Running, S!E!OpenChannel
  <2> HIDE DEF cache
  <2>2. Local /\ shs'.pc = "enter_main" /\ shs'.resuming = shs.resuming
    BY <1>1, <2>1 DEF S!E!Goto, MayBeOpen, Gone, RecordKinds, Types
  <2>3. /\ svr'.id = svr.id /\ svr'.secret = svr.secret /\ svr'.next = svr.next /\ svr'.cache = cache
    BY <2>1 DEF ServerShape
  <2>4. cache = svr.cache \/ (~shs.resuming /\ cache = saved)
    BY DEF cache
  <2>5. Out(Data(1)) /\ Reads(sinrec, sinrec')
    BY <2>1, ServerOutputForms, ServerInputForms DEF Out
  <2>6. ServerRecords' /\ UpKeeps /\ DownKeeps
    BY <2>2, <2>5, ServerKeeps, PlainWords DEF Out
  <2> QED BY <2>1, <2>2, <2>3, <2>4, <2>6 DEF ServerEffect, ServerEnds
<1>37. CASE S!ServerEnterMain
  <2>1. UNCHANGED <<svr, wire>>
    BY <1>37 DEF S!ServerEnterMain, S!E!EnterMain, S!E!Running, S!E!Suspend, S!E!OutputFree,
       S!unmoved
  <2>2. Local /\ ServerGoesOn
    BY <1>1, <1>7, <1>37, <2>1 DEF S!ServerEnterMain, S!E!EnterMain, S!E!Running, S!E!Suspend,
       S!E!OutputFree, ServerGoesOn, ServerSame, ServerPath, ServerRests, ServerOpen,
       ServerRefusing, ServerNew, ServerVerifying, Gone, MayBeOpen, RecordKinds, Types
  <2>3. /\ UNCHANGED sinrec \/ (S!E!TakeInput /\ sinrec.body # <<>>) \/ S!E!DropInput
        /\ UNCHANGED <<soutrec, soutbuf>> \/ S!E!Seal(soutbuf)
    BY <1>37 DEF S!ServerEnterMain, S!E!EnterMain, S!E!Running, S!E!Suspend, S!E!OutputFree
  <2> QED BY <1>3, <1>7, <2>1, <2>2, <2>3, ServerInputForms
<1>38. CASE S!E!StartClose /\ UNCHANGED S!unmoved
  <2>0. UNCHANGED <<svr, wire>>
    BY <1>38 DEF S!unmoved
  <2>1. 2 * seng.application_data \in Nat /\ 2 * seng.application_data # 1
    BY <1>1
  <2>2. Local /\ ServerGoesOn
    BY <1>1, <1>7, <1>38, <2>0, <2>1 DEF S!E!StartClose, S!E!Running, S!E!Seal, ServerGoesOn,
       ServerSame, ServerPath, ServerRests, ServerOpen, ServerRefusing, ServerNew,
       ServerVerifying, Gone, MayBeOpen
  <2>3. UNCHANGED sinrec /\ S!E!Seal(soutbuf)
    BY <1>38 DEF S!E!StartClose
  <2> QED BY <1>3, <1>7, <2>0, <2>2, <2>3, ServerInputForms
<1>39. CASE S!E!WriteCloseNotify /\ UNCHANGED S!unmoved
  <2>0. UNCHANGED <<svr, wire>>
    BY <1>39 DEF S!E!WriteCloseNotify, S!unmoved
  <2>1. CASE ~shs.can_output
    <3>1. S!E!Suspend(shs.pc) /\ shs.pc = "close_out"
      BY <1>39, <2>1 DEF S!E!WriteCloseNotify, S!E!Running
    <3>2. Local /\ ServerGoesOn /\ UNCHANGED <<sinrec, soutrec, soutbuf>>
      BY <1>1, <1>7, <2>0, <3>1 DEF S!E!Suspend, S!E!OutputFree, ServerGoesOn, ServerSame,
         ServerPath, ServerRests, ServerOpen, ServerRefusing, ServerNew, ServerVerifying, Gone,
         MayBeOpen
    <3> QED BY <1>3, <1>7, <2>0, <3>2, ServerInputForms
  <2>2. CASE shs.can_output
    <3>1. /\ shs.pc = "close_out" /\ shs.co = "running" /\ S!E!Emit("alert", Msg("close_notify"))
          /\ seng' = [seng EXCEPT !.record_type_out = "alert"]
          /\ shs' = [shs EXCEPT !.pc = "close_wait", !.can_output = FALSE]
          /\ UNCHANGED sinrec
      BY <1>39, <2>2, EngineWords DEF S!E!WriteCloseNotify, S!E!Running
    <3>2. Local /\ ServerGoesOn
      BY <1>1, <1>7, <2>0, <3>1 DEF S!E!Emit, RecordKinds, Types, ServerGoesOn, ServerSame,
         ServerPath, ServerRests, ServerOpen, ServerRefusing, ServerNew, ServerVerifying, Gone,
         MayBeOpen
    <3> QED BY <1>4, <1>7, <2>0, <3>1, <3>2, ServerPlainWords
  <2> QED BY <2>1, <2>2
<1>40. CASE S!E!AwaitCloseNotify /\ UNCHANGED S!unmoved
  <2>1. UNCHANGED <<svr, wire>>
    BY <1>40 DEF S!E!AwaitCloseNotify, S!E!Running, S!E!Fail, S!E!Suspend, S!E!OutputFree, S!unmoved
  <2>2. Local /\ ServerGoesOn
    BY <1>1, <1>7, <1>40, <2>1 DEF S!E!AwaitCloseNotify, S!E!Running, S!E!Fail, S!E!Suspend,
       S!E!OutputFree, ServerGoesOn, ServerSame, ServerPath, ServerRests, ServerOpen,
       ServerRefusing, ServerNew, ServerVerifying, Gone, MayBeOpen, RecordKinds, Types
  <2>3. /\ UNCHANGED sinrec \/ (S!E!TakeInput /\ sinrec.body # <<>>) \/ S!E!DropInput
        /\ UNCHANGED <<soutrec, soutbuf>> \/ S!E!Seal(soutbuf)
    BY <1>40 DEF S!E!AwaitCloseNotify, S!E!Running, S!E!Fail, S!E!Suspend, S!E!OutputFree
  <2> QED BY <1>3, <1>7, <2>1, <2>2, <2>3, ServerInputForms
<1> QED BY <1>8, <1>9, <1>10, <1>11, <1>12, <1>13, <1>14, <1>15, <1>16, <1>17, <1>18, <1>19,
   <1>20, <1>21, <1>22, <1>23, <1>24, <1>25, <1>26, <1>27, <1>28, <1>29, <1>30, <1>31, <1>32,
   <1>33, <1>34, <1>35, <1>36, <1>37, <1>38, <1>39, <1>40 DEF S!ServerStep

-----------------------------------------------------------------------------
(* The two ends together: where one is, in view of the other and of what   *)
(* is under way.                                                           *)
ClientFinishing == {"write_CertificateVerify", "flush", "write_CCS", "write_Finished"}
ClientPlaces ==
  ClientOpen \cup ClientFlight \cup ClientFinishing \cup Gone
    \cup {"read_ServerHello", "read_CCS", "read_Finished"}

ServerAway == ServerOpen \cup Gone
ServerTaken == {"read_Finished", "flush", "write_CCS"}
ServerLast == {"write_Finished", "done"}
ServerFirst == {"flush", "write_CCS", "write_Finished"}
ServerWaiting == {"read_CCS", "read_Finished", "done"}
New(pcs) == ~shs.resuming /\ shs.pc \in pcs
Res(pcs) == shs.resuming /\ shs.pc \in pcs

OnceEach ==
  /\ OneHello /\ OneExchange /\ OneCipherUp /\ OneFinishedUp
  /\ OneAnswer /\ OneCipherDown /\ OneFinishedDown

InPair ==
  /\ hs.pc \in ClientPlaces
  /\ hs.pc \in ClientFlight \cup {"write_CertificateVerify"} => ~hs.resuming
  /\ shs.pc \in ServerNew \cup {"read_CertificateVerify", "skip_CertificateVerify"} => ~shs.resuming
  /\ hs.pc \in ClientOpen => shs.pc \in ServerAway \/ Res(ServerWaiting)
  /\ hs.pc = "read_ServerHello" =>
       \/ shs.pc \in ServerAway \cup ServerRefusing \cup {"write_ServerHello"}
       \/ New(ServerNew) \/ Res(ServerFirst \cup ServerWaiting)
  /\ hs.pc \in ClientFlight => New(ServerNew) \/ shs.pc \in Gone
  /\ hs.pc \in ClientFinishing /\ ~hs.resuming =>
       \/ New(ServerNew \cup ServerVerifying)
       \/ hs.pc = "write_Finished" /\ New({"read_Finished"})
       \/ shs.pc \in Gone
  /\ hs.pc = "read_CCS" /\ ~hs.resuming =>
       New(ServerNew \cup ServerVerifying \cup ServerTaken \cup ServerLast) \/ shs.pc \in ServerAway
  /\ hs.pc = "read_Finished" /\ ~hs.resuming => New(ServerLast) \/ shs.pc \in ServerAway
  /\ hs.pc = "read_CCS" /\ hs.resuming => Res(ServerFirst \cup {"read_CCS"}) \/ shs.pc \in Gone
  /\ hs.pc = "read_Finished" /\ hs.resuming =>
       Res({"write_Finished", "read_CCS"}) \/ shs.pc \in Gone
  /\ hs.pc \in {"flush", "write_CCS"} /\ hs.resuming => Res({"read_CCS"}) \/ shs.pc \in Gone
  /\ hs.pc = "write_Finished" /\ hs.resuming =>
       Res({"read_CCS", "read_Finished"}) \/ shs.pc \in Gone

(* What is on its way up, and down.                                        *)
OnUp ==
  /\ HelloUp => /\ hs.pc \in {"read_ServerHello"} \cup Gone
                /\ shs.pc \in ServerAway \/ Res(ServerWaiting)
  /\ ExchangeUp => /\ hs.pc \in ClientFinishing \cup {"read_CCS"} \cup Gone
                   /\ hs.pc \notin Gone => ~hs.resuming
                   /\ New(ServerNew) \/ shs.pc \in Gone
  /\ CipherUp =>
       /\ hs.pc \in {"write_Finished", "read_CCS", "read_ServerHello"} \cup ClientOpen \cup Gone
       /\ hs.pc = "read_CCS" => ~hs.resuming
       /\ New(ServerNew \cup ServerVerifying) \/ Res({"read_CCS"}) \/ shs.pc \in Gone
  /\ FinishedUp =>
       /\ hs.pc \in {"read_CCS", "read_ServerHello"} \cup ClientOpen \cup Gone
       /\ hs.pc = "read_CCS" => ~hs.resuming
       /\ \/ New(ServerNew \cup ServerVerifying \cup {"read_Finished"})
          \/ Res({"read_CCS", "read_Finished"}) \/ shs.pc \in Gone
OnDown ==
  /\ NewDown \/ ResumedDown => hs.pc \in {"read_ServerHello"} \cup Gone
  /\ NewDown => New(ServerNew) \/ shs.pc \in Gone
  /\ ResumedDown => Res(ServerFirst \cup {"read_CCS"}) \/ shs.pc \in Gone
  /\ CipherDown =>
       /\ hs.pc \in {"read_ServerHello", "read_CCS"} \cup Gone
       /\ New(ServerLast) \/ shs.pc \in ServerAway \/ Res({"write_Finished", "read_CCS"})
  /\ FinishedDown =>
       /\ hs.pc \in {"read_ServerHello", "read_CCS", "read_Finished"} \cup Gone
       /\ New({"done"}) \/ shs.pc \in ServerAway \/ Res({"read_CCS"})

(* A Finished arrives after the server has finished: its processor does    *)
(* not wait in between.                                                    *)
Arrivals ==
  /\ FinishedArrives => FinishedDown /\ ~New({"done"})
  /\ shs.pc = "done" /\ ~seng.closed => shs.co = "running"

(* One end speaks, and then the other one.                                 *)
Turns ==
  /\ NewDown \/ ResumedDown \/ CipherDown \/ FinishedDown =>
       ~HelloUp /\ ~ExchangeUp /\ ~CipherUp /\ ~FinishedUp
  /\ NewDown => ~CipherDown /\ ~FinishedDown

(* What they have agreed on, and what they know of earlier sessions.       *)
Agreed == cli.id = svr.id /\ cli.secret = svr.secret
Agree ==
  /\ HelloUp => wire.offer.id = cli.id
  /\ ExchangeUp => cli.secret = wire.premaster /\ cli.id = svr.id
  /\ hs.pc \in ClientFlight => cli.id = svr.id
  /\ NewDown \/ ResumedDown => wire.granted = svr.id
  /\ New(ServerVerifying \cup ServerTaken \cup ServerLast) => Agreed
  /\ Res({"write_ServerHello"} \cup ServerFirst \cup ServerWaiting) => Agreed
  /\ Res({"write_ServerHello"}) \/ ResumedDown => svr.id # 0 /\ Agreed
  /\ CipherDown \/ hs.pc = "read_Finished" => Agreed
  /\ cli.id # 0 => eng.session
Known ==
  /\ svr.next \in Nat /\ svr.id \in Nat /\ cli.id \in Nat /\ cli.saved.id \in Nat
  /\ svr.next # 0 /\ svr.id < svr.next /\ cli.id < svr.next /\ cli.saved.id < svr.next
  /\ \A i \in DOMAIN svr.cache : i \in Nat /\ i # 0 /\ i < svr.next
  /\ cli.id \in DOMAIN svr.cache => cli.secret = svr.cache[cli.id]
  /\ cli.saved.id \in DOMAIN svr.cache => cli.saved.secret = svr.cache[cli.saved.id]
  /\ hs.pc \in ClientFlight => cli.id \notin DOMAIN svr.cache
  /\ New({"write_ServerHello"}) \/ NewDown => svr.id \notin DOMAIN svr.cache
  /\ New({"write_ServerHello"} \cup ServerNew \cup ServerVerifying \cup ServerTaken \cup ServerLast) =>
       cli.saved.id # svr.id /\ svr.id # 0 /\ eng.application_data # 1
  /\ HelloUp \/ hs.pc = "write_ClientHello" => eng.application_data # 1

PairFlow == OnceEach /\ InPair /\ OnUp /\ OnDown /\ Arrivals /\ Turns /\ Agree /\ Known

(* Nothing is added to what comes down, but what leaves the server may be  *)
(* a Finished.                                                             *)
DownRests ==
  /\ NewDown' => NewDown
  /\ ResumedDown' => ResumedDown
  /\ CipherDown' => CipherDown
  /\ FinishedDown' => FinishedDown
  /\ FinishedArrives' => FinishedDown' /\ (FinishedArrives \/ shs'.pc # "done")
  /\ OneAnswer => OneAnswer'
  /\ OneCipherDown => OneCipherDown'
  /\ OneFinishedDown => OneFinishedDown'

(* A Finished that has left the server comes down.                         *)
LEMMA ArrivesDown == FinishedArrives => FinishedDown
BY DEF FinishedArrives, FinishedDown, Down, Along, Holds

LEMMA ArrivesDownNext == FinishedArrives' => FinishedDown'
BY DEF FinishedArrives, FinishedDown, Down, Along, Holds

-----------------------------------------------------------------------------
USE DEF ClientOpen, ClientFlight, ClientFinishing, ClientPlaces, Gone, ServerOpen, ServerAway,
  ServerRefusing, ServerNew, ServerVerifying, ServerTaken, ServerLast, ServerFirst, ServerWaiting

(* The steps of the client keep it.                                        *)

(* It goes on within a phase, or leaves it.                                *)
LEMMA ClientQuietKeeps ==
  ASSUME PairFlow, ClientQuiet,
         UNCHANGED <<seng, shs, svr, cli, wire>>
  PROVE  PairFlow'
<1> USE DEF PairFlow, New, Res, ClientQuiet, ClientGoesOn, ClientSame, ClientPath,
     ClientOpens, UpKeeps, DownKeeps
<1>1. OnceEach'
  BY ArrivesDownNext DEF OnceEach, InPair, OnUp, OnDown
<1>2. InPair'
  BY ArrivesDownNext DEF InPair, OnUp, OnDown, OnceEach, Arrivals, Turns
<1>3. OnUp'
  BY ArrivesDownNext DEF InPair, OnUp, OnDown, OnceEach, Arrivals, Turns
<1>4. OnDown'
  BY ArrivesDownNext DEF InPair, OnUp, OnDown, OnceEach, Arrivals, Turns
<1>5. Arrivals'
  BY ArrivesDownNext DEF Arrivals, InPair, OnDown
<1>6. Turns'
  BY ArrivesDownNext DEF Turns, InPair, OnUp, OnDown
<1>7. Agree'
  BY ArrivesDownNext DEF Agree, Agreed, Known, InPair, OnUp, OnDown, Turns, OnceEach
<1>8. Known'
  BY ArrivesDownNext DEF Known, Agree, Agreed, InPair, OnUp, OnDown, OnceEach, Arrivals, Turns
<1> QED BY <1>1, <1>2, <1>3, <1>4, <1>5, <1>6, <1>7, <1>8

(* It offers a session: no answer of an earlier hello is under way.        *)
LEMMA SendsHelloKeeps ==
  ASSUME PairFlow, SendsHello,
         UNCHANGED <<seng, shs, svr, cli>>, wire'.offer.id = cli.id,
         wire'.premaster = wire.premaster, wire'.granted = wire.granted
  PROVE  PairFlow'
<1> USE DEF PairFlow, New, Res, SendsHello, ClientSame, ClientData, UpGets, DownKeeps, Hi,
     Exchange, Cipher, Finish
<1>1. OnceEach'
  BY ArrivesDownNext DEF OnceEach, InPair, OnUp, OnDown
<1>2. InPair'
  BY ArrivesDownNext DEF InPair, OnUp, OnDown, OnceEach, Arrivals, Turns
<1>3. OnUp'
  BY ArrivesDownNext DEF InPair, OnUp, OnDown, OnceEach, Arrivals, Turns
<1>4. OnDown'
  BY ArrivesDownNext DEF InPair, OnUp, OnDown, OnceEach, Arrivals, Turns
<1>5. Arrivals'
  BY ArrivesDownNext DEF Arrivals, InPair, OnDown
<1>6. Turns'
  BY ArrivesDownNext DEF Turns, InPair, OnUp, OnDown
<1>7. Agree'
  BY ArrivesDownNext DEF Agree, Agreed, Known, InPair, OnUp, OnDown, Turns, OnceEach
<1>8. Known'
  BY ArrivesDownNext DEF Known, Agree, Agreed, InPair, OnUp, OnDown, OnceEach, Arrivals, Turns
<1> QED BY <1>1, <1>2, <1>3, <1>4, <1>5, <1>6, <1>7, <1>8

(* It learns of a new session.                                             *)
LEMMA TakesNewKeeps ==
  ASSUME PairFlow, TakesNew,
         UNCHANGED <<seng, shs, svr, wire>>,
         cli'.id = wire.granted, cli'.secret = cli.secret, cli'.saved = cli.saved
  PROVE  PairFlow'
<1> USE DEF PairFlow, New, Res, TakesNew, ClientData, UpKeeps, DownLoses, DownKeeps, Answer
<1>1. OnceEach'
  BY ArrivesDownNext DEF OnceEach, InPair, OnUp, OnDown, Agree, Agreed
<1>2. InPair'
  BY ArrivesDownNext DEF InPair, OnUp, OnDown, OnceEach, Arrivals, Turns, Agree, Agreed
<1>3. OnUp'
  BY ArrivesDownNext DEF InPair, OnUp, OnDown, OnceEach, Arrivals, Turns, Agree, Agreed
<1>4. OnDown'
  BY ArrivesDownNext DEF InPair, OnUp, OnDown, OnceEach, Arrivals, Turns, Agree, Agreed
<1>5. Arrivals'
  BY ArrivesDownNext DEF Arrivals, InPair, OnDown, Agree, Agreed
<1>6. Turns'
  BY ArrivesDownNext DEF Turns, InPair, OnUp, OnDown, Agree, Agreed
<1>7. Agree'
  BY ArrivesDownNext DEF Agree, Agreed, Known, InPair, OnUp, OnDown, Turns, OnceEach
<1>8. Known'
  BY ArrivesDownNext DEF Known, Agree, Agreed, InPair, OnUp, OnDown, OnceEach, Arrivals, Turns
<1> QED BY <1>1, <1>2, <1>3, <1>4, <1>5, <1>6, <1>7, <1>8

(* It learns that the session is resumed: it has the secret already.       *)
LEMMA TakesResumedKeeps ==
  ASSUME PairFlow, TakesResumed,
         UNCHANGED <<seng, shs, svr, wire>>,
         cli'.id = wire.granted, cli'.secret = cli.secret, cli'.saved = cli.saved
  PROVE  PairFlow'
<1> USE DEF PairFlow, New, Res, TakesResumed, ClientData, UpKeeps, DownLoses, DownKeeps,
     Answer
<1>1. OnceEach'
  BY ArrivesDownNext DEF OnceEach, InPair, OnUp, OnDown
<1>2. InPair'
  BY ArrivesDownNext DEF InPair, OnUp, OnDown, OnceEach, Arrivals, Turns
<1>3. OnUp'
  BY ArrivesDownNext DEF InPair, OnUp, OnDown, OnceEach, Arrivals, Turns
<1>4. OnDown'
  BY ArrivesDownNext DEF InPair, OnUp, OnDown, OnceEach, Arrivals, Turns
<1>5. Arrivals'
  BY ArrivesDownNext DEF Arrivals, InPair, OnDown
<1>6. Turns'
  BY ArrivesDownNext DEF Turns, InPair, OnUp, OnDown
<1>7. Agree'
  BY ArrivesDownNext DEF Agree, Agreed, Known, InPair, OnUp, OnDown, Turns, OnceEach
<1>8. Known'
  BY ArrivesDownNext DEF Known, Agree, Agreed, InPair, OnUp, OnDown, OnceEach, Arrivals, Turns
<1> QED BY <1>1, <1>2, <1>3, <1>4, <1>5, <1>6, <1>7, <1>8

(* It chooses the secret of the new session, and sends it.                 *)
LEMMA SendsExchangeKeeps ==
  ASSUME PairFlow, SendsExchange,
         UNCHANGED <<seng, shs, svr>>,
         cli'.id = cli.id, cli'.saved = cli.saved, cli'.secret = wire'.premaster,
         wire'.offer = wire.offer, wire'.granted = wire.granted
  PROVE  PairFlow'
<1> USE DEF PairFlow, New, Res, SendsExchange, ClientSame, ClientData, UpGets, DownKeeps, Hi,
     Exchange, Cipher, Finish
<1>1. OnceEach'
  BY ArrivesDownNext DEF OnceEach, InPair, OnUp, OnDown
<1>2. InPair'
  BY ArrivesDownNext DEF InPair, OnUp, OnDown, OnceEach, Arrivals, Turns
<1>3. OnUp'
  BY ArrivesDownNext DEF InPair, OnUp, OnDown, OnceEach, Arrivals, Turns
<1>4. OnDown'
  BY ArrivesDownNext DEF InPair, OnUp, OnDown, OnceEach, Arrivals, Turns
<1>5. Arrivals'
  BY ArrivesDownNext DEF Arrivals, InPair, OnDown
<1>6. Turns'
  BY ArrivesDownNext DEF Turns, InPair, OnUp, OnDown
<1>7. Agree'
  BY ArrivesDownNext DEF Agree, Agreed, Known, InPair, OnUp, OnDown, Turns, OnceEach
<1>8. Known'
  BY ArrivesDownNext DEF Known, Agree, Agreed, InPair, OnUp, OnDown, OnceEach, Arrivals, Turns
<1> QED BY <1>1, <1>2, <1>3, <1>4, <1>5, <1>6, <1>7, <1>8

(* It changes its keys.                                                    *)
LEMMA SendsCipherKeeps ==
  ASSUME PairFlow, SendsCipher,
         UNCHANGED <<seng, shs, svr, cli, wire>>
  PROVE  PairFlow'
<1> USE DEF PairFlow, New, Res, SendsCipher, ClientSame, ClientData, UpGets, DownKeeps, Hi,
     Exchange, Cipher, Finish
<1>1. OnceEach'
  BY ArrivesDownNext DEF OnceEach, InPair, OnUp, OnDown
<1>2. InPair'
  BY ArrivesDownNext DEF InPair, OnUp, OnDown, OnceEach, Arrivals, Turns
<1>3. OnUp'
  BY ArrivesDownNext DEF InPair, OnUp, OnDown, OnceEach, Arrivals, Turns
<1>4. OnDown'
  BY ArrivesDownNext DEF InPair, OnUp, OnDown, OnceEach, Arrivals, Turns
<1>5. Arrivals'
  BY ArrivesDownNext DEF Arrivals, InPair, OnDown
<1>6. Turns'
  BY ArrivesDownNext DEF Turns, InPair, OnUp, OnDown
<1>7. Agree'
  BY ArrivesDownNext DEF Agree, Agreed, Known, InPair, OnUp, OnDown, Turns, OnceEach
<1>8. Known'
  BY ArrivesDownNext DEF Known, Agree, Agreed, InPair, OnUp, OnDown, OnceEach, Arrivals, Turns
<1> QED BY <1>1, <1>2, <1>3, <1>4, <1>5, <1>6, <1>7, <1>8

(* It sends its Finished.                                                  *)
LEMMA SendsFinishedKeeps ==
  ASSUME PairFlow, SendsFinished,
         UNCHANGED <<seng, shs, svr, cli, wire>>
  PROVE  PairFlow'
<1> USE DEF PairFlow, New, Res, SendsFinished, ClientSame, ClientData, UpGets, DownKeeps, Hi,
     Exchange, Cipher, Finish
<1>1. OnceEach'
  BY ArrivesDownNext DEF OnceEach, InPair, OnUp, OnDown
<1>2. InPair'
  BY ArrivesDownNext DEF InPair, OnUp, OnDown, OnceEach, Arrivals, Turns
<1>3. OnUp'
  BY ArrivesDownNext DEF InPair, OnUp, OnDown, OnceEach, Arrivals, Turns
<1>4. OnDown'
  BY ArrivesDownNext DEF InPair, OnUp, OnDown, OnceEach, Arrivals, Turns
<1>5. Arrivals'
  BY ArrivesDownNext DEF Arrivals, InPair, OnDown
<1>6. Turns'
  BY ArrivesDownNext DEF Turns, InPair, OnUp, OnDown
<1>7. Agree'
  BY ArrivesDownNext DEF Agree, Agreed, Known, InPair, OnUp, OnDown, Turns, OnceEach
<1>8. Known'
  BY ArrivesDownNext DEF Known, Agree, Agreed, InPair, OnUp, OnDown, OnceEach, Arrivals, Turns
<1> QED BY <1>1, <1>2, <1>3, <1>4, <1>5, <1>6, <1>7, <1>8

(* It takes the change of keys of the server.                              *)
LEMMA TakesCipherKeeps ==
  ASSUME PairFlow, TakesCipher,
         UNCHANGED <<seng, shs, svr, cli, wire>>
  PROVE  PairFlow'
<1> USE DEF PairFlow, New, Res, TakesCipher, ClientSame, ClientData, UpKeeps, DownLoses,
     DownKeeps, Answer, Cipher, Finish
<1>1. OnceEach'
  BY ArrivesDownNext DEF OnceEach, InPair, OnUp, OnDown
<1>2. InPair'
  BY ArrivesDownNext DEF InPair, OnUp, OnDown, OnceEach, Arrivals, Turns
<1>3. OnUp'
  BY ArrivesDownNext DEF InPair, OnUp, OnDown, OnceEach, Arrivals, Turns
<1>4. OnDown'
  BY ArrivesDownNext DEF InPair, OnUp, OnDown, OnceEach, Arrivals, Turns
<1>5. Arrivals'
  BY ArrivesDownNext DEF Arrivals, InPair, OnDown
<1>6. Turns'
  BY ArrivesDownNext DEF Turns, InPair, OnUp, OnDown
<1>7. Agree'
  BY ArrivesDownNext DEF Agree, Agreed, Known, InPair, OnUp, OnDown, Turns, OnceEach
<1>8. Known'
  BY ArrivesDownNext DEF Known, Agree, Agreed, InPair, OnUp, OnDown, OnceEach, Arrivals, Turns
<1> QED BY <1>1, <1>2, <1>3, <1>4, <1>5, <1>6, <1>7, <1>8

(* It takes the Finished of the server.                                    *)
LEMMA TakesFinishedKeeps ==
  ASSUME PairFlow, TakesFinished,
         UNCHANGED <<seng, shs, svr, cli, wire>>
  PROVE  PairFlow'
<1> USE DEF PairFlow, New, Res, TakesFinished, ClientSame, ClientData, UpKeeps, DownLoses,
     DownKeeps, Answer, Cipher, Finish
<1>1. OnceEach'
  BY ArrivesDownNext DEF OnceEach, InPair, OnUp, OnDown
<1>2. InPair'
  BY ArrivesDownNext DEF InPair, OnUp, OnDown, OnceEach, Arrivals, Turns
<1>3. OnUp'
  BY ArrivesDownNext DEF InPair, OnUp, OnDown, OnceEach, Arrivals, Turns
<1>4. OnDown'
  BY ArrivesDownNext DEF InPair, OnUp, OnDown, OnceEach, Arrivals, Turns
<1>5. Arrivals'
  BY ArrivesDownNext DEF Arrivals, InPair, OnDown
<1>6. Turns'
  BY ArrivesDownNext DEF Turns, InPair, OnUp, OnDown
<1>7. Agree'
  BY ArrivesDownNext DEF Agree, Agreed, Known, InPair, OnUp, OnDown, Turns, OnceEach
<1>8. Known'
  BY ArrivesDownNext DEF Known, Agree, Agreed, InPair, OnUp, OnDown, OnceEach, Arrivals, Turns
<1> QED BY <1>1, <1>2, <1>3, <1>4, <1>5, <1>6, <1>7, <1>8

-----------------------------------------------------------------------------
(* The steps of the server keep it.                                        *)

(* It goes on within a phase, or leaves it; the peer may be served a       *)
(* record meanwhile.                                                       *)
LEMMA ServerQuietKeeps ==
  ASSUME PairFlow, ServerGoesOn, WireSame, UpKeeps, DownRests,
         UNCHANGED <<eng, hs, cli>>
  PROVE  PairFlow'
<1> USE DEF PairFlow, New, Res, ServerKept, ServerSame, WireSame, ServerGoesOn, ServerPath,
     ServerRests, UpKeeps, DownRests
<1>1. OnceEach'
  BY ArrivesDownNext DEF OnceEach, InPair, OnUp, OnDown
<1>2. InPair'
  BY ArrivesDownNext DEF InPair, OnUp, OnDown, OnceEach, Arrivals, Turns
<1>3. OnUp'
  BY ArrivesDownNext DEF InPair, OnUp, OnDown, OnceEach, Arrivals, Turns
<1>4. OnDown'
  BY ArrivesDownNext DEF InPair, OnUp, OnDown, OnceEach, Arrivals, Turns
<1>5. Arrivals'
  BY ArrivesDownNext DEF Arrivals, InPair, OnDown
<1>6. Turns'
  BY ArrivesDownNext DEF Turns, InPair, OnUp, OnDown
<1>7. Agree'
  <2>1. Agreed' <=> Agreed
    BY DEF Agreed
  <2>2. NewDown' \/ ResumedDown' => wire'.granted = svr'.id
    BY DEF Agree
  <2>3. /\ New(ServerVerifying \cup ServerTaken \cup ServerLast)' =>
             New(ServerVerifying \cup ServerTaken \cup ServerLast)
        /\ Res({"write_ServerHello"} \cup ServerFirst \cup ServerWaiting)' =>
             Res({"write_ServerHello"} \cup ServerFirst \cup ServerWaiting)
        /\ Res({"write_ServerHello"})' => Res({"write_ServerHello"})
    BY DEF InPair
  <2> QED BY <2>1, <2>2, <2>3 DEF Agree
<1>8. Known'
  BY ArrivesDownNext DEF Known, Agree, Agreed, InPair, OnUp, OnDown, OnceEach, Arrivals, Turns
<1> QED BY <1>1, <1>2, <1>3, <1>4, <1>5, <1>6, <1>7, <1>8

(* It opens a session that neither end knew.                               *)
LEMMA TakesHelloNewKeeps ==
  ASSUME PairFlow, TakesHelloNew,
         UNCHANGED <<eng, hs, cli>>
  PROVE  PairFlow'
<1> USE DEF PairFlow, New, Res, TakesHelloNew, UpLoses, UpKeeps, DownKeeps, Hi
<1>1. OnceEach'
  BY ArrivesDownNext DEF OnceEach, InPair, OnUp, OnDown
<1>2. InPair'
  BY ArrivesDownNext DEF InPair, OnUp, OnDown, OnceEach, Arrivals, Turns
<1>3. OnUp'
  BY ArrivesDownNext DEF InPair, OnUp, OnDown, OnceEach, Arrivals, Turns
<1>4. OnDown'
  BY ArrivesDownNext DEF InPair, OnUp, OnDown, OnceEach, Arrivals, Turns
<1>5. Arrivals'
  BY ArrivesDownNext DEF Arrivals, InPair, OnDown
<1>6. Turns'
  BY ArrivesDownNext DEF Turns, InPair, OnUp, OnDown
<1>7. Agree'
  BY ArrivesDownNext DEF Agree, Agreed, Known, InPair, OnUp, OnDown, Turns, OnceEach
<1>8. Known'
  BY ArrivesDownNext DEF Known, Agree, Agreed, InPair, OnUp, OnDown, OnceEach, Arrivals, Turns
<1> QED BY <1>1, <1>2, <1>3, <1>4, <1>5, <1>6, <1>7, <1>8

(* It resumes the session that the client offers: the cache has the        *)
(* client's secret.                                                        *)
LEMMA TakesHelloCachedKeeps ==
  ASSUME PairFlow, TakesHelloCached,
         UNCHANGED <<eng, hs, cli>>
  PROVE  PairFlow'
<1> USE DEF PairFlow, New, Res, TakesHelloCached, UpLoses, UpKeeps, DownKeeps, Hi
<1>1. OnceEach'
  BY ArrivesDownNext DEF OnceEach, InPair, OnUp, OnDown
<1>2. InPair'
  BY ArrivesDownNext DEF InPair, OnUp, OnDown, OnceEach, Arrivals, Turns
<1>3. OnUp'
  BY ArrivesDownNext DEF InPair, OnUp, OnDown, OnceEach, Arrivals, Turns
<1>4. OnDown'
  BY ArrivesDownNext DEF InPair, OnUp, OnDown, OnceEach, Arrivals, Turns
<1>5. Arrivals'
  BY ArrivesDownNext DEF Arrivals, InPair, OnDown
<1>6. Turns'
  BY ArrivesDownNext DEF Turns, InPair, OnUp, OnDown
<1>7. Agree'
  BY ArrivesDownNext DEF Agree, Agreed, Known, InPair, OnUp, OnDown, Turns, OnceEach
<1>8. Known'
  BY ArrivesDownNext DEF Known, Agree, Agreed, InPair, OnUp, OnDown, OnceEach, Arrivals, Turns
<1> QED BY <1>1, <1>2, <1>3, <1>4, <1>5, <1>6, <1>7, <1>8

(* It refuses the hello.                                                   *)
LEMMA TakesHelloRefusedKeeps ==
  ASSUME PairFlow, TakesHelloRefused,
         UNCHANGED <<eng, hs, cli>>
  PROVE  PairFlow'
<1> USE DEF PairFlow, New, Res, TakesHelloRefused, UpLoses, UpKeeps, DownKeeps, Hi
<1>1. OnceEach'
  BY ArrivesDownNext DEF OnceEach, InPair, OnUp, OnDown
<1>2. InPair'
  BY ArrivesDownNext DEF InPair, OnUp, OnDown, OnceEach, Arrivals, Turns
<1>3. OnUp'
  BY ArrivesDownNext DEF InPair, OnUp, OnDown, OnceEach, Arrivals, Turns
<1>4. OnDown'
  BY ArrivesDownNext DEF InPair, OnUp, OnDown, OnceEach, Arrivals, Turns
<1>5. Arrivals'
  BY ArrivesDownNext DEF Arrivals, InPair, OnDown
<1>6. Turns'
  BY ArrivesDownNext DEF Turns, InPair, OnUp, OnDown
<1>7. Agree'
  BY ArrivesDownNext DEF Agree, Agreed, Known, InPair, OnUp, OnDown, Turns, OnceEach
<1>8. Known'
  BY ArrivesDownNext DEF Known, Agree, Agreed, InPair, OnUp, OnDown, OnceEach, Arrivals, Turns
<1> QED BY <1>1, <1>2, <1>3, <1>4, <1>5, <1>6, <1>7, <1>8

(* It tells the client of the session.                                     *)
LEMMA SendsAnswerKeeps ==
  ASSUME PairFlow, SendsAnswer,
         UNCHANGED <<eng, hs, cli>>
  PROVE  PairFlow'
<1> USE DEF PairFlow, New, Res, SendsAnswer, ServerSame, ServerKept, UpKeeps, DownGets,
     Answer, Cipher, Finish
<1>1. OnceEach'
  BY ArrivesDownNext DEF OnceEach, InPair, OnUp, OnDown
<1>2. InPair'
  BY ArrivesDownNext DEF InPair, OnUp, OnDown, OnceEach, Arrivals, Turns
<1>3. OnUp'
  BY ArrivesDownNext DEF InPair, OnUp, OnDown, OnceEach, Arrivals, Turns
<1>4. OnDown'
  BY ArrivesDownNext DEF InPair, OnUp, OnDown, OnceEach, Arrivals, Turns
<1>5. Arrivals'
  BY ArrivesDownNext DEF Arrivals, InPair, OnDown
<1>6. Turns'
  BY ArrivesDownNext DEF Turns, InPair, OnUp, OnDown
<1>7. Agree'
  BY ArrivesDownNext DEF Agree, Agreed, Known, InPair, OnUp, OnDown, Turns, OnceEach
<1>8. Known'
  BY ArrivesDownNext DEF Known, Agree, Agreed, InPair, OnUp, OnDown, OnceEach, Arrivals, Turns
<1> QED BY <1>1, <1>2, <1>3, <1>4, <1>5, <1>6, <1>7, <1>8

(* It learns of the secret of the new session.                             *)
LEMMA TakesExchangeKeeps ==
  ASSUME PairFlow, TakesExchange,
         UNCHANGED <<eng, hs, cli>>
  PROVE  PairFlow'
<1> USE DEF PairFlow, New, Res, TakesExchange, ServerKept, UpKeeps, DownKeeps
<1>1. OnceEach'
  BY ArrivesDownNext DEF OnceEach, InPair, OnUp, OnDown
<1>2. InPair'
  BY ArrivesDownNext DEF InPair, OnUp, OnDown, OnceEach, Arrivals, Turns
<1>3. OnUp'
  BY ArrivesDownNext DEF InPair, OnUp, OnDown, OnceEach, Arrivals, Turns
<1>4. OnDown'
  BY ArrivesDownNext DEF InPair, OnUp, OnDown, OnceEach, Arrivals, Turns
<1>5. Arrivals'
  BY ArrivesDownNext DEF Arrivals, InPair, OnDown
<1>6. Turns'
  BY ArrivesDownNext DEF Turns, InPair, OnUp, OnDown
<1>7. Agree'
  BY ArrivesDownNext DEF Agree, Agreed, Known, InPair, OnUp, OnDown, Turns, OnceEach
<1>8. Known'
  BY ArrivesDownNext DEF Known, Agree, Agreed, InPair, OnUp, OnDown, OnceEach, Arrivals, Turns
<1> QED BY <1>1, <1>2, <1>3, <1>4, <1>5, <1>6, <1>7, <1>8

(* It learns of the secret, and fails.                                     *)
LEMMA RejectsExchangeKeeps ==
  ASSUME PairFlow, RejectsExchange,
         UNCHANGED <<eng, hs, cli>>
  PROVE  PairFlow'
<1> USE DEF PairFlow, New, Res, RejectsExchange, ServerKept, UpKeeps, DownKeeps
<1>1. OnceEach'
  BY ArrivesDownNext DEF OnceEach, InPair, OnUp, OnDown
<1>2. InPair'
  BY ArrivesDownNext DEF InPair, OnUp, OnDown, OnceEach, Arrivals, Turns
<1>3. OnUp'
  BY ArrivesDownNext DEF InPair, OnUp, OnDown, OnceEach, Arrivals, Turns
<1>4. OnDown'
  BY ArrivesDownNext DEF InPair, OnUp, OnDown, OnceEach, Arrivals, Turns
<1>5. Arrivals'
  BY ArrivesDownNext DEF Arrivals, InPair, OnDown
<1>6. Turns'
  BY ArrivesDownNext DEF Turns, InPair, OnUp, OnDown
<1>7. Agree'
  BY ArrivesDownNext DEF Agree, Agreed, Known, InPair, OnUp, OnDown, Turns, OnceEach
<1>8. Known'
  BY ArrivesDownNext DEF Known, Agree, Agreed, InPair, OnUp, OnDown, OnceEach, Arrivals, Turns
<1> QED BY <1>1, <1>2, <1>3, <1>4, <1>5, <1>6, <1>7, <1>8

(* It takes the change of keys of the client.                              *)
LEMMA ServerTakesCipherKeeps ==
  ASSUME PairFlow, ServerTakesCipher,
         UNCHANGED <<eng, hs, cli>>
  PROVE  PairFlow'
<1> USE DEF PairFlow, New, Res, ServerTakesCipher, ServerSame, ServerKept, UpLoses, UpKeeps,
     DownKeeps, Cipher
<1>1. OnceEach'
  BY ArrivesDownNext DEF OnceEach, InPair, OnUp, OnDown
<1>2. InPair'
  BY ArrivesDownNext DEF InPair, OnUp, OnDown, OnceEach, Arrivals, Turns
<1>3. OnUp'
  BY ArrivesDownNext DEF InPair, OnUp, OnDown, OnceEach, Arrivals, Turns
<1>4. OnDown'
  BY ArrivesDownNext DEF InPair, OnUp, OnDown, OnceEach, Arrivals, Turns
<1>5. Arrivals'
  BY ArrivesDownNext DEF Arrivals, InPair, OnDown
<1>6. Turns'
  BY ArrivesDownNext DEF Turns, InPair, OnUp, OnDown
<1>7. Agree'
  BY ArrivesDownNext DEF Agree, Agreed, Known, InPair, OnUp, OnDown, Turns, OnceEach
<1>8. Known'
  BY ArrivesDownNext DEF Known, Agree, Agreed, InPair, OnUp, OnDown, OnceEach, Arrivals, Turns
<1> QED BY <1>1, <1>2, <1>3, <1>4, <1>5, <1>6, <1>7, <1>8

(* It takes the Finished of the client.                                    *)
LEMMA ServerTakesFinishedKeeps ==
  ASSUME PairFlow, ServerTakesFinished,
         UNCHANGED <<eng, hs, cli>>
  PROVE  PairFlow'
<1> USE DEF PairFlow, New, Res, ServerTakesFinished, ServerRests, ServerSame, ServerKept,
     UpLoses, UpKeeps, DownKeeps, Finish
<1>1. OnceEach'
  BY ArrivesDownNext DEF OnceEach, InPair, OnUp, OnDown
<1>2. InPair'
  BY ArrivesDownNext DEF InPair, OnUp, OnDown, OnceEach, Arrivals, Turns
<1>3. OnUp'
  BY ArrivesDownNext DEF InPair, OnUp, OnDown, OnceEach, Arrivals, Turns
<1>4. OnDown'
  BY ArrivesDownNext DEF InPair, OnUp, OnDown, OnceEach, Arrivals, Turns
<1>5. Arrivals'
  BY ArrivesDownNext DEF Arrivals, InPair, OnDown
<1>6. Turns'
  BY ArrivesDownNext DEF Turns, InPair, OnUp, OnDown
<1>7. Agree'
  BY ArrivesDownNext DEF Agree, Agreed, Known, InPair, OnUp, OnDown, Turns, OnceEach
<1>8. Known'
  BY ArrivesDownNext DEF Known, Agree, Agreed, InPair, OnUp, OnDown, OnceEach, Arrivals, Turns
<1> QED BY <1>1, <1>2, <1>3, <1>4, <1>5, <1>6, <1>7, <1>8

(* It changes its keys.                                                    *)
LEMMA ServerSendsCipherKeeps ==
  ASSUME PairFlow, ServerSendsCipher,
         UNCHANGED <<eng, hs, cli>>
  PROVE  PairFlow'
<1> USE DEF PairFlow, New, Res, ServerSendsCipher, ServerSame, ServerKept, UpKeeps, DownGets,
     Answer, Cipher, Finish
<1>1. OnceEach'
  BY ArrivesDownNext DEF OnceEach, InPair, OnUp, OnDown
<1>2. InPair'
  BY ArrivesDownNext DEF InPair, OnUp, OnDown, OnceEach, Arrivals, Turns
<1>3. OnUp'
  BY ArrivesDownNext DEF InPair, OnUp, OnDown, OnceEach, Arrivals, Turns
<1>4. OnDown'
  BY ArrivesDownNext DEF InPair, OnUp, OnDown, OnceEach, Arrivals, Turns
<1>5. Arrivals'
  BY ArrivesDownNext DEF Arrivals, InPair, OnDown
<1>6. Turns'
  BY ArrivesDownNext DEF Turns, InPair, OnUp, OnDown
<1>7. Agree'
  BY ArrivesDownNext DEF Agree, Agreed, Known, InPair, OnUp, OnDown, Turns, OnceEach
<1>8. Known'
  BY ArrivesDownNext DEF Known, Agree, Agreed, InPair, OnUp, OnDown, OnceEach, Arrivals, Turns
<1> QED BY <1>1, <1>2, <1>3, <1>4, <1>5, <1>6, <1>7, <1>8

(* It sends its Finished.                                                  *)
LEMMA ServerSendsFinishedKeeps ==
  ASSUME PairFlow, ServerSendsFinished,
         UNCHANGED <<eng, hs, cli>>
  PROVE  PairFlow'
<1> USE DEF PairFlow, New, Res, ServerSendsFinished, ServerRests, ServerSame, ServerKept,
     UpKeeps, DownGets, Answer, Cipher, Finish
<1>1. OnceEach'
  BY ArrivesDownNext DEF OnceEach, InPair, OnUp, OnDown
<1>2. InPair'
  BY ArrivesDownNext DEF InPair, OnUp, OnDown, OnceEach, Arrivals, Turns
<1>3. OnUp'
  BY ArrivesDownNext DEF InPair, OnUp, OnDown, OnceEach, Arrivals, Turns
<1>4. OnDown'
  BY ArrivesDownNext DEF InPair, OnUp, OnDown, OnceEach, Arrivals, Turns
<1>5. Arrivals'
  BY ArrivesDownNext DEF Arrivals, InPair, OnDown
<1>6. Turns'
  BY ArrivesDownNext DEF Turns, InPair, OnUp, OnDown
<1>7. Agree'
  BY ArrivesDownNext DEF Agree, Agreed, Known, InPair, OnUp, OnDown, Turns, OnceEach
<1>8. Known'
  BY ArrivesDownNext DEF Known, Agree, Agreed, InPair, OnUp, OnDown, OnceEach, Arrivals, Turns
<1> QED BY <1>1, <1>2, <1>3, <1>4, <1>5, <1>6, <1>7, <1>8

(* It ends the handshake, and saves a new session in the cache under an    *)
(* identifier that no earlier session has.                                 *)
LEMMA ServerEndsKeeps ==
  ASSUME PairFlow, ServerEnds,
         UNCHANGED <<eng, hs, cli>>
  PROVE  PairFlow'
<1> USE DEF PairFlow, New, Res, ServerEnds, UpKeeps, DownKeeps
<1>1. OnceEach'
  BY ArrivesDownNext DEF OnceEach, InPair, OnUp, OnDown
<1>2. InPair'
  BY ArrivesDownNext DEF InPair, OnUp, OnDown, OnceEach, Arrivals, Turns
<1>3. OnUp'
  BY ArrivesDownNext DEF InPair, OnUp, OnDown, OnceEach, Arrivals, Turns
<1>4. OnDown'
  BY ArrivesDownNext DEF InPair, OnUp, OnDown, OnceEach, Arrivals, Turns
<1>5. Arrivals'
  BY ArrivesDownNext DEF Arrivals, InPair, OnDown
<1>6. Turns'
  BY ArrivesDownNext DEF Turns, InPair, OnUp, OnDown
<1>7. Agree'
  BY ArrivesDownNext DEF Agree, Agreed, Known, InPair, OnUp, OnDown, Turns, OnceEach
<1>8. Known'
  <2>1. CASE svr'.cache = svr.cache
    BY <2>1 DEF Known, Agree, Agreed, InPair, OnUp, OnDown
  <2>2. CASE svr'.cache # svr.cache
    <3>1. Agreed /\ cli.saved.id # svr.id /\ svr.id # 0 /\ ~shs.resuming
      BY <2>2 DEF Known, Agree
    <3>2. /\ DOMAIN svr'.cache = DOMAIN svr.cache \cup {svr.id} /\ svr'.cache[svr.id] = svr.secret
          /\ \A i \in DOMAIN svr.cache : i # svr.id => svr'.cache[i] = svr.cache[i]
      BY <2>2
    <3>3. hs.pc \notin ClientFlight /\ ~NewDown
      BY <3>1 DEF InPair, OnDown
    <3>4. \A i \in DOMAIN svr'.cache : i \in Nat /\ i # 0 /\ i < svr'.next
      BY <3>1, <3>2 DEF Known
    <3>5. /\ cli'.id \in DOMAIN svr'.cache => cli'.secret = svr'.cache[cli'.id]
          /\ cli'.saved.id \in DOMAIN svr'.cache => cli'.saved.secret = svr'.cache[cli'.saved.id]
      BY <3>1, <3>2 DEF Known, Agreed
    <3>6. ~New({"write_ServerHello"} \cup ServerNew \cup ServerVerifying \cup ServerTaken \cup ServerLast)'
      OBVIOUS
    <3>7. ~New({"write_ServerHello"})' /\ ~NewDown' /\ hs'.pc \notin ClientFlight
      BY <3>3
    <3>8. HelloUp' \/ hs'.pc = "write_ClientHello" => eng'.application_data # 1
      BY DEF Known
    <3> HIDE DEF New, Res, ServerEnds
    <3> QED BY <3>4, <3>5, <3>6, <3>7, <3>8 DEF Known, ServerEnds
  <2> QED BY <2>1, <2>2
<1> QED BY <1>1, <1>2, <1>3, <1>4, <1>5, <1>6, <1>7, <1>8

HIDE DEF ClientOpen, ClientFlight, ClientFinishing, ClientPlaces, Gone, ServerOpen, ServerAway,
  ServerRefusing, ServerNew, ServerVerifying, ServerTaken, ServerLast, ServerFirst, ServerWaiting

-----------------------------------------------------------------------------
(* The steps of the processors.                                            *)
PairShape ==
  /\ ClientShape /\ ClientTypes /\ ServerRecords /\ ServerTypes /\ Pipes
  /\ DOMAIN cli = {"id", "secret", "fresh", "saved"}
  /\ DOMAIN wire = {"offer", "granted", "premaster"}

(* Only a coroutine that runs leaves its place for one that is not an end. *)
LEMMA ClientRuns ==
  ASSUME Frame(eng, hs), HandshakeStep, hs'.pc # hs.pc, hs'.pc \notin Gone
  PROVE  hs.co = "running"
<1>1. CASE wait_co
  <2>1. CASE CloseRequested \/ Resumed
    BY <2>1 DEF CloseRequested, Resumed, Goto, Gone, Frame
  <2>2. CASE AlertReceived
    BY <2>2 DEF AlertReceived, Fail, GotoAte, Gone, Frame
  <2> QED BY <1>1, <2>1, <2>2 DEF wait_co
<1>2. CASE wait_for_close
  <2>1. CASE CloseAlertReceived
    <3>1. PICK answered : hs' = [hs EXCEPT !.co = "running", !.ate = TRUE, !.cnr = answered]
                            \/ hs' = [hs EXCEPT !.co = "idle"]
      BY <2>1 DEF CloseAlertReceived, Fail
    <3> QED BY <3>1 DEF Frame
  <2>2. CASE Goto(hs.pc) \/ GotoAte(hs.pc)
    BY <2>2 DEF Goto, GotoAte, Frame
  <2> QED BY <1>2, <2>1, <2>2 DEF wait_for_close
<1>3. CASE ~wait_co /\ ~wait_for_close
  BY <1>3 DEF HandshakeStep, Running, Main, StartHandshake, WriteClientHello, Reading, ReadWaits,
     SkipHelloRequest, Incoming, ReadUnexpected, ReadServerHello, ReadCertificate,
     ReadServerKeyExchange, ReadCertificateRequest, ReadServerHelloDone, ReadCCS, ReadFinished,
     ReadHelloRequest, WriteFlight, FlushFlight, WriteCCS, WriteFinished, HandshakeDone, EnterMain,
     Decline, WriteNoRenegotiation, StartClose, WriteCloseNotify, AwaitCloseNotify
<1> QED BY <1>1, <1>2, <1>3

(* A step of the client's processor keeps the invariant.                   *)
LEMMA ClientTurn ==
  ASSUME PairShape, PairFlow, ClientProcesses
  PROVE  PairShape' /\ PairFlow'
<1>1. /\ HandshakeStep
      /\ UNCHANGED <<seng, shs, svr, sinrec, soutbuf, soutrec, toServer, toClient>>
  BY DEF ClientProcesses, pipeVars
<1>2. ClientShape' /\ ClientTypes' /\ ClientEffect
  BY <1>1, ClientEffects DEF PairShape
<1>3. ServerRecords' /\ ServerTypes' /\ Pipes'
  BY <1>1 DEF PairShape, ServerRecords, EndShape, Frame, ServerTypes, EndTypes, Pipes
<1>4. hs'.pc # hs.pc /\ hs'.pc \notin Gone => hs.co = "running"
  BY <1>1, ClientRuns DEF PairShape, ClientShape, EndShape
<1>5. CASE ClientQuiet \/ SendsCipher \/ SendsFinished \/ TakesCipher \/ TakesFinished
  <2>1. /\ ~Spoke("write_ClientHello", {"read_ServerHello"})
        /\ ~Spoke("read_ServerHello", {"read_CCS", "read_Certificate"})
        /\ ~Spoke("write_ClientKeyExchange", {"write_CertificateVerify", "flush"})
    BY <1>5 DEF Spoke, Running, ClientQuiet, ClientGoesOn, ClientPath, ClientOpen,
       ClientFlight, Gone,
       SendsCipher, SendsFinished, TakesCipher, TakesFinished
  <2>2. UNCHANGED <<cli, wire>>
    BY <2>1 DEF ClientProcesses
  <2>3. PairFlow'
    BY <1>1, <1>5, <2>2, ClientQuietKeeps, SendsCipherKeeps, SendsFinishedKeeps, TakesCipherKeeps,
       TakesFinishedKeeps
  <2> QED BY <1>2, <1>3, <2>2, <2>3 DEF PairShape
<1>6. CASE hs'.co = "running" /\ SendsHello
  <2>1. /\ Spoke("write_ClientHello", {"read_ServerHello"})
        /\ ~Spoke("read_ServerHello", {"read_CCS", "read_Certificate"})
        /\ ~Spoke("write_ClientKeyExchange", {"write_CertificateVerify", "flush"})
    BY <1>4, <1>6 DEF Spoke, Running, SendsHello, Gone
  <2>2. /\ wire' = [wire EXCEPT !.offer =
                 [ri |-> IF eng.reneg = 1 THEN "none" ELSE "extension",
                  finished |-> IF eng.reneg = 2 THEN eng.out_epoch ELSE 0, id |-> cli.id]]
        /\ UNCHANGED cli
    BY <2>1 DEF ClientProcesses
  <2>3. /\ DOMAIN wire' = DOMAIN wire /\ wire'.offer.id = cli.id
        /\ wire'.premaster = wire.premaster /\ wire'.granted = wire.granted
    BY <2>2 DEF PairShape
  <2>4. PairFlow'
    BY <1>1, <1>6, <2>2, <2>3, SendsHelloKeeps
  <2> QED BY <1>2, <1>3, <2>2, <2>3, <2>4 DEF PairShape
<1>7. CASE hs'.co = "running" /\ (TakesNew \/ TakesResumed)
  <2>1. /\ Spoke("read_ServerHello", {"read_CCS", "read_Certificate"})
        /\ ~Spoke("write_ClientHello", {"read_ServerHello"})
        /\ ~Spoke("write_ClientKeyExchange", {"write_CertificateVerify", "flush"})
    BY <1>4, <1>7 DEF Spoke, Running, TakesNew, TakesResumed, Gone
  <2>2. cli' = [cli EXCEPT !.id = wire.granted] /\ UNCHANGED wire
    BY <2>1 DEF ClientProcesses
  <2>3. /\ DOMAIN cli' = DOMAIN cli /\ cli'.id = wire.granted
        /\ cli'.secret = cli.secret /\ cli'.saved = cli.saved
    BY <2>2 DEF PairShape
  <2>4. PairFlow'
    BY <1>1, <1>7, <2>2, <2>3, TakesNewKeeps, TakesResumedKeeps
  <2> QED BY <1>2, <1>3, <2>2, <2>3, <2>4 DEF PairShape
<1>8. CASE hs'.co = "running" /\ SendsExchange
  <2>1. /\ Spoke("write_ClientKeyExchange", {"write_CertificateVerify", "flush"})
        /\ ~Spoke("write_ClientHello", {"read_ServerHello"})
        /\ ~Spoke("read_ServerHello", {"read_CCS", "read_Certificate"})
    BY <1>4, <1>8 DEF Spoke, Running, SendsExchange, Gone
  <2>2. /\ cli' = [cli EXCEPT !.secret = cli.fresh, !.fresh = @ + 1]
        /\ wire' = [wire EXCEPT !.premaster = cli.fresh]
    BY <2>1 DEF ClientProcesses
  <2>3. /\ DOMAIN cli' = DOMAIN cli /\ cli'.id = cli.id /\ cli'.secret = cli.fresh
        /\ cli'.saved = cli.saved
        /\ DOMAIN wire' = DOMAIN wire /\ wire'.premaster = cli.fresh
        /\ wire'.offer = wire.offer /\ wire'.granted = wire.granted
    BY <2>2 DEF PairShape
  <2>4. PairFlow'
    BY <1>1, <1>8, <2>3, SendsExchangeKeeps
  <2> QED BY <1>2, <1>3, <2>3, <2>4 DEF PairShape
<1> QED BY <1>2, <1>5, <1>6, <1>7, <1>8 DEF ClientEffect, Speaks

(* The server tells of its session on the wire, and of nothing else.       *)
LEMMA WireNext ==
  ASSUME NEW hellos, NEW verdicts, NEW genuine, S!ServerStep(hellos, verdicts, genuine)
  PROVE  wire' = wire \/ wire' = [wire EXCEPT !.granted = svr.id]
BY DEF S!ServerStep, S!unmoved, S!ServerMain, S!FlushRequest, S!WriteHelloRequest,
   S!ServerReadWaits, S!ServerSkips, S!ServerReadUnexpected, S!SkipClientHello,
   S!ServerDecline, S!WriteRefusal, S!ServerStart, S!ReadClientHello, S!Refuse,
   S!WriteFatal, S!FatalSent, S!WriteServerFlight, S!EndFlight, S!ReadClientCertificate,
   S!ReadKeyExchange, S!ReadEmptyKeyExchange, S!ReadCertificateVerify,
   S!ReadClientFinished, S!SkipCertificateVerify, S!ServerReadCCS, S!ServerFlush,
   S!ServerWriteCCS, S!ServerWriteFinished, S!ServerDone, S!ServerEnterMain

(* A step of the server's processor keeps the invariant.                   *)
LEMMA ServerTurn ==
  ASSUME ServerShape, PairShape, PairFlow, peer = "client", ServerProcesses
  PROVE  PairShape' /\ PairFlow'
<1> DEFINE verdicts == IF ClientCert THEN {"sign", "invalid"} ELSE {"none"}
<1>1. /\ S!ServerStep({wire.offer}, verdicts, {TRUE})
      /\ UNCHANGED <<eng, hs, inrec, outbuf, outrec, cli, toServer, toClient>>
  BY DEF ServerProcesses, clientVars, pipeVars
<1> HIDE DEF verdicts
<1>2. shs.pc \in ServerNew => ~shs.resuming
  BY DEF PairFlow, InPair
<1>3. ServerRecords' /\ ServerTypes' /\ ServerEffect
  BY <1>1, <1>2, ServerEndEffects DEF PairShape
<1>4. ClientShape' /\ ClientTypes' /\ Pipes' /\ DOMAIN cli' = DOMAIN cli
  BY <1>1 DEF PairShape, ClientShape, EndShape, Frame, ClientTypes, EndTypes, Pipes
<1>5. DOMAIN wire' = DOMAIN wire
  BY <1>1, WireNext
<1>6. PairShape'
  BY <1>3, <1>4, <1>5 DEF PairShape
<1>7. CASE ServerQuiet
  <2>1. DownRests
    BY <1>7, ArrivesDownNext DEF ServerQuiet, DownKeeps, DownRests
  <2> QED BY <1>1, <1>6, <1>7, <2>1, ServerQuietKeeps DEF ServerQuiet
<1>8. CASE HelloTaken
  BY <1>1, <1>6, <1>8, TakesHelloNewKeeps, TakesHelloCachedKeeps, TakesHelloRefusedKeeps DEF
     HelloTaken
<1>9. CASE SendsAnswer \/ TakesExchange \/ RejectsExchange
  BY <1>1, <1>6, <1>9, SendsAnswerKeeps, TakesExchangeKeeps, RejectsExchangeKeeps
<1>10. CASE ServerTakesCipher \/ ServerTakesFinished
  BY <1>1, <1>6, <1>10, ServerTakesCipherKeeps, ServerTakesFinishedKeeps
<1>11. CASE ServerSendsCipher \/ ServerSendsFinished \/ ServerEnds
  BY <1>1, <1>6, <1>11, ServerSendsCipherKeeps, ServerSendsFinishedKeeps, ServerEndsKeeps
<1> QED BY <1>3, <1>7, <1>8, <1>9, <1>10, <1>11 DEF ServerEffect

-----------------------------------------------------------------------------
(* The calls of the applications, and the pipes.                           *)
LEMMA UpRests ==
  ASSUME UNCHANGED <<sinrec, toServer, outrec, outbuf>>
  PROVE  UpKeeps
BY UpFewer DEF Fewer

(* Nothing that comes down moves.                                          *)
LEMMA DownStands ==
  ASSUME UNCHANGED <<inrec, toClient, soutrec, soutbuf>>
  PROVE  DownKeeps
BY DownFewer DEF Fewer, FinishedArrives

(* A processor that is called, or not.                                     *)
Called(h, r, b, h2) ==
  \/ h2 = h
  \/ \E action : h2 = [h EXCEPT !.co = "resumed", !.action = action, !.ate = FALSE,
                                !.can_output = (r = NoRecord /\ b = <<>>)]

(* A call that wakes a coroutine leaves its place.                         *)
LEMMA CalledFits ==
  ASSUME NEW e, NEW h, NEW b, NEW r, NEW h2, Frame(e, h), EndTypes(e, h, b), Called(h, r, b, h2)
  PROVE  Frame(e, h2) /\ EndTypes(e, h2, b) /\ h2.pc = h.pc /\ h2.resuming = h.resuming
<1>1. CASE h2 = h
  BY <1>1
<1>2. CASE h2 # h
  <2> DEFINE free == r = NoRecord /\ b = <<>>
  <2> HIDE DEF free
  <2>1. PICK action : h2 = [h EXCEPT !.co = "resumed", !.action = action, !.ate = FALSE,
                                     !.can_output = free]
    BY <1>2 DEF Called, free
  <2>2. /\ DOMAIN h2 = DOMAIN h /\ h2.pc = h.pc /\ h2.resuming = h.resuming
        /\ h2.can_output = free
    BY <2>1 DEF Frame
  <2>3. free => b = <<>>
    BY DEF free
  <2> QED BY <2>2, <2>3 DEF Frame, EndTypes
<1> QED BY <1>1, <1>2

Failed(e, h, e2, h2) ==
  \E err : e2 = [e EXCEPT !.closed = TRUE, !.err = err] /\ h2 = [h EXCEPT !.co = "idle"]

(* An engine that fails leaves the place of its coroutine.                 *)
LEMMA FailFits ==
  ASSUME NEW e, NEW h, NEW b, NEW e2, NEW h2, Frame(e, h), EndTypes(e, h, b), Failed(e, h, e2, h2)
  PROVE  /\ Frame(e2, h2) /\ EndTypes(e2, h2, b)
         /\ h2.pc = h.pc /\ h2.resuming = h.resuming
         /\ e2.session = e.session /\ e2.application_data = e.application_data /\ e2.closed
<1>1. /\ DOMAIN e2 = DOMAIN e /\ e2.session = e.session /\ e2.closed
      /\ e2.application_data = e.application_data
      /\ e2.record_type_out = e.record_type_out /\ e2.out_epoch = e.out_epoch
      /\ DOMAIN h2 = DOMAIN h /\ h2.pc = h.pc /\ h2.resuming = h.resuming
      /\ h2.can_output = h.can_output
  BY DEF Frame, Failed
<1> QED BY <1>1 DEF Frame, EndTypes

(* The calls of the client's application keep the places and add nothing.  *)
LEMMA ClientCalls ==
  ASSUME ClientShape, ClientTypes, Pipes,
         \/ ClientSends \/ ClientReceives \/ ClientWrites \/ ClientReads \/ ClientCloses
         \/ ClientRenegotiates,
         UNCHANGED <<sinrec, soutrec, soutbuf>>
  PROVE  ClientShape' /\ ClientTypes' /\ Pipes' /\ ClientQuiet
<1>1. /\ inrec \in KnownRecord /\ outrec \in KnownRecord /\ outbuf \in Seq(Said) /\ Frame(eng, hs)
      /\ Data(1) \in Said /\ Data(1).msg \notin Hi \cup Exchange \cup Cipher \cup Finish
  BY PlainWords DEF ClientShape, EndShape
<1>2. ASSUME Called(hs, outrec', outbuf', hs'), UNCHANGED eng, outbuf' = outbuf
      PROVE  Frame(eng', hs') /\ ClientTypes' /\ ClientGoesOn
  <2>1. /\ Frame(eng, hs') /\ EndTypes(eng, hs', outbuf)
        /\ hs'.pc = hs.pc /\ hs'.resuming = hs.resuming
    BY <1>1, <1>2, CalledFits DEF ClientTypes
  <2> QED BY <1>2, <2>1 DEF ClientTypes, ClientGoesOn, ClientSame, ClientPath, ClientOpens
<1>3. ASSUME UNCHANGED <<eng, hs>>, Reads(inrec, inrec'),
             Outputs(eng, Data(1), outrec, outbuf, outrec', outbuf'), ClientTypes',
             UNCHANGED <<toServer, toClient>>
      PROVE  ClientShape' /\ ClientTypes' /\ Pipes' /\ ClientQuiet
  <2>1. Frame(eng', hs') /\ ClientGoesOn
    BY <1>1, <1>3 DEF ClientGoesOn, ClientSame, ClientPath, ClientOpens
  <2> QED BY <1>1, <1>3, <2>1, ClientKeeps DEF Pipes, ClientQuiet
<1>4. CASE ClientSends
  <2>1. /\ toServer' = Append(toServer, outrec) /\ outrec' = NoRecord
        /\ UNCHANGED <<eng, inrec, outbuf, toClient>>
    BY <1>4 DEF ClientSends, sendrec_ack
  <2>2. Called(hs, outrec', outbuf', hs')
    BY <1>4 DEF ClientSends, sendrec_ack, Jump, Called
  <2>3. Fewer(sinrec.body, toServer, outrec.body, outbuf, sinrec.body, toServer', <<>>, outbuf)
    BY <1>1, <2>1, SendFewer DEF Pipes
  <2>4. UpKeeps
    BY <2>1, <2>3, UpFewer, MadeRecords
  <2>5. DownKeeps
    BY <2>1, DownStands
  <2>6. Pipes'
    BY <1>1, <2>1 DEF Pipes
  <2>7. ClientShape'
    BY <1>1, <1>2, <2>1, <2>2, MadeRecords DEF ClientShape, EndShape
  <2> QED BY <1>2, <2>1, <2>2, <2>4, <2>5, <2>6, <2>7 DEF ClientQuiet
<1>5. CASE ClientReceives
  <2> DEFINE rec == Head(toClient)
  <2>1. /\ inrec.body = <<>> /\ toClient # <<>> /\ toClient' = Tail(toClient)
        /\ recvrec_ack(rec) /\ UNCHANGED toServer
    BY <1>5 DEF ClientReceives, RECVREC
  <2>2. rec \in KnownRecord /\ Pipes'
    BY <2>1 DEF Pipes
  <2>3. \A r, b : /\ Fewer(<<>>, toClient, r, b, <<>>, toClient', r, b)
                  /\ Fewer(<<>>, toClient, r, b, rec.body, toClient', r, b)
    BY <2>1, ArriveFewer DEF Pipes
  <2> HIDE DEF rec
  <2>4. ASSUME inrec' = inrec \/ inrec' = rec PROVE DownKeeps
    <3>1. inrec'.body = <<>> \/ inrec'.body = rec.body
      BY <2>1, <2>4
    <3>2. FinishedArrives' => FinishedArrives
      BY <2>1, <2>3, <3>1 DEF FinishedArrives, Fewer
    <3> QED BY <2>1, <2>3, <3>1, <3>2, DownFewer
  <2>5. ASSUME UNCHANGED <<eng, outbuf, outrec>>, Called(hs, outrec', outbuf', hs'),
               inrec' = inrec \/ inrec' = rec
        PROVE  ClientShape' /\ ClientTypes' /\ Pipes' /\ ClientQuiet
    <3>1. ClientShape'
      BY <1>1, <1>2, <2>2, <2>5 DEF ClientShape, EndShape
    <3>2. UpKeeps
      BY <2>1, <2>5, UpRests
    <3> QED BY <1>2, <2>2, <2>4, <2>5, <3>1, <3>2 DEF ClientQuiet
  <2>6. ASSUME NEW err, Fail(err)
        PROVE  ClientShape' /\ ClientTypes' /\ Pipes' /\ ClientQuiet
    <3>1. Failed(eng, hs, eng', hs') /\ UNCHANGED <<inrec, outbuf, outrec>>
      BY <2>6 DEF Fail, Failed
    <3>2. /\ Frame(eng', hs') /\ EndTypes(eng', hs', outbuf)
          /\ hs'.pc = hs.pc /\ hs'.resuming = hs.resuming
          /\ eng'.session = eng.session /\ eng'.application_data = eng.application_data
      BY <1>1, <3>1, FailFits DEF ClientTypes
    <3>3. ClientShape' /\ ClientTypes' /\ ClientGoesOn
      BY <1>1, <3>1, <3>2 DEF ClientShape, EndShape, ClientTypes, ClientGoesOn, ClientSame,
         ClientPath,
         ClientOpens
    <3>4. UpKeeps
      BY <2>1, <3>1, UpRests
    <3> QED BY <2>2, <2>4, <3>1, <3>3, <3>4 DEF ClientQuiet
  <2>7. CASE RecvBadRecord(rec)
    BY <2>6, <2>7 DEF RecvBadRecord
  <2>8. CASE RecvHandshake(rec)
    BY <2>5, <2>8 DEF RecvHandshake, Jump, Called
  <2>9. CASE RecvData(rec)
    BY <2>5, <2>6, <2>9 DEF RecvData, Called, engineVars
  <2> QED BY <2>1, <2>7, <2>8, <2>9 DEF recvrec_ack
<1>6. CASE ClientWrites
  <2>1. /\ eng.application_data = 1 /\ Seal(Append(outbuf, Data(1)))
        /\ UNCHANGED <<eng, hs, inrec, toServer, toClient>>
    BY <1>6 DEF ClientWrites, SENDAPP, pipeVars
  <2>2. eng.record_type_out # "change_cipher_spec" /\ hs.pc # "write_CCS"
    BY <2>1 DEF ClientTypes, EndTypes, MayBeOpen, Gone
  <2>3. ClientTypes'
    BY <2>1, <2>2 DEF ClientTypes, EndTypes
  <2>4. Reads(inrec, inrec') /\ Outputs(eng, Data(1), outrec, outbuf, outrec', outbuf')
    BY <2>1, <2>2, InputForms, OutputForms
  <2> QED BY <1>3, <2>1, <2>3, <2>4
<1>7. CASE ClientReads
  <2>1. DropInput /\ UNCHANGED <<eng, hs, outbuf, outrec, toServer, toClient>>
    BY <1>7 DEF ClientReads, recvapp_ack, pipeVars
  <2>2. ClientTypes'
    BY <2>1 DEF ClientTypes, EndTypes
  <2>3. Reads(inrec, inrec') /\ Outputs(eng, Data(1), outrec, outbuf, outrec', outbuf')
    BY <2>1, InputForms, OutputForms
  <2> QED BY <1>3, <2>1, <2>2, <2>3
<1>8. CASE ClientCloses \/ ClientRenegotiates
  <2>1. UNCHANGED <<eng, inrec, outbuf, outrec, toServer, toClient>>
    BY <1>8 DEF ClientCloses, ClientRenegotiates, engine_close, engine_renegotiate, pipeVars
  <2>2. Called(hs, outrec', outbuf', hs')
    BY <1>8 DEF ClientCloses, ClientRenegotiates, engine_close, engine_renegotiate, Jump, Called
  <2>3. ClientShape' /\ Pipes'
    BY <1>1, <1>2, <2>1, <2>2 DEF ClientShape, EndShape, Pipes
  <2> QED BY <1>2, <2>1, <2>2, <2>3, UpRests, DownStands DEF ClientQuiet
<1> QED BY <1>4, <1>5, <1>6, <1>7, <1>8

(* The calls of the server's application keep the places; what they send   *)
(* is moved, and nothing is added.                                         *)
LEMMA ServerCalls ==
  ASSUME ServerRecords, ServerTypes, Pipes, Arrivals, peer = "client", S!E!Idle,
         \/ ServerSends \/ ServerReceives \/ ServerWrites \/ ServerReads \/ ServerCloses
         \/ ServerRenegotiates,
         UNCHANGED <<inrec, outrec, outbuf>>
  PROVE  /\ ServerRecords' /\ ServerTypes' /\ Pipes'
         /\ ServerGoesOn /\ WireSame /\ UpKeeps /\ DownRests /\ UNCHANGED wire
<1>1. /\ sinrec \in KnownRecord /\ soutrec \in KnownRecord /\ soutbuf \in Seq(Said)
      /\ Frame(seng, shs)
      /\ Data(1) \in Said /\ Data(1).msg \notin Answer \cup Cipher \cup Finish
  BY PlainWords DEF ServerRecords, EndShape
<1>2. UNCHANGED <<svr, wire>> /\ ~seng.closed /\ shs.pc # "done"
  <2>1. UNCHANGED <<svr, wire>> /\ ~seng.closed
    BY DEF ServerSends, ServerReceives, ServerWrites, ServerReads, ServerCloses, ServerRenegotiates,
       S!E!SENDREC, S!E!RECVREC, S!E!SENDAPP, S!E!RECVAPP, S!E!MayRenegotiate, S!server_renegotiate,
       S!unmoved, unmoved
  <2> QED BY <2>1 DEF Arrivals, S!E!Idle
<1>3. ASSUME shs'.pc = shs.pc, shs'.resuming = shs.resuming PROVE ServerGoesOn /\ WireSame
  BY <1>2, <1>3 DEF ServerGoesOn, ServerSame, ServerKept, ServerPath, ServerRests, WireSame
<1>4. ASSUME DownKeeps, shs'.pc = shs.pc PROVE DownRests
  BY <1>2, <1>4, ArrivesDownNext DEF DownKeeps, DownRests
<1>5. ASSUME Called(shs, soutrec', soutbuf', shs'), UNCHANGED seng, soutbuf' = soutbuf
      PROVE  /\ Frame(seng', shs') /\ ServerTypes' /\ ServerGoesOn /\ WireSame
             /\ shs'.pc = shs.pc
  <2>1. /\ Frame(seng, shs') /\ EndTypes(seng, shs', soutbuf)
        /\ shs'.pc = shs.pc /\ shs'.resuming = shs.resuming
    BY <1>1, <1>5, CalledFits DEF ServerTypes
  <2> QED BY <1>3, <1>5, <2>1 DEF ServerTypes
<1>6. ASSUME UNCHANGED <<seng, shs>>, Reads(sinrec, sinrec'),
             Outputs(seng, Data(1), soutrec, soutbuf, soutrec', soutbuf'), ServerTypes',
             UNCHANGED <<toServer, toClient>>
      PROVE  /\ ServerRecords' /\ ServerTypes' /\ Pipes'
             /\ ServerGoesOn /\ WireSame /\ UpKeeps /\ DownRests
  <2>1. Frame(seng', shs') /\ ServerGoesOn /\ WireSame
    BY <1>1, <1>3, <1>6
  <2>2. ServerRecords' /\ UpKeeps /\ DownKeeps
    BY <1>1, <1>6, <2>1, ServerKeeps
  <2> QED BY <1>4, <1>6, <2>1, <2>2 DEF Pipes
<1>7. CASE ServerSends
  <2>1. /\ toClient' = Append(toClient, soutrec) /\ soutrec' = NoRecord
        /\ UNCHANGED <<seng, sinrec, soutbuf, toServer>>
    BY <1>7, EngineWords DEF ServerSends, S!E!sendrec_ack
  <2>2. Called(shs, soutrec', soutbuf', shs')
    BY <1>7, EngineWords DEF ServerSends, S!E!sendrec_ack, S!E!Jump, Called
  <2>3. Fewer(inrec.body, toClient, soutrec.body, soutbuf, inrec.body, toClient', <<>>, soutbuf)
    BY <1>1, <2>1, SendFewer DEF Pipes
  <2>4. /\ \A names : Down(names)' => Down(names)
        /\ \A names : OnceDown(names) => OnceDown(names)'
    BY <2>1, <2>3, MadeRecords DEF Fewer, Down, OnceDown
  <2>5. UpKeeps
    BY <2>1, UpRests
  <2>6. shs'.pc = shs.pc
    BY <1>5, <2>1, <2>2
  <2>7. DownRests
    BY <1>2, <2>4, <2>6, ArrivesDownNext DEF DownRests, NewDown, ResumedDown, CipherDown,
       FinishedDown, OneAnswer, OneCipherDown, OneFinishedDown
  <2>8. Pipes'
    BY <1>1, <2>1 DEF Pipes
  <2>9. ServerRecords'
    BY <1>1, <1>5, <2>1, <2>2, MadeRecords DEF ServerRecords, EndShape
  <2> QED BY <1>2, <1>5, <2>1, <2>2, <2>5, <2>7, <2>8, <2>9
<1>8. CASE ServerReceives
  <2> DEFINE rec == Head(toServer)
  <2>1. /\ sinrec.body = <<>> /\ toServer # <<>> /\ toServer' = Tail(toServer)
        /\ S!E!recvrec_ack(rec) /\ UNCHANGED toClient
    BY <1>8 DEF ServerReceives, S!E!RECVREC
  <2>2. rec \in KnownRecord /\ Pipes'
    BY <2>1 DEF Pipes
  <2>3. \A r, b : /\ Fewer(<<>>, toServer, r, b, <<>>, toServer', r, b)
                  /\ Fewer(<<>>, toServer, r, b, rec.body, toServer', r, b)
    BY <2>1, ArriveFewer DEF Pipes
  <2> HIDE DEF rec
  <2>4. ASSUME sinrec' = sinrec \/ sinrec' = rec PROVE UpKeeps
    <3>1. sinrec'.body = <<>> \/ sinrec'.body = rec.body
      BY <2>1, <2>4
    <3> QED BY <2>1, <2>3, <3>1, UpFewer
  <2>5. ASSUME UNCHANGED <<seng, soutbuf, soutrec>>, Called(shs, soutrec', soutbuf', shs'),
               sinrec' = sinrec \/ sinrec' = rec
        PROVE  /\ ServerRecords' /\ ServerTypes' /\ Pipes'
               /\ ServerGoesOn /\ WireSame /\ UpKeeps /\ DownRests
    <3>1. ServerRecords'
      BY <1>1, <1>5, <2>2, <2>5 DEF ServerRecords, EndShape
    <3>2. DownKeeps
      BY <2>1, <2>5, DownStands
    <3> QED BY <1>4, <1>5, <2>2, <2>4, <2>5, <3>1, <3>2
  <2>6. ASSUME NEW err, S!E!Fail(err)
        PROVE  /\ ServerRecords' /\ ServerTypes' /\ Pipes'
               /\ ServerGoesOn /\ WireSame /\ UpKeeps /\ DownRests
    <3>1. Failed(seng, shs, seng', shs') /\ UNCHANGED <<sinrec, soutbuf, soutrec>>
      BY <2>6 DEF S!E!Fail, Failed
    <3>2. /\ Frame(seng', shs') /\ EndTypes(seng', shs', soutbuf)
          /\ shs'.pc = shs.pc /\ shs'.resuming = shs.resuming
      BY <1>1, <3>1, FailFits DEF ServerTypes
    <3>3. ServerRecords' /\ ServerTypes'
      BY <1>1, <3>1, <3>2 DEF ServerRecords, EndShape, ServerTypes
    <3>4. DownKeeps
      BY <2>1, <3>1, DownStands
    <3> QED BY <1>3, <1>4, <2>2, <2>4, <3>1, <3>2, <3>3, <3>4
  <2>7. CASE S!E!RecvBadRecord(rec)
    BY <1>2, <2>6, <2>7 DEF S!E!RecvBadRecord
  <2>8. CASE S!E!RecvHandshake(rec)
    BY <1>2, <2>5, <2>8, EngineWords DEF S!E!RecvHandshake, S!E!Jump, Called
  <2>9. CASE S!E!RecvData(rec)
    BY <1>2, <2>5, <2>6, <2>9 DEF S!E!RecvData, Called, S!E!engineVars
  <2> QED BY <1>2, <2>1, <2>7, <2>8, <2>9 DEF S!E!recvrec_ack
<1>9. CASE ServerWrites
  <2>1. /\ seng.application_data = 1 /\ S!E!Seal(Append(soutbuf, Data(1)))
        /\ UNCHANGED <<seng, shs, sinrec, toServer, toClient>>
    BY <1>9 DEF ServerWrites, S!E!SENDAPP, pipeVars
  <2>2. seng.record_type_out # "change_cipher_spec" /\ shs.pc # "write_CCS"
    BY <2>1 DEF ServerTypes, EndTypes, MayBeOpen, Gone
  <2>3. ServerTypes'
    BY <2>1, <2>2 DEF ServerTypes, EndTypes
  <2>4. Reads(sinrec, sinrec') /\ Outputs(seng, Data(1), soutrec, soutbuf, soutrec', soutbuf')
    BY <2>1, <2>2, ServerInputForms, ServerOutputForms
  <2> QED BY <1>2, <1>6, <2>1, <2>3, <2>4
<1>10. CASE ServerReads
  <2>1. S!E!DropInput /\ UNCHANGED <<seng, shs, soutbuf, soutrec, toServer, toClient>>
    BY <1>10 DEF ServerReads, S!E!recvapp_ack, pipeVars
  <2>2. ServerTypes'
    BY <2>1 DEF ServerTypes, EndTypes
  <2>3. Reads(sinrec, sinrec') /\ Outputs(seng, Data(1), soutrec, soutbuf, soutrec', soutbuf')
    BY <2>1, ServerInputForms, ServerOutputForms
  <2> QED BY <1>2, <1>6, <2>1, <2>2, <2>3
<1>11. CASE ServerCloses \/ ServerRenegotiates
  <2>1. UNCHANGED <<seng, sinrec, soutbuf, soutrec, toServer, toClient>>
    BY <1>11 DEF ServerCloses, ServerRenegotiates, S!server_renegotiate, S!E!engine_close,
       S!E!engine_renegotiate, pipeVars
  <2>2. Called(shs, soutrec', soutbuf', shs')
    BY <1>11, EngineWords DEF ServerCloses, ServerRenegotiates, S!server_renegotiate,
       S!E!engine_close, S!E!engine_renegotiate, S!E!Jump, Called
  <2>3. ServerRecords' /\ Pipes'
    BY <1>1, <1>5, <2>1, <2>2 DEF ServerRecords, EndShape, Pipes
  <2>4. UpKeeps /\ DownKeeps
    BY <2>1, UpRests, DownStands
  <2> QED BY <1>2, <1>4, <1>5, <2>1, <2>2, <2>3, <2>4
<1> QED BY <1>7, <1>8, <1>9, <1>10, <1>11

(* A new connection: nothing is left of the one before.                    *)
LEMMA EmptyPipes ==
  \A names : ~Along(<<>>, <<>>, <<>>, <<>>, names) /\ Once(<<>>, <<>>, <<>>, <<>>, names)
BY HoldsNothing DEF Along, Once

(* Nothing is under way.                                                   *)
Silent ==
  /\ ~HelloUp /\ ~ExchangeUp /\ ~CipherUp /\ ~FinishedUp
  /\ ~NewDown /\ ~ResumedDown /\ ~CipherDown /\ ~FinishedDown /\ ~FinishedArrives
  /\ OnceEach

(* Empty buffers hold no message.                                          *)
LEMMA EmptySilent ==
  ASSUME sinrec = NoRecord, inrec = NoRecord, outrec = NoRecord, soutrec = NoRecord,
         outbuf = <<>>, soutbuf = <<>>, toServer = <<>>, toClient = <<>>
  PROVE  Silent
BY EmptyPipes, MadeRecords DEF Silent, OnceEach, HelloUp, ExchangeUp, CipherUp, FinishedUp, NewDown,
   ResumedDown, CipherDown, FinishedDown, FinishedArrives, OneHello, OneExchange, OneCipherUp,
   OneFinishedUp, OneAnswer, OneCipherDown, OneFinishedDown, Up, Down, OnceUp, OnceDown

(* An end at the beginning of a connection.                                *)
Fresh(e, h) ==
  /\ DOMAIN e = DOMAIN FreshEngine /\ e.application_data = 0
  /\ e.record_type_out = "none" /\ e.out_epoch = 0
  /\ DOMAIN h = {"co", "pc", "action", "ate", "can_output", "cnr", "auth", "resuming"}
  /\ h.pc = "start"

(* A fresh end has the shape.                                              *)
LEMMA FreshFits ==
  ASSUME NEW e, NEW h, Fresh(e, h)
  PROVE  EndShape(e, h, NoRecord, <<>>, NoRecord) /\ EndTypes(e, h, <<>>)
<1>1. Frame(e, h) /\ EndTypes(e, h, <<>>)
  BY DEF Fresh, FreshEngine, Frame, EndTypes, RecordKinds, Types
<1> QED BY <1>1, MadeRecords DEF EndShape

(* Two ends at the beginning, with nothing under way.                      *)
LEMMA FreshFlow ==
  ASSUME Silent, hs.pc = "start", shs.pc = "start", Known, cli.id # 0 => eng.session
  PROVE  PairFlow
BY DEF Silent, PairFlow, InPair, OnUp, OnDown, Arrivals, Turns, Agree, Agreed, New, Res, ClientOpen,
   ClientFlight, ClientFinishing, ClientPlaces, Gone, ServerOpen, ServerAway, ServerRefusing, ServerNew,
   ServerVerifying, ServerTaken, ServerLast, ServerFirst, ServerWaiting

(* Of a client and a server: the invariant.                                *)
PairSafe == peer = "client" => PairShape /\ PairFlow

(* The first connection.                                                   *)
LEMMA InitSafe == PairInit => PairSafe
<1> SUFFICES ASSUME PairInit PROVE PairShape /\ PairFlow
  BY DEF PairSafe
<1>1. /\ sinrec = NoRecord /\ inrec = NoRecord /\ outrec = NoRecord /\ soutrec = NoRecord
      /\ outbuf = <<>> /\ soutbuf = <<>> /\ toServer = <<>> /\ toClient = <<>>
  BY EngineWords DEF PairInit, Begin, EngineInit, S!E!EngineInit
<1>2. Fresh(eng, hs) /\ Fresh(seng, shs) /\ eng.application_data = 0
  BY DEF PairInit, Begin, EngineInit, S!E!EngineInit, FreshEngine, S!E!FreshEngine, Fresh
<1>3. PairShape
  BY <1>1, <1>2, FreshFits DEF PairInit, Begin, PairShape, ClientShape, ClientTypes, ServerRecords,
     ServerTypes, Pipes
<1>4. Known /\ cli.id = 0
  BY <1>2 DEF PairInit, Begin, NoSession, Known, Fresh, New, ServerNew, ServerVerifying,
     ServerTaken,
     ServerLast, ClientFlight
<1>5. PairFlow
  BY <1>1, <1>2, <1>4, EmptySilent, FreshFlow DEF Fresh
<1> QED BY <1>3, <1>5

(* A connection after another: the client offers no session, its own or    *)
(* one that it has saved.                                                  *)
LEMMA ConnectSafe ==
  ASSUME ServerShape, PairShape, PairFlow, peer = "client", Connect
  PROVE  PairShape' /\ PairFlow'
<1>1. PICK offered \in {NoSession, [id |-> cli.id, secret |-> cli.secret], cli.saved} :
        /\ eng' = [FreshEngine EXCEPT !.session = (offered.id # 0)]
        /\ cli' = [cli EXCEPT !.id = offered.id, !.secret = offered.secret]
  BY DEF Connect
<1>2. /\ sinrec' = NoRecord /\ inrec' = NoRecord /\ outrec' = NoRecord /\ soutrec' = NoRecord
      /\ outbuf' = <<>> /\ soutbuf' = <<>> /\ toServer' = <<>> /\ toClient' = <<>>
      /\ wire' = wire
  BY EngineWords DEF Connect, S!server_reset, S!E!client_reset
<1>3. /\ hs' = [co |-> "running", pc |-> "start", action |-> 0, ate |-> FALSE,
               can_output |-> TRUE, cnr |-> FALSE, auth |-> FALSE, resuming |-> FALSE]
      /\ shs' = [co |-> "running", pc |-> "start", action |-> 0, ate |-> FALSE,
                can_output |-> TRUE, cnr |-> FALSE, auth |-> FALSE, resuming |-> FALSE]
      /\ seng' = FreshEngine
  BY DEF Connect, S!server_reset, S!E!client_reset, FreshEngine, S!E!FreshEngine
<1>4. Fresh(eng', hs') /\ Fresh(seng', shs') /\ eng'.session = (offered.id # 0)
  BY <1>1, <1>3 DEF Fresh, FreshEngine
<1>5. /\ svr'.id = svr.id /\ svr'.cache = svr.cache /\ svr'.next = svr.next
  BY DEF Connect, S!server_reset, ServerShape
<1>6. /\ DOMAIN cli' = DOMAIN cli /\ cli'.id = offered.id /\ cli'.secret = offered.secret
      /\ cli'.saved = cli.saved
  BY <1>1 DEF PairShape
<1>7. PairShape'
  BY <1>2, <1>4, <1>6, FreshFits DEF PairShape, ClientShape, ClientTypes, ServerRecords,
     ServerTypes,
     Pipes
<1>8. /\ offered.id \in Nat /\ offered.id < svr.next
      /\ offered.id \in DOMAIN svr.cache => offered.secret = svr.cache[offered.id]
  BY DEF PairFlow, Known, NoSession
<1>9. Silent'
  BY <1>2, EmptyPipes, MadeRecords DEF Silent, OnceEach, HelloUp, ExchangeUp, CipherUp, FinishedUp,
     NewDown, ResumedDown, CipherDown, FinishedDown, FinishedArrives, OneHello, OneExchange,
     OneCipherUp, OneFinishedUp, OneAnswer, OneCipherDown, OneFinishedDown, Up, Down, OnceUp, OnceDown
<1>10. Known'
  <2>1. hs'.pc = "start" /\ shs'.pc = "start" /\ eng'.application_data = 0
    BY <1>4 DEF Fresh
  <2>2. /\ hs'.pc \notin ClientFlight /\ ~New({"write_ServerHello"})'
        /\ ~New({"write_ServerHello"} \cup ServerNew \cup ServerVerifying \cup ServerTaken
                  \cup ServerLast)'
    BY <2>1 DEF New, ServerNew, ServerVerifying, ServerTaken, ServerLast, ClientFlight
  <2>3. ~NewDown'
    BY <1>9 DEF Silent
  <2> QED BY <1>5, <1>6, <1>8, <2>1, <2>2, <2>3 DEF PairFlow, Known
<1>11. hs'.pc = "start" /\ shs'.pc = "start" /\ (cli'.id # 0 => eng'.session)
  BY <1>4, <1>6 DEF Fresh
<1>12. PairFlow'
  BY <1>9, <1>10, <1>11 DEF Silent, PairFlow, InPair, OnUp, OnDown, Arrivals, Turns, Agree, Agreed,
     New, Res, ClientOpen, ClientFlight, ClientFinishing, ClientPlaces, Gone, ServerOpen, ServerAway,
     ServerRefusing, ServerNew, ServerVerifying, ServerTaken, ServerLast, ServerFirst, ServerWaiting
<1> QED BY <1>7, <1>12

(* The client's application saves the session.                             *)
LEMMA SavesSafe ==
  ASSUME PairShape, PairFlow, ClientSaves
  PROVE  PairShape' /\ PairFlow'
<1>1. /\ eng.application_data = 1
      /\ cli' = [cli EXCEPT !.saved = [id |-> cli.id, secret |-> cli.secret]]
      /\ UNCHANGED <<eng, hs, inrec, outbuf, outrec, seng, shs, sinrec, soutbuf, soutrec, svr, wire,
                     toServer, toClient>>
  BY DEF ClientSaves, clientVars, serverVars, pipeVars
<1>2. /\ DOMAIN cli' = DOMAIN cli /\ cli'.id = cli.id /\ cli'.secret = cli.secret
      /\ cli'.saved.id = cli.id /\ cli'.saved.secret = cli.secret
  BY <1>1 DEF PairShape
<1>3. PairShape'
  BY <1>1, <1>2 DEF PairShape, ClientShape, ClientTypes, ServerRecords, ServerTypes, EndShape,
     EndTypes,
     Frame, Pipes
<1>4. UpKeeps /\ DownKeeps
  BY <1>1, UpRests, DownStands
<1>5. OnceEach' /\ InPair' /\ OnUp' /\ OnDown' /\ Turns'
  BY <1>1, <1>4 DEF PairFlow, OnceEach, InPair, OnUp, OnDown, Turns, UpKeeps, DownKeeps, New, Res
<1>6. Arrivals'
  BY <1>1, <1>4, ArrivesDownNext DEF PairFlow, Arrivals, DownKeeps, New
<1>7. Agree'
  BY <1>1, <1>2, <1>4 DEF PairFlow, Agree, Agreed, UpKeeps, DownKeeps, New, Res
<1>8. Known'
  BY <1>1, <1>2, <1>4 DEF PairFlow, Known, UpKeeps, DownKeeps, New
<1> QED BY <1>3, <1>5, <1>6, <1>7, <1>8 DEF PairFlow

(* Every step keeps the invariant.                                         *)
LEMMA PairKeeps ==
  ASSUME ServerShape, PairShape, PairFlow, peer = "client", [PairNext]_pairVars
  PROVE  PairShape' /\ PairFlow'
<1>1. CASE ClientProcesses \/ ServerProcesses \/ ClientSaves \/ Connect
  BY <1>1, ClientTurn, ServerTurn, SavesSafe, ConnectSafe
<1>2. CASE \/ ClientActs(ClientSends) \/ ClientActs(ClientReceives) \/ ClientActs(ClientWrites)
           \/ ClientActs(ClientReads) \/ ClientActs(ClientCloses) \/ ClientActs(ClientRenegotiates)
  <2>1. /\ \/ ClientSends \/ ClientReceives \/ ClientWrites \/ ClientReads \/ ClientCloses
           \/ ClientRenegotiates
        /\ UNCHANGED <<seng, shs, sinrec, soutbuf, soutrec, svr, wire, cli>>
    BY <1>2 DEF ClientActs, serverVars
  <2>2. ClientShape' /\ ClientTypes' /\ Pipes' /\ ClientQuiet
    BY <2>1, ClientCalls DEF PairShape
  <2>3. ServerRecords' /\ ServerTypes'
    BY <2>1 DEF PairShape, ServerRecords, EndShape, Frame, ServerTypes, EndTypes
  <2> QED BY <2>1, <2>2, <2>3, ClientQuietKeeps DEF PairShape
<1>3. CASE \/ ServerActs(ServerSends) \/ ServerActs(ServerReceives) \/ ServerActs(ServerWrites)
           \/ ServerActs(ServerReads) \/ ServerActs(ServerCloses) \/ ServerActs(ServerRenegotiates)
  <2>1. /\ \/ ServerSends \/ ServerReceives \/ ServerWrites \/ ServerReads \/ ServerCloses
           \/ ServerRenegotiates
        /\ S!E!Idle /\ UNCHANGED <<eng, hs, inrec, outbuf, outrec, cli>>
    BY <1>3 DEF ServerActs, BothIdle, clientVars
  <2>2. /\ ServerRecords' /\ ServerTypes' /\ Pipes'
        /\ ServerGoesOn /\ WireSame /\ UpKeeps /\ DownRests /\ UNCHANGED wire
    BY <2>1, ServerCalls DEF PairShape, PairFlow
  <2>3. ClientShape' /\ ClientTypes'
    BY <2>1 DEF PairShape, ClientShape, EndShape, Frame, ClientTypes, EndTypes
  <2> QED BY <2>1, <2>2, <2>3, ServerQuietKeeps DEF PairShape
<1>4. CASE ServerActs(AnythingComes)
  BY <1>4 DEF ServerActs, AnythingComes
<1>5. CASE UNCHANGED pairVars
  <2>1. UNCHANGED <<eng, hs, inrec, outbuf, outrec, seng, shs, sinrec, soutbuf, soutrec, svr, wire,
                    toServer, toClient, cli>>
    BY <1>5 DEF pairVars, clientVars, serverVars, pipeVars
  <2>2. PairShape'
    BY <2>1 DEF PairShape, ClientShape, ClientTypes, ServerRecords, ServerTypes, EndShape, EndTypes,
       Frame, Pipes
  <2>3. UpKeeps /\ DownKeeps
    BY <2>1, UpRests, DownStands
  <2>4. ClientQuiet
    BY <2>1, <2>3 DEF ClientQuiet, ClientGoesOn, ClientSame, ClientPath, ClientOpens
  <2> QED BY <2>1, <2>2, <2>4, ClientQuietKeeps
<1> QED BY <1>1, <1>2, <1>3, <1>4, <1>5 DEF PairNext

(* When one end finds the Finished of the other, in a new session, a       *)
(* resumed one or after connections were lost at any point, both have the  *)
(* same session with the same secret.                                      *)
THEOREM FinishedAlwaysAgrees == PairSpec => []FinishedAgrees
<1>1. ServerInv /\ PairSafe /\ [PairNext]_pairVars => PairSafe'
  <2> SUFFICES ASSUME ServerInv, PairSafe, [PairNext]_pairVars, peer' = "client"
               PROVE  PairShape' /\ PairFlow'
    BY DEF PairSafe
  <2>1. peer' = peer
    BY DEF PairNext, ClientProcesses, ServerProcesses, ClientActs, ServerActs, ClientSaves, Connect,
       pairVars
  <2> QED BY <2>1, PairKeeps DEF PairSafe, ServerInv
<1>2. PairSafe => FinishedAgrees
  <2> SUFFICES ASSUME PairShape, PairFlow,
                      hs.pc = "read_Finished" \/ shs.pc = "read_Finished"
               PROVE  Agreed
    BY DEF PairSafe, FinishedAgrees, Running, S!E!Running, Agreed
  <2> QED BY DEF PairFlow, Agree, New, Res, ServerTaken, ServerWaiting
<1> QED BY <1>1, <1>2, InitSafe, ServerSafe, PTL DEF PairSpec

=============================================================================

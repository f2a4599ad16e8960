------------------------- MODULE SslClientProofs -------------------------
(***************************************************************************)
(* The safety of the engine with its client handshake processor, of what   *)
(* a client sends and of how it closes, proved for every value of the      *)
(* constants.                                                              *)
(*                                                                         *)
(* EngineInv, the first part, relates the handshake processor to the flags *)
(* and to the keys, for every peer, every fault of the link and every      *)
(* sequence of calls; from it follows that the engine implements the       *)
(* abstract session of TlsSession.  A lemma ...Keeps says that a step      *)
(* keeps EngineInv, a lemma ...Steps that it is a step of the session, or  *)
(* none.                                                                   *)
(*                                                                         *)
(* Six more invariants are proved on top of it:                            *)
(* ChannelInv, of the output buffer and the calls, for any peer; Held and  *)
(* Protected, of what is on the wire, for any peer; ClosureInv, of the two *)
(* close_notify, for an honest server; RouteInv, of what that server makes *)
(* of every record; Writes and Reads, of the order of the data in both     *)
(* directions.  The steps of the processor are first sorted by their       *)
(* effect on the output, and each invariant is proved for the effects.     *)
(***************************************************************************)
EXTENDS SslClientProps, TLAPS

(* Updating a field of the engine or of the coroutine keeps its type.      *)
LEMMA FlagUpdates ==
  ASSUME NEW e \in EngineFlags
  PROVE  /\ \A v \in BOOLEAN : [e EXCEPT !.closed = v] \in EngineFlags
         /\ \A v \in Errors : [e EXCEPT !.err = v] \in EngineFlags
         /\ \A v \in 0 .. 2 : [e EXCEPT !.application_data = v] \in EngineFlags
         /\ \A v \in Types \cup {"none"} : [e EXCEPT !.record_type_out = v] \in EngineFlags
         /\ \A v \in BOOLEAN : [e EXCEPT !.shutdown_recv = v] \in EngineFlags
         /\ \A v \in 0 .. 2 : [e EXCEPT !.reneg = v] \in EngineFlags
         /\ \A v \in BOOLEAN : [e EXCEPT !.session = v] \in EngineFlags
         /\ \A v \in Nat : [e EXCEPT !.in_epoch = v] \in EngineFlags
         /\ \A v \in Nat : [e EXCEPT !.out_epoch = v] \in EngineFlags
BY Zenon DEF EngineFlags

LEMMA CoroutineUpdates ==
  ASSUME NEW h \in Coroutines
  PROVE  /\ \A v \in {"idle", "resumed", "running"} : [h EXCEPT !.co = v] \in Coroutines
         /\ \A v \in Locations : [h EXCEPT !.pc = v] \in Coroutines
         /\ \A v \in 0 .. 2 : [h EXCEPT !.action = v] \in Coroutines
         /\ \A v \in BOOLEAN : /\ [h EXCEPT !.ate = v] \in Coroutines
                               /\ [h EXCEPT !.can_output = v] \in Coroutines
                               /\ [h EXCEPT !.cnr = v] \in Coroutines
                               /\ [h EXCEPT !.auth = v] \in Coroutines
                               /\ [h EXCEPT !.resuming = v] \in Coroutines
BY Zenon DEF Coroutines

(* The values the code assigns are in the types of the fields.             *)
LEMMA Constants ==
  /\ 0 \in 0 .. 2 /\ 1 \in 0 .. 2 /\ 2 \in 0 .. 2
  /\ Types \subseteq Types \cup {"none"}
  /\ {"handshake", "change_cipher_spec", "alert", "application_data"} \subseteq Types
  /\ {"OK", "IO", "UNEXPECTED", "BAD_MAC", "BAD_SECRENEG"} \cup Alerts \subseteq Errors
BY DEF Types, Errors, Alerts

(* Every group of locations is one of locations.                           *)
LEMMA LocationNames ==
  AtHello \cup Negotiating \cup ChangingKeys \cup InSession \cup {"close"} \cup Closing \subseteq Locations
BY DEF Locations

-----------------------------------------------------------------------------
(* What sealing and flushing leave behind.                                 *)

(* After a record is sealed, no message is left in the buffer.             *)
LEMMA SealLeavesData ==
  ASSUME NEW body \in Seq(Item), Seal(body), Items,
         OnlyData \/ (outrec = NoRecord /\ body # <<>>)
  PROVE  OnlyData' /\ outbuf' \in Seq(Item)
<1>1. CASE outrec = NoRecord /\ body # <<>>
  <2>1. outbuf' = <<>>
    BY <1>1 DEF Seal
  <2> QED BY <2>1 DEF OnlyData
<1>2. CASE ~(outrec = NoRecord /\ body # <<>>)
  <2>1. outbuf' = outbuf /\ OnlyData
    BY <1>2 DEF Seal
  <2> QED BY <2>1 DEF OnlyData, Items
<1> QED BY <1>1, <1>2

(* The same for the processor's flush of whatever is gathered: what it     *)
(* gathered itself is there only while it has the output buffer, and then  *)
(* no record is in the way.                                                *)
LEMMA FlushLeavesData ==
  ASSUME EngineInv, Seal(outbuf), OnlyData \/ hs.can_output, hs.co # "idle" \/ OnlyData
  PROVE  OnlyData' /\ outbuf' \in Seq(Item)
<1>1. OnlyData \/ (outrec = NoRecord /\ outbuf # <<>>)
  BY DEF EngineInv, Control, OnlyData
<1> QED BY <1>1, SealLeavesData DEF EngineInv, Items

(* Where the processor reads a handshake message.                          *)
LEMMA ReadingAt ==
  ASSUME Reading
  PROVE  hs.pc \in {"read_ServerHello", "read_Certificate", "read_ServerKeyExchange",
                    "read_ServerHelloDone", "read_Finished", "read_HelloRequest"}
BY DEF Reading, Expected

-----------------------------------------------------------------------------
(* The steps of the handshake processor, one by one.                       *)

(* br_ssl_engine_fail, wherever no message is gathered.                    *)
LEMMA FailKeeps ==
  ASSUME EngineInv, NEW err \in Errors, Fail(err), OnlyData, hs.pc # "close",
         UNCHANGED <<wrote, todo>>
  PROVE  EngineInv'
<1>1. hs.pc \in Locations
  BY LocationNames DEF EngineInv, EngineTypeOK, Coroutines
<1>2. EngineTypeOK'
  BY Zenon, <1>1, Constants, FlagUpdates, CoroutineUpdates DEF EngineInv, EngineTypeOK, Fail
<1> USE DEF EngineInv, EngineTypeOK, EngineFlags, Coroutines, Fail
<1>3. Gathered' /\ Items'
  BY <1>1 DEF Control, Gathered, OnlyData, Items
<1>4. Control'
  BY <1>1 DEF Control, Closing
<1>5. KeysMatch' /\ DataOff'
  BY <1>1 DEF KeysMatch, DataOff, FirstHandshake, Locations, AtHello, Negotiating,
       ChangingKeys, InSession, Closing
<1>6. FirstHandshake'
  BY <1>1 DEF KeysMatch, FirstHandshake, Locations, AtHello, Negotiating, ChangingKeys,
       InSession, Closing
<1> QED BY <1>2, <1>3, <1>4, <1>5, <1>6 DEF EngineInv

(* co: the coroutine suspends itself.                                      *)
LEMMA SuspendKeeps ==
  ASSUME EngineInv, NEW pc \in Locations, Suspend(pc), hs.co = "running", OnlyData,
         pc # "close", pc = hs.pc \/ (pc = "main" /\ hs.pc = "enter_main"),
         UNCHANGED <<wrote, todo>>
  PROVE  EngineInv'
<1>1. hs.pc \in Locations
  BY LocationNames DEF EngineInv, EngineTypeOK, Coroutines
<1>2. EngineTypeOK'
  BY Zenon, <1>1, Constants, FlagUpdates, CoroutineUpdates DEF EngineInv, EngineTypeOK,
       Suspend, OutputFree
<1> USE DEF EngineInv, EngineTypeOK, EngineFlags, Coroutines, Suspend, OutputFree
<1>3. Gathered' /\ Items'
  BY <1>1 DEF Control, Gathered, OnlyData, Items
<1>4. Control'
  BY <1>1 DEF Control, Closing
<1>5. KeysMatch' /\ DataOff'
  BY <1>1 DEF KeysMatch, DataOff, FirstHandshake, Locations, AtHello, Negotiating,
       ChangingKeys, InSession, Closing
<1>6. FirstHandshake'
  BY <1>1 DEF KeysMatch, FirstHandshake, Locations, AtHello, Negotiating, ChangingKeys,
       InSession, Closing
<1> QED BY <1>2, <1>3, <1>4, <1>5, <1>6 DEF EngineInv

(* wait-co: br_ssl_engine_close was called.                                *)
LEMMA CloseRequestedKeeps ==
  ASSUME EngineInv, hs.co = "resumed", hs.pc \notin Closing, CloseRequested,
         UNCHANGED <<wrote, todo>>
  PROVE  EngineInv'
<1>1. hs.pc \in Locations /\ {"close"} \subseteq Locations
  BY LocationNames DEF EngineInv, EngineTypeOK, Coroutines, Locations, AtHello, Negotiating,
       ChangingKeys, InSession, Closing
<1>2. EngineTypeOK'
  BY Zenon, <1>1, Constants, FlagUpdates, CoroutineUpdates DEF EngineInv, EngineTypeOK,
       CloseRequested
<1> USE DEF EngineInv, EngineTypeOK, EngineFlags, Coroutines, CloseRequested
<1>3. Gathered' /\ Items'
  BY <1>1 DEF Control, Gathered, OnlyData, Items
<1>4. Control'
  BY <1>1 DEF Control, Closing
<1>5. KeysMatch' /\ DataOff'
  BY <1>1 DEF KeysMatch, DataOff, FirstHandshake, Locations, AtHello, Negotiating,
       ChangingKeys, InSession, Closing
<1>6. FirstHandshake'
  BY <1>1 DEF KeysMatch, FirstHandshake, Locations, AtHello, Negotiating, ChangingKeys,
       InSession, Closing
<1> QED BY <1>2, <1>3, <1>4, <1>5, <1>6 DEF EngineInv

(* wait-co: nothing special happened.                                      *)
LEMMA ResumedKeeps ==
  ASSUME EngineInv, hs.co = "resumed", hs.pc \notin Closing, Resumed, UNCHANGED <<wrote, todo>>
  PROVE  EngineInv'
<1>1. hs.pc \in Locations
  BY LocationNames DEF EngineInv, EngineTypeOK, Coroutines
<1>2. EngineTypeOK'
  BY Zenon, <1>1, Constants, FlagUpdates, CoroutineUpdates DEF EngineInv, EngineTypeOK,
       Resumed, Goto
<1> USE DEF EngineInv, EngineTypeOK, EngineFlags, Coroutines, Resumed, Goto
<1>3. Gathered' /\ Items'
  BY <1>1 DEF Control, Gathered, OnlyData, Items
<1>4. Control'
  BY <1>1 DEF Control, Closing
<1>5. KeysMatch' /\ DataOff'
  BY <1>1 DEF KeysMatch, DataOff, FirstHandshake, Locations, AtHello, Negotiating,
       ChangingKeys, InSession, Closing
<1>6. FirstHandshake'
  BY <1>1 DEF KeysMatch, FirstHandshake, Locations, AtHello, Negotiating, ChangingKeys,
       InSession, Closing
<1> QED BY <1>2, <1>3, <1>4, <1>5, <1>6 DEF EngineInv

(* A handshake begins, at the start or from the main loop.                 *)
LEMMA StartHandshakeKeeps ==
  ASSUME EngineInv, StartHandshake, UNCHANGED <<wrote, todo>>
  PROVE  EngineInv'
<1>1. hs.pc \in Locations /\ {"write_ClientHello"} \subseteq Locations
  BY LocationNames DEF EngineInv, EngineTypeOK, Coroutines, Locations, AtHello, Negotiating,
       ChangingKeys, InSession, Closing
<1>2. EngineTypeOK'
  BY Zenon, <1>1, Constants, FlagUpdates, CoroutineUpdates DEF EngineInv, EngineTypeOK,
       StartHandshake, Running
<1> USE DEF EngineInv, EngineTypeOK, EngineFlags, Coroutines, StartHandshake, Running
<1>3. Gathered' /\ Items'
  BY <1>1 DEF Control, Gathered, OnlyData, Items
<1>4. Control'
  BY <1>1 DEF Control, Closing
<1>5. KeysMatch' /\ DataOff'
  BY <1>1 DEF KeysMatch, DataOff, FirstHandshake, Locations, AtHello, Negotiating,
       ChangingKeys, InSession, Closing
<1>6. FirstHandshake'
  BY <1>1 DEF KeysMatch, FirstHandshake, Locations, AtHello, Negotiating, ChangingKeys,
       InSession, Closing
<1> QED BY <1>2, <1>3, <1>4, <1>5, <1>6 DEF EngineInv

(* A HelloRequest in the middle of a handshake.                            *)
LEMMA SkipHelloRequestKeeps ==
  ASSUME EngineInv, SkipHelloRequest, UNCHANGED <<wrote, todo>>
  PROVE  EngineInv'
<1>1. hs.pc \in Locations
  BY LocationNames DEF EngineInv, EngineTypeOK, Coroutines
<1>2. EngineTypeOK'
  BY Zenon, <1>1, Constants, FlagUpdates, CoroutineUpdates DEF EngineInv, EngineTypeOK,
       SkipHelloRequest, Incoming, Reading, GotoAte, TakeInput
<1> USE DEF EngineInv, EngineTypeOK, EngineFlags, Coroutines, SkipHelloRequest, Incoming,
     Reading, GotoAte, TakeInput
<1>3. Gathered' /\ Items'
  BY <1>1 DEF Control, Gathered, OnlyData, Items
<1>4. Control'
  BY <1>1 DEF Control, Closing
<1>5. KeysMatch' /\ DataOff'
  BY <1>1 DEF KeysMatch, DataOff, FirstHandshake, Locations, AtHello, Negotiating,
       ChangingKeys, InSession, Closing
<1>6. FirstHandshake'
  BY <1>1 DEF KeysMatch, FirstHandshake, Locations, AtHello, Negotiating, ChangingKeys,
       InSession, Closing
<1> QED BY <1>2, <1>3, <1>4, <1>5, <1>6 DEF EngineInv

(* The server's flight.                                                    *)
LEMMA ReadCertificateKeeps ==
  ASSUME EngineInv, ReadCertificate, UNCHANGED <<wrote, todo>>
  PROVE  EngineInv'
<1>1. hs.pc \in Locations /\ {"read_ServerKeyExchange",
     "read_ServerHelloDone"} \subseteq Locations
  BY LocationNames DEF EngineInv, EngineTypeOK, Coroutines, Locations, AtHello, Negotiating,
       ChangingKeys, InSession, Closing
<1>2. EngineTypeOK'
  BY Zenon, <1>1, Constants, FlagUpdates, CoroutineUpdates DEF EngineInv, EngineTypeOK,
       ReadCertificate, Incoming, Reading, GotoAte, TakeInput
<1> USE DEF EngineInv, EngineTypeOK, EngineFlags, Coroutines, ReadCertificate, Incoming,
     Reading, GotoAte, TakeInput
<1>3. Gathered' /\ Items'
  BY <1>1 DEF Control, Gathered, OnlyData, Items
<1>4. Control'
  BY <1>1 DEF Control, Closing
<1>5. KeysMatch' /\ DataOff'
  BY <1>1 DEF KeysMatch, DataOff, FirstHandshake, Locations, AtHello, Negotiating,
       ChangingKeys, InSession, Closing
<1>6. FirstHandshake'
  BY <1>1 DEF KeysMatch, FirstHandshake, Locations, AtHello, Negotiating, ChangingKeys,
       InSession, Closing
<1> QED BY <1>2, <1>3, <1>4, <1>5, <1>6 DEF EngineInv

LEMMA ReadServerKeyExchangeKeeps ==
  ASSUME EngineInv, ReadServerKeyExchange, UNCHANGED <<wrote, todo>>
  PROVE  EngineInv'
<1>1. hs.pc \in Locations /\ {"read_ServerHelloDone"} \subseteq Locations
  BY LocationNames DEF EngineInv, EngineTypeOK, Coroutines, Locations, AtHello, Negotiating,
       ChangingKeys, InSession, Closing
<1>2. EngineTypeOK'
  BY Zenon, <1>1, Constants, FlagUpdates, CoroutineUpdates DEF EngineInv, EngineTypeOK,
       ReadServerKeyExchange, Incoming, Reading, GotoAte, TakeInput
<1> USE DEF EngineInv, EngineTypeOK, EngineFlags, Coroutines, ReadServerKeyExchange,
     Incoming, Reading, GotoAte, TakeInput
<1>3. Gathered' /\ Items'
  BY <1>1 DEF Control, Gathered, OnlyData, Items
<1>4. Control'
  BY <1>1 DEF Control, Closing
<1>5. KeysMatch' /\ DataOff'
  BY <1>1 DEF KeysMatch, DataOff, FirstHandshake, Locations, AtHello, Negotiating,
       ChangingKeys, InSession, Closing
<1>6. FirstHandshake'
  BY <1>1 DEF KeysMatch, FirstHandshake, Locations, AtHello, Negotiating, ChangingKeys,
       InSession, Closing
<1> QED BY <1>2, <1>3, <1>4, <1>5, <1>6 DEF EngineInv

LEMMA ReadCertificateRequestKeeps ==
  ASSUME EngineInv, ReadCertificateRequest, UNCHANGED <<wrote, todo>>
  PROVE  EngineInv'
<1>1. hs.pc \in Locations
  BY LocationNames DEF EngineInv, EngineTypeOK, Coroutines
<1>2. EngineTypeOK'
  BY Zenon, <1>1, Constants, FlagUpdates, CoroutineUpdates DEF EngineInv, EngineTypeOK,
       ReadCertificateRequest, Incoming, Reading, GotoAte, TakeInput
<1> USE DEF EngineInv, EngineTypeOK, EngineFlags, Coroutines, ReadCertificateRequest,
     Incoming, Reading, GotoAte, TakeInput
<1>3. Gathered' /\ Items'
  BY <1>1 DEF Control, Gathered, OnlyData, Items
<1>4. Control'
  BY <1>1 DEF Control, Closing
<1>5. KeysMatch' /\ DataOff'
  BY <1>1 DEF KeysMatch, DataOff, FirstHandshake, Locations, AtHello, Negotiating,
       ChangingKeys, InSession, Closing
<1>6. FirstHandshake'
  BY <1>1 DEF KeysMatch, FirstHandshake, Locations, AtHello, Negotiating, ChangingKeys,
       InSession, Closing
<1> QED BY <1>2, <1>3, <1>4, <1>5, <1>6 DEF EngineInv

LEMMA ReadServerHelloDoneKeeps ==
  ASSUME EngineInv, ReadServerHelloDone, Len(inrec.body) = 1, UNCHANGED <<wrote, todo>>
  PROVE  EngineInv'
<1>1. /\ hs.co = "running" /\ hs.pc = "read_ServerHelloDone"
      /\ hs' = [hs EXCEPT !.co = "running",
                        !.pc = IF hs.auth THEN "write_Certificate" ELSE "write_ClientKeyExchange",
                        !.ate = TRUE]
      /\ UNCHANGED <<eng, outbuf, outrec>>
  BY DEF ReadServerHelloDone, Incoming, Reading, GotoAte, TakeInput
<1>2. hs.pc \in Locations /\ {"write_Certificate",
     "write_ClientKeyExchange"} \subseteq Locations
  BY <1>1, LocationNames DEF EngineInv, EngineTypeOK, Coroutines, Locations, AtHello,
       Negotiating, ChangingKeys, InSession, Closing
<1>3. EngineTypeOK'
  BY Zenon, <1>1, <1>2, Constants, FlagUpdates, CoroutineUpdates DEF EngineInv, EngineTypeOK,
       Record, NoRecord
<1> USE DEF EngineInv, EngineTypeOK, EngineFlags, Coroutines, Record, NoRecord
<1>4. Gathered' /\ Items'
  BY <1>1, <1>2 DEF Control, Gathered, OnlyData, Items
<1>5. Control'
  BY <1>1, <1>2 DEF Control, Closing
<1>6. KeysMatch' /\ DataOff'
  BY <1>1, <1>2 DEF KeysMatch, DataOff, FirstHandshake, Locations, AtHello, Negotiating,
       ChangingKeys, InSession, Closing
<1>7. FirstHandshake'
  BY <1>1, <1>2 DEF KeysMatch, FirstHandshake, Locations, AtHello, Negotiating, ChangingKeys,
       InSession, Closing
<1> QED BY <1>3, <1>4, <1>5, <1>6, <1>7 DEF EngineInv

(* The Finished of the server: the keys of both directions agree, except   *)
(* in an abbreviated handshake, where ours are still to be changed.        *)
LEMMA ReadFinishedKeeps ==
  ASSUME EngineInv, ReadFinished, UNCHANGED <<wrote, todo>>
  PROVE  EngineInv'
<1>1. hs.pc \in Locations /\ {"flush", "done"} \subseteq Locations
  BY LocationNames DEF EngineInv, EngineTypeOK, Coroutines, Locations, AtHello, Negotiating,
       ChangingKeys, InSession, Closing
<1>2. EngineTypeOK'
  BY Zenon, <1>1, Constants, FlagUpdates, CoroutineUpdates DEF EngineInv, EngineTypeOK,
       ReadFinished, Incoming, Reading, GotoAte, TakeInput
<1> USE DEF EngineInv, EngineTypeOK, EngineFlags, Coroutines, ReadFinished, Incoming,
     Reading, GotoAte, TakeInput
<1>3. Gathered' /\ Items'
  BY <1>1 DEF Control, Gathered, OnlyData, Items
<1>4. Control'
  BY <1>1 DEF Control, Closing
<1>5. KeysMatch' /\ DataOff'
  BY <1>1 DEF KeysMatch, DataOff, FirstHandshake, Locations, AtHello, Negotiating,
       ChangingKeys, InSession, Closing
<1>6. FirstHandshake'
  BY <1>1 DEF KeysMatch, FirstHandshake, Locations, AtHello, Negotiating, ChangingKeys,
       InSession, Closing
<1> QED BY <1>2, <1>3, <1>4, <1>5, <1>6 DEF EngineInv

(* A HelloRequest outside of a handshake: a server without RFC 5746 only   *)
(* gets declined.                                                          *)
LEMMA ReadHelloRequestKeeps ==
  ASSUME EngineInv, ReadHelloRequest, UNCHANGED <<wrote, todo>>
  PROVE  EngineInv'
<1>1. hs.pc \in Locations /\ {"decline", "start"} \subseteq Locations
  BY LocationNames DEF EngineInv, EngineTypeOK, Coroutines, Locations, AtHello, Negotiating,
       ChangingKeys, InSession, Closing
<1>2. EngineTypeOK'
  BY Zenon, <1>1, Constants, FlagUpdates, CoroutineUpdates DEF EngineInv, EngineTypeOK,
       ReadHelloRequest, Incoming, Reading, GotoAte, TakeInput
<1> USE DEF EngineInv, EngineTypeOK, EngineFlags, Coroutines, ReadHelloRequest, Incoming,
     Reading, GotoAte, TakeInput
<1>3. Gathered' /\ Items'
  BY <1>1 DEF Control, Gathered, OnlyData, Items
<1>4. Control'
  BY <1>1 DEF Control, Closing
<1>5. KeysMatch' /\ DataOff'
  BY <1>1 DEF KeysMatch, DataOff, FirstHandshake, Locations, AtHello, Negotiating,
       ChangingKeys, InSession, Closing
<1>6. FirstHandshake'
  BY <1>1 DEF KeysMatch, FirstHandshake, Locations, AtHello, Negotiating, ChangingKeys,
       InSession, Closing
<1> QED BY <1>2, <1>3, <1>4, <1>5, <1>6 DEF EngineInv

(* The last flight is flushed before the ChangeCipherSpec.                 *)
LEMMA FlushFlightKeeps ==
  ASSUME EngineInv, FlushFlight, UNCHANGED <<wrote, todo>>
  PROVE  EngineInv'
<1>1. hs.pc \in Locations /\ {"write_CCS"} \subseteq Locations
  BY LocationNames DEF EngineInv, EngineTypeOK, Coroutines, Locations, AtHello, Negotiating,
       ChangingKeys, InSession, Closing
<1>2. EngineTypeOK'
  BY Zenon, <1>1, Constants, FlagUpdates, CoroutineUpdates DEF EngineInv, EngineTypeOK,
       FlushFlight, Running
<1> USE DEF EngineInv, EngineTypeOK, EngineFlags, Coroutines, FlushFlight, Running
<1>3. OnlyData' /\ outbuf' \in Seq(Item)
  BY FlushLeavesData DEF Gathered
<1>4. Gathered' /\ Items'
  BY <1>3 DEF Gathered, Items
<1>5. Control'
  BY <1>1 DEF Control, Closing
<1>6. KeysMatch' /\ DataOff'
  BY <1>1 DEF KeysMatch, DataOff, FirstHandshake, Locations, AtHello, Negotiating,
       ChangingKeys, InSession, Closing
<1>7. FirstHandshake'
  BY <1>1 DEF KeysMatch, FirstHandshake, Locations, AtHello, Negotiating, ChangingKeys,
       InSession, Closing
<1> QED BY <1>2, <1>4, <1>5, <1>6, <1>7 DEF EngineInv

(* The handshake is over.                                                  *)
LEMMA HandshakeDoneKeeps ==
  ASSUME EngineInv, HandshakeDone, UNCHANGED <<wrote, todo>>
  PROVE  EngineInv'
<1>1. hs.pc \in Locations /\ {"enter_main"} \subseteq Locations
  BY LocationNames DEF EngineInv, EngineTypeOK, Coroutines, Locations, AtHello, Negotiating,
       ChangingKeys, InSession, Closing
<1>2. EngineTypeOK'
  BY Zenon, <1>1, Constants, FlagUpdates, CoroutineUpdates DEF EngineInv, EngineTypeOK,
       HandshakeDone, Running, OpenChannel, Goto
<1> USE DEF EngineInv, EngineTypeOK, EngineFlags, Coroutines, HandshakeDone, Running,
     OpenChannel, Goto
<1>3. Gathered' /\ Items'
  BY <1>1 DEF Control, Gathered, OnlyData, Items
<1>4. Control'
  BY <1>1 DEF Control, Closing
<1>5. KeysMatch' /\ DataOff'
  BY <1>1 DEF KeysMatch, DataOff, FirstHandshake, Locations, AtHello, Negotiating,
       ChangingKeys, InSession, Closing
<1>6. FirstHandshake'
  BY <1>1 DEF KeysMatch, FirstHandshake, Locations, AtHello, Negotiating, ChangingKeys,
       InSession, Closing
<1> QED BY <1>2, <1>3, <1>4, <1>5, <1>6 DEF EngineInv

(* The refusal of a HelloRequest, first half.                              *)
LEMMA DeclineKeeps ==
  ASSUME EngineInv, Decline, UNCHANGED <<wrote, todo>>
  PROVE  EngineInv'
<1>1. hs.pc \in Locations /\ {"write_no_renegotiation"} \subseteq Locations
  BY LocationNames DEF EngineInv, EngineTypeOK, Coroutines, Locations, AtHello, Negotiating,
       ChangingKeys, InSession, Closing
<1>2. EngineTypeOK'
  BY Zenon, <1>1, Constants, FlagUpdates, CoroutineUpdates DEF EngineInv, EngineTypeOK,
       Decline, Running
<1> USE DEF EngineInv, EngineTypeOK, EngineFlags, Coroutines, Decline, Running
<1>3. OnlyData' /\ outbuf' \in Seq(Item)
  BY FlushLeavesData DEF Gathered
<1>4. Gathered' /\ Items'
  BY <1>3 DEF Gathered, Items
<1>5. Control'
  BY <1>1 DEF Control, Closing
<1>6. KeysMatch' /\ DataOff'
  BY <1>1 DEF KeysMatch, DataOff, FirstHandshake, Locations, AtHello, Negotiating,
       ChangingKeys, InSession, Closing
<1>7. FirstHandshake'
  BY <1>1 DEF KeysMatch, FirstHandshake, Locations, AtHello, Negotiating, ChangingKeys,
       InSession, Closing
<1> QED BY <1>2, <1>4, <1>5, <1>6, <1>7 DEF EngineInv

(* do-close: the flag of application data is doubled, and stays in range   *)
(* because it is 2 only during closure.                                    *)
LEMMA StartCloseKeeps ==
  ASSUME EngineInv, StartClose, UNCHANGED <<wrote, todo>>
  PROVE  EngineInv'
<1>1. hs.pc \in Locations /\ {"close_out"} \subseteq Locations
  BY LocationNames DEF EngineInv, EngineTypeOK, Coroutines, Locations, AtHello, Negotiating,
       ChangingKeys, InSession, Closing
<1>2. EngineTypeOK'
  <2>1. 2 * eng.application_data \in 0 .. 2
    BY DEF EngineInv, EngineTypeOK, EngineFlags, StartClose, Running, DataOff, Closing
  <2> QED BY Zenon, <1>1, <2>1, Constants, FlagUpdates, CoroutineUpdates DEF EngineInv,
       EngineTypeOK, StartClose, Running
<1> USE DEF EngineInv, EngineTypeOK, EngineFlags, Coroutines, StartClose, Running
<1>3. OnlyData' /\ outbuf' \in Seq(Item)
  BY FlushLeavesData DEF Gathered
<1>4. Gathered' /\ Items'
  BY <1>3 DEF Gathered, Items
<1>5. Control'
  BY <1>1 DEF Control, Closing
<1>6. KeysMatch' /\ DataOff'
  BY <1>1 DEF KeysMatch, DataOff, FirstHandshake, Locations, AtHello, Negotiating,
       ChangingKeys, InSession, Closing
<1>7. FirstHandshake'
  BY <1>1 DEF KeysMatch, FirstHandshake, Locations, AtHello, Negotiating, ChangingKeys,
       InSession, Closing
<1> QED BY <1>2, <1>4, <1>5, <1>6, <1>7 DEF EngineInv

(* The records the processor sends on their own.                           *)
LEMMA WriteClientHelloKeeps ==
  ASSUME EngineInv, WriteClientHello, hs.can_output, UNCHANGED <<wrote, todo>>
  PROVE  EngineInv'
<1>1. hs.pc \in Locations /\ {"read_ServerHello"} \subseteq Locations
  BY LocationNames DEF EngineInv, EngineTypeOK, Coroutines, Locations, AtHello, Negotiating,
       ChangingKeys, InSession, Closing
<1>2. EngineTypeOK'
  BY Zenon, <1>1, Constants, FlagUpdates, CoroutineUpdates DEF EngineInv, EngineTypeOK,
       WriteClientHello, Running, Emit
<1> USE DEF EngineInv, EngineTypeOK, EngineFlags, Coroutines, WriteClientHello, Running, Emit
<1>3. Gathered' /\ Items'
  BY <1>1 DEF Control, Gathered, OnlyData, Items
<1>4. Control'
  BY <1>1 DEF Control, Closing
<1>5. KeysMatch' /\ DataOff'
  BY <1>1 DEF KeysMatch, DataOff, FirstHandshake, Locations, AtHello, Negotiating,
       ChangingKeys, InSession, Closing
<1>6. FirstHandshake'
  BY <1>1 DEF KeysMatch, FirstHandshake, Locations, AtHello, Negotiating, ChangingKeys,
       InSession, Closing
<1> QED BY <1>2, <1>3, <1>4, <1>5, <1>6 DEF EngineInv

(* Output switches to the new keys.                                        *)
LEMMA WriteCCSKeeps ==
  ASSUME EngineInv, WriteCCS, hs.can_output, UNCHANGED <<wrote, todo>>
  PROVE  EngineInv'
<1>1. /\ hs.co = "running" /\ hs.pc = "write_CCS"
      /\ eng' = [eng EXCEPT !.record_type_out = "change_cipher_spec", !.out_epoch = @ + 1]
      /\ hs' = [hs EXCEPT !.pc = "write_Finished", !.can_output = FALSE]
      /\ UNCHANGED outbuf
  BY DEF WriteCCS, Running, OpenChannel, Emit
<1>2. hs.pc \in Locations /\ {"write_Finished"} \subseteq Locations
  BY <1>1, LocationNames DEF EngineInv, EngineTypeOK, Coroutines, Locations, AtHello,
       Negotiating, ChangingKeys, InSession, Closing
<1>3. EngineTypeOK'
  <2>1. eng.out_epoch + 1 \in Nat
    BY DEF EngineInv, EngineTypeOK, EngineFlags
  <2> QED BY Zenon, <1>1, <1>2, <2>1, Constants, FlagUpdates, CoroutineUpdates DEF EngineInv,
       EngineTypeOK
<1> USE DEF EngineInv, EngineTypeOK, EngineFlags, Coroutines, Record, NoRecord
<1>4. Gathered' /\ Items'
  BY <1>1, <1>2 DEF Control, Gathered, OnlyData, Items
<1>5. Control'
  BY <1>1, <1>2 DEF Control, Closing
<1>6. KeysMatch' /\ DataOff'
  BY <1>1, <1>2 DEF KeysMatch, DataOff, FirstHandshake, Locations, AtHello, Negotiating,
       ChangingKeys, InSession, Closing
<1>7. FirstHandshake'
  BY <1>1, <1>2 DEF KeysMatch, FirstHandshake, Locations, AtHello, Negotiating, ChangingKeys,
       InSession, Closing
<1> QED BY <1>3, <1>4, <1>5, <1>6, <1>7 DEF EngineInv

LEMMA WriteFinishedKeeps ==
  ASSUME EngineInv, WriteFinished, hs.can_output, UNCHANGED <<wrote, todo>>
  PROVE  EngineInv'
<1>1. /\ hs.co = "running" /\ hs.pc = "write_Finished"
      /\ eng' = [eng EXCEPT !.record_type_out = "handshake"]
      /\ hs' = [hs EXCEPT !.pc = IF hs.resuming THEN "done" ELSE "read_CCS",
           !.can_output = FALSE]
      /\ UNCHANGED outbuf
  BY DEF WriteFinished, Running, OpenChannel, Emit
<1>2. hs.pc \in Locations /\ {"done", "read_CCS"} \subseteq Locations
  BY <1>1, LocationNames DEF EngineInv, EngineTypeOK, Coroutines, Locations, AtHello,
       Negotiating, ChangingKeys, InSession, Closing
<1>3. EngineTypeOK'
  BY Zenon, <1>1, <1>2, Constants, FlagUpdates, CoroutineUpdates DEF EngineInv, EngineTypeOK,
       Record, NoRecord
<1> USE DEF EngineInv, EngineTypeOK, EngineFlags, Coroutines, Record, NoRecord
<1>4. Gathered' /\ Items'
  BY <1>1, <1>2 DEF Control, Gathered, OnlyData, Items
<1>5. Control'
  BY <1>1, <1>2 DEF Control, Closing
<1>6. KeysMatch' /\ DataOff'
  BY <1>1, <1>2 DEF KeysMatch, DataOff, FirstHandshake, Locations, AtHello, Negotiating,
       ChangingKeys, InSession, Closing
<1>7. FirstHandshake'
  BY <1>1, <1>2 DEF KeysMatch, FirstHandshake, Locations, AtHello, Negotiating, ChangingKeys,
       InSession, Closing
<1> QED BY <1>3, <1>4, <1>5, <1>6, <1>7 DEF EngineInv

LEMMA WriteNoRenegotiationKeeps ==
  ASSUME EngineInv, WriteNoRenegotiation, hs.can_output, UNCHANGED <<wrote, todo>>
  PROVE  EngineInv'
<1>1. /\ hs.co = "running" /\ hs.pc = "write_no_renegotiation"
      /\ eng' = [eng EXCEPT !.application_data = 1, !.record_type_out = "application_data"]
      /\ hs' = [hs EXCEPT !.pc = "enter_main", !.can_output = FALSE]
      /\ UNCHANGED outbuf
  BY DEF WriteNoRenegotiation, Running, OpenChannel, Emit
<1>2. hs.pc \in Locations /\ {"enter_main"} \subseteq Locations
  BY <1>1, LocationNames DEF EngineInv, EngineTypeOK, Coroutines, Locations, AtHello,
       Negotiating, ChangingKeys, InSession, Closing
<1>3. EngineTypeOK'
  BY Zenon, <1>1, <1>2, Constants, FlagUpdates, CoroutineUpdates DEF EngineInv, EngineTypeOK,
       Record, NoRecord
<1> USE DEF EngineInv, EngineTypeOK, EngineFlags, Coroutines, Record, NoRecord
<1>4. Gathered' /\ Items'
  BY <1>1, <1>2 DEF Control, Gathered, OnlyData, Items
<1>5. Control'
  BY <1>1, <1>2 DEF Control, Closing
<1>6. KeysMatch' /\ DataOff'
  BY <1>1, <1>2 DEF KeysMatch, DataOff, FirstHandshake, Locations, AtHello, Negotiating,
       ChangingKeys, InSession, Closing
<1>7. FirstHandshake'
  BY <1>1, <1>2 DEF KeysMatch, FirstHandshake, Locations, AtHello, Negotiating, ChangingKeys,
       InSession, Closing
<1> QED BY <1>3, <1>4, <1>5, <1>6, <1>7 DEF EngineInv

LEMMA WriteCloseNotifyKeeps ==
  ASSUME EngineInv, WriteCloseNotify, hs.can_output, UNCHANGED <<wrote, todo>>
  PROVE  EngineInv'
<1>1. /\ hs.co = "running" /\ hs.pc = "close_out"
      /\ eng' = [eng EXCEPT !.record_type_out = "alert"]
      /\ hs' = [hs EXCEPT !.pc = "close_wait", !.can_output = FALSE]
      /\ UNCHANGED outbuf
  BY DEF WriteCloseNotify, Running, OpenChannel, Emit
<1>2. hs.pc \in Locations /\ {"close_wait"} \subseteq Locations
  BY <1>1, LocationNames DEF EngineInv, EngineTypeOK, Coroutines, Locations, AtHello,
       Negotiating, ChangingKeys, InSession, Closing
<1>3. EngineTypeOK'
  BY Zenon, <1>1, <1>2, Constants, FlagUpdates, CoroutineUpdates DEF EngineInv, EngineTypeOK,
       Record, NoRecord
<1> USE DEF EngineInv, EngineTypeOK, EngineFlags, Coroutines, Record, NoRecord
<1>4. Gathered' /\ Items'
  BY <1>1, <1>2 DEF Control, Gathered, OnlyData, Items
<1>5. Control'
  BY <1>1, <1>2 DEF Control, Closing
<1>6. KeysMatch' /\ DataOff'
  BY <1>1, <1>2 DEF KeysMatch, DataOff, FirstHandshake, Locations, AtHello, Negotiating,
       ChangingKeys, InSession, Closing
<1>7. FirstHandshake'
  BY <1>1, <1>2 DEF KeysMatch, FirstHandshake, Locations, AtHello, Negotiating, ChangingKeys,
       InSession, Closing
<1> QED BY <1>3, <1>4, <1>5, <1>6, <1>7 DEF EngineInv

(* A close_notify of the peer.                                             *)
LEMMA CloseNotifyKeeps ==
  ASSUME EngineInv, hs.co = "resumed", hs.pc \notin Closing, AlertReceived,
         Head(inrec.body).msg = "close_notify", UNCHANGED <<wrote, todo>>
  PROVE  EngineInv'
<1>1. /\ eng' = [eng EXCEPT !.shutdown_recv = TRUE]
      /\ hs' = [hs EXCEPT !.co = "running", !.pc = "close", !.cnr = TRUE, !.ate = TRUE]
      /\ UNCHANGED <<outbuf, outrec>>
  BY DEF AlertReceived, Closing
<1>2. hs.pc \in Locations /\ {"close"} \subseteq Locations
  BY <1>1, LocationNames DEF EngineInv, EngineTypeOK, Coroutines, Locations, AtHello,
       Negotiating, ChangingKeys, InSession, Closing
<1>3. EngineTypeOK'
  BY Zenon, <1>1, <1>2, Constants, FlagUpdates, CoroutineUpdates DEF EngineInv, EngineTypeOK,
       Record, NoRecord
<1> USE DEF EngineInv, EngineTypeOK, EngineFlags, Coroutines, Record, NoRecord
<1>4. Gathered' /\ Items'
  BY <1>1, <1>2 DEF Control, Gathered, OnlyData, Items
<1>5. Control'
  BY <1>1, <1>2 DEF Control, Closing
<1>6. KeysMatch' /\ DataOff'
  BY <1>1, <1>2 DEF KeysMatch, DataOff, FirstHandshake, Locations, AtHello, Negotiating,
       ChangingKeys, InSession, Closing
<1>7. FirstHandshake'
  BY <1>1, <1>2 DEF KeysMatch, FirstHandshake, Locations, AtHello, Negotiating, ChangingKeys,
       InSession, Closing
<1> QED BY <1>3, <1>4, <1>5, <1>6, <1>7 DEF EngineInv

(* A warning is skipped.                                                   *)
LEMMA WarningKeeps ==
  ASSUME EngineInv, hs.co = "resumed", hs.pc \notin Closing, AlertReceived,
         Head(inrec.body).msg = "warning", UNCHANGED <<wrote, todo>>
  PROVE  EngineInv'
<1>1. /\ hs' = [hs EXCEPT !.co = "running", !.pc = hs.pc, !.ate = TRUE]
      /\ UNCHANGED <<eng, outbuf, outrec>>
  BY DEF AlertReceived, GotoAte
<1>2. hs.pc \in Locations
  BY <1>1, LocationNames DEF EngineInv, EngineTypeOK, Coroutines
<1>3. EngineTypeOK'
  BY Zenon, <1>1, <1>2, Constants, FlagUpdates, CoroutineUpdates DEF EngineInv, EngineTypeOK,
       Record, NoRecord
<1> USE DEF EngineInv, EngineTypeOK, EngineFlags, Coroutines, Record, NoRecord
<1>4. Gathered' /\ Items'
  BY <1>1, <1>2 DEF Control, Gathered, OnlyData, Items
<1>5. Control'
  BY <1>1, <1>2 DEF Control, Closing
<1>6. KeysMatch' /\ DataOff'
  BY <1>1, <1>2 DEF KeysMatch, DataOff, FirstHandshake, Locations, AtHello, Negotiating,
       ChangingKeys, InSession, Closing
<1>7. FirstHandshake'
  BY <1>1, <1>2 DEF KeysMatch, FirstHandshake, Locations, AtHello, Negotiating, ChangingKeys,
       InSession, Closing
<1> QED BY <1>3, <1>4, <1>5, <1>6, <1>7 DEF EngineInv

(* The main loop sees a handshake message.                                 *)
LEMMA MainReadsKeeps ==
  ASSUME EngineInv, Main, HasInput, inrec.type = "handshake", UNCHANGED <<wrote, todo>>
  PROVE  EngineInv'
<1>1. /\ hs.co = "running" /\ hs.pc = "main"
      /\ eng' = [eng EXCEPT !.application_data = 0]
      /\ hs' = [hs EXCEPT !.co = "running", !.pc = "read_HelloRequest"]
      /\ UNCHANGED <<outbuf, outrec>>
  BY DEF Main, Running, Goto
<1>2. hs.pc \in Locations /\ {"read_HelloRequest"} \subseteq Locations
  BY <1>1, LocationNames DEF EngineInv, EngineTypeOK, Coroutines, Locations, AtHello,
       Negotiating, ChangingKeys, InSession, Closing
<1>3. EngineTypeOK'
  BY Zenon, <1>1, <1>2, Constants, FlagUpdates, CoroutineUpdates DEF EngineInv, EngineTypeOK,
       Record, NoRecord
<1> USE DEF EngineInv, EngineTypeOK, EngineFlags, Coroutines, Record, NoRecord
<1>4. Gathered' /\ Items'
  BY <1>1, <1>2 DEF Control, Gathered, OnlyData, Items
<1>5. Control'
  BY <1>1, <1>2 DEF Control, Closing
<1>6. KeysMatch' /\ DataOff'
  BY <1>1, <1>2 DEF KeysMatch, DataOff, FirstHandshake, Locations, AtHello, Negotiating,
       ChangingKeys, InSession, Closing
<1>7. FirstHandshake'
  BY <1>1, <1>2 DEF KeysMatch, FirstHandshake, Locations, AtHello, Negotiating, ChangingKeys,
       InSession, Closing
<1> QED BY <1>3, <1>4, <1>5, <1>6, <1>7 DEF EngineInv

(* The main loop is told to renegotiate: br_ssl_engine_renegotiate refuses *)
(* that for a server without RFC 5746.                                     *)
LEMMA MainStartsKeeps ==
  ASSUME EngineInv, Main, ~HasInput, hs.action = 2 /\ eng.application_data = 1,
         UNCHANGED <<wrote, todo>>
  PROVE  EngineInv'
<1>1. /\ hs.co = "running" /\ hs.pc = "main"
      /\ hs' = [hs EXCEPT !.co = "running", !.pc = "start"]
      /\ UNCHANGED <<eng, outbuf, outrec>>
  BY DEF Main, Running, Goto
<1>2. hs.pc \in Locations /\ {"start"} \subseteq Locations
  BY <1>1, LocationNames DEF EngineInv, EngineTypeOK, Coroutines, Locations, AtHello,
       Negotiating, ChangingKeys, InSession, Closing
<1>3. EngineTypeOK'
  BY Zenon, <1>1, <1>2, Constants, FlagUpdates, CoroutineUpdates DEF EngineInv, EngineTypeOK,
       Record, NoRecord
<1> USE DEF EngineInv, EngineTypeOK, EngineFlags, Coroutines, Record, NoRecord
<1>4. Gathered' /\ Items'
  BY <1>1, <1>2 DEF Control, Gathered, OnlyData, Items
<1>5. Control'
  BY <1>1, <1>2 DEF Control, Closing
<1>6. KeysMatch' /\ DataOff'
  BY <1>1, <1>2 DEF KeysMatch, DataOff, FirstHandshake, Locations, AtHello, Negotiating,
       ChangingKeys, InSession, Closing
<1>7. FirstHandshake'
  BY <1>1, <1>2 DEF KeysMatch, FirstHandshake, Locations, AtHello, Negotiating, ChangingKeys,
       InSession, Closing
<1> QED BY <1>3, <1>4, <1>5, <1>6, <1>7 DEF EngineInv

(* A ServerHello that is accepted: in a first handshake it settles whether *)
(* renegotiation is secure, and a renegotiation must agree with that.      *)
LEMMA ReadServerHelloKeeps ==
  ASSUME EngineInv, NEW ri \in BOOLEAN, NEW resumes \in BOOLEAN, hs.co = "running",
       hs.pc = "read_ServerHello",
         eng.reneg = 0 \/ ri = (eng.reneg = 2), resumes => eng.session,
         eng' = [eng EXCEPT !.session = TRUE, !.reneg = IF ri THEN 2 ELSE 1],
         hs' = [hs EXCEPT !.resuming = resumes, !.ate = TRUE,
                   !.pc = IF resumes THEN "read_CCS" ELSE "read_Certificate"],
         UNCHANGED <<outbuf, outrec>>, UNCHANGED <<wrote, todo>>
  PROVE  EngineInv'
<1>1. hs.pc \in Locations /\ {"read_CCS", "read_Certificate"} \subseteq Locations
  BY LocationNames DEF EngineInv, EngineTypeOK, Coroutines, Locations, AtHello, Negotiating,
       ChangingKeys, InSession, Closing
<1>2. EngineTypeOK'
  BY Zenon, <1>1, Constants, FlagUpdates, CoroutineUpdates DEF EngineInv, EngineTypeOK, Record
<1> USE DEF EngineInv, EngineTypeOK, EngineFlags, Coroutines, Record
<1>3. Gathered' /\ Items'
  BY <1>1 DEF Control, Gathered, OnlyData, Items
<1>4. Control'
  BY <1>1 DEF Control, Closing
<1>5. KeysMatch' /\ DataOff'
  BY <1>1 DEF KeysMatch, DataOff, FirstHandshake, Locations, AtHello, Negotiating,
       ChangingKeys, InSession, Closing
<1>6. FirstHandshake'
  BY <1>1 DEF KeysMatch, FirstHandshake, Locations, AtHello, Negotiating, ChangingKeys,
       InSession, Closing
<1> QED BY <1>2, <1>3, <1>4, <1>5, <1>6 DEF EngineInv

(* Input switches to the new keys.                                         *)
LEMMA ReadCCSKeeps ==
  ASSUME EngineInv, ReadCCS, HasInput, inrec.type = "change_cipher_spec", UNCHANGED <<wrote,
       todo>>
  PROVE  EngineInv'
<1>1. /\ hs.co = "running" /\ hs.pc = "read_CCS"
      /\ eng' = [eng EXCEPT !.in_epoch = @ + 1]
      /\ hs' = [hs EXCEPT !.co = "running", !.pc = "read_Finished", !.ate = TRUE]
      /\ UNCHANGED <<outbuf, outrec>>
  BY DEF ReadCCS, Running, GotoAte
<1>2. hs.pc \in Locations /\ {"read_Finished"} \subseteq Locations
  BY <1>1, LocationNames DEF EngineInv, EngineTypeOK, Coroutines, Locations, AtHello,
       Negotiating, ChangingKeys, InSession, Closing
<1>3. EngineTypeOK'
  <2>1. eng.in_epoch + 1 \in Nat
    BY DEF EngineInv, EngineTypeOK, EngineFlags
  <2> QED BY Zenon, <1>1, <1>2, <2>1, Constants, FlagUpdates, CoroutineUpdates DEF EngineInv,
       EngineTypeOK
<1> USE DEF EngineInv, EngineTypeOK, EngineFlags, Coroutines, Record, NoRecord
<1>4. Gathered' /\ Items'
  BY <1>1, <1>2 DEF Control, Gathered, OnlyData, Items
<1>5. Control'
  BY <1>1, <1>2 DEF Control, Closing
<1>6. KeysMatch' /\ DataOff'
  BY <1>1, <1>2 DEF KeysMatch, DataOff, FirstHandshake, Locations, AtHello, Negotiating,
       ChangingKeys, InSession, Closing
<1>7. FirstHandshake'
  BY <1>1, <1>2 DEF KeysMatch, FirstHandshake, Locations, AtHello, Negotiating, ChangingKeys,
       InSession, Closing
<1> QED BY <1>3, <1>4, <1>5, <1>6, <1>7 DEF EngineInv

(* Alerts, other records and nothing at all during closure.                *)
LEMMA CloseAlertKeeps ==
  ASSUME EngineInv, hs.co = "resumed", hs.pc \in Closing, CloseAlertReceived,
         Head(inrec.body).msg \in {"warning", "close_notify"}, UNCHANGED <<wrote, todo>>
  PROVE  EngineInv'
<1>1. /\ eng' = [eng EXCEPT !.application_data = 0,
                        !.shutdown_recv = @ \/ Head(inrec.body).msg = "close_notify"]
      /\ hs' = [hs EXCEPT !.co = "running", !.ate = TRUE,
                        !.cnr = (Head(inrec.body).msg = "close_notify")]
      /\ UNCHANGED <<outbuf, outrec>>
  BY DEF CloseAlertReceived, Closing
<1>2. hs.pc \in Locations
  BY <1>1, LocationNames DEF EngineInv, EngineTypeOK, Coroutines
<1>3. EngineTypeOK'
  BY Zenon, <1>1, <1>2, Constants, FlagUpdates, CoroutineUpdates DEF EngineInv, EngineTypeOK,
       Record, NoRecord
<1> USE DEF EngineInv, EngineTypeOK, EngineFlags, Coroutines, Record, NoRecord
<1>4. Gathered' /\ Items'
  BY <1>1, <1>2 DEF Control, Gathered, OnlyData, Items
<1>5. Control'
  BY <1>1, <1>2 DEF Control, Closing
<1>6. KeysMatch' /\ DataOff'
  BY <1>1, <1>2 DEF KeysMatch, DataOff, FirstHandshake, Locations, AtHello, Negotiating,
       ChangingKeys, InSession, Closing
<1>7. FirstHandshake'
  BY <1>1, <1>2 DEF KeysMatch, FirstHandshake, Locations, AtHello, Negotiating, ChangingKeys,
       InSession, Closing
<1> QED BY <1>3, <1>4, <1>5, <1>6, <1>7 DEF EngineInv

LEMMA CloseDiscardsKeeps ==
  ASSUME EngineInv, hs.co = "resumed", hs.pc \in Closing, GotoAte(hs.pc), UNCHANGED <<eng,
       outbuf, outrec>>, UNCHANGED <<wrote, todo>>
  PROVE  EngineInv'
<1>1. hs.pc \in Locations
  BY LocationNames DEF EngineInv, EngineTypeOK, Coroutines
<1>2. EngineTypeOK'
  BY Zenon, <1>1, Constants, FlagUpdates, CoroutineUpdates DEF EngineInv, EngineTypeOK, GotoAte
<1> USE DEF EngineInv, EngineTypeOK, EngineFlags, Coroutines, GotoAte
<1>3. Gathered' /\ Items'
  BY <1>1 DEF Control, Gathered, OnlyData, Items
<1>4. Control'
  BY <1>1 DEF Control, Closing
<1>5. KeysMatch' /\ DataOff'
  BY <1>1 DEF KeysMatch, DataOff, FirstHandshake, Locations, AtHello, Negotiating,
       ChangingKeys, InSession, Closing
<1>6. FirstHandshake'
  BY <1>1 DEF KeysMatch, FirstHandshake, Locations, AtHello, Negotiating, ChangingKeys,
       InSession, Closing
<1> QED BY <1>2, <1>3, <1>4, <1>5, <1>6 DEF EngineInv

LEMMA CloseResumedKeeps ==
  ASSUME EngineInv, hs.co = "resumed", hs.pc \in Closing, Goto(hs.pc), UNCHANGED <<eng,
       outbuf, outrec>>, UNCHANGED <<wrote, todo>>
  PROVE  EngineInv'
<1>1. hs.pc \in Locations
  BY LocationNames DEF EngineInv, EngineTypeOK, Coroutines
<1>2. EngineTypeOK'
  BY Zenon, <1>1, Constants, FlagUpdates, CoroutineUpdates DEF EngineInv, EngineTypeOK, Goto
<1> USE DEF EngineInv, EngineTypeOK, EngineFlags, Coroutines, Goto
<1>3. Gathered' /\ Items'
  BY <1>1 DEF Control, Gathered, OnlyData, Items
<1>4. Control'
  BY <1>1 DEF Control, Closing
<1>5. KeysMatch' /\ DataOff'
  BY <1>1 DEF KeysMatch, DataOff, FirstHandshake, Locations, AtHello, Negotiating,
       ChangingKeys, InSession, Closing
<1>6. FirstHandshake'
  BY <1>1 DEF KeysMatch, FirstHandshake, Locations, AtHello, Negotiating, ChangingKeys,
       InSession, Closing
<1> QED BY <1>2, <1>3, <1>4, <1>5, <1>6 DEF EngineInv

-----------------------------------------------------------------------------
(* The calls of the engine's interface.                                    *)

(* jump_handshake, whoever calls it.                                       *)
LEMMA JumpKeeps ==
  ASSUME EngineInv, NEW action \in 0 .. 2, Idle, ~eng.closed, Jump(action),
       action = 2 => eng.reneg # 1,
         UNCHANGED <<eng, outbuf>>, UNCHANGED <<wrote, todo>>
  PROVE  EngineInv'
<1>1. hs.pc \in Locations
  BY LocationNames DEF EngineInv, EngineTypeOK, Coroutines
<1>2. EngineTypeOK'
  BY Zenon, <1>1, Constants, FlagUpdates, CoroutineUpdates DEF EngineInv, EngineTypeOK, Idle,
       Jump
<1> USE DEF EngineInv, EngineTypeOK, EngineFlags, Coroutines, Idle, Jump
<1>3. Gathered' /\ Items'
  BY <1>1 DEF Control, Gathered, OnlyData, Items
<1>4. Control'
  BY <1>1 DEF Control, Closing
<1>5. KeysMatch' /\ DataOff'
  BY <1>1 DEF KeysMatch, DataOff, FirstHandshake, Locations, AtHello, Negotiating,
       ChangingKeys, InSession, Closing
<1>6. FirstHandshake'
  BY <1>1 DEF KeysMatch, FirstHandshake, Locations, AtHello, Negotiating, ChangingKeys,
       InSession, Closing
<1> QED BY <1>2, <1>3, <1>4, <1>5, <1>6 DEF EngineInv

(* br_ssl_client_reset.                                                    *)
LEMMA ResetKeeps ==
  ASSUME EngineInv, client_reset, wrote' \in Nat, todo' \in Int
  PROVE  EngineInv'
<1>1. hs.pc \in Locations /\ {"start"} \subseteq Locations
  BY LocationNames DEF EngineInv, EngineTypeOK, Coroutines, Locations, AtHello, Negotiating,
       ChangingKeys, InSession, Closing
<1>2. EngineTypeOK'
  BY <1>1 DEF EngineTypeOK, client_reset, FreshEngine, EngineFlags, Coroutines, Errors, Types
<1> USE DEF EngineInv, EngineTypeOK, EngineFlags, Coroutines, client_reset, FreshEngine, Msg
<1>3. Gathered' /\ Items'
  BY <1>1 DEF Control, Gathered, OnlyData, Items
<1>4. Control'
  BY <1>1 DEF Control, Closing
<1>5. KeysMatch' /\ DataOff'
  BY <1>1 DEF KeysMatch, DataOff, FirstHandshake, Locations, AtHello, Negotiating,
       ChangingKeys, InSession, Closing
<1>6. FirstHandshake'
  BY <1>1 DEF KeysMatch, FirstHandshake, Locations, AtHello, Negotiating, ChangingKeys,
       InSession, Closing
<1> QED BY <1>2, <1>3, <1>4, <1>5, <1>6 DEF EngineInv

(* Steps that touch only the buffers, while the coroutine is suspended.    *)
LEMMA DataKeeps ==
  ASSUME EngineInv, Idle, UNCHANGED <<eng, hs>>, OnlyData', outbuf' \in Seq(Item),
         wrote' \in Nat, todo' \in Int
  PROVE  EngineInv'
<1>1. EngineTypeOK' /\ DataOff' /\ FirstHandshake' /\ KeysMatch'
  BY DEF EngineInv, EngineTypeOK, DataOff, FirstHandshake, KeysMatch
<1>2. Control' /\ Gathered' /\ Items'
  BY DEF EngineInv, Control, Gathered, Items, Idle
<1> QED BY <1>1, <1>2 DEF EngineInv

-----------------------------------------------------------------------------
(* The steps that branch.                                                  *)

(* The messages of the last flight, and their order.                       *)
LEMMA FlightSteps ==
  ASSUME NEW pc \in DOMAIN Flight
  PROVE  /\ Flight[pc].item \in Item
         /\ Flight[pc].next \in {"write_ClientKeyExchange", "write_CertificateVerify", "flush"}
         /\ {"write_ClientKeyExchange", "write_CertificateVerify", "flush"} \subseteq Locations
<1>1. {"write_ClientKeyExchange", "write_CertificateVerify", "flush"} \subseteq Locations
  BY DEF Locations, Negotiating, ChangingKeys
<1>2. CASE pc = "write_Certificate"
  BY <1>1, <1>2 DEF Flight, Msg, Item
<1>3. CASE pc = "write_ClientKeyExchange"
  BY <1>1, <1>3 DEF Flight, Msg, Item
<1>4. CASE pc = "write_CertificateVerify"
  BY <1>1, <1>4 DEF Flight, Msg, Item
<1> QED BY <1>2, <1>3, <1>4 DEF Flight

(* A message of the last flight, gathered or, when it fills the record,    *)
(* sealed with what was gathered before it.                                *)
LEMMA FlightKeeps ==
  ASSUME EngineInv, UNCHANGED <<wrote, todo>>, UNCHANGED eng,
         hs.co = "running", hs.can_output, hs.pc \in DOMAIN Flight,
         NEW next, next = Flight[hs.pc].next, NEW room \in BOOLEAN,
         hs' = [hs EXCEPT !.pc = next, !.can_output = room],
         IF room THEN outbuf' = Append(outbuf, Flight[hs.pc].item) /\ outrec' = outrec
                 ELSE Seal(Append(outbuf, Flight[hs.pc].item))
  PROVE  EngineInv'
<1> DEFINE body == Append(outbuf, Flight[hs.pc].item)
<1>1. /\ hs.pc \in {"write_Certificate", "write_ClientKeyExchange", "write_CertificateVerify"}
      /\ next \in {"write_ClientKeyExchange", "write_CertificateVerify", "flush"}
      /\ next \in Locations
  BY FlightSteps DEF Flight
<1>2. body \in Seq(Item) /\ body # <<>>
  BY FlightSteps DEF EngineInv, Items
<1>3. outrec = NoRecord
  BY DEF EngineInv, Control
<1>4. outbuf' \in Seq(Item) /\ (room \/ OnlyData') /\ (room => outrec' = NoRecord)
  BY <1>2, <1>3, SealLeavesData DEF EngineInv
<1> HIDE DEF body
<1>5. EngineTypeOK'
  BY Zenon, <1>1, CoroutineUpdates DEF EngineInv, EngineTypeOK
<1> USE DEF EngineInv, EngineTypeOK, EngineFlags, Coroutines
<1>6. Gathered' /\ Items'
  BY <1>1, <1>4 DEF Gathered, Items
<1>7. Control'
  BY <1>1, <1>4 DEF Control
<1>8. KeysMatch' /\ DataOff'
  BY <1>1 DEF KeysMatch, DataOff, Locations, AtHello, Negotiating, ChangingKeys, InSession,
       Closing
<1>9. FirstHandshake'
  BY <1>1 DEF FirstHandshake, AtHello, Negotiating, ChangingKeys, InSession, Closing
<1> QED BY <1>5, <1>6, <1>7, <1>8, <1>9 DEF EngineInv

(* A suspension at the place reached: only data is gathered there.         *)
LEMMA WaitKeeps ==
  ASSUME EngineInv, hs.co = "running", hs.pc # "close", Suspend(hs.pc), UNCHANGED <<wrote,
       todo>>,
         ~hs.can_output \/ hs.pc \notin {"write_ClientKeyExchange",
              "write_CertificateVerify", "flush"}
  PROVE  EngineInv'
<1>1. OnlyData /\ hs.pc \in Locations
  BY DEF EngineInv, Gathered, EngineTypeOK, Coroutines
<1> QED BY <1>1, SuspendKeeps

(* An error, outside of the last flight.                                   *)
LEMMA ErrorKeeps ==
  ASSUME EngineInv, NEW err, Fail(err), UNCHANGED <<wrote, todo>>,
         err \in {"OK", "IO", "UNEXPECTED", "BAD_MAC", "BAD_SECRENEG", "fatal",
              "no_renegotiation"},
         hs.pc \notin {"close", "write_ClientKeyExchange", "write_CertificateVerify", "flush"}
           \/ hs.co # "running"
  PROVE  EngineInv'
<1>1. OnlyData /\ hs.pc # "close"
  BY DEF EngineInv, Gathered, Control
<1>2. err \in Errors
  BY DEF Errors, Alerts
<1> QED BY <1>1, <1>2, FailKeeps

(* wait-co.                                                                *)
LEMMA wait_coKeeps ==
  ASSUME EngineInv, wait_co, UNCHANGED <<wrote, todo>>
  PROVE  EngineInv'
<1>1. hs.co = "resumed" /\ hs.pc \notin Closing
  BY DEF wait_co
<1>2. CASE CloseRequested
  BY <1>1, <1>2, CloseRequestedKeeps
<1>3. CASE AlertReceived
  <2>1. CASE Head(inrec.body).msg \in {"fatal", "no_renegotiation"}
    <3>1. Fail(Head(inrec.body).msg)
      BY <1>3, <2>1 DEF AlertReceived
    <3> QED BY <1>1, <2>1, <3>1, ErrorKeeps
  <2>2. CASE Head(inrec.body).msg = "close_notify"
    BY <1>1, <1>3, <2>2, CloseNotifyKeeps
  <2>3. CASE Head(inrec.body).msg = "warning"
    BY <1>1, <1>3, <2>3, WarningKeeps
  <2> QED BY <1>3, <2>1, <2>2, <2>3 DEF AlertReceived
<1>4. CASE Resumed
  BY <1>1, <1>4, ResumedKeeps
<1> QED BY <1>2, <1>3, <1>4 DEF wait_co

(* wait-for-close.                                                         *)
LEMMA wait_for_closeKeeps ==
  ASSUME EngineInv, wait_for_close, UNCHANGED <<wrote, todo>>
  PROVE  EngineInv'
<1>1. hs.co = "resumed" /\ hs.pc \in Closing
  BY DEF wait_for_close
<1>2. CASE CloseAlertReceived
  <2>1. CASE Head(inrec.body).msg \in {"fatal", "no_renegotiation"}
    <3>1. Fail(Head(inrec.body).msg)
      BY <1>2, <2>1 DEF CloseAlertReceived
    <3> QED BY <1>1, <2>1, <3>1, ErrorKeeps
  <2>2. CASE Head(inrec.body).msg \in {"warning", "close_notify"}
    BY <1>1, <1>2, <2>2, CloseAlertKeeps
  <2> QED BY <1>2, <2>1, <2>2 DEF CloseAlertReceived
<1>3. CASE GotoAte(hs.pc) /\ UNCHANGED <<eng, outbuf, outrec>>
  BY <1>1, <1>3, CloseDiscardsKeeps
<1>4. CASE Goto(hs.pc) /\ UNCHANGED <<eng, outbuf, outrec>>
  BY <1>1, <1>4, CloseResumedKeeps
<1> QED BY <1>2, <1>3, <1>4 DEF wait_for_close

(* The main loop.                                                          *)
LEMMA MainKeeps ==
  ASSUME EngineInv, Main, UNCHANGED <<wrote, todo>>
  PROVE  EngineInv'
<1>1. hs.co = "running" /\ hs.pc = "main"
  BY DEF Main, Running
<1>2. CASE HasInput /\ inrec.type = "handshake"
  BY <1>2, MainReadsKeeps
<1>3. CASE ~HasInput /\ hs.action = 2 /\ eng.application_data = 1
  BY <1>3, MainStartsKeeps
<1>4. CASE Fail("UNEXPECTED")
  BY <1>1, <1>4, ErrorKeeps
<1>5. CASE Suspend("main")
  BY <1>1, <1>5, WaitKeeps
<1> QED BY <1>2, <1>3, <1>4, <1>5 DEF Main

(* The ServerHello, accepted or not.                                       *)
LEMMA ServerHelloKeeps ==
  ASSUME EngineInv, ReadServerHello, UNCHANGED <<wrote, todo>>
  PROVE  EngineInv'
<1>1. PICK name \in {"ServerHello", "ServerHelloResumed"} : ReadServerHello!(name)
  BY DEF ReadServerHello
<1> DEFINE ri == Head(inrec.body).n = 1
           resumes == name = "ServerHelloResumed" /\ eng.session
<1>2. hs.co = "running" /\ hs.pc = "read_ServerHello"
  BY <1>1 DEF Incoming, Reading
<1>3. CASE eng.reneg # 0 /\ ri # (eng.reneg = 2)
  <2>1. Fail("BAD_SECRENEG")
    BY <1>1, <1>3
  <2> QED BY <1>2, <2>1, ErrorKeeps
<1>4. CASE eng.reneg = 0 \/ ri = (eng.reneg = 2)
  <2>1. eng.session \in BOOLEAN
    BY DEF EngineInv, EngineTypeOK, EngineFlags
  <2>2. ri \in BOOLEAN /\ resumes \in BOOLEAN /\ (resumes => eng.session)
    BY <2>1
  <2>3. /\ eng' = [eng EXCEPT !.session = TRUE, !.reneg = IF ri THEN 2 ELSE 1]
        /\ hs' = [hs EXCEPT !.resuming = resumes, !.ate = TRUE,
                    !.pc = IF resumes THEN "read_CCS" ELSE "read_Certificate"]
        /\ UNCHANGED <<outbuf, outrec>>
    BY <1>1, <1>4
  <2> HIDE DEF ri, resumes
  <2> QED BY <1>2, <1>4, <2>2, <2>3, ReadServerHelloKeeps
<1> QED BY <1>3, <1>4

(* The messages of the last flight, with or without the output buffer.     *)
LEMMA FlightStepKeeps ==
  ASSUME EngineInv, WriteFlight, UNCHANGED <<wrote, todo>>
  PROVE  EngineInv'
<1> DEFINE body == Append(outbuf, Flight[hs.pc].item)
<1>1. hs.co = "running" /\ hs.pc \in DOMAIN Flight
  BY DEF WriteFlight
<1>2. CASE ~hs.can_output
  <2>1. Suspend(hs.pc) /\ hs.pc # "close"
    BY <1>1, <1>2 DEF Flight, WriteFlight
  <2> QED BY <1>1, <1>2, <2>1, WaitKeeps
<1>3. CASE hs.can_output
  <2>1. hs.co = "running" /\ hs.can_output = TRUE /\ hs \in Coroutines /\ eng' = eng
    BY <1>1, <1>3 DEF EngineInv, EngineTypeOK, Coroutines, WriteFlight, Suspend
  <2>2. CASE outbuf' = body /\ outrec' = outrec /\ Goto(Flight[hs.pc].next)
    <3>1. hs' = [hs EXCEPT !.pc = Flight[hs.pc].next, !.can_output = TRUE]
      BY <2>1, <2>2 DEF Goto, Coroutines
    <3> QED BY <1>1, <2>1, <2>2, <3>1, FlightKeeps
  <2>3. CASE Seal(body) /\ hs' = [hs EXCEPT !.pc = Flight[hs.pc].next, !.can_output = FALSE]
    <3>1. hs' = [hs EXCEPT !.pc = Flight[hs.pc].next, !.can_output = FALSE]
      BY <2>3
    <3> QED BY <1>1, <2>1, <2>3, <3>1, FlightKeeps
  <2> QED BY <1>3, <2>2, <2>3 DEF WriteFlight
<1> QED BY <1>2, <1>3

(* The records of the processor, with or without the output buffer.        *)
LEMMA WritingKeeps ==
  ASSUME EngineInv, UNCHANGED <<wrote, todo>>,
         WriteClientHello \/ WriteCCS \/ WriteFinished \/ WriteNoRenegotiation \/ WriteCloseNotify
  PROVE  EngineInv'
<1>1. CASE hs.can_output
  BY <1>1, WriteClientHelloKeeps, WriteCCSKeeps, WriteFinishedKeeps, WriteNoRenegotiationKeeps,
     WriteCloseNotifyKeeps
<1>2. CASE ~hs.can_output
  <2>1. hs.co = "running" /\ hs.pc # "close" /\ Suspend(hs.pc)
    BY <1>2 DEF WriteClientHello, WriteCCS, WriteFinished, WriteNoRenegotiation,
         WriteCloseNotify, Running
  <2> QED BY <1>2, <2>1, WaitKeeps
<1> QED BY <1>1, <1>2

(* Reading: waiting for input, what is skipped and what is refused.        *)
LEMMA ReadingKeeps ==
  ASSUME EngineInv, UNCHANGED <<wrote, todo>>,
         ReadWaits \/ SkipHelloRequest \/ ReadUnexpected \/ ReadServerHelloDone \/ ReadCCS
  PROVE  EngineInv'
<1>1. CASE ReadWaits
  <2>1. Reading /\ Suspend(hs.pc) /\ hs.co = "running"
    BY <1>1 DEF ReadWaits, Reading
  <2> QED BY <2>1, ReadingAt, WaitKeeps
<1>2. CASE SkipHelloRequest
  BY <1>2, SkipHelloRequestKeeps
<1>3. CASE ReadUnexpected
  <2>1. Reading /\ Fail("UNEXPECTED")
    BY <1>3 DEF ReadUnexpected
  <2> QED BY <2>1, ReadingAt, ErrorKeeps
<1>4. CASE ReadServerHelloDone
  <2>1. hs.pc = "read_ServerHelloDone"
    BY <1>4 DEF ReadServerHelloDone
  <2>2. CASE Len(inrec.body) = 1
    BY <1>4, <2>2, ReadServerHelloDoneKeeps
  <2>3. CASE Fail("UNEXPECTED")
    BY <2>1, <2>3, ErrorKeeps
  <2> QED BY <1>4, <2>2, <2>3 DEF ReadServerHelloDone
<1>5. CASE ReadCCS
  <2>1. hs.co = "running" /\ hs.pc = "read_CCS"
    BY <1>5 DEF ReadCCS, Running
  <2>2. CASE Suspend("read_CCS")
    BY <2>1, <2>2, WaitKeeps
  <2>3. CASE HasInput /\ inrec.type = "change_cipher_spec"
    BY <1>5, <2>3, ReadCCSKeeps
  <2>4. CASE Fail("UNEXPECTED")
    BY <2>1, <2>4, ErrorKeeps
  <2> QED BY <1>5, <2>2, <2>3, <2>4 DEF ReadCCS
<1> QED BY <1>1, <1>2, <1>3, <1>4, <1>5

(* The way into the main loop.                                             *)
LEMMA EnterMainKeeps ==
  ASSUME EngineInv, EnterMain, UNCHANGED <<wrote, todo>>
  PROVE  EngineInv'
<1>1. hs.co = "running" /\ hs.pc = "enter_main" /\ Suspend("main")
  BY DEF EnterMain, Running
<1>2. OnlyData /\ "main" \in Locations
  BY <1>1 DEF EngineInv, Gathered, Locations, InSession
<1> QED BY <1>1, <1>2, SuspendKeeps

(* The end of the closure.                                                 *)
LEMMA AwaitKeeps ==
  ASSUME EngineInv, AwaitCloseNotify, UNCHANGED <<wrote, todo>>
  PROVE  EngineInv'
<1>1. hs.co = "running" /\ hs.pc = "close_wait"
  BY DEF AwaitCloseNotify, Running
<1>2. CASE Fail("OK")
  BY <1>1, <1>2, ErrorKeeps
<1>3. CASE Suspend("close_wait")
  BY <1>1, <1>3, WaitKeeps
<1> QED BY <1>2, <1>3 DEF AwaitCloseNotify

(* Every step of the handshake processor keeps the invariant.              *)
LEMMA HandshakeStepKeeps ==
  ASSUME EngineInv, HandshakeStep, UNCHANGED <<wrote, todo>>
  PROVE  EngineInv'
<1>1. CASE wait_co \/ wait_for_close
  BY <1>1, wait_coKeeps, wait_for_closeKeeps
<1>2. CASE Main \/ StartHandshake \/ EnterMain \/ HandshakeDone
  BY <1>2, MainKeeps, StartHandshakeKeeps, EnterMainKeeps, HandshakeDoneKeeps
<1>3. CASE WriteClientHello \/ WriteCCS \/ WriteFinished \/ WriteNoRenegotiation \/ WriteCloseNotify
  BY <1>3, WritingKeeps
<1>4. CASE ReadWaits \/ SkipHelloRequest \/ ReadUnexpected \/ ReadServerHelloDone \/ ReadCCS
  BY <1>4, ReadingKeeps
<1>5. CASE ReadServerHello \/ ReadCertificate \/ ReadServerKeyExchange \/ ReadCertificateRequest
             \/ ReadFinished \/ ReadHelloRequest
  BY <1>5, ServerHelloKeeps, ReadCertificateKeeps, ReadServerKeyExchangeKeeps,
     ReadCertificateRequestKeeps, ReadFinishedKeeps, ReadHelloRequestKeeps
<1>6. CASE WriteFlight \/ FlushFlight \/ Decline
  BY <1>6, FlightStepKeeps, FlushFlightKeeps, DeclineKeeps
<1>7. CASE StartClose \/ AwaitCloseNotify
  BY <1>7, StartCloseKeeps, AwaitKeeps
<1> QED BY <1>1, <1>2, <1>3, <1>4, <1>5, <1>6, <1>7 DEF HandshakeStep

(* While the processor is suspended, only application data is gathered.    *)
LEMMA IdleHasData ==
  ASSUME EngineInv, Idle
  PROVE  OnlyData /\ outbuf \in Seq(Item) /\ wrote \in Nat /\ todo \in Int
BY DEF EngineInv, Gathered, Items, Idle

(* Steps that leave the engine's flags and its output alone.               *)
LEMMA InputKeeps ==
  ASSUME EngineInv, Idle, UNCHANGED <<eng, hs, outbuf>>, wrote' \in Nat, todo' \in Int
  PROVE  EngineInv'
<1>1. OnlyData' /\ outbuf' \in Seq(Item)
  BY IdleHasData DEF OnlyData
<1> QED BY <1>1, DataKeeps

(* br_ssl_engine_flush.                                                    *)
LEMMA EngineFlushKeeps ==
  ASSUME EngineInv, Idle, engine_flush, wrote' = wrote, todo' \in Int
  PROVE  EngineInv'
<1>1. OnlyData' /\ outbuf' \in Seq(Item)
  <2>1. CASE Seal(outbuf)
    BY <2>1, IdleHasData, SealLeavesData DEF EngineInv
  <2>2. CASE UNCHANGED outbuf
    BY <2>2, IdleHasData DEF OnlyData
  <2> QED BY <2>1, <2>2 DEF engine_flush
<1> QED BY <1>1, IdleHasData, DataKeeps DEF engine_flush

-----------------------------------------------------------------------------
(* The interface, as br_sslio uses it.                                     *)

(* br_sslio_write hands data over: data is all that is gathered.           *)
LEMMA AcceptKeeps ==
  ASSUME EngineInv, Idle, NEW n \in Int, Accept(n), todo' \in Int
  PROVE  EngineInv'
<1>1. PICK k \in 1 .. n : /\ sendapp_ack([i \in 1 .. k |-> Data(wrote + i)])
                          /\ wrote' = wrote + k
  BY DEF Accept
<1> DEFINE items == [i \in 1 .. k |-> Data(wrote + i)]
           body == outbuf \o items
<1>2. wrote \in Nat /\ outbuf \in Seq(Item) /\ OnlyData /\ k \in Nat /\ todo \in Int
  BY IdleHasData
<1>3. items \in Seq(Item)
  <2>1. \A i \in 1 .. k : Data(wrote + i) \in Item
    BY <1>2 DEF Data, Item
  <2> QED BY <1>2, <2>1
<1>4. body \in Seq(Item)
  BY <1>2, <1>3
<1>5. \A i \in DOMAIN body : IsData(body[i])
  <2>1. \A i \in 1 .. k : IsData(items[i])
    BY <1>2 DEF Data, IsData
  <2>2. Len(items) = k /\ DOMAIN outbuf = 1 .. Len(outbuf) /\ Len(outbuf) \in Nat
    BY <1>2, <1>3
  <2> HIDE DEF items
  <2>3. DOMAIN body = 1 .. (Len(outbuf) + k)
    BY <1>2, <1>3, <2>2
  <2>4. \A i \in 1 .. (Len(outbuf) + k) :
          body[i] = IF i <= Len(outbuf) THEN outbuf[i] ELSE items[i - Len(outbuf)]
    BY <1>2, <1>3, <2>2
  <2> HIDE DEF body
  <2>5. SUFFICES ASSUME NEW i \in 1 .. (Len(outbuf) + k) PROVE IsData(body[i])
    BY <2>3
  <2>6. CASE i <= Len(outbuf)
    BY <1>2, <2>2, <2>4, <2>6 DEF OnlyData
  <2>7. CASE i > Len(outbuf)
    <3>1. i - Len(outbuf) \in 1 .. k
      BY <1>2, <2>2, <2>7
    <3> QED BY <2>1, <2>2, <2>4, <2>7, <3>1
  <2> QED BY <2>2, <2>6, <2>7
<1> HIDE DEF items
<1>6. OnlyData' /\ outbuf' \in Seq(Item)
  <2>1. CASE Seal(body)
    <3> HIDE DEF body
    <3> QED BY <1>2, <1>4, <2>1, SealLeavesData DEF EngineInv
  <2>2. CASE outbuf' = body
    <3> HIDE DEF body
    <3> QED BY <1>4, <1>5, <2>2 DEF OnlyData
  <2> QED BY <1>1, <2>1, <2>2 DEF sendapp_ack, items
<1>7. UNCHANGED <<eng, hs>>
  BY <1>1 DEF sendapp_ack
<1>8. wrote' \in Nat
  BY <1>1, <1>2
<1> QED BY <1>6, <1>7, <1>8, DataKeeps

(* br_ssl_engine_recvrec_ack.                                              *)
LEMMA ReceiveKeeps ==
  ASSUME EngineInv, Idle, RECVREC, NEW rec, recvrec_ack(rec), UNCHANGED <<wrote, todo>>
  PROVE  EngineInv'
<1>1. OnlyData /\ hs.co # "running" /\ ~eng.closed /\ wrote \in Nat /\ todo \in Int
  BY IdleHasData DEF Idle, RECVREC
<1>2. CASE Fail("BAD_MAC") \/ Fail("UNEXPECTED")
  BY <1>1, <1>2, ErrorKeeps
<1>3. CASE RecvHandshake(rec)
  <2>1. Jump(0) /\ UNCHANGED <<eng, outbuf>>
    BY <1>3 DEF RecvHandshake
  <2> QED BY <1>1, <2>1, JumpKeeps
<1>4. CASE UNCHANGED <<eng, hs, outbuf>>
  BY <1>1, <1>4, InputKeeps
<1> QED BY <1>2, <1>3, <1>4 DEF recvrec_ack, RecvBadRecord, RecvData, engineVars

(* br_ssl_engine_sendrec_ack.                                              *)
LEMMA SendKeeps ==
  ASSUME EngineInv, Idle, SENDREC, sendrec_ack, UNCHANGED <<wrote, todo>>
  PROVE  EngineInv'
<1>1. CASE Jump(0)
  BY <1>1, JumpKeeps DEF SENDREC, sendrec_ack
<1>2. CASE UNCHANGED hs
  BY <1>2, IdleHasData, InputKeeps DEF sendrec_ack
<1> QED BY <1>1, <1>2 DEF sendrec_ack

(* br_ssl_engine_close and br_ssl_engine_renegotiate.                      *)
LEMMA EngineCloseKeeps ==
  ASSUME EngineInv, Idle, engine_close, wrote' = wrote, todo' = todo
  PROVE  EngineInv'
<1>1. CASE ~eng.closed
  BY <1>1, JumpKeeps DEF engine_close
<1>2. CASE eng.closed
  BY <1>2, IdleHasData, InputKeeps DEF engine_close
<1> QED BY <1>1, <1>2

LEMMA RenegotiateKeeps ==
  ASSUME EngineInv, Idle, engine_renegotiate, wrote' = wrote, todo' = todo
  PROVE  EngineInv'
<1>1. CASE MayRenegotiate
  <2>1. Jump(2) /\ ~eng.closed /\ eng.reneg # 1
    BY <1>1 DEF engine_renegotiate, MayRenegotiate
  <2> QED BY <2>1, JumpKeeps DEF engine_renegotiate
<1>2. CASE ~MayRenegotiate
  BY <1>2, IdleHasData, InputKeeps DEF engine_renegotiate
<1> QED BY <1>1, <1>2

(* Steps that leave the engine alone.                                      *)
LEMMA StutterKeeps ==
  ASSUME EngineInv, UNCHANGED engineVars, wrote' \in Nat, todo' \in Int
  PROVE  EngineInv'
BY DEF EngineInv, engineVars, EngineTypeOK, Control, Gathered, OnlyData, Items, KeysMatch,
       DataOff, FirstHandshake

(* run_until and the br_sslio functions.                                   *)
LEMMA RunUntilKeeps ==
  ASSUME EngineInv, run_until, todo' = todo
  PROVE  EngineInv'
<1>1. wrote \in Nat /\ todo \in Int
  BY DEF EngineInv, Items
<1>2. CASE RunClosed \/ TargetReached
  BY <1>1, <1>2, StutterKeeps DEF RunClosed, TargetReached, history
<1>3. CASE LowWriteAccepts
  BY <1>3, SendKeeps DEF LowWriteAccepts, InRun, history
<1>4. CASE LowWriteFails
  <2>1. wrote' = wrote /\ Idle
    BY <1>4 DEF LowWriteFails, InRun, history
  <2>2. CASE Fail("IO")
    BY <2>1, <2>2, ErrorKeeps DEF Idle
  <2>3. CASE UNCHANGED engineVars
    BY <1>1, <2>1, <2>3, StutterKeeps
  <2> QED BY <1>4, <2>2, <2>3 DEF LowWriteFails
<1>5. CASE LowReadDelivers
  BY <1>5, ReceiveKeeps DEF LowReadDelivers, MayReceive, history
<1>6. CASE LowReadFails
  BY <1>6, ErrorKeeps DEF LowReadFails, Idle, history
<1>7. CASE RunFlush
  BY <1>1, <1>7, EngineFlushKeeps DEF RunFlush, InRun, history
<1> QED BY <1>2, <1>3, <1>4, <1>5, <1>6, <1>7 DEF run_until

LEMMA FinishIoKeeps ==
  ASSUME EngineInv, FinishIo
  PROVE  EngineInv'
<1>1. wrote \in Nat /\ todo \in Int
  BY DEF EngineInv, Items
<1>2. CASE FinishRead /\ UNCHANGED todo
  <2>1. Idle /\ UNCHANGED <<eng, hs, outbuf>> /\ wrote' = wrote
    BY <1>2 DEF FinishRead, engineVars, history
  <2> QED BY <1>1, <1>2, <2>1, InputKeeps
<1>3. CASE (FinishAvailable \/ FinishFlush) /\ UNCHANGED todo
  BY <1>1, <1>3, StutterKeeps DEF FinishAvailable, FinishFlush, history
<1>4. CASE CloseLoop /\ UNCHANGED todo
  <2>1. Idle /\ UNCHANGED <<eng, hs, outbuf>> /\ wrote' = wrote
    BY <1>4 DEF CloseLoop, recvapp_ack, engineVars, history
  <2> QED BY <1>1, <1>4, <2>1, InputKeeps
<1>5. CASE FinishWrite(todo) /\ todo' = todo - (wrote' - wrote)
  <2>1. CASE Accept(todo)
    <3>1. wrote' \in Int
      BY <1>1, <2>1 DEF Accept
    <3>2. todo' \in Int
      BY <1>1, <1>5, <3>1
    <3> QED BY <1>1, <1>5, <2>1, <3>2, AcceptKeeps DEF FinishWrite
  <2>2. CASE UNCHANGED <<engineVars, history>>
    <3>1. wrote' = wrote /\ todo' \in Int
      BY <1>1, <1>5, <2>2 DEF history
    <3> QED BY <1>1, <2>2, <3>1, StutterKeeps
  <2> QED BY <1>5, <2>1, <2>2 DEF FinishWrite
<1> QED BY <1>2, <1>3, <1>4, <1>5 DEF FinishIo

(* The methods of BearSSLClient and the application.                       *)
LEMMA CallReturnsKeeps ==
  ASSUME EngineInv, CallReturns
  PROVE  EngineInv'
<1>1. wrote \in Nat /\ todo \in Int
  BY DEF EngineInv, Items
<1>2. CASE ConnectReturns \/ Return \/ Stopped
  BY <1>1, <1>2, StutterKeeps DEF ConnectReturns, Return, Stopped, history
<1>3. CASE WriteLoop
  <2>1. UNCHANGED engineVars /\ wrote' = wrote /\ todo' \in Int
    BY <1>1, <1>3 DEF WriteLoop, BeginWrite, history
  <2> QED BY <1>1, <2>1, StutterKeeps
<1>4. CASE WriteFlush
  BY <1>1, <1>4, EngineFlushKeeps DEF WriteFlush, BeginFlush, history
<1> QED BY <1>2, <1>3, <1>4 DEF CallReturns

LEMMA CallStartsKeeps ==
  ASSUME EngineInv, CallStarts
  PROVE  EngineInv'
<1>1. wrote \in Nat /\ todo \in Int /\ MaxWrites \in Nat
  BY CallsAssumption DEF EngineInv, Items
<1>2. CASE Connect
  BY <1>1, <1>2, ResetKeeps DEF Connect
<1>3. CASE Write
  <2>1. UNCHANGED engineVars /\ wrote' = wrote
    BY <1>3 DEF Write, BeginWrite, history
  <2>2. todo' \in Int
    BY <1>1, <1>3 DEF Write
  <2> QED BY <1>1, <2>1, <2>2, StutterKeeps
<1>4. CASE Read \/ Available
  BY <1>1, <1>4, StutterKeeps DEF Read, Available, BeginRead, BeginAvailable, history
<1>5. CASE Flush
  BY <1>1, <1>5, EngineFlushKeeps DEF Flush, BeginFlush, Free, history
<1>6. CASE Stop
  <2>1. Idle /\ wrote' = wrote /\ todo' = todo
    BY <1>6 DEF Stop, Free, history
  <2>2. UNCHANGED engineVars \/ engine_close
    BY <1>6 DEF Stop, BeginClose
  <2> QED BY <1>1, <2>1, <2>2, StutterKeeps, EngineCloseKeeps
<1>7. CASE SslIoCall
  <2>1. Idle /\ wrote' = wrote /\ todo' \in Int
    BY <1>1, <1>7 DEF SslIoCall, Free, history
  <2>2. CASE UNCHANGED engineVars
    BY <1>1, <2>1, <2>2, StutterKeeps
  <2>3. CASE engine_flush
    BY <2>1, <2>3, EngineFlushKeeps
  <2>4. CASE (engine_close \/ engine_renegotiate) /\ todo' = todo
    BY <2>1, <2>4, EngineCloseKeeps, RenegotiateKeeps
  <2> QED BY <1>7, <2>2, <2>3, <2>4
          DEF SslIoCall, BeginRead, BeginWrite, BeginFlush, BeginClose
<1> QED BY <1>2, <1>3, <1>4, <1>5, <1>6, <1>7 DEF CallStarts

(* Every step keeps the invariant.                                         *)
LEMMA NextKeeps ==
  ASSUME EngineInv, [Next]_vars
  PROVE  EngineInv'
<1>1. wrote \in Nat /\ todo \in Int
  BY DEF EngineInv, Items
<1>2. CASE EngineStep
  BY <1>2, HandshakeStepKeeps DEF EngineStep, history, appVars
<1>3. CASE run_until /\ UNCHANGED <<srv, appVars>>
  BY <1>3, RunUntilKeeps DEF appVars
<1>4. CASE FinishIo
  BY <1>4, FinishIoKeeps
<1>5. CASE CallReturns \/ CallStarts
  BY <1>5, CallReturnsKeeps, CallStartsKeeps
<1>6. CASE PeerStep /\ UNCHANGED appVars
  BY <1>1, <1>6, StutterKeeps DEF PeerStep, history, appVars
<1>7. CASE UNCHANGED vars
  BY <1>1, <1>7, StutterKeeps DEF vars, history, appVars
<1> QED BY <1>2, <1>3, <1>4, <1>5, <1>6, <1>7 DEF Next, IoStep

(* The invariant holds before the first connection.                        *)
LEMMA InitEstablishes ==
  ASSUME Init
  PROVE  EngineInv
<1> USE DEF Init, IoInit, EngineInit, FreshEngine
<1>1. "start" \in Locations
  BY DEF Locations, AtHello
<1>2. EngineTypeOK
  <2>1. FreshEngine \in EngineFlags
    BY DEF EngineFlags, Errors, Types
  <2>2. hs \in Coroutines
    BY <1>1 DEF Coroutines
  <2> HIDE DEF FreshEngine
  <2> QED BY <2>1, <2>2, FlagUpdates DEF EngineTypeOK
<1>3. Control /\ KeysMatch /\ DataOff /\ FirstHandshake
  BY DEF Control, KeysMatch, DataOff, FirstHandshake, AtHello, Negotiating, ChangingKeys,
         InSession, Closing, Locations
<1>4. Gathered /\ Items
  BY DEF Gathered, OnlyData, Items
<1> QED BY <1>2, <1>3, <1>4 DEF EngineInv

(* The inductive invariant of engine and handshake processor holds at all  *)
(* times, for every peer, every loss of the link and every sequence of     *)
(* calls.                                                                  *)
THEOREM EngineSafe == Spec => []EngineInv
<1>1. Init => EngineInv
  BY InitEstablishes
<1>2. EngineInv /\ [Next]_vars => EngineInv'
  BY NextKeeps
<1> QED BY <1>1, <1>2, PTL DEF Spec

(* The handshake processor never gives up control with an unfinished       *)
(* message in the buffer, which is what jump_handshake and                 *)
(* br_ssl_engine_flush rely on.                                            *)
THEOREM HandshakeMessagesFlushed == Spec => []NoUnfinishedMessage
<1>1. EngineInv => NoUnfinishedMessage
  BY DEF EngineInv, Gathered, NoUnfinishedMessage, Idle
<1> QED BY <1>1, EngineSafe, PTL

(* With a server without RFC 5746 the keys of either direction are changed *)
(* at most once: there is no second handshake, whoever asks for it.        *)
THEOREM RenegotiationSecure == Spec => []NoInsecureRenegotiation
<1>1. EngineInv => NoInsecureRenegotiation
  BY DEF EngineInv, FirstHandshake, NoInsecureRenegotiation
<1> QED BY <1>1, EngineSafe, PTL

-----------------------------------------------------------------------------
(* The engine as an abstract session.                                      *)

(* What the phase of the session is, before and after a step.              *)
LEMMA PhaseValue ==
  /\ eng.closed => Phase = "closed"
  /\ ~eng.closed /\ hs.pc \in Closing => Phase = "closing"
  /\ ~eng.closed /\ hs.pc \notin Closing /\ eng.application_data = 1 => Phase = "open"
  /\ ~eng.closed /\ hs.pc \notin Closing /\ eng.application_data # 1 => Phase = "handshake"
BY DEF Phase

LEMMA PhaseNext ==
  /\ eng'.closed => Phase' = "closed"
  /\ ~eng'.closed /\ hs'.pc \in Closing => Phase' = "closing"
  /\ ~eng'.closed /\ hs'.pc \notin Closing /\ eng'.application_data = 1 => Phase' = "open"
  /\ ~eng'.closed /\ hs'.pc \notin Closing /\ eng'.application_data # 1 => Phase' = "handshake"
BY DEF Phase

(* Steps of the abstract session.                                          *)
SessionStep == [Session!SessionNext]_<<Phase, eng.in_epoch, eng.out_epoch>>

(* The keys stay the same, and so does the phase.                          *)
SameKeys == eng'.in_epoch = eng.in_epoch /\ eng'.out_epoch = eng.out_epoch

SamePhase ==
  /\ eng'.closed = eng.closed /\ eng'.application_data = eng.application_data
  /\ hs'.pc \in Closing <=> hs.pc \in Closing
  /\ SameKeys

(* Such a step is a stutter of the session.                                *)
LEMMA SamePhaseSteps ==
  ASSUME EngineInv, SamePhase
  PROVE  SessionStep
<1>1. Phase' = Phase
  BY PhaseValue, PhaseNext DEF SamePhase, EngineInv, EngineTypeOK, EngineFlags
<1> QED BY <1>1 DEF SessionStep, SamePhase, SameKeys

(* An error closes the session.                                            *)
LEMMA FailSteps ==
  ASSUME EngineInv, NEW err, Fail(err), ~eng.closed
  PROVE  SessionStep
<1>1. eng'.closed /\ SameKeys
  BY DEF Fail, SameKeys, EngineInv, EngineTypeOK, EngineFlags
<1>2. Phase' = "closed" /\ Phase # "closed"
  BY <1>1, PhaseValue, PhaseNext DEF EngineInv, EngineTypeOK, EngineFlags
<1>3. Session!Closed
  BY <1>1, <1>2 DEF Session!Closed, SameKeys
<1> QED BY <1>3 DEF SessionStep, Session!SessionNext

(* A reset starts over.                                                    *)
LEMMA ResetSteps ==
  ASSUME client_reset
  PROVE  SessionStep
<1>1. /\ ~eng'.closed /\ eng'.application_data = 0 /\ hs'.pc \notin Closing
      /\ eng'.in_epoch = 0 /\ eng'.out_epoch = 0
  BY DEF client_reset, FreshEngine, Closing
<1>2. Session!Reset
  BY <1>1, PhaseNext DEF Session!Reset
<1> QED BY <1>2 DEF SessionStep, Session!SessionNext

(* The two key changes: neither direction gets ahead by two, which is      *)
(* KeysMatch.                                                              *)
LEMMA KeyChangeSteps ==
  ASSUME EngineInv, HandshakeStep,
         (ReadCCS /\ HasInput /\ inrec.type = "change_cipher_spec") \/ (WriteCCS
              /\ hs.can_output)
  PROVE  SessionStep
<1>1. /\ hs.pc \in {"read_CCS", "write_CCS"} /\ ~eng.closed /\ eng.application_data = 0
      /\ hs.pc \notin Closing
  BY DEF ReadCCS, WriteCCS, Running, EngineInv, Control, DataOff, Closing, Locations,
       ChangingKeys
<1>2. Phase = "handshake"
  BY <1>1, PhaseValue
<1> USE DEF EngineInv, EngineTypeOK, EngineFlags, Coroutines
<1>3. CASE ReadCCS /\ HasInput /\ inrec.type = "change_cipher_spec"
  <2>1. /\ eng' = [eng EXCEPT !.in_epoch = @ + 1]
        /\ hs' = [hs EXCEPT !.co = "running", !.pc = "read_Finished", !.ate = TRUE]
        /\ hs.pc = "read_CCS"
    BY <1>3 DEF ReadCCS, Running, GotoAte
  <2>2. /\ ~eng'.closed /\ eng'.application_data = 0 /\ hs'.pc \notin Closing
        /\ eng'.in_epoch = eng.in_epoch + 1 /\ eng'.out_epoch = eng.out_epoch
    BY <1>1, <2>1 DEF Closing
  <2>3. eng.in_epoch <= eng.out_epoch
    BY <2>1 DEF KeysMatch
  <2>4. Session!ChangeKeysIn
    BY <1>2, <2>2, <2>3, PhaseNext DEF Session!ChangeKeysIn
  <2> QED BY <2>4 DEF SessionStep, Session!SessionNext
<1>4. CASE WriteCCS /\ hs.can_output
  <2>1. /\ eng' = [eng EXCEPT !.record_type_out = "change_cipher_spec", !.out_epoch = @ + 1]
        /\ hs' = [hs EXCEPT !.pc = "write_Finished", !.can_output = FALSE]
        /\ hs.pc = "write_CCS"
    BY <1>4 DEF WriteCCS, Running
  <2>2. /\ ~eng'.closed /\ eng'.application_data = 0 /\ hs'.pc \notin Closing
        /\ eng'.out_epoch = eng.out_epoch + 1 /\ eng'.in_epoch = eng.in_epoch
    BY <1>1, <2>1 DEF Closing
  <2>3. eng.out_epoch <= eng.in_epoch
    BY <2>1 DEF KeysMatch
  <2>4. Session!ChangeKeysOut
    BY <1>2, <2>2, <2>3, PhaseNext DEF Session!ChangeKeysOut
  <2> QED BY <2>4 DEF SessionStep, Session!SessionNext
<1> QED BY <1>3, <1>4

(* The session opens when the keys of both directions have been changed    *)
(* equally often.                                                          *)
LEMMA OpenSteps ==
  ASSUME EngineInv, HandshakeDone \/ (WriteNoRenegotiation /\ hs.can_output)
  PROVE  SessionStep
<1>1. hs.pc \in {"done", "write_no_renegotiation"} /\ hs.co = "running" /\ eng' = OpenChannel
      /\ hs'.pc = "enter_main"
  BY DEF HandshakeDone, WriteNoRenegotiation, Running, Goto, EngineInv, EngineTypeOK, Coroutines
<1>2. /\ ~eng.closed /\ eng.application_data = 0 /\ hs.pc \notin Closing
      /\ eng.in_epoch = eng.out_epoch /\ eng.in_epoch > 0
  BY <1>1 DEF EngineInv, Control, DataOff, KeysMatch, Closing, Locations, InSession
<1>3. ~eng'.closed /\ eng'.application_data = 1 /\ hs'.pc \notin Closing /\ SameKeys
  BY <1>1, <1>2 DEF OpenChannel, SameKeys, Closing, EngineInv, EngineTypeOK, EngineFlags
<1>4. Session!Open
  BY <1>2, <1>3, PhaseValue, PhaseNext DEF Session!Open, SameKeys
<1> QED BY <1>4 DEF SessionStep, Session!SessionNext

(* A new handshake takes an open session back.                             *)
LEMMA ReopenSteps ==
  ASSUME EngineInv, StartHandshake \/ (Main /\ HasInput /\ inrec.type = "handshake")
  PROVE  SessionStep
<1>1. /\ ~eng.closed /\ hs.pc \notin Closing /\ hs'.pc \notin Closing
      /\ ~eng'.closed /\ eng'.application_data = 0 /\ SameKeys
  BY DEF StartHandshake, Main, Running, Goto, EngineInv, EngineTypeOK, Coroutines, EngineFlags,
         Control, Closing, SameKeys
<1>2. CASE eng.application_data = 1
  <2>1. Session!Reopen
    BY <1>1, <1>2, PhaseValue, PhaseNext DEF Session!Reopen, SameKeys
  <2> QED BY <2>1 DEF SessionStep, Session!SessionNext
<1>3. CASE eng.application_data # 1
  <2>1. Phase' = Phase
    BY <1>1, <1>3, PhaseValue, PhaseNext
  <2> QED BY <1>1, <2>1 DEF SessionStep, SameKeys
<1> QED BY <1>2, <1>3

(* Closure begins.                                                         *)
LEMMA ClosingSteps ==
  ASSUME EngineInv, StartClose
  PROVE  SessionStep
<1>1. /\ ~eng.closed /\ hs.pc \notin Closing /\ hs'.pc \in Closing
      /\ ~eng'.closed /\ SameKeys
  BY DEF StartClose, Running, EngineInv, EngineTypeOK, Coroutines, EngineFlags,
         Control, Closing, SameKeys
<1>2. Session!Closing
  BY <1>1, PhaseValue, PhaseNext DEF Session!Closing, SameKeys, EngineInv, EngineTypeOK,
       EngineFlags
<1> QED BY <1>2 DEF SessionStep, Session!SessionNext

(* Steps of the processor that the session does not see.                   *)
LEMMA SuspendSteps ==
  ASSUME EngineInv, NEW pc, Suspend(pc), pc \in Closing <=> hs.pc \in Closing
  PROVE  SessionStep
<1>1. eng' = eng /\ hs'.pc = pc
  BY DEF Suspend, EngineInv, EngineTypeOK, Coroutines
<1> QED BY <1>1, SamePhaseSteps DEF SamePhase, SameKeys

LEMMA CloseAlertSteps ==
  ASSUME EngineInv, hs.co = "resumed", hs.pc \in Closing, CloseAlertReceived
  PROVE  SessionStep
<1>1. ~eng.closed
  BY DEF EngineInv, Control
<1>2. CASE Head(inrec.body).msg \in {"fatal", "no_renegotiation"}
  BY <1>1, <1>2, FailSteps DEF CloseAlertReceived
<1>3. CASE Head(inrec.body).msg \in {"warning", "close_notify"}
  <2>1. /\ eng' = [eng EXCEPT !.application_data = 0,
                     !.shutdown_recv = @ \/ Head(inrec.body).msg = "close_notify"]
        /\ hs' = [hs EXCEPT !.co = "running", !.ate = TRUE,
                     !.cnr = (Head(inrec.body).msg = "close_notify")]
    BY <1>3 DEF CloseAlertReceived
  <2>2. eng'.closed = eng.closed /\ hs'.pc = hs.pc /\ SameKeys
    BY <2>1 DEF SameKeys, EngineInv, EngineTypeOK, EngineFlags, Coroutines
  <2> QED BY <1>1, <2>2, PhaseValue, PhaseNext DEF SessionStep, SameKeys
<1> QED BY <1>2, <1>3 DEF CloseAlertReceived

LEMMA MoveSteps ==
  ASSUME EngineInv,
         \/ hs.pc \notin Closing /\ (CloseRequested \/ Resumed)
         \/ hs.pc \in Closing /\ (GotoAte(hs.pc) \/ Goto(hs.pc)) /\ eng' = eng
         \/ Main /\ ~HasInput /\ hs.action = 2 /\ eng.application_data = 1
         \/ SkipHelloRequest \/ ReadCertificate \/ ReadServerKeyExchange
         \/ ReadCertificateRequest \/ (ReadServerHelloDone /\ Len(inrec.body) = 1)
         \/ ReadFinished \/ ReadHelloRequest \/ FlushFlight \/ Decline
  PROVE  SessionStep
<1> USE DEF Goto, GotoAte, Closing, SamePhase, SameKeys, EngineInv, EngineTypeOK, Coroutines
<1>1. CASE hs.pc \notin Closing /\ (CloseRequested \/ Resumed)
  <2>1. SamePhase
    BY <1>1 DEF CloseRequested, Resumed
  <2> QED BY <2>1, SamePhaseSteps
<1>2. CASE hs.pc \in Closing /\ (GotoAte(hs.pc) \/ Goto(hs.pc)) /\ eng' = eng
  <2>1. SamePhase
    BY <1>2
  <2> QED BY <2>1, SamePhaseSteps
<1>3. CASE Main /\ ~HasInput /\ hs.action = 2 /\ eng.application_data = 1
  <2>1. hs.pc = "main" /\ Goto("start") /\ eng' = eng
    BY <1>3 DEF Main, Running
  <2>2. SamePhase
    BY <2>1
  <2> QED BY <2>2, SamePhaseSteps
<1>4. CASE SkipHelloRequest
  <2>1. SamePhase
    BY <1>4 DEF SkipHelloRequest
  <2> QED BY <2>1, SamePhaseSteps
<1>5. CASE ReadCertificate \/ ReadServerKeyExchange \/ ReadCertificateRequest
  <2>1. SamePhase
    BY <1>5 DEF ReadCertificate, ReadServerKeyExchange, ReadCertificateRequest
  <2> QED BY <2>1, SamePhaseSteps
<1>6. CASE ReadServerHelloDone /\ Len(inrec.body) = 1
  <2>1. /\ hs.pc = "read_ServerHelloDone" /\ eng' = eng
        /\ GotoAte(IF hs.auth THEN "write_Certificate" ELSE "write_ClientKeyExchange")
    BY <1>6 DEF ReadServerHelloDone
  <2>2. SamePhase
    BY <2>1
  <2> QED BY <2>2, SamePhaseSteps
<1>7. CASE ReadFinished \/ ReadHelloRequest
  <2>1. SamePhase
    BY <1>7 DEF ReadFinished, ReadHelloRequest
  <2> QED BY <2>1, SamePhaseSteps
<1>8. CASE FlushFlight \/ Decline
  <2>1. SamePhase
    BY <1>8 DEF FlushFlight, Decline, Running
  <2> QED BY <2>1, SamePhaseSteps
<1> QED BY <1>1, <1>2, <1>3, <1>4, <1>5, <1>6, <1>7, <1>8

LEMMA WriteSteps ==
  ASSUME EngineInv, hs.can_output,
         WriteClientHello \/ WriteFlight \/ WriteFinished \/ WriteCloseNotify
  PROVE  SessionStep
<1> USE DEF EngineInv, EngineTypeOK, Coroutines, EngineFlags, Closing, SamePhase, SameKeys
<1>1. CASE WriteClientHello
  <2>1. SamePhase
    BY <1>1 DEF WriteClientHello, Running
  <2> QED BY <2>1, SamePhaseSteps
<1>2. CASE WriteFlight
  <2>1. /\ hs.pc \in DOMAIN Flight /\ eng' = eng
        /\ hs'.pc = Flight[hs.pc].next
    BY <1>2 DEF WriteFlight, Goto
  <2>2. hs.pc \notin Closing /\ hs'.pc \notin Closing
    BY <2>1, FlightSteps DEF Flight
  <2> QED BY <2>1, <2>2, SamePhaseSteps
<1>3. CASE WriteFinished
  <2>1. SamePhase
    BY <1>3 DEF WriteFinished, Running
  <2> QED BY <2>1, SamePhaseSteps
<1>4. CASE WriteCloseNotify
  <2>1. SamePhase
    BY <1>4 DEF WriteCloseNotify, Running
  <2> QED BY <2>1, SamePhaseSteps
<1> QED BY <1>1, <1>2, <1>3, <1>4

LEMMA AlertSteps ==
  ASSUME EngineInv, hs.co = "resumed", hs.pc \notin Closing, AlertReceived
  PROVE  SessionStep
<1>1. ~eng.closed
  BY DEF EngineInv, Control
<1>2. CASE Head(inrec.body).msg \in {"fatal", "no_renegotiation"}
  BY <1>1, <1>2, FailSteps DEF AlertReceived
<1>3. CASE Head(inrec.body).msg \in {"warning", "close_notify"}
  <2>1. SamePhase
    BY <1>3 DEF AlertReceived, GotoAte, SamePhase, SameKeys, EngineInv, EngineTypeOK,
                EngineFlags, Coroutines, Closing
  <2> QED BY <2>1, SamePhaseSteps
<1> QED BY <1>2, <1>3 DEF AlertReceived

LEMMA ServerHelloSteps ==
  ASSUME EngineInv, ReadServerHello
  PROVE  SessionStep
<1>1. PICK name \in {"ServerHello", "ServerHelloResumed"} : ReadServerHello!(name)
  BY DEF ReadServerHello
<1> DEFINE ri == Head(inrec.body).n = 1
           resumes == name = "ServerHelloResumed" /\ eng.session
<1>2. ~eng.closed /\ hs.pc = "read_ServerHello"
  BY <1>1 DEF Incoming, Reading, EngineInv, Control
<1>3. CASE Fail("BAD_SECRENEG")
  BY <1>2, <1>3, FailSteps
<1>4. CASE /\ eng' = [eng EXCEPT !.session = TRUE, !.reneg = IF ri THEN 2 ELSE 1]
           /\ hs' = [hs EXCEPT !.resuming = resumes, !.ate = TRUE,
                       !.pc = IF resumes THEN "read_CCS" ELSE "read_Certificate"]
  <2> HIDE DEF ri, resumes
  <2>1. SamePhase
    BY <1>2, <1>4 DEF SamePhase, SameKeys, EngineInv, EngineTypeOK, EngineFlags, Coroutines,
         Closing
  <2> QED BY <2>1, SamePhaseSteps
<1> QED BY <1>1, <1>3, <1>4

LEMMA WaitingSteps ==
  ASSUME EngineInv, ~hs.can_output,
         WriteClientHello \/ WriteFlight \/ WriteCCS \/ WriteFinished \/ WriteNoRenegotiation
           \/ WriteCloseNotify
  PROVE  SessionStep
<1>1. Suspend(hs.pc)
  BY DEF WriteClientHello, WriteFlight, WriteCCS, WriteFinished, WriteNoRenegotiation,
         WriteCloseNotify
<1> QED BY <1>1, SuspendSteps

(* Every step of the handshake processor is one of the session, or none.   *)
LEMMA HandshakeSteps ==
  ASSUME EngineInv, HandshakeStep
  PROVE  SessionStep
<1>1. ~eng.closed
  BY DEF HandshakeStep, wait_co, wait_for_close, Main, StartHandshake, WriteClientHello,
       ReadWaits,
     SkipHelloRequest, ReadUnexpected, ReadServerHello, ReadCertificate, ReadServerKeyExchange,
     ReadCertificateRequest, ReadServerHelloDone, ReadCCS, ReadFinished, ReadHelloRequest,
     WriteFlight, FlushFlight, WriteCCS, WriteFinished, HandshakeDone, EnterMain, Decline,
     WriteNoRenegotiation, StartClose, WriteCloseNotify, AwaitCloseNotify,
     Incoming, Reading, Running, EngineInv, Control
<1>2. CASE wait_co
  BY <1>2, MoveSteps, AlertSteps DEF wait_co
<1>3. CASE wait_for_close
  <2>1. CASE CloseAlertReceived
    BY <1>3, <2>1, CloseAlertSteps DEF wait_for_close
  <2>2. CASE (GotoAte(hs.pc) \/ Goto(hs.pc)) /\ eng' = eng
    BY <1>3, <2>2, MoveSteps DEF wait_for_close
  <2> QED BY <1>3, <2>1, <2>2 DEF wait_for_close
<1>4. CASE Main
  <2>1. hs.pc = "main"
    BY <1>4 DEF Main, Running
  <2>2. CASE HasInput /\ inrec.type = "handshake"
    BY <1>4, <2>2, ReopenSteps
  <2>3. CASE Fail("UNEXPECTED")
    BY <1>1, <2>3, FailSteps
  <2>4. CASE ~HasInput /\ hs.action = 2 /\ eng.application_data = 1
    BY <1>4, <2>4, MoveSteps
  <2>5. CASE Suspend("main")
    BY <2>1, <2>5, SuspendSteps
  <2> QED BY <1>4, <2>2, <2>3, <2>4, <2>5 DEF Main
<1>5. CASE ReadWaits
  BY <1>5, SuspendSteps DEF ReadWaits
<1>6. CASE ReadUnexpected
  BY <1>1, <1>6, FailSteps DEF ReadUnexpected
<1>7. CASE ReadServerHelloDone
  <2>1. CASE Len(inrec.body) = 1
    BY <1>7, <2>1, MoveSteps
  <2>2. CASE Fail("UNEXPECTED")
    BY <1>1, <2>2, FailSteps
  <2> QED BY <1>7, <2>1, <2>2 DEF ReadServerHelloDone
<1>8. CASE ReadCCS
  <2>1. CASE HasInput /\ inrec.type = "change_cipher_spec"
    BY <1>8, <2>1, KeyChangeSteps
  <2>2. CASE Fail("UNEXPECTED")
    BY <1>1, <2>2, FailSteps
  <2>3. CASE Suspend("read_CCS")
    BY <1>8, <2>3, SuspendSteps DEF ReadCCS, Running
  <2> QED BY <1>8, <2>1, <2>2, <2>3 DEF ReadCCS
<1>9. CASE WriteClientHello \/ WriteFlight \/ WriteCCS \/ WriteFinished \/ WriteNoRenegotiation
             \/ WriteCloseNotify
  <2>1. CASE ~hs.can_output
    BY <1>9, <2>1, WaitingSteps
  <2>2. CASE hs.can_output
    BY <1>9, <2>2, WriteSteps, KeyChangeSteps, OpenSteps
  <2> QED BY <2>1, <2>2
<1>10. CASE AwaitCloseNotify
  <2>1. hs.pc = "close_wait"
    BY <1>10 DEF AwaitCloseNotify, Running
  <2>2. CASE Fail("OK")
    BY <1>1, <2>2, FailSteps
  <2>3. CASE Suspend("close_wait")
    BY <2>1, <2>3, SuspendSteps
  <2> QED BY <1>10, <2>2, <2>3 DEF AwaitCloseNotify
<1>11. CASE EnterMain
  <2>1. Suspend("main") /\ (("main" \in Closing) <=> (hs.pc \in Closing))
    BY <1>11 DEF EnterMain, Running, Closing
  <2> QED BY <2>1, SuspendSteps
<1>12. CASE StartHandshake \/ HandshakeDone \/ StartClose \/ ReadServerHello
  BY <1>12, ReopenSteps, OpenSteps, ClosingSteps, ServerHelloSteps
<1>13. CASE SkipHelloRequest \/ ReadCertificate \/ ReadServerKeyExchange \/ ReadCertificateRequest
              \/ ReadFinished \/ ReadHelloRequest \/ FlushFlight \/ Decline
  BY <1>13, MoveSteps
<1> QED BY <1>2, <1>3, <1>4, <1>5, <1>6, <1>7, <1>8, <1>9, <1>10, <1>11, <1>12, <1>13
     DEF HandshakeStep

(* Calls from outside that leave flags and location alone.                 *)
LEMMA CallSteps ==
  ASSUME EngineInv, eng' = eng, hs'.pc = hs.pc
  PROVE  SessionStep
BY SamePhaseSteps DEF SamePhase, SameKeys

LEMMA JumpStays ==
  ASSUME EngineInv, NEW action, Jump(action)
  PROVE  hs'.pc = hs.pc
BY DEF Jump, EngineInv, EngineTypeOK, Coroutines

LEMMA FlushSteps ==
  ASSUME EngineInv, engine_flush
  PROVE  SessionStep
BY CallSteps DEF engine_flush

(* run_until, the br_sslio functions and the calls of the application.     *)
LEMMA RunUntilSteps ==
  ASSUME EngineInv, run_until
  PROVE  SessionStep
<1>1. CASE RunClosed \/ TargetReached
  BY <1>1, CallSteps DEF RunClosed, TargetReached, engineVars
<1>2. CASE LowWriteAccepts
  BY <1>2, CallSteps, JumpStays DEF LowWriteAccepts, sendrec_ack
<1>3. CASE LowWriteFails
  <2>1. ~eng.closed
    BY <1>3 DEF LowWriteFails, SENDREC
  <2>2. CASE Fail("IO")
    BY <2>1, <2>2, FailSteps
  <2>3. CASE UNCHANGED engineVars
    BY <2>3, CallSteps DEF engineVars
  <2> QED BY <1>3, <2>2, <2>3 DEF LowWriteFails
<1>4. CASE LowReadDelivers
  <2>1. ~eng.closed /\ recvrec_ack(Head(toClient))
    BY <1>4 DEF LowReadDelivers, MayReceive, RECVREC
  <2>2. CASE Fail("BAD_MAC") \/ Fail("UNEXPECTED")
    BY <2>1, <2>2, FailSteps
  <2>3. CASE UNCHANGED eng /\ (Jump(0) \/ UNCHANGED hs)
    BY <2>3, CallSteps, JumpStays
  <2> QED BY <2>1, <2>2, <2>3
          DEF recvrec_ack, RecvBadRecord, RecvHandshake, RecvData, engineVars
<1>5. CASE LowReadFails
  BY <1>5, FailSteps DEF LowReadFails, MayReceive, RECVREC
<1>6. CASE RunFlush
  BY <1>6, FlushSteps DEF RunFlush
<1> QED BY <1>1, <1>2, <1>3, <1>4, <1>5, <1>6 DEF run_until

LEMMA FinishIoSteps ==
  ASSUME EngineInv, FinishIo
  PROVE  SessionStep
<1>1. UNCHANGED <<eng, hs>>
  BY DEF FinishIo, FinishRead, FinishAvailable, FinishFlush, CloseLoop, FinishWrite, Accept,
         sendapp_ack, recvapp_ack, engineVars
<1> QED BY <1>1, CallSteps

LEMMA CallsSteps ==
  ASSUME EngineInv, CallReturns \/ CallStarts
  PROVE  SessionStep
<1>1. CASE Connect
  BY <1>1, ResetSteps DEF Connect
<1>2. CASE UNCHANGED engineVars
  BY <1>2, CallSteps DEF engineVars
<1>3. CASE engine_flush
  BY <1>3, FlushSteps
<1>4. CASE engine_close
  BY <1>4, CallSteps, JumpStays DEF engine_close
<1>5. CASE engine_renegotiate
  BY <1>5, CallSteps, JumpStays DEF engine_renegotiate
<1> QED BY <1>1, <1>2, <1>3, <1>4, <1>5
        DEF CallReturns, CallStarts, ConnectReturns, WriteLoop, WriteFlush, Return, Stopped,
            Write, Read, Available, Flush, Stop, SslIoCall,
            BeginRead, BeginWrite, BeginAvailable, BeginFlush, BeginClose

(* Every step is one of the session, or none.                              *)
LEMMA NextSteps ==
  ASSUME EngineInv, [Next]_vars
  PROVE  SessionStep
<1>1. CASE EngineStep
  BY <1>1, HandshakeSteps DEF EngineStep
<1>2. CASE IoStep
  BY <1>2, RunUntilSteps, FinishIoSteps DEF IoStep
<1>3. CASE CallReturns \/ CallStarts
  BY <1>3, CallsSteps
<1>4. CASE UNCHANGED engineVars
  BY <1>4, CallSteps DEF engineVars
<1> QED BY <1>1, <1>2, <1>3, <1>4 DEF Next, PeerStep, vars

(* The engine implements the abstract TLS session: each handshake changes  *)
(* the keys of each direction once, in step, data flows only between       *)
(* handshakes, and closure is final.                                       *)
THEOREM EngineImplementsSession == Spec => ImplementsSession
<1>1. Init => Session!SessionInit
  BY PhaseValue DEF Init, IoInit, EngineInit, FreshEngine, Session!SessionInit
<1>2. EngineInv /\ [Next]_vars => [Session!SessionNext]_Session!session
  BY NextSteps DEF SessionStep, Session!session
<1> QED BY <1>1, <1>2, EngineSafe, PTL DEF Spec, ImplementsSession, Session!SessionSpec

-----------------------------------------------------------------------------
(* The output of the engine: the invariant, and the effects of the steps   *)
(* of the handshake processor.                                             *)

(* The locations at which what is sent is of type handshake.               *)
TypedHandshake ==
  {"write_ClientHello", "read_ServerHello", "flush", "read_CCS", "read_Finished"} \cup Negotiating

(* The type of the records to come (record_type_out) against the location  *)
(* of the processor: data is open only with type application_data and keys *)
(* in use, nothing of the application is accepted while the connection     *)
(* closes, and type alert is left only by closing.                         *)
OutputType ==
  /\ eng.application_data = 1 => eng.record_type_out = "application_data" /\ eng.out_epoch > 0
  /\ hs.pc \in Closing => eng.application_data # 1
  /\ hs.pc \in TypedHandshake => eng.record_type_out = "handshake"
  /\ eng.record_type_out = "alert" => hs.pc = "close_wait"

(* Nothing of the application is gathered in the output buffer.            *)
NoData == \A i \in DOMAIN outbuf : ~IsData(outbuf[i])

(* The locations at which the processor has flushed what the application   *)
(* left, and gathers its own.                                              *)
DataFree == {"read_ServerHello", "done",
"write_no_renegotiation"} \cup Negotiating \cup ChangingKeys

(* What is gathered is not gathered while a record leaves; the processor   *)
(* only writes over nothing of the application.                            *)
Buffered ==
  /\ outrec # NoRecord => outbuf = <<>>
  /\ hs.co # "idle" /\ hs.can_output => NoData
  /\ hs.pc \in DataFree => NoData

(* What br_sslio_run_until has reached when it ends for a call, and that   *)
(* flush has nothing of the application left to seal before the loop.      *)
InCall ==
  /\ io = "read" /\ run = "done" => Idle /\ RECVAPP
  /\ io = "write" /\ run = "done" => Idle /\ SENDAPP
  /\ io = "flush" /\ ~eng.closed /\ eng.application_data = 1 => NoData
  /\ io = "flush" /\ run = "done" => Idle /\ OutputFree

(* The inductive invariant of the output, next to EngineInv.               *)
ChannelInv == OutputType /\ Buffered /\ InCall
(* What every step keeps of the output, inside a call or not.              *)
OutputInv == OutputType /\ Buffered

(* What a step can do to the output: nothing,                              *)
SameOutput == UNCHANGED <<outbuf, outrec>>

(* A step that sends nothing and leaves the type and the keys alone: it    *)
(* waits, reads or fails.                                                  *)
Turns ==
  /\ SameOutput
  /\ eng'.application_data \in {0, eng.application_data}
  /\ eng'.record_type_out = eng.record_type_out /\ eng'.out_epoch = eng.out_epoch
  /\ eng'.closed \/ ~eng.closed
  /\ hs'.co # "idle" /\ hs'.can_output => OutputFree \/ (hs.co # "idle" /\ hs.can_output)
  /\ hs'.pc \in Closing => hs'.pc = hs.pc
  /\ hs.pc = "close_wait" => hs'.pc = "close_wait"
  /\ hs'.pc \in TypedHandshake => hs.pc \in TypedHandshake
  /\ hs'.pc \in DataFree => hs.pc \in DataFree

(* The processor, in control, goes from s to t.                            *)
Pcs(s, t) == hs.pc = s /\ hs.co = "running" /\ hs'.pc = t

(* A handshake begins: the engine takes no data.                           *)
Begins ==
  /\ SameOutput
  /\ eng' = [eng EXCEPT !.application_data = 0, !.record_type_out = "handshake"]
  /\ Pcs("start", "write_ClientHello") /\ hs'.can_output = hs.can_output

(* The handshake is done: data from here on.                               *)
Opens ==
  /\ SameOutput
  /\ eng' = OpenChannel
  /\ Pcs("done", "enter_main") /\ hs'.can_output = hs.can_output

(* One message is sealed as a record of its own.                           *)
Emits(type, item) ==
  /\ hs.can_output /\ ~hs'.can_output
  /\ outbuf = <<>> /\ outbuf' = <<>>
  /\ outrec' = Record(type, <<item>>, eng.out_epoch)

(* The five messages that leave as records of their own.                   *)
Answers ==
  \/ /\ Emits("handshake", Msg("ClientHello"))
     /\ Pcs("write_ClientHello", "read_ServerHello") /\ eng' = eng
  \/ /\ Emits("change_cipher_spec", Msg("ccs"))
     /\ Pcs("write_CCS", "write_Finished")
     /\ eng' = [eng EXCEPT !.record_type_out = "change_cipher_spec", !.out_epoch = @ + 1]
  \/ /\ Emits("handshake", Msg("Finished"))
     /\ Pcs("write_Finished", IF hs.resuming THEN "done" ELSE "read_CCS")
     /\ eng' = [eng EXCEPT !.record_type_out = "handshake"]
  \/ /\ Emits("alert", Msg("no_renegotiation"))
     /\ Pcs("write_no_renegotiation", "enter_main")
     /\ eng' = OpenChannel
  \/ /\ Emits("alert", Msg("close_notify"))
     /\ Pcs("close_out", "close_wait")
     /\ eng' = [eng EXCEPT !.record_type_out = "alert"]

(* Gathers a message, or seals what is gathered.                           *)
Gathers ==
  /\ eng' = eng /\ hs.co = "running"
  /\ hs.pc \in DOMAIN Flight /\ hs.can_output
  /\ hs'.pc = Flight[hs.pc].next
  /\ \/ outbuf' = Append(outbuf, Flight[hs.pc].item) /\ outrec' = outrec
     \/ Seal(Append(outbuf, Flight[hs.pc].item)) /\ ~hs'.can_output

(* The processor flushes: before ChangeCipherSpec, before it declines a    *)
(* renegotiation, before it closes.                                        *)
Empties ==
  /\ Seal(outbuf)
  /\ hs'.can_output = (outrec' = NoRecord)
  /\ \/ Pcs("flush", "write_CCS") /\ eng' = eng
     \/ Pcs("decline", "write_no_renegotiation") /\ eng' = eng
     \/ /\ Pcs("close", "close_out")
        /\ eng' = [eng EXCEPT !.application_data = IF hs.cnr THEN 0 ELSE 2 * @]

(* The effects a step of the handshake processor can have.                 *)
Effect == Turns \/ Begins \/ Opens \/ Answers \/ Gathers \/ Empties

(* Each effect keeps the invariant of the output.                          *)
LEMMA TurnKeeps ==
  ASSUME EngineInv, OutputType, Buffered, Turns
  PROVE  OutputType' /\ Buffered'
<1>1. OutputType'
  BY DEF OutputType, Turns
<1>2. Buffered'
  BY DEF Buffered, Turns, SameOutput, OutputFree, NoData
<1> QED BY <1>1, <1>2

LEMMA BeginKeeps ==
  ASSUME EngineInv, OutputType, Buffered, Begins
  PROVE  OutputType' /\ Buffered'
<1> USE DEF Begins, Pcs, EngineInv, EngineTypeOK, EngineFlags, Coroutines
<1>1. OutputType'
  BY DEF OutputType, Closing
<1>2. Buffered'
  BY DEF Buffered, SameOutput, NoData, DataFree, Negotiating, ChangingKeys
<1> QED BY <1>1, <1>2

LEMMA OpenKeeps ==
  ASSUME EngineInv, OutputType, Buffered, Opens
  PROVE  OutputType' /\ Buffered' /\ NoData'
<1> USE DEF Opens, Pcs, EngineInv, EngineTypeOK, EngineFlags, Coroutines
<1>1. eng.out_epoch > 0
  BY DEF KeysMatch, InSession
<1>2. OutputType'
  BY <1>1 DEF OutputType, Closing, OpenChannel, TypedHandshake, Negotiating
<1>3. NoData'
  BY DEF Buffered, DataFree, SameOutput, NoData
<1>4. Buffered'
  BY <1>3 DEF Buffered, SameOutput
<1> QED BY <1>2, <1>3, <1>4

LEMMA AnswerKeeps ==
  ASSUME EngineInv, OutputType, Buffered, Answers
  PROVE  OutputType' /\ Buffered' /\ NoData'
<1>1. Buffered' /\ NoData'
  BY DEF Answers, Emits, Buffered, NoData
<1> USE DEF Pcs, EngineInv, EngineTypeOK, EngineFlags, Coroutines
<1>2. eng.application_data # 1
  BY DEF Answers, OutputType, DataOff, Closing, Locations, AtHello, ChangingKeys, InSession
<1>3. hs.pc = "write_no_renegotiation" => eng.out_epoch > 0
  BY DEF KeysMatch, InSession
<1>4. OutputType'
  BY <1>2, <1>3 DEF Answers, OutputType, OpenChannel, Closing, TypedHandshake, Negotiating
<1> QED BY <1>1, <1>4

LEMMA GatherKeeps ==
  ASSUME EngineInv, OutputType, Buffered, Gathers
  PROVE  OutputType' /\ Buffered' /\ NoData'
<1>1. /\ hs.pc \in Negotiating /\ hs.pc \in TypedHandshake /\ hs.pc \notin Closing
      /\ hs'.pc \in Negotiating \cup {"flush"} /\ hs'.pc \in TypedHandshake
      /\ hs'.pc \notin Closing
  BY DEF Gathers, Flight, Negotiating, TypedHandshake, Closing
<1>2. OutputType'
  BY <1>1 DEF OutputType, Gathers, Closing
<1>3. outrec = NoRecord
  BY DEF Gathers, EngineInv, Control
<1>4. NoData /\ outbuf \in Seq(Item)
  BY <1>1 DEF Buffered, Gathers, EngineInv, Items
<1>5. ~IsData(Flight[hs.pc].item) /\ Flight[hs.pc].item \in Item
  BY DEF Gathers, Flight, IsData, Msg, Item
<1> HIDE DEF Item, IsData, Flight
<1>6. CASE outbuf' = Append(outbuf, Flight[hs.pc].item) /\ outrec' = outrec
  <2>1. NoData'
    BY <1>4, <1>5, <1>6 DEF NoData
  <2> QED BY <1>2, <1>3, <1>6, <2>1 DEF Buffered
<1>7. CASE Seal(Append(outbuf, Flight[hs.pc].item)) /\ ~hs'.can_output
  <2>1. outbuf' = <<>>
    BY <1>3, <1>4, <1>5, <1>7 DEF Seal
  <2> QED BY <1>2, <1>7, <2>1 DEF Buffered, NoData
<1> QED BY <1>6, <1>7 DEF Gathers

LEMMA EmptyKeeps ==
  ASSUME EngineInv, OutputType, Buffered, Empties
  PROVE  OutputType' /\ Buffered' /\ outbuf' = <<>>
<1>1. outbuf' = <<>>
  BY DEF Empties, Seal, Buffered
<1>2. Buffered'
  BY <1>1 DEF Buffered, NoData
<1>3. OutputType'
  BY DEF Empties, Pcs, OutputType, Closing, TypedHandshake, Negotiating, EngineInv, EngineTypeOK,
         EngineFlags, Coroutines, DataOff
<1> QED BY <1>1, <1>2, <1>3

-----------------------------------------------------------------------------
(* The steps of the handshake processor.                                   *)

(* The steps of the processor have these effects. First those that wait,   *)
(* fail and read.                                                          *)
LEMMA SuspendEffect ==
  ASSUME EngineInv, NEW pc, Suspend(pc),
         pc = hs.pc \/ (pc = "main" /\ hs.pc = "enter_main"), hs.co = "running"
  PROVE  Turns
BY DEF Turns, Suspend, SameOutput, EngineInv, EngineTypeOK, Coroutines, EngineFlags, OutputFree,
       Closing, TypedHandshake, DataFree, Negotiating, ChangingKeys

LEMMA FailEffect ==
  ASSUME EngineInv, NEW err, Fail(err)
  PROVE  Turns
BY DEF Turns, Fail, SameOutput, EngineInv, EngineTypeOK, Coroutines, EngineFlags

LEMMA WaitEffect ==
  ASSUME EngineInv, wait_co \/ wait_for_close
  PROVE  Turns
<1>1. ~eng.closed /\ hs.co = "resumed"
  BY DEF wait_co, wait_for_close, EngineInv, Control
<1>2. CASE wait_co /\ (CloseRequested \/ Resumed)
  BY <1>1, <1>2 DEF wait_co, CloseRequested, Resumed, Goto, Turns, SameOutput, EngineInv,
       EngineTypeOK,
       Coroutines, EngineFlags, Closing, TypedHandshake, DataFree, Negotiating, ChangingKeys
<1>3. CASE wait_co /\ AlertReceived
  <2>1. CASE Fail(Head(inrec.body).msg)
    BY <2>1, FailEffect
  <2>2. CASE /\ eng' = [eng EXCEPT !.shutdown_recv = TRUE]
             /\ hs' = [hs EXCEPT !.co = "running", !.pc = "close", !.cnr = TRUE, !.ate = TRUE]
             /\ SameOutput
    BY <1>1, <1>3, <2>2 DEF wait_co, Turns, SameOutput, EngineInv, EngineTypeOK, Coroutines,
         EngineFlags,
         Closing, TypedHandshake, DataFree, Negotiating, ChangingKeys
  <2>3. CASE GotoAte(hs.pc) /\ UNCHANGED eng /\ SameOutput
    BY <1>1, <2>3 DEF GotoAte, Turns, SameOutput, EngineInv, EngineTypeOK, Coroutines, EngineFlags
  <2> QED BY <1>3, <2>1, <2>2, <2>3 DEF AlertReceived, SameOutput
<1>4. CASE wait_for_close /\ CloseAlertReceived
  <2>1. CASE Fail(Head(inrec.body).msg)
    BY <2>1, FailEffect
  <2>2. CASE Head(inrec.body).msg \in {"warning", "close_notify"}
    <3>1. /\ eng' = [eng EXCEPT !.application_data = 0,
                       !.shutdown_recv = @ \/ Head(inrec.body).msg = "close_notify"]
          /\ hs' = [hs EXCEPT !.co = "running", !.ate = TRUE,
                       !.cnr = (Head(inrec.body).msg = "close_notify")]
          /\ SameOutput
      BY <1>4, <2>2 DEF CloseAlertReceived, SameOutput
    <3> QED BY <1>1, <3>1 DEF Turns, SameOutput, EngineInv, EngineTypeOK, Coroutines, EngineFlags
  <2> QED BY <1>4, <2>1, <2>2 DEF CloseAlertReceived
<1>5. CASE wait_for_close /\ ~CloseAlertReceived
  <2>1. (Goto(hs.pc) \/ GotoAte(hs.pc)) /\ UNCHANGED eng /\ SameOutput
    BY <1>5 DEF wait_for_close, SameOutput
  <2> QED BY <1>1, <2>1 DEF Goto, GotoAte, Turns, SameOutput, EngineInv, EngineTypeOK,
         Coroutines, EngineFlags
<1> QED BY <1>2, <1>3, <1>4, <1>5 DEF wait_co, wait_for_close

LEMMA ReadEffect ==
  ASSUME EngineInv,
         \/ Main \/ ReadWaits \/ SkipHelloRequest \/ ReadUnexpected \/ ReadServerHello \/ ReadCertificate
         \/ ReadServerKeyExchange \/ ReadCertificateRequest \/ ReadServerHelloDone \/ ReadCCS
         \/ ReadFinished \/ ReadHelloRequest
  PROVE  Turns
<1>1. ~eng.closed /\ hs.co = "running"
  BY DEF Main, ReadWaits, SkipHelloRequest, ReadUnexpected, ReadServerHello, ReadCertificate,
       ReadServerKeyExchange, ReadCertificateRequest, ReadServerHelloDone, ReadCCS, ReadFinished,
       ReadHelloRequest, Incoming, Reading, Running, EngineInv, Control
<1> USE DEF Turns, SameOutput, EngineInv, EngineTypeOK, Coroutines, EngineFlags,
       Closing, TypedHandshake, DataFree, Negotiating, ChangingKeys
<1>2. CASE Main
  <2>1. CASE HasInput /\ inrec.type = "handshake"
    BY <1>1, <1>2, <2>1 DEF Main, Running, Goto
  <2>2. CASE Fail("UNEXPECTED")
    BY <2>2, FailEffect
  <2>3. CASE ~HasInput /\ hs.action = 2 /\ eng.application_data = 1
    BY <1>1, <1>2, <2>3 DEF Main, Running, Goto
  <2>4. CASE Suspend("main")
    BY <1>1, <1>2, <2>4, SuspendEffect DEF Main, Running
  <2> QED BY <1>2, <2>1, <2>2, <2>3, <2>4 DEF Main
<1>3. CASE ReadWaits
  BY <1>1, <1>3, SuspendEffect DEF ReadWaits
<1>4. CASE ReadUnexpected
  BY <1>4, FailEffect DEF ReadUnexpected
<1>5. CASE SkipHelloRequest
  BY <1>1, <1>5 DEF SkipHelloRequest, GotoAte
<1>6. CASE ReadServerHello
  <2>1. PICK name \in {"ServerHello", "ServerHelloResumed"} : ReadServerHello!(name)
    BY <1>6 DEF ReadServerHello
  <2> DEFINE ri == Head(inrec.body).n = 1
             resumes == name = "ServerHelloResumed" /\ eng.session
  <2>2. CASE Fail("BAD_SECRENEG")
    BY <2>2, FailEffect
  <2>3. CASE /\ eng' = [eng EXCEPT !.session = TRUE, !.reneg = IF ri THEN 2 ELSE 1]
             /\ hs' = [hs EXCEPT !.resuming = resumes, !.ate = TRUE,
                         !.pc = IF resumes THEN "read_CCS" ELSE "read_Certificate"]
             /\ SameOutput
    <3>1. hs.pc = "read_ServerHello"
      BY <2>1
    <3> HIDE DEF ri, resumes
    <3> QED BY <1>1, <2>3, <3>1
  <2> QED BY <2>1, <2>2, <2>3
<1>7. CASE ReadCertificate
  BY <1>1, <1>7 DEF ReadCertificate, GotoAte
<1>8. CASE ReadServerKeyExchange
  BY <1>1, <1>8 DEF ReadServerKeyExchange, GotoAte
<1>9. CASE ReadCertificateRequest
  BY <1>1, <1>9 DEF ReadCertificateRequest
<1>10. CASE ReadServerHelloDone
  <2>1. CASE Len(inrec.body) = 1
    <3>1. /\ hs.pc = "read_ServerHelloDone" /\ UNCHANGED eng /\ SameOutput
          /\ GotoAte(IF hs.auth THEN "write_Certificate" ELSE "write_ClientKeyExchange")
      BY <1>10, <2>1 DEF ReadServerHelloDone
    <3> QED BY <1>1, <3>1 DEF GotoAte
  <2>2. CASE Fail("UNEXPECTED")
    BY <2>2, FailEffect
  <2> QED BY <1>10, <2>1, <2>2 DEF ReadServerHelloDone
<1>11. CASE ReadCCS
  <2>1. CASE HasInput /\ inrec.type = "change_cipher_spec"
    BY <1>1, <1>11, <2>1 DEF ReadCCS, Running, GotoAte
  <2>2. CASE Fail("UNEXPECTED")
    BY <2>2, FailEffect
  <2>3. CASE Suspend("read_CCS")
    BY <1>1, <1>11, <2>3, SuspendEffect DEF ReadCCS, Running
  <2> QED BY <1>11, <2>1, <2>2, <2>3 DEF ReadCCS
<1>12. CASE ReadFinished
  BY <1>1, <1>12 DEF ReadFinished, GotoAte
<1>13. CASE ReadHelloRequest
  BY <1>1, <1>13 DEF ReadHelloRequest, GotoAte
<1> QED BY <1>2, <1>3, <1>4, <1>5, <1>6, <1>7, <1>8, <1>9, <1>10, <1>11, <1>12, <1>13

(* The messages that are sealed at once: nothing is gathered when one is   *)
(* written.                                                                *)
LEMMA WriteEffect ==
  ASSUME EngineInv, OutputType, Buffered,
         \/ WriteClientHello \/ WriteCCS \/ WriteFinished \/ WriteNoRenegotiation
         \/ WriteCloseNotify
  PROVE  Turns \/ Answers
<1>1. hs.co = "running"
  BY DEF WriteClientHello, WriteCCS, WriteFinished, WriteNoRenegotiation, WriteCloseNotify,
       Running
<1>2. CASE ~hs.can_output
  <2>1. Suspend(hs.pc)
    BY <1>2 DEF WriteClientHello, WriteCCS, WriteFinished, WriteNoRenegotiation, WriteCloseNotify
  <2> QED BY <1>1, <2>1, SuspendEffect
<1>3. CASE hs.can_output
  <2>1. OnlyData
    BY DEF WriteClientHello, WriteCCS, WriteFinished, WriteNoRenegotiation, WriteCloseNotify,
         Running,
           EngineInv, Gathered
  <2>2. NoData /\ outbuf \in Seq(Item)
    BY <1>1, <1>3 DEF Buffered, EngineInv, Items
  <2>3. outbuf = <<>>
    <3>1. DOMAIN outbuf = {}
      BY <2>1, <2>2 DEF OnlyData, NoData
    <3> QED BY <2>2, <3>1
  <2> USE <1>1, <1>3, <2>3 DEF Running, Emit, Answers, Emits, Pcs, EngineInv, EngineTypeOK,
         Coroutines
  <2>4. CASE WriteClientHello
    <3>1. eng.record_type_out = "handshake"
      BY <2>4 DEF WriteClientHello, OutputType, TypedHandshake
    <3> QED BY <2>4, <3>1 DEF WriteClientHello
  <2>5. CASE WriteCCS
    BY <2>5 DEF WriteCCS
  <2>6. CASE WriteFinished
    BY <2>6 DEF WriteFinished
  <2>7. CASE WriteNoRenegotiation
    BY <2>7 DEF WriteNoRenegotiation
  <2>8. CASE WriteCloseNotify
    BY <2>8 DEF WriteCloseNotify
  <2> QED BY <2>4, <2>5, <2>6, <2>7, <2>8
<1> QED BY <1>2, <1>3

(* The messages of the flight, which are gathered.                         *)
LEMMA FlightEffect ==
  ASSUME EngineInv, WriteFlight
  PROVE  Turns \/ Gathers
<1> DEFINE body == Append(outbuf, Flight[hs.pc].item)
<1>1. hs.co = "running" /\ hs.pc \in DOMAIN Flight
  BY DEF WriteFlight
<1>2. CASE ~hs.can_output
  BY <1>1, <1>2, SuspendEffect DEF WriteFlight
<1>3. CASE hs.can_output /\ outbuf' = body /\ UNCHANGED <<eng, outrec>> /\ Goto(Flight[hs.pc].next)
  BY <1>1, <1>3 DEF Gathers, Goto, EngineInv, EngineTypeOK, Coroutines
<1>4. CASE hs.can_output /\ Seal(body) /\ UNCHANGED eng
             /\ hs' = [hs EXCEPT !.pc = Flight[hs.pc].next, !.can_output = FALSE]
  <2>1. hs'.pc = Flight[hs.pc].next /\ ~hs'.can_output
    BY <1>4 DEF EngineInv, EngineTypeOK, Coroutines
  <2> QED BY <1>1, <1>4, <2>1 DEF Gathers
<1> QED BY <1>2, <1>3, <1>4 DEF WriteFlight

(* Every step of the processor has one of the effects.                     *)
LEMMA HandshakeEffects ==
  ASSUME EngineInv, OutputType, Buffered, HandshakeStep
  PROVE  Effect
<1>1. CASE wait_co \/ wait_for_close
  BY <1>1, WaitEffect DEF Effect
<1>2. CASE \/ Main \/ ReadWaits \/ SkipHelloRequest \/ ReadUnexpected \/ ReadServerHello \/ ReadCertificate
         \/ ReadServerKeyExchange \/ ReadCertificateRequest \/ ReadServerHelloDone \/ ReadCCS
         \/ ReadFinished \/ ReadHelloRequest
  BY <1>2, ReadEffect DEF Effect
<1>3. CASE \/ WriteClientHello \/ WriteCCS \/ WriteFinished \/ WriteNoRenegotiation
         \/ WriteCloseNotify
  BY <1>3, WriteEffect DEF Effect
<1>4. CASE WriteFlight
  BY <1>4, FlightEffect DEF Effect
<1> USE DEF Running, Pcs, Goto, EngineInv, EngineTypeOK, Coroutines
<1>5. CASE StartHandshake
  BY <1>5 DEF StartHandshake, Effect, Begins, SameOutput
<1>6. CASE HandshakeDone
  BY <1>6 DEF HandshakeDone, Effect, Opens, SameOutput
<1>7. CASE FlushFlight \/ Decline \/ StartClose
  BY <1>7 DEF FlushFlight, Decline, StartClose, Effect, Empties
<1>8. CASE EnterMain
  BY <1>8, SuspendEffect DEF EnterMain, Effect
<1>9. CASE AwaitCloseNotify
  <2>1. CASE Fail("OK")
    BY <2>1, FailEffect DEF Effect
  <2>2. CASE Suspend("close_wait")
    BY <1>9, <2>2, SuspendEffect DEF AwaitCloseNotify, Effect
  <2> QED BY <1>9, <2>1, <2>2 DEF AwaitCloseNotify
<1> QED BY <1>1, <1>2, <1>3, <1>4, <1>5, <1>6, <1>7, <1>8, <1>9 DEF HandshakeStep

(* The processor keeps the invariant of the output, and gathers no data of *)
(* its own.                                                                *)
LEMMA HandshakeKeepsOutput ==
  ASSUME EngineInv, OutputType, Buffered, HandshakeStep
  PROVE  /\ OutputType' /\ Buffered' /\ (NoData => NoData')
         /\ eng'.application_data = 1 => eng.application_data = 1 \/ NoData'
<1>1. CASE Turns
  BY <1>1, TurnKeeps DEF Turns, SameOutput, NoData
<1>2. CASE Begins
  BY <1>2, BeginKeeps DEF Begins, SameOutput, NoData, EngineInv, EngineTypeOK, EngineFlags
<1>3. CASE Opens \/ Answers \/ Gathers \/ Empties
  <2>1. outbuf' = <<>> => NoData'
    BY DEF NoData
  <2> QED BY <1>3, <2>1, OpenKeeps, AnswerKeeps, GatherKeeps, EmptyKeeps
<1> QED BY <1>1, <1>2, <1>3, HandshakeEffects DEF Effect

(* A step of the processor needs its control.                              *)
LEMMA ProcessorRuns ==
  ASSUME HandshakeStep
  PROVE  hs.co # "idle"
BY DEF HandshakeStep, wait_co, wait_for_close, Main, StartHandshake, WriteClientHello, ReadWaits,
     SkipHelloRequest, ReadUnexpected, ReadServerHello, ReadCertificate, ReadServerKeyExchange,
     ReadCertificateRequest, ReadServerHelloDone, ReadCCS, ReadFinished, ReadHelloRequest,
     WriteFlight, FlushFlight, WriteCCS, WriteFinished, HandshakeDone, EnterMain, Decline,
     WriteNoRenegotiation, StartClose, WriteCloseNotify, AwaitCloseNotify,
     Incoming, Reading, Running

-----------------------------------------------------------------------------
(* The calls: ssl_io.c, BearSSLClient and the transport.                   *)

(* jump_handshake, br_ssl_engine_fail, and a step of others.               *)
LEMMA JumpKeepsOutput ==
  ASSUME EngineInv, OutputInv, NEW action, Jump(action), UNCHANGED <<eng, outbuf>>,
         outrec' \in {outrec, NoRecord}
  PROVE  OutputInv'
<1>1. hs'.pc = hs.pc /\ (hs'.can_output => outbuf' = <<>>)
  BY DEF Jump, EngineInv, EngineTypeOK, Coroutines
<1> QED BY <1>1 DEF OutputInv, OutputType, Buffered, NoData, Closing

LEMMA FailKeepsOutput ==
  ASSUME EngineInv, OutputInv, NEW err, Fail(err)
  PROVE  OutputInv' /\ eng'.application_data = eng.application_data /\ eng'.closed /\ outbuf' = outbuf
<1>1. /\ eng'.application_data = eng.application_data /\ eng'.closed /\ outbuf' = outbuf
  BY DEF Fail, EngineInv, EngineTypeOK, EngineFlags
<1> QED BY <1>1, FailEffect, TurnKeeps DEF OutputInv

LEMMA SameKeepsOutput ==
  ASSUME OutputInv, UNCHANGED <<eng, hs, outbuf, outrec>>
  PROVE  OutputInv'
BY DEF OutputInv, OutputType, Buffered, NoData, Closing

LEMMA SameKeepsCall ==
  ASSUME InCall, UNCHANGED <<eng, hs, inrec, outbuf, outrec, io, run>>
  PROVE  InCall'
BY DEF InCall, NoData, Idle, SENDAPP, RECVAPP, OutputFree

(* br_ssl_engine_flush leaves nothing gathered where data is open.         *)
LEMMA FlushEmpties ==
  ASSUME EngineInv, OutputInv, engine_flush
  PROVE  /\ OutputInv'
         /\ UNCHANGED <<eng, hs>>
         /\ NoData => NoData'
         /\ ~eng.closed /\ eng.application_data = 1 => outbuf' = <<>>
<1>1. ~eng.closed /\ eng.application_data = 1 => outbuf' = <<>>
  BY DEF engine_flush, Seal, OutputInv, Buffered
<1>2. outbuf' \in {outbuf, <<>>} /\ (outbuf' = outbuf => outrec' = outrec \/ outbuf' = <<>>)
  BY DEF engine_flush, Seal
<1> QED BY <1>1, <1>2 DEF engine_flush, OutputInv, OutputType, Buffered, NoData, Closing

(* The loop of br_sslio_run_until, then the end of each call of ssl_io.c,  *)
(* then the calls.                                                         *)
LEMMA RunKeepsChannel ==
  ASSUME EngineInv, ChannelInv, run_until
  PROVE  ChannelInv'
<1>0. OutputInv
  BY DEF ChannelInv, OutputInv
<1> SUFFICES OutputInv' /\ InCall'
  BY DEF ChannelInv, OutputInv
<1>1. CASE RunClosed
  BY <1>0, <1>1, SameKeepsOutput DEF RunClosed, engineVars, ChannelInv, InCall, NoData
<1>2. CASE LowWriteAccepts
  <2>1. OutputInv'
    <3>1. CASE UNCHANGED hs
      BY <1>0, <1>2, <3>1 DEF LowWriteAccepts, sendrec_ack, OutputInv, OutputType, Buffered,
           NoData
    <3>2. CASE Jump(0)
      BY <1>0, <1>2, <3>2, JumpKeepsOutput DEF LowWriteAccepts, sendrec_ack
    <3> QED BY <1>2, <3>1, <3>2 DEF LowWriteAccepts, sendrec_ack
  <2>2. InCall'
    BY <1>2 DEF LowWriteAccepts, InRun, sendrec_ack, ioVars, ChannelInv, InCall, NoData
  <2> QED BY <2>1, <2>2
<1>3. CASE LowWriteFails
  <2>1. run' = "error" /\ io' = io
    BY <1>3 DEF LowWriteFails
  <2>2. CASE Fail("IO")
    BY <1>0, <2>1, <2>2, FailKeepsOutput DEF ChannelInv, InCall
  <2>3. CASE UNCHANGED engineVars
    BY <1>0, <2>1, <2>3, SameKeepsOutput DEF engineVars, ChannelInv, InCall, NoData
  <2> QED BY <1>3, <2>2, <2>3 DEF LowWriteFails
<1>4. CASE TargetReached
  <2>1. /\ UNCHANGED <<eng, hs, inrec, outbuf, outrec, io>> /\ Idle /\ ~SENDREC /\ Target
    BY <1>4 DEF TargetReached, InRun, engineVars
  <2>2. OutputInv'
    BY <1>0, <2>1, SameKeepsOutput
  <2>3. (io = "write" => SENDAPP) /\ (io = "read" => RECVAPP)
    BY <2>1 DEF Target
  <2>4. io = "flush" => OutputFree
    <3> SUFFICES ASSUME io = "flush" PROVE OutputFree
      OBVIOUS
    <3>1. ~eng.closed /\ eng.application_data = 1
      BY <2>1 DEF Target, SENDAPP, RECVAPP
    <3>2. outrec = NoRecord /\ NoData /\ OnlyData /\ outbuf \in Seq(Item)
      BY <2>1, <3>1 DEF SENDREC, ChannelInv, InCall, EngineInv, Gathered, Idle, Items
    <3>3. DOMAIN outbuf = {}
      BY <3>2 DEF NoData, OnlyData
    <3> QED BY <3>2, <3>3 DEF OutputFree
  <2>5. InCall'
    BY <2>1, <2>3, <2>4 DEF ChannelInv, InCall, Idle, SENDAPP, RECVAPP, OutputFree, NoData
  <2> QED BY <2>2, <2>5
<1>5. CASE LowReadDelivers
  <2>1. /\ io' = io /\ run = "running" /\ (io # "available" => run' = run)
        /\ recvrec_ack(Head(toClient))
    BY <1>5 DEF LowReadDelivers
  <2>2. \/ Fail("BAD_MAC") \/ Fail("UNEXPECTED")
        \/ UNCHANGED <<eng, outbuf, outrec>> /\ (Jump(0) \/ UNCHANGED hs)
    BY <2>1 DEF recvrec_ack, RecvBadRecord, RecvHandshake, RecvData, engineVars
  <2>3. CASE Fail("BAD_MAC") \/ Fail("UNEXPECTED")
    BY <1>0, <2>1, <2>3, FailKeepsOutput DEF ChannelInv, InCall
  <2>4. CASE UNCHANGED <<eng, outbuf, outrec>> /\ (Jump(0) \/ UNCHANGED hs)
    <3>1. OutputInv'
      BY <1>0, <2>4, JumpKeepsOutput, SameKeepsOutput
    <3> QED BY <2>1, <2>4, <3>1 DEF ChannelInv, InCall, NoData
  <2> QED BY <2>2, <2>3, <2>4
<1>6. CASE LowReadFails
  BY <1>0, <1>6, FailKeepsOutput DEF LowReadFails, ChannelInv, InCall
<1>7. CASE RunFlush
  BY <1>0, <1>7, FlushEmpties DEF RunFlush, InRun, ioVars, ChannelInv, InCall
<1> QED BY <1>1, <1>2, <1>3, <1>4, <1>5, <1>6, <1>7 DEF run_until

LEMMA FinishKeepsChannel ==
  ASSUME EngineInv, ChannelInv, FinishIo
  PROVE  ChannelInv'
<1>0. OutputInv
  BY DEF ChannelInv, OutputInv
<1> SUFFICES OutputInv' /\ InCall'
  BY DEF ChannelInv, OutputInv
<1>1. CASE UNCHANGED <<eng, hs, outbuf, outrec>> /\ (io' = "none" \/ (io = "close" /\ io' = io))
  BY <1>0, <1>1, SameKeepsOutput DEF InCall
<1>2. CASE FinishRead \/ FinishAvailable \/ FinishFlush \/ CloseLoop
  <2>1. UNCHANGED <<eng, hs, outbuf, outrec>> /\ (io' = "none" \/ (io = "close" /\ io' = io))
    BY <1>2 DEF FinishRead, FinishAvailable, FinishFlush, CloseLoop, engineVars, Returns,
         recvapp_ack
  <2> QED BY <1>1, <2>1
<1>3. CASE FinishWrite(todo)
  <2>1. io' = "none" /\ Idle
    BY <1>3 DEF FinishWrite, Returns
  <2>2. CASE UNCHANGED engineVars
    BY <1>1, <2>1, <2>2 DEF engineVars
  <2>3. CASE run = "done" /\ Accept(todo)
    <3>1. PICK k \in 1 .. todo : sendapp_ack([i \in 1 .. k |-> Data(wrote + i)])
      BY <2>3 DEF Accept
    <3>2. SENDAPP
      BY <1>3, <2>3 DEF FinishWrite, ChannelInv, InCall
    <3>3. hs.pc \notin DataFree
      BY <3>2 DEF SENDAPP, EngineInv, DataOff, DataFree, Closing, Locations, AtHello, Negotiating,
             ChangingKeys, InSession
    <3>4. UNCHANGED <<eng, hs>> /\ (outrec' = NoRecord \/ outbuf' = <<>>)
      BY <3>1, <3>2 DEF sendapp_ack, Seal, SENDAPP
    <3> QED BY <1>0, <2>1, <3>3, <3>4
            DEF OutputInv, OutputType, Buffered, InCall, Idle
  <2> QED BY <1>3, <2>2, <2>3 DEF FinishWrite
<1> QED BY <1>2, <1>3 DEF FinishIo

LEMMA CallKeepsChannel ==
  ASSUME EngineInv, ChannelInv, CallReturns \/ CallStarts
  PROVE  ChannelInv'
<1>0. OutputInv
  BY DEF ChannelInv, OutputInv
<1> SUFFICES OutputInv' /\ InCall'
  BY DEF ChannelInv, OutputInv
<1>1. CASE Connect
  <2>1. client_reset /\ io' = "flush" /\ run' = "running"
    BY <1>1 DEF Connect
  <2> QED BY <2>1 DEF client_reset, FreshEngine, OutputInv, OutputType, Buffered, InCall, NoData,
             Closing, TypedHandshake, DataFree, Negotiating, ChangingKeys
<1>2. CASE UNCHANGED engineVars /\ UNCHANGED ioVars
  BY <1>0, <1>2, SameKeepsOutput, SameKeepsCall DEF engineVars, ioVars, ChannelInv
<1>3. CASE BeginRead \/ BeginWrite \/ BeginAvailable
  BY <1>0, <1>3, SameKeepsOutput
  DEF BeginRead, BeginWrite, BeginAvailable, Enter, engineVars, InCall
<1>4. CASE BeginFlush
  <2>1. io' = "flush" /\ run' = "running" /\ engine_flush
    BY <1>4 DEF BeginFlush, Enter
  <2> QED BY <1>0, <2>1, FlushEmpties DEF InCall, NoData
<1>5. CASE BeginClose
  <2>1. io' = "close" /\ engine_close
    BY <1>5 DEF BeginClose, Enter
  <2> QED BY <1>0, <2>1, JumpKeepsOutput, SameKeepsOutput DEF InCall, engine_close
<1>6. CASE engine_renegotiate /\ UNCHANGED ioVars /\ io = "none"
  BY <1>0, <1>6, JumpKeepsOutput, SameKeepsOutput DEF InCall, engine_renegotiate, ioVars
<1> QED BY <1>1, <1>2, <1>3, <1>4, <1>5, <1>6
        DEF CallReturns, CallStarts, ConnectReturns, WriteLoop, WriteFlush, Return, Stopped,
            Write, Read, Available, Flush, Stop, SslIoCall, Free

LEMMA NextKeepsChannel ==
  ASSUME EngineInv, ChannelInv, [Next]_vars
  PROVE  ChannelInv'
<1>1. CASE EngineStep
  <2>1. HandshakeStep /\ UNCHANGED <<io, run>>
    BY <1>1 DEF EngineStep, ioVars
  <2>2. ~eng.closed
    BY <2>1, ProcessorRuns DEF EngineInv, Control
  <2> QED BY <2>1, <2>2, ProcessorRuns, HandshakeKeepsOutput DEF ChannelInv, InCall, Idle
<1>2. CASE IoStep
  BY <1>2, RunKeepsChannel, FinishKeepsChannel DEF IoStep
<1>3. CASE CallReturns \/ CallStarts
  BY <1>3, CallKeepsChannel
<1>4. CASE UNCHANGED <<engineVars, ioVars>>
  BY <1>4, SameKeepsOutput, SameKeepsCall DEF engineVars, ioVars, ChannelInv, OutputInv
<1> QED BY <1>1, <1>2, <1>3, <1>4 DEF Next, PeerStep, vars

(* The output of the engine, whatever the peer sends and the application   *)
(* calls: data is accepted only between handshakes under keys, what is     *)
(* gathered is never a mixture of messages and data while the processor    *)
(* runs, and the loop of br_sslio_run_until ends in the state its caller   *)
(* asked for.                                                              *)
THEOREM ChannelSafe == Spec => []ChannelInv
<1>1. Init => ChannelInv
  BY DEF Init, IoInit, EngineInit, FreshEngine, ChannelInv, OutputType, Buffered, InCall, NoData,
         Closing, TypedHandshake, DataFree, Negotiating, ChangingKeys
<1>2. EngineInv /\ ChannelInv /\ [Next]_vars => ChannelInv'
  BY NextKeepsChannel
<1> QED BY <1>1, <1>2, EngineSafe, PTL DEF Spec

(* FlushDelivers for any peer and any calls: when br_sslio_flush returns   *)
(* 0, everything that was gathered has been handed to the transport        *)
(* (engine_flush, then br_sslio_run_until to BR_SSL_SENDAPP or             *)
(* BR_SSL_RECVAPP, which cannot be reached before the record left).        *)
THEOREM FlushAlwaysDelivers == Spec => FlushDelivers
<1>1. EngineInv /\ ChannelInv /\ [Next]_vars =>
        [io = "flush" /\ io' = "none" /\ ret' = 0 => OutputFree]_vars
  <2> SUFFICES ASSUME ChannelInv, Next, io = "flush", io' = "none", ret' = 0
               PROVE  OutputFree
    OBVIOUS
  <2>1. FinishFlush
    BY DEF Next, EngineStep, IoStep, CallReturns, CallStarts, ConnectReturns, WriteLoop,
         WriteFlush,
           Return, Stopped, Connect, Write, Read, Available, Flush, Stop, SslIoCall, Free,
           PeerStep, ioVars,
           run_until, RunClosed, LowWriteAccepts, LowWriteFails, TargetReached, LowReadDelivers,
           LowReadFails, RunFlush, FinishIo, FinishRead, FinishAvailable, FinishWrite, CloseLoop
  <2>2. run = "done"
    BY <2>1 DEF FinishFlush, Returns
  <2> QED BY <2>2 DEF ChannelInv, InCall
<1> QED BY <1>1, EngineSafe, ChannelSafe, PTL DEF Spec, FlushDelivers

-----------------------------------------------------------------------------
(* What is on the wire: application data under keys.                       *)

(* The application calls BearSSLClient only. (A direct br_sslio_write may  *)
(* leave data gathered when a renegotiation begins, which then leaves with *)
(* the handshake.)                                                         *)
ThroughBearSSLClient == Calls \subseteq {"write", "read", "available", "flush", "stop"}

(* BearSSLClient::write between br_sslio_write_all, which gathered         *)
(* everything, and br_sslio_flush.                                         *)
Holding == call = "write" /\ io = "none" /\ todo = 0 /\ Idle /\ SENDAPP

(* Data is gathered during write only, and the processor never runs over   *)
(* it.                                                                     *)
Held ==
  /\ Holding \/ NoData
  /\ io = "write" => call = "write" /\ todo > 0
  /\ io = "none" => run = "off"

(* What the client may send.                                               *)
ClientItem ==
  [msg : {"data", "ClientHello", "Certificate", "ClientKeyExchange", "CertificateVerify", "ccs",
          "Finished", "no_renegotiation", "close_notify"},
   n : Nat]

(* Data leaves in application data records under keys, and nothing else    *)
(* does.                                                                   *)
Sound(rec) ==
  \A i \in DOMAIN rec.body :
    IsData(rec.body[i]) <=> rec.type = "application_data" /\ rec.epoch > 0

ClientRecord == [type : Types \cup {"none"}, body : Seq(ClientItem), epoch : Nat]

SoundRecord == {rec \in ClientRecord : Sound(rec)}

(* The record that leaves, and every record on its way.                    *)
Protected == outrec \in SoundRecord /\ toPeer \in Seq(SoundRecord)

(* Records that are sound: of messages, of data, none.                     *)
LEMMA ItemsAreClientItems == Item \subseteq ClientItem
BY DEF Item, ClientItem

LEMMA SoundMessages ==
  ASSUME NEW type \in Types, type # "application_data", NEW body \in Seq(ClientItem),
         \A i \in DOMAIN body : ~IsData(body[i]), NEW epoch \in Nat
  PROVE  Record(type, body, epoch) \in SoundRecord
<1>1. Sound(Record(type, body, epoch))
  BY DEF Sound, Record
<1> QED BY <1>1 DEF SoundRecord, ClientRecord, Record

LEMMA SoundData ==
  ASSUME NEW body \in Seq(ClientItem), \A i \in DOMAIN body : IsData(body[i]),
         NEW epoch \in Nat, epoch > 0
  PROVE  Record("application_data", body, epoch) \in SoundRecord
<1>1. Sound(Record("application_data", body, epoch))
  BY DEF Sound, Record
<1> QED BY <1>1 DEF SoundRecord, ClientRecord, Record, Types

LEMMA SoundNothing == NoRecord \in SoundRecord
<1>1. Sound(NoRecord)
  BY DEF Sound, NoRecord, Record
<1> QED BY <1>1 DEF SoundRecord, ClientRecord, NoRecord, Record

LEMMA SoundItem ==
  ASSUME NEW type \in {"handshake", "change_cipher_spec", "alert"},
         NEW name \in {"ClientHello", "ccs", "Finished", "no_renegotiation", "close_notify"},
         NEW epoch \in Nat
  PROVE  Record(type, <<Msg(name)>>, epoch) \in SoundRecord
<1>1. Msg(name) \in ClientItem /\ ~IsData(Msg(name))
  BY DEF Msg, ClientItem, IsData
<1> HIDE DEF ClientItem, IsData
<1>2. <<Msg(name)>> \in Seq(ClientItem) /\ \A i \in DOMAIN <<Msg(name)>> : ~IsData(<<Msg(name)>>[i])
  BY <1>1
<1> QED BY <1>2, SoundMessages DEF Types

(* A suspended processor has only left data, so that no data is nothing.   *)
LEMMA NothingGathered ==
  ASSUME EngineInv, OnlyData, NoData
  PROVE  outbuf = <<>>
<1>1. DOMAIN outbuf = {}
  BY DEF NoData, OnlyData
<1> QED BY <1>1 DEF EngineInv, Items

LEMMA IdleGathers ==
  ASSUME EngineInv, Idle
  PROVE  OnlyData
BY DEF EngineInv, Gathered, Idle

(* The processor seals messages only, in records of their type.            *)
LEMMA ProcessorProtects ==
  ASSUME EngineInv, OutputInv, NoData, outrec \in SoundRecord, HandshakeStep
  PROVE  outrec' \in SoundRecord
<1>1. eng.out_epoch \in Nat
  BY DEF EngineInv, EngineTypeOK, EngineFlags
<1>2. CASE Turns \/ Begins \/ Opens
  BY <1>2 DEF Turns, Begins, Opens, SameOutput
<1>3. CASE Answers
  BY <1>1, <1>3, SoundItem DEF Answers, Emits
<1>4. CASE Gathers
  <2>1. outbuf \in Seq(ClientItem)
    BY ItemsAreClientItems DEF EngineInv, Items
  <2>2. ~IsData(Flight[hs.pc].item) /\ Flight[hs.pc].item \in ClientItem
    BY <1>4 DEF Gathers, Flight, IsData, Msg, ClientItem
  <2>3. eng.record_type_out = "handshake"
    BY <1>4 DEF Gathers, Flight, OutputInv, OutputType, TypedHandshake, Negotiating
  <2> DEFINE body == Append(outbuf, Flight[hs.pc].item)
  <2> HIDE DEF ClientItem, IsData, Flight
  <2>4. body \in Seq(ClientItem) /\ \A i \in DOMAIN body : ~IsData(body[i])
    BY <2>1, <2>2 DEF NoData
  <2>5. outrec' \in {outrec, Record("handshake", body, eng.out_epoch)}
    BY <1>4, <2>3 DEF Gathers, Seal
  <2> HIDE DEF body
  <2> QED BY <1>1, <2>4, <2>5, SoundMessages DEF Types
<1>5. CASE Empties
  <2>1. CASE hs.pc = "flush"
    <3>1. outrec' \in {outrec, Record("handshake", outbuf, eng.out_epoch)}
      BY <1>5, <2>1 DEF Empties, Seal, OutputInv, OutputType, TypedHandshake
    <3>2. outbuf \in Seq(ClientItem)
      BY ItemsAreClientItems DEF EngineInv, Items
    <3> QED BY <1>1, <3>1, <3>2, SoundMessages DEF Types, NoData
  <2>2. CASE hs.pc # "flush"
    <3>1. OnlyData
      BY <1>5, <2>2 DEF Empties, Pcs, EngineInv, Gathered
    <3> QED BY <1>5, <3>1, NothingGathered DEF Empties, Seal
  <2> QED BY <2>1, <2>2
<1> QED BY <1>2, <1>3, <1>4, <1>5, HandshakeEffects DEF Effect, OutputInv

(* The two ways of br_ssl_engine_flush: there is nothing, or data.         *)
LEMMA FlushProtects ==
  ASSUME EngineInv, OutputInv, Idle, outrec \in SoundRecord, engine_flush, NoData \/ SENDAPP
  PROVE  NoData' /\ outrec' \in SoundRecord
<1>1. OnlyData
  BY IdleGathers
<1>2. CASE NoData
  BY <1>1, <1>2, NothingGathered DEF engine_flush, Seal, NoData
<1>3. CASE SENDAPP
  <2>1. outbuf' = <<>>
    BY <1>3, FlushEmpties DEF SENDAPP
  <2>2. outrec' \in {outrec, Record("application_data", outbuf, eng.out_epoch)}
    BY <1>3 DEF SENDAPP, engine_flush, Seal, OutputInv, OutputType
  <2>3. outbuf \in Seq(ClientItem) /\ eng.out_epoch \in Nat /\ eng.out_epoch > 0
    BY <1>3, ItemsAreClientItems
       DEF EngineInv, Items, EngineTypeOK, EngineFlags, OutputInv, OutputType, SENDAPP
  <2> QED BY <1>1, <2>1, <2>2, <2>3, SoundData DEF NoData, OnlyData
<1> QED BY <1>2, <1>3

(* The loop, the end of a call (which gathers data), and the calls of the  *)
(* application.                                                            *)
LEMMA RunProtects ==
  ASSUME EngineInv, OutputInv, Held, Protected, run_until, UNCHANGED appVars
  PROVE  Held' /\ Protected'
<1>1. run = "running" /\ io # "none" /\ io' = io /\ Idle
  BY DEF run_until, RunClosed, LowWriteAccepts, LowWriteFails, TargetReached, LowReadDelivers,
         LowReadFails, RunFlush, InRun, ioVars, Held
<1>2. NoData
  BY <1>1 DEF Held, Holding
<1>3. NoData' /\ outrec' \in SoundRecord /\ toPeer' \in Seq(SoundRecord)
  <2>1. CASE LowWriteAccepts
    BY <1>2, <2>1, SoundNothing DEF LowWriteAccepts, sendrec_ack, NoData, Protected
  <2>2. CASE RunFlush
    BY <1>1, <1>2, <2>2, FlushProtects DEF RunFlush, linkVars, Protected
  <2>3. CASE UNCHANGED <<outbuf, outrec, toPeer>>
    BY <1>2, <2>3 DEF NoData, Protected
  <2>4. CASE LowReadDelivers
    BY <2>3, <2>4 DEF LowReadDelivers, recvrec_ack, RecvBadRecord, RecvHandshake, RecvData, Fail,
           engineVars
  <2>5. CASE RunClosed \/ LowWriteFails \/ TargetReached \/ LowReadFails
    BY <2>3, <2>5 DEF RunClosed, LowWriteFails, TargetReached, LowReadFails, Fail, engineVars,
         linkVars
  <2> QED BY <2>1, <2>2, <2>4, <2>5 DEF run_until
<1> QED BY <1>1, <1>3 DEF Held, Protected, appVars

LEMMA FinishProtects ==
  ASSUME EngineInv, ChannelInv, Held, Protected, FinishIo, UNCHANGED call
  PROVE  Held' /\ Protected'
<1>1. /\ Idle /\ io # "none" /\ UNCHANGED toPeer
      /\ (io' = "none" /\ run' = "off") \/ (io' = io /\ io # "write")
  BY DEF FinishIo, FinishRead, FinishAvailable, FinishWrite, FinishFlush, CloseLoop, Returns,
       linkVars
<1>2. NoData /\ outbuf = <<>>
  BY <1>1, IdleGathers, NothingGathered DEF Held, Holding
<1>3. CASE UNCHANGED <<outbuf, outrec>>
  BY <1>1, <1>2, <1>3 DEF Held, Protected, NoData
<1>4. CASE FinishRead \/ FinishAvailable \/ FinishFlush \/ CloseLoop
  BY <1>3, <1>4 DEF FinishRead, FinishAvailable, FinishFlush, CloseLoop, recvapp_ack, engineVars
<1>5. CASE FinishWrite(todo) /\ run = "error"
  BY <1>3, <1>5 DEF FinishWrite, engineVars
<1>6. CASE FinishWrite(todo) /\ run = "done" /\ todo' = todo - (wrote' - wrote)
  <2>1. PICK k \in 1 .. todo :
              /\ k = todo \/ Len(outbuf) + k = OutCap
              /\ sendapp_ack([i \in 1 .. k |-> Data(wrote + i)])
              /\ wrote' = wrote + k
    BY <1>6 DEF FinishWrite, Accept
  <2> DEFINE items == [i \in 1 .. k |-> Data(wrote + i)]
  <2>2. /\ SENDAPP /\ eng.record_type_out = "application_data"
        /\ eng.out_epoch \in Nat /\ eng.out_epoch > 0
    BY <1>6 DEF FinishWrite, ChannelInv, InCall, OutputType, SENDAPP, EngineInv, EngineTypeOK,
           EngineFlags
  <2>3. wrote \in Nat /\ todo \in Int
    BY DEF EngineInv, Items
  <2>4. items \in Seq(ClientItem) /\ Len(items) = k /\ \A i \in DOMAIN items : IsData(items[i])
    BY <2>3 DEF Data, ClientItem, IsData
  <2> HIDE DEF items
  <2>5. outbuf \o items = items
    BY <1>2, <2>4
  <2>6. io' = "none" /\ run' = "off" /\ UNCHANGED <<eng, hs>>
    BY <1>6, <2>1 DEF FinishWrite, Returns, sendapp_ack
  <2>7. CASE k = OutCap
    <3>1. sendapp_ack(items) /\ Len(outbuf \o items) = OutCap
      BY <2>1, <2>4, <2>5, <2>7 DEF items
    <3>2. items # <<>>
      BY <2>4
    <3>3. outbuf' = <<>> /\ outrec' = Record("application_data", items, eng.out_epoch)
      BY <2>2, <2>5, <3>1, <3>2 DEF sendapp_ack, Seal, SENDAPP
    <3> QED BY <1>1, <2>2, <2>4, <2>6, <3>3, SoundData DEF Held, Protected, NoData
  <2>8. CASE k # OutCap
    <3>1. k = todo /\ todo' = 0
      BY <1>2, <1>6, <2>1, <2>3, <2>8
    <3>2. UNCHANGED outrec
      BY <2>1, <2>4, <2>5, <2>8 DEF sendapp_ack, items
    <3>3. call = "write"
      BY <1>6 DEF FinishWrite, Held
    <3>4. Holding'
      BY <1>1, <2>2, <2>6, <3>1, <3>2, <3>3 DEF Holding, Idle, SENDAPP
    <3> QED BY <1>1, <2>6, <3>2, <3>4 DEF Held, Protected
  <2> QED BY <2>7, <2>8
<1> QED BY <1>4, <1>5, <1>6 DEF FinishIo, FinishWrite

LEMMA CallProtects ==
  ASSUME ThroughBearSSLClient, EngineInv, OutputInv, Held, Protected, CallReturns \/ CallStarts
  PROVE  Held' /\ Protected'
<1>1. CASE Connect
  <2>1. client_reset /\ io' = "flush" /\ toPeer' = <<>>
    BY <1>1 DEF Connect
  <2>2. outbuf' = <<>> /\ outrec' = NoRecord
    BY <2>1 DEF client_reset
  <2> QED BY <2>1, <2>2, SoundNothing DEF Held, Protected, NoData
<1>2. CASE WriteFlush
  <2>1. io' = "flush" /\ engine_flush /\ UNCHANGED toPeer /\ Idle
    BY <1>2 DEF WriteFlush, BeginFlush, Enter, linkVars
  <2>2. NoData' /\ outrec' \in SoundRecord
    BY <2>1, FlushProtects DEF Held, Holding, Protected
  <2> QED BY <2>1, <2>2 DEF Held, Protected
<1>3. CASE Flush
  <2>1. io' = "flush" /\ engine_flush /\ UNCHANGED toPeer /\ Idle /\ call # "write"
    BY <1>3 DEF Flush, BeginFlush, Enter, linkVars, Free
  <2>2. NoData' /\ outrec' \in SoundRecord
    BY <2>1, FlushProtects DEF Held, Holding, Protected
  <2> QED BY <2>1, <2>2 DEF Held, Protected
<1>4. CASE /\ UNCHANGED <<outbuf, outrec, toPeer>> /\ NoData
           /\ io' = "none" => io = "none" /\ UNCHANGED run
           /\ io' = "write" => call' = "write" /\ todo' > 0
  BY <1>4 DEF Held, Protected, NoData
<1>5. CASE Write
  <2>1. UNCHANGED <<outbuf, outrec, toPeer>> /\ io' = "write" /\ call' = "write" /\ call # "write"
    BY <1>5 DEF Write, BeginWrite, Enter, Free, engineVars, linkVars
  <2>2. todo' > 0
    BY <1>5 DEF Write
  <2> QED BY <1>4, <2>1, <2>2 DEF Held, Holding
<1>6. CASE Read \/ Available \/ Stop
  <2>1. UNCHANGED <<outbuf, outrec, toPeer>> /\ call # "write" /\ io' # "write"
        /\ (io' = "none" => io = "none" /\ UNCHANGED run)
    BY <1>6 DEF Read, Available, Stop, BeginRead, BeginAvailable, BeginClose, Enter, Free,
         engine_close,
                engineVars, linkVars, ioVars
  <2> QED BY <1>4, <2>1 DEF Held, Holding
<1>7. CASE ConnectReturns \/ Return \/ Stopped
  <2>1. UNCHANGED <<outbuf, outrec, toPeer, io, run>> /\ call # "write" /\ io = "none"
    BY <1>7 DEF ConnectReturns, Return, Stopped, engineVars, linkVars, ioVars
  <2> QED BY <1>4, <2>1 DEF Held, Holding
<1>8. CASE WriteLoop
  <2>1. UNCHANGED <<outbuf, outrec, toPeer>> /\ NoData
    BY <1>8 DEF WriteLoop, BeginWrite, engineVars, linkVars, Held, Holding
  <2>2. CASE BeginWrite /\ UNCHANGED <<call, todo>>
    BY <1>4, <1>8, <2>1, <2>2 DEF BeginWrite, Enter, WriteLoop
  <2>3. CASE UNCHANGED ioVars /\ io = "none"
    BY <1>4, <2>1, <2>3 DEF ioVars
  <2> QED BY <1>8, <2>2, <2>3 DEF WriteLoop
<1>9. ~SslIoCall
  BY DEF SslIoCall, ThroughBearSSLClient
<1> QED BY <1>1, <1>2, <1>3, <1>5, <1>6, <1>7, <1>8, <1>9 DEF CallReturns, CallStarts

(* The peer takes records from the head of what is on its way.             *)
LEMMA PeerTakes ==
  ASSUME PeerStep
  PROVE  toPeer' = toPeer \/ (toPeer # <<>> /\ toPeer' = Tail(toPeer))
BY DEF PeerStep, ServerAnswers, ServerSpeaks, FullHandshake, AbbreviatedHandshake, ClientFlight,
     ClientCCS,
     ClientFinished, ClientDeclines, ClientData, ClientCloses, ServerIgnores, ReceiveAnything,
     Takes,
     SendData, SendHelloRequest, SendWarning, SendCloseNotify, PeerHangsUp, LinkLost, SendAnything

LEMMA NextProtects ==
  ASSUME ThroughBearSSLClient, EngineInv, ChannelInv, Held, Protected, [Next]_vars
  PROVE  Held' /\ Protected'
<1>0. OutputInv
  BY DEF ChannelInv, OutputInv
<1>1. CASE EngineStep
  <2>1. HandshakeStep /\ UNCHANGED <<toPeer, io, run, call, todo>>
    BY <1>1 DEF EngineStep, linkVars, ioVars, appVars
  <2>2. NoData
    BY <2>1, ProcessorRuns DEF Held, Holding, Idle
  <2> QED BY <1>0, <2>1, <2>2, HandshakeKeepsOutput, ProcessorProtects
         DEF Held, Protected, OutputInv
<1>2. CASE IoStep
  BY <1>0, <1>2, RunProtects, FinishProtects DEF IoStep
<1>3. CASE CallReturns \/ CallStarts
  BY <1>0, <1>3, CallProtects
<1>4. CASE PeerStep /\ UNCHANGED appVars
  <2>1. toPeer' \in Seq(SoundRecord)
    BY <1>4, PeerTakes DEF Protected
  <2>2. UNCHANGED <<eng, hs, outbuf, outrec, io, run, call, todo>>
    BY <1>4 DEF PeerStep, engineVars, ioVars, appVars
  <2> QED BY <2>1, <2>2 DEF Held, Holding, Protected, NoData, Idle, SENDAPP
<1>5. CASE UNCHANGED vars
  BY <1>5 DEF vars, engineVars, ioVars, appVars, linkVars, Held, Holding, Protected, NoData, Idle,
              SENDAPP
<1> QED BY <1>1, <1>2, <1>3, <1>4, <1>5 DEF Next

(* Data is gathered during a write only, and leaves protected.             *)
LEMMA DataAlwaysHeld == ThroughBearSSLClient => (Spec => [](Held /\ Protected))
<1> SUFFICES ASSUME ThroughBearSSLClient
             PROVE  Spec => [](Held /\ Protected)
  OBVIOUS
<1>1. Init => Held /\ Protected
  BY SoundNothing DEF Init, IoInit, EngineInit, Held, Protected, NoData
<1>2. EngineInv /\ ChannelInv /\ Held /\ Protected /\ [Next]_vars => Held' /\ Protected'
  BY NextProtects
<1> QED BY <1>1, <1>2, EngineSafe, ChannelSafe, PTL DEF Spec

(* DataProtected for any peer, for an application that calls               *)
(* BearSSLClient: every record on the wire carries application data        *)
(* exactly if it is of type application_data and sealed under the keys of  *)
(* a handshake. No renegotiation, alert or closure turns what write        *)
(* gathered into something else.                                           *)
THEOREM DataAlwaysProtected == ThroughBearSSLClient => (Spec => []DataProtected)
<1> SUFFICES ASSUME ThroughBearSSLClient
             PROVE  Spec => []DataProtected
  OBVIOUS
<1>1. Protected => DataProtected
  BY DEF Protected, SoundRecord, ClientRecord, Sound, DataProtected, OnWire
<1> QED BY <1>1, DataAlwaysHeld, PTL

-----------------------------------------------------------------------------
(* Closure: the invariant, and the processor.                              *)

(* The server has sent its close_notify.                                   *)
ServerClosing == srv.pc \in {"closing", "closed"}

(* What an honest server sends before it closes: every message but         *)
(* close_notify and the fatal alerts.                                      *)
QuietItem ==
  [msg : {"HelloRequest", "ServerHello", "ServerHelloResumed", "Certificate", "ServerKeyExchange",
          "CertificateRequest", "ServerHelloDone", "ccs", "Finished", "warning", "data"},
   n : Nat]
QuietRecord == [type : Types \cup {"none"}, body : Seq(QuietItem), epoch : Nat]

(* An alert of the client is a record of its own.                          *)
SingleRecord == {rec \in ClientRecord : rec.type = "alert" => Len(rec.body) = 1}

ServerStates == {"hello", "flight", "finished", "resumed", "confirmed", "open", "closing",
"closed"}

(* The states of the honest server.                                        *)
Servers ==
  [pc : ServerStates, ri : BOOLEAN, in_epoch : Nat, out_epoch : Nat, session : BOOLEAN,
   sent : Nat, rcvd : Seq(ClientItem), requests : Nat, warnings : Nat, records : Nat]

ServerTyped == srv \in Servers

(* What the client sends: alerts travel alone.                             *)
Sent == outrec \in SingleRecord /\ toPeer \in Seq(SingleRecord)

(* A close_notify of the server is neither on its way nor in the engine,   *)
(* and the processor has not taken one (cnr), unless the server has sent   *)
(* it.                                                                     *)
Unanswered ==
  ~ServerClosing => inrec \in QuietRecord /\ toClient \in Seq(QuietRecord) /\ ~hs.cnr

(* The processor awaits the answer to its close_notify once that was       *)
(* sealed.                                                                 *)
NotifyLeaves ==
  hs.pc = "close_wait" /\ ~eng.closed => CloseNotifySent \/ Carries(outrec, "alert",
  "close_notify")

(* The engine closes without error once both have a close_notify of the    *)
(* other.                                                                  *)
BothNotified ==
  eng.closed /\ eng.err = "OK" /\ connects > 0 => hs.cnr /\ CloseNotifySent

(* The inductive invariant of closure, next to EngineInv and ChannelInv.   *)
ClosureInv == ServerTyped /\ Sent /\ Unanswered /\ NotifyLeaves /\ BothNotified

(* The processor sends its alerts as records of their own.                 *)
LEMMA SealsSingle ==
  ASSUME NEW body \in Seq(ClientItem), EngineInv, OutputInv, outrec \in SingleRecord,
         hs.pc # "close_wait", Seal(body)
  PROVE  outrec' \in SingleRecord
<1>1. eng.record_type_out \in Types \cup {"none"} /\ eng.record_type_out # "alert" /\ eng.out_epoch \in Nat
  BY DEF EngineInv, EngineTypeOK, EngineFlags, OutputInv, OutputType
<1> QED BY <1>1 DEF Seal, SingleRecord, ClientRecord, Record

LEMMA ProcessorSends ==
  ASSUME EngineInv, OutputInv, outrec \in SingleRecord, HandshakeStep
  PROVE  outrec' \in SingleRecord
<1>1. eng.out_epoch \in Nat /\ outbuf \in Seq(ClientItem)
  BY ItemsAreClientItems DEF EngineInv, EngineTypeOK, EngineFlags, Items
<1>2. CASE Turns \/ Begins \/ Opens
  BY <1>2 DEF Turns, Begins, Opens, SameOutput
<1>3. CASE Answers
  <2>1. PICK type \in {"handshake", "change_cipher_spec", "alert"},
             name \in {"ClientHello", "ccs", "Finished", "no_renegotiation", "close_notify"} :
          outrec' = Record(type, <<Msg(name)>>, eng.out_epoch)
    BY <1>3 DEF Answers, Emits
  <2>2. Msg(name) \in ClientItem
    BY DEF Msg, ClientItem
  <2> HIDE DEF ClientItem
  <2> QED BY <1>1, <2>1, <2>2 DEF SingleRecord, ClientRecord, Record, Types
<1>4. CASE Gathers
  <2>1. Flight[hs.pc].item \in ClientItem /\ hs.pc # "close_wait"
    BY <1>4 DEF Gathers, Flight, Msg, ClientItem
  <2>2. Append(outbuf, Flight[hs.pc].item) \in Seq(ClientItem)
    BY <1>1, <2>1
  <2> QED BY <1>4, <2>1, <2>2, SealsSingle DEF Gathers
<1>5. CASE Empties
  BY <1>1, <1>5, SealsSingle DEF Empties, Pcs
<1> QED BY <1>2, <1>3, <1>4, <1>5, HandshakeEffects DEF Effect, OutputInv

(* What the processor does with its input.                                 *)
Listens ==
  /\ hs'.cnr => hs.cnr
  /\ \/ inrec' = inrec
     \/ DropInput
     \/ inrec.body # <<>> /\ TakeInput

LEMMA EmptySequence == <<>> \in Seq(QuietItem)
OBVIOUS

(* Without a close_notify in its input the processor does not find one.    *)
LEMMA ListensQuietly ==
  ASSUME inrec \in QuietRecord, ~hs.cnr, Listens
  PROVE  inrec' \in QuietRecord /\ ~hs'.cnr
<1>1. inrec.body \in Seq(QuietItem)
  BY DEF QuietRecord
<1>2. inrec.body # <<>> => Tail(inrec.body) \in Seq(QuietItem)
  BY <1>1
<1> HIDE DEF QuietItem
<1>3. CASE inrec' = inrec
  BY <1>3 DEF Listens
<1>4. CASE DropInput
  BY <1>4, EmptySequence DEF Listens, QuietRecord, DropInput
<1>5. CASE inrec.body # <<>> /\ TakeInput
  BY <1>2, <1>5 DEF Listens, QuietRecord, TakeInput
<1> QED BY <1>3, <1>4, <1>5 DEF Listens

LEMMA HeadIsQuiet ==
  ASSUME inrec \in QuietRecord, HasInput
  PROVE  Head(inrec.body).msg \notin {"close_notify", "fatal", "no_renegotiation"}
<1>1. Head(inrec.body) \in QuietItem
  BY DEF HasInput, QuietRecord
<1> QED BY <1>1 DEF QuietItem

LEMMA WaitListens ==
  ASSUME EngineInv, wait_co \/ wait_for_close, inrec \in QuietRecord
  PROVE  Listens
<1> USE DEF Listens, EngineInv, EngineTypeOK, Coroutines
<1>1. CASE CloseRequested \/ Resumed
  BY <1>1 DEF CloseRequested, Resumed, Goto
<1>2. CASE AlertReceived
  BY <1>2, HeadIsQuiet DEF AlertReceived, GotoAte, HasInput
<1>3. CASE CloseAlertReceived
  <2>1. HasInput /\ Head(inrec.body).msg = "warning" /\ TakeInput
    BY <1>3, HeadIsQuiet DEF CloseAlertReceived
  <2>2. hs' = [hs EXCEPT !.co = "running", !.ate = TRUE, !.cnr = FALSE]
    BY <1>3, <2>1 DEF CloseAlertReceived
  <2> QED BY <2>1, <2>2 DEF HasInput
<1>4. CASE (GotoAte(hs.pc) /\ DropInput) \/ (Goto(hs.pc) /\ UNCHANGED inrec)
  BY <1>4 DEF GotoAte, Goto
<1> QED BY <1>1, <1>2, <1>3, <1>4 DEF wait_co, wait_for_close

LEMMA StepListens ==
  ASSUME EngineInv, HandshakeStep, ~wait_co, ~wait_for_close
  PROVE  Listens
<1> USE DEF Listens, EngineInv, EngineTypeOK, Coroutines
<1>1. CASE \E pc \in Locations : Suspend(pc)
  BY <1>1 DEF Suspend
<1>2. CASE \E err \in Errors : Fail(err)
  BY <1>2 DEF Fail
<1>3. /\ "main" \in Locations /\ "read_CCS" \in Locations /\ "close_wait" \in Locations
      /\ "UNEXPECTED" \in Errors /\ "BAD_SECRENEG" \in Errors /\ "OK" \in Errors
  BY DEF Locations, InSession, ChangingKeys, Closing, Errors
<1>4. CASE Main
  BY <1>1, <1>2, <1>3, <1>4 DEF Main, Goto
<1>5. CASE ReadWaits \/ ReadUnexpected \/ EnterMain \/ AwaitCloseNotify
  BY <1>1, <1>2, <1>3, <1>5 DEF ReadWaits, ReadUnexpected, EnterMain, AwaitCloseNotify
<1>6. CASE SkipHelloRequest \/ ReadCertificate \/ ReadServerKeyExchange \/ ReadCertificateRequest
             \/ ReadFinished \/ ReadHelloRequest
  BY <1>6 DEF SkipHelloRequest, ReadCertificate, ReadServerKeyExchange, ReadCertificateRequest,
       ReadFinished, ReadHelloRequest, GotoAte, Incoming, HasInput
<1>7. CASE ReadServerHello
  <2>1. PICK name \in {"ServerHello", "ServerHelloResumed"} : ReadServerHello!(name)
    BY <1>7 DEF ReadServerHello
  <2> DEFINE resumes == name = "ServerHelloResumed" /\ eng.session
  <2>2. CASE Fail("BAD_SECRENEG")
    BY <1>2, <1>3, <2>2
  <2>3. CASE /\ hs' = [hs EXCEPT !.resuming = resumes, !.ate = TRUE,
                         !.pc = IF resumes THEN "read_CCS" ELSE "read_Certificate"]
             /\ TakeInput
    <3>1. inrec.body # <<>>
      BY <2>1 DEF Incoming, HasInput
    <3> HIDE DEF resumes
    <3> QED BY <2>3, <3>1
  <2> QED BY <2>1, <2>2, <2>3
<1>8. CASE ReadServerHelloDone
  <2>1. CASE Len(inrec.body) = 1
    <3>1. /\ GotoAte(IF hs.auth THEN "write_Certificate" ELSE "write_ClientKeyExchange")
          /\ TakeInput /\ inrec.body # <<>>
      BY <1>8, <2>1 DEF ReadServerHelloDone, Incoming, HasInput
    <3> QED BY <3>1 DEF GotoAte
  <2> QED BY <1>2, <1>3, <1>8, <2>1 DEF ReadServerHelloDone
<1>9. CASE ReadCCS
  BY <1>1, <1>2, <1>3, <1>9 DEF ReadCCS, GotoAte, HasInput
<1>10. CASE WriteClientHello \/ WriteCCS \/ WriteFinished \/ WriteNoRenegotiation \/ WriteCloseNotify
  <2>1. CASE ~hs.can_output
    BY <1>1, <1>10, <2>1 DEF WriteClientHello, WriteCCS, WriteFinished, WriteNoRenegotiation,
         WriteCloseNotify
  <2>2. CASE hs.can_output
    BY <1>10, <2>2 DEF WriteClientHello, WriteCCS, WriteFinished, WriteNoRenegotiation,
         WriteCloseNotify
  <2> QED BY <2>1, <2>2
<1>11. CASE WriteFlight
  <2>1. CASE ~hs.can_output
    BY <1>1, <1>11, <2>1 DEF WriteFlight
  <2>2. CASE hs.can_output
    <3>1. UNCHANGED inrec /\ \/ Goto(Flight[hs.pc].next)
                             \/ hs' = [hs EXCEPT !.pc = Flight[hs.pc].next, !.can_output = FALSE]
      BY <1>11, <2>2 DEF WriteFlight
    <3> HIDE DEF Flight
    <3> QED BY <3>1 DEF Goto
  <2> QED BY <2>1, <2>2
<1>12. CASE StartHandshake \/ FlushFlight \/ HandshakeDone \/ Decline \/ StartClose
  BY <1>12 DEF StartHandshake, FlushFlight, HandshakeDone, Decline, StartClose, Goto
<1> QED BY <1>4, <1>5, <1>6, <1>7, <1>8, <1>9, <1>10, <1>11, <1>12 DEF HandshakeStep

(* The only way to close without an error.                                 *)
LEMMA FailGivesError ==
  ASSUME EngineInv, NEW err, Fail(err), err # "OK"
  PROVE  eng'.err # "OK"
BY DEF Fail, EngineInv, EngineTypeOK, EngineFlags

LEMMA OnlyAwaitCloses ==
  ASSUME EngineInv, HandshakeStep, eng'.closed, eng'.err = "OK"
  PROVE  hs.pc = "close_wait" /\ hs.cnr /\ hs'.cnr /\ outrec = NoRecord /\ ~eng.closed
<1>1. ~eng.closed /\ hs.co # "idle"
  BY ProcessorRuns DEF EngineInv, Control
<1>2. ~(\E err \in {"fatal", "no_renegotiation", "UNEXPECTED", "BAD_SECRENEG"} : Fail(err))
  BY FailGivesError
<1>3. eng' # eng
  BY <1>1
<1> USE DEF EngineInv, EngineTypeOK, EngineFlags
<1>4. CASE AwaitCloseNotify
  <2>1. hs.cnr /\ hs.can_output /\ Fail("OK") /\ hs.pc = "close_wait"
    BY <1>3, <1>4 DEF AwaitCloseNotify, Running, Suspend
  <2> QED BY <1>1, <2>1 DEF Control, Fail, Coroutines
<1>5. CASE ReadServerHello
  <2>1. PICK name \in {"ServerHello", "ServerHelloResumed"} : ReadServerHello!(name)
    BY <1>5 DEF ReadServerHello
  <2>2. eng' = [eng EXCEPT !.session = TRUE, !.reneg = IF Head(inrec.body).n = 1 THEN 2 ELSE 1]
    BY <1>2, <2>1
  <2>3. eng'.closed = eng.closed
    BY <2>2
  <2> QED BY <1>1, <2>3
<1>6. CASE AlertReceived \/ CloseAlertReceived
  <2>1. \/ eng' = [eng EXCEPT !.shutdown_recv = TRUE] \/ eng' = eng
        \/ eng' = [eng EXCEPT !.application_data = 0,
                              !.shutdown_recv = @ \/ Head(inrec.body).msg = "close_notify"]
    BY <1>2, <1>6 DEF AlertReceived, CloseAlertReceived
  <2> QED BY <1>1, <2>1
<1>7. CASE wait_co \/ wait_for_close
  <2>1. AlertReceived \/ CloseAlertReceived
    BY <1>3, <1>7 DEF wait_co, wait_for_close, CloseRequested, Resumed
  <2> QED BY <1>6, <2>1
<1>8. CASE Main \/ ReadWaits \/ ReadUnexpected \/ ReadServerHelloDone \/ ReadCCS \/ EnterMain
  BY <1>1, <1>2, <1>3, <1>8 DEF Main, ReadWaits, ReadUnexpected, ReadServerHelloDone, ReadCCS,
       EnterMain, Suspend
<1>9. CASE StartHandshake \/ WriteCCS \/ WriteFinished \/ HandshakeDone \/ WriteNoRenegotiation
             \/ StartClose \/ WriteCloseNotify
  <2>1. CASE StartClose
    <3>1. PICK v : eng' = [eng EXCEPT !.application_data = v]
      BY <2>1 DEF StartClose
    <3> QED BY <1>1, <3>1
  <2> QED BY <1>1, <1>3, <1>9, <2>1 DEF StartHandshake, WriteCCS, WriteFinished, HandshakeDone,
         WriteNoRenegotiation,
       WriteCloseNotify, OpenChannel, Suspend
<1>10. CASE SkipHelloRequest \/ ReadCertificate \/ ReadServerKeyExchange \/ ReadCertificateRequest
             \/ ReadFinished \/ ReadHelloRequest \/ WriteFlight \/ FlushFlight \/ Decline \/ WriteClientHello
  BY <1>3, <1>10 DEF SkipHelloRequest, ReadCertificate, ReadServerKeyExchange,
       ReadCertificateRequest,
     ReadFinished, ReadHelloRequest, WriteFlight, FlushFlight, Decline, WriteClientHello, Suspend
<1> QED BY <1>4, <1>5, <1>7, <1>8, <1>9, <1>10 DEF HandshakeStep

(* How the processor comes to wait for the answer to its close_notify.     *)
LEMMA NotifyFirst ==
  ASSUME EngineInv, OutputInv, HandshakeStep, hs'.pc = "close_wait"
  PROVE  \/ hs.pc = "close_wait" /\ outrec' = outrec
         \/ Carries(outrec, "alert", "close_notify")'
<1>1. CASE Turns
  BY <1>1 DEF Turns, SameOutput, Closing
<1>2. CASE Answers
  <2>1. outrec' = Record("alert", <<Msg("close_notify")>>, eng.out_epoch)
    BY <1>2 DEF Answers, Pcs, Emits
  <2> QED BY <2>1 DEF Carries, Record, Msg
<1>3. CASE Begins \/ Opens \/ Empties
  BY <1>3 DEF Begins, Opens, Empties, Pcs
<1>4. CASE Gathers
  BY <1>4 DEF Gathers, Flight
<1> QED BY <1>1, <1>2, <1>3, <1>4, HandshakeEffects DEF Effect, OutputInv

(* The processor keeps the invariant of closure.                           *)
LEMMA ProcessorKeepsClosure ==
  ASSUME EngineInv, OutputInv, ClosureInv, HandshakeStep, UNCHANGED <<srv, toPeer, toClient,
  connects>>
  PROVE  ClosureInv'
<1>1. ServerTyped'
  BY DEF ClosureInv, ServerTyped
<1>2. Sent'
  BY ProcessorSends DEF ClosureInv, Sent
<1>3. Unanswered'
  BY WaitListens, StepListens, ListensQuietly DEF ClosureInv, Unanswered, ServerClosing
<1>4. CloseNotifySent => CloseNotifySent'
  BY DEF CloseNotifySent
<1>5. NotifyLeaves'
  <2> SUFFICES ASSUME hs'.pc = "close_wait", ~CloseNotifySent'
               PROVE  Carries(outrec, "alert", "close_notify")'
    BY DEF NotifyLeaves
  <2>1. ~eng.closed
    BY ProcessorRuns DEF EngineInv, Control
  <2> QED BY <1>4, <2>1, NotifyFirst DEF ClosureInv, NotifyLeaves, Carries
<1>6. BothNotified'
  <2> SUFFICES ASSUME eng'.closed, eng'.err = "OK"
               PROVE  hs'.cnr /\ CloseNotifySent'
    BY DEF BothNotified
  <2>1. ~Carries(NoRecord, "alert", "close_notify")
    BY DEF Carries, NoRecord, Record
  <2> QED BY <1>4, <2>1, OnlyAwaitCloses DEF ClosureInv, NotifyLeaves
<1> QED BY <1>1, <1>2, <1>3, <1>5, <1>6 DEF ClosureInv

-----------------------------------------------------------------------------
(* Closure: the rest of a step of the client.                              *)

(* The rest of a step: nothing that closure is about changes, or records   *)
(* move from the engine to the transport and from there into the engine.   *)
LEMMA SameKeepsClosure ==
  ASSUME ClosureInv, UNCHANGED <<srv, toPeer, connects, outrec>>,
         hs'.pc = hs.pc, hs'.cnr = hs.cnr,
         \/ eng'.closed = eng.closed /\ eng'.err = eng.err
         \/ eng'.closed /\ eng'.err # "OK",
         inrec \in QuietRecord /\ toClient \in Seq(QuietRecord) =>
           inrec' \in QuietRecord /\ toClient' \in Seq(QuietRecord)
  PROVE  ClosureInv'
<1>1. CloseNotifySent' = CloseNotifySent /\ ServerClosing' = ServerClosing
  BY DEF CloseNotifySent, ServerClosing
<1>2. Carries(outrec, "alert", "close_notify")' = Carries(outrec, "alert", "close_notify")
  BY DEF Carries
<1>3. ServerTyped' /\ Sent'
  BY DEF ClosureInv, ServerTyped, Sent
<1>4. Unanswered'
  BY <1>1 DEF ClosureInv, Unanswered
<1>5. NotifyLeaves' /\ BothNotified'
  BY <1>1, <1>2 DEF ClosureInv, NotifyLeaves, BothNotified
<1> QED BY <1>3, <1>4, <1>5 DEF ClosureInv

(* The output may change while no close_notify is awaited.                 *)
LEMMA OutputKeepsClosure ==
  ASSUME ClosureInv, UNCHANGED <<srv, toPeer, toClient, connects, inrec, hs, eng>>,
         outrec' \in SingleRecord, outrec' = outrec \/ hs.pc # "close_wait"
  PROVE  ClosureInv'
<1>1. CloseNotifySent' = CloseNotifySent /\ ServerClosing' = ServerClosing
  BY DEF CloseNotifySent, ServerClosing
<1> QED BY <1>1 DEF ClosureInv, ServerTyped, Sent, Unanswered, NotifyLeaves, BothNotified, Carries

(* A jump or a failure says nothing of closure.                            *)
LEMMA JumpStaysQuiet ==
  ASSUME EngineInv, NEW action, Jump(action)
  PROVE  hs'.pc = hs.pc /\ hs'.cnr = hs.cnr
BY DEF Jump, EngineInv, EngineTypeOK, Coroutines

LEMMA FailKeepsClosure ==
  ASSUME EngineInv, ClosureInv, NEW err, err # "OK", Fail(err), UNCHANGED <<srv, toPeer,
  connects>>,
         toClient \in Seq(QuietRecord) => toClient' \in Seq(QuietRecord)
  PROVE  ClosureInv'
<1>1. /\ hs'.pc = hs.pc /\ hs'.cnr = hs.cnr /\ UNCHANGED <<inrec, outrec>>
      /\ eng'.closed /\ eng'.err # "OK"
  BY DEF Fail, EngineInv, EngineTypeOK, EngineFlags, Coroutines
<1> QED BY <1>1, SameKeepsClosure

(* A flush seals data, no alert.                                           *)
LEMMA FlushKeepsClosure ==
  ASSUME EngineInv, OutputInv, ClosureInv, engine_flush, UNCHANGED <<srv, toPeer, toClient,
  connects>>
  PROVE  ClosureInv'
<1>1. CASE outrec' = outrec
  BY <1>1, OutputKeepsClosure DEF engine_flush, ClosureInv, Sent
<1>2. CASE outrec' # outrec
  <2>1. eng.application_data = 1 /\ Seal(outbuf)
    BY <1>2 DEF engine_flush
  <2>2. hs.pc # "close_wait" /\ outbuf \in Seq(ClientItem)
    BY <2>1, ItemsAreClientItems DEF OutputInv, OutputType, Closing, EngineInv, Items
  <2>3. outrec' \in SingleRecord
    BY <2>1, <2>2, SealsSingle DEF ClosureInv, Sent
  <2> QED BY <2>2, <2>3, OutputKeepsClosure DEF engine_flush
<1> QED BY <1>1, <1>2

(* The loop moves records between the engine and the transport; the end of *)
(* a call; the calls.                                                      *)
LEMMA RunKeepsClosure ==
  ASSUME EngineInv, OutputInv, ClosureInv, run_until, UNCHANGED <<srv, connects>>
  PROVE  ClosureInv'
<1>1. CASE RunClosed \/ TargetReached
  BY <1>1, SameKeepsClosure DEF RunClosed, TargetReached, engineVars, linkVars
<1>2. CASE LowWriteAccepts
  <2>1. /\ toPeer' = Append(toPeer, outrec) /\ outrec' = NoRecord /\ ~eng.closed
        /\ UNCHANGED <<eng, inrec, toClient>> /\ hs'.pc = hs.pc /\ hs'.cnr = hs.cnr
    BY <1>2, JumpStaysQuiet DEF LowWriteAccepts, sendrec_ack, SENDREC
  <2>2. toPeer \in Seq(SingleRecord) /\ outrec \in SingleRecord /\ toPeer' \in Seq(SingleRecord)
    BY <2>1 DEF ClosureInv, Sent
  <2>3. NoRecord \in SingleRecord
    BY SoundNothing DEF SoundRecord, SingleRecord, NoRecord, Record
  <2>4. CloseNotifySent \/ Carries(outrec, "alert", "close_notify") => CloseNotifySent'
    <3>1. CASE srv.pc = "closed"
      BY <3>1 DEF CloseNotifySent
    <3>2. ASSUME NEW i \in DOMAIN toPeer, Carries(toPeer[i], "alert", "close_notify")
          PROVE  CloseNotifySent'
      <4>1. i \in DOMAIN toPeer' /\ toPeer'[i] = toPeer[i]
        BY <2>1, <2>2
      <4> QED BY <3>2, <4>1 DEF CloseNotifySent, Carries
    <3>3. ASSUME Carries(outrec, "alert", "close_notify")
          PROVE  CloseNotifySent'
      <4>1. Len(toPeer) + 1 \in DOMAIN toPeer' /\ toPeer'[Len(toPeer) + 1] = outrec
        BY <2>1, <2>2
      <4> QED BY <3>3, <4>1 DEF CloseNotifySent, Carries
    <3> QED BY <3>1, <3>2, <3>3 DEF CloseNotifySent
  <2>5. ServerTyped' /\ Sent' /\ Unanswered'
    BY <2>1, <2>2, <2>3 DEF ClosureInv, ServerTyped, Sent, Unanswered, ServerClosing
  <2>6. NotifyLeaves' /\ BothNotified'
    BY <2>1, <2>4 DEF ClosureInv, NotifyLeaves, BothNotified
  <2> QED BY <2>5, <2>6 DEF ClosureInv
<1>3. CASE LowWriteFails
  BY <1>3, FailKeepsClosure, SameKeepsClosure DEF LowWriteFails, engineVars, linkVars
<1>4. CASE LowReadDelivers
  <2>1. toClient # <<>> /\ toClient' = Tail(toClient) /\ UNCHANGED toPeer /\ recvrec_ack(Head(toClient))
    BY <1>4 DEF LowReadDelivers, Arrived
  <2>2. toClient \in Seq(QuietRecord) => Head(toClient) \in QuietRecord /\ toClient' \in Seq(QuietRecord)
    BY <2>1
  <2>3. CASE Fail("BAD_MAC") \/ Fail("UNEXPECTED")
    BY <2>1, <2>2, <2>3, FailKeepsClosure
  <2>4. CASE UNCHANGED <<eng, outrec>> /\ inrec' \in {inrec, Head(toClient)} /\ (Jump(0) \/ UNCHANGED hs)
    <3>1. hs'.pc = hs.pc /\ hs'.cnr = hs.cnr
      BY <2>4, JumpStaysQuiet
    <3> QED BY <2>1, <2>2, <2>4, <3>1, SameKeepsClosure
  <2> QED BY <2>1, <2>3, <2>4 DEF recvrec_ack, RecvBadRecord, RecvHandshake, RecvData, engineVars
<1>5. CASE LowReadFails
  BY <1>5, FailKeepsClosure DEF LowReadFails, linkVars
<1>6. CASE RunFlush
  BY <1>6, FlushKeepsClosure DEF RunFlush, linkVars
<1> QED BY <1>1, <1>2, <1>3, <1>4, <1>5, <1>6 DEF run_until

LEMMA FinishKeepsClosure ==
  ASSUME EngineInv, ChannelInv, ClosureInv, FinishIo, UNCHANGED <<srv, connects>>
  PROVE  ClosureInv'
<1>1. UNCHANGED <<toPeer, toClient, hs, eng>>
  BY DEF FinishIo, FinishRead, FinishAvailable, FinishWrite, FinishFlush, CloseLoop, linkVars,
       engineVars,
         Accept, sendapp_ack, recvapp_ack
<1>2. CASE outrec' = outrec /\ inrec' = inrec
  BY <1>1, <1>2, SameKeepsClosure
<1>3. CASE outrec' = outrec /\ (DropInput \/ (TakeInput /\ inrec.body # <<>>))
  <2>1. Listens
    BY <1>1, <1>3 DEF Listens
  <2>2. inrec \in QuietRecord /\ ~hs.cnr => inrec' \in QuietRecord
    BY <2>1, ListensQuietly
  <2>3. CASE ServerClosing
    BY <1>1, <1>3, <2>3 DEF ClosureInv, ServerTyped, Sent, Unanswered, NotifyLeaves,
         BothNotified, ServerClosing,
         CloseNotifySent, Carries
  <2>4. CASE ~ServerClosing
    BY <1>1, <1>3, <2>2, <2>4, SameKeepsClosure DEF ClosureInv, Unanswered
  <2> QED BY <2>3, <2>4
<1>4. CASE FinishRead
  <2>1. run = "done" => inrec.body # <<>>
    BY <1>4 DEF FinishRead, ChannelInv, InCall, RECVAPP
  <2> QED BY <1>2, <1>3, <1>4, <2>1 DEF FinishRead, engineVars
<1>5. CASE FinishAvailable \/ FinishFlush \/ CloseLoop
  BY <1>2, <1>3, <1>5 DEF FinishAvailable, FinishFlush, CloseLoop, recvapp_ack, engineVars
<1>6. CASE FinishWrite(todo)
  <2>1. CASE UNCHANGED engineVars
    BY <1>2, <2>1 DEF engineVars
  <2>2. CASE run = "done" /\ Accept(todo)
    <3>1. PICK k \in 1 .. todo : sendapp_ack([i \in 1 .. k |-> Data(wrote + i)])
      BY <2>2 DEF Accept
    <3> DEFINE items == [i \in 1 .. k |-> Data(wrote + i)]
    <3>2. wrote \in Nat /\ todo \in Int /\ outbuf \in Seq(ClientItem)
      BY ItemsAreClientItems DEF EngineInv, Items
    <3>3. items \in Seq(ClientItem)
      BY <3>2 DEF Data, ClientItem
    <3> HIDE DEF items
    <3>4. outbuf \o items \in Seq(ClientItem)
      BY <3>2, <3>3
    <3>5. (outrec' = outrec \/ Seal(outbuf \o items)) /\ UNCHANGED inrec
      BY <3>1 DEF sendapp_ack, items
    <3>6. hs.pc # "close_wait"
      BY <1>6, <2>2 DEF FinishWrite, ChannelInv, InCall, SENDAPP, OutputType, Closing
    <3>7. outrec' \in SingleRecord
      BY <3>4, <3>5, <3>6, SealsSingle DEF ClosureInv, Sent, ChannelInv, OutputInv
    <3> QED BY <1>1, <3>5, <3>6, <3>7, OutputKeepsClosure
  <2> QED BY <1>6, <2>1, <2>2 DEF FinishWrite
<1> QED BY <1>4, <1>5, <1>6 DEF FinishIo

LEMMA CallKeepsClosure ==
  ASSUME EngineInv, OutputInv, ClosureInv, CallReturns \/ CallStarts
  PROVE  ClosureInv'
<1>1. CASE Connect
  <2>1. /\ client_reset /\ toPeer' = <<>> /\ toClient' = <<>>
        /\ \E ri \in SecureReneg : srv' = FreshServer(ri)
    BY <1>1 DEF Connect
  <2>2. ServerTyped'
    BY <2>1, ServerAssumption DEF ServerTyped, Servers, FreshServer, ServerStates
  <2>3. NoRecord \in SingleRecord /\ NoRecord \in QuietRecord
    BY SoundNothing DEF SoundRecord, SingleRecord, QuietRecord, NoRecord, Record
  <2>4. Sent' /\ Unanswered'
    BY <2>1, <2>3 DEF client_reset, Sent, Unanswered
  <2>5. NotifyLeaves' /\ BothNotified'
    BY <2>1 DEF client_reset, FreshEngine, NotifyLeaves, BothNotified
  <2> QED BY <2>2, <2>4, <2>5 DEF ClosureInv
<1>2. CASE UNCHANGED <<engineVars, linkVars, srv, connects>>
  BY <1>2, SameKeepsClosure DEF engineVars, linkVars
<1>3. CASE BeginFlush /\ UNCHANGED <<linkVars, srv, connects>>
  BY <1>3, FlushKeepsClosure DEF BeginFlush, linkVars
<1>4. CASE (engine_close \/ engine_renegotiate) /\ UNCHANGED <<linkVars, srv, connects>>
  <2>1. hs'.pc = hs.pc /\ hs'.cnr = hs.cnr /\ UNCHANGED <<eng, inrec, outrec>>
    BY <1>4, JumpStaysQuiet DEF engine_close, engine_renegotiate
  <2> QED BY <1>4, <2>1, SameKeepsClosure DEF linkVars
<1>5. CASE Stopped
  <2>1. UNCHANGED <<eng, hs, inrec, outrec, toPeer, srv, connects>> /\ toClient' = <<>>
    BY <1>5 DEF Stopped, engineVars
  <2> QED BY <2>1, SameKeepsClosure
<1>6. CASE ConnectReturns \/ Return \/ WriteLoop \/ WriteFlush
  BY <1>2, <1>3, <1>6
     DEF ConnectReturns, Return, WriteLoop, WriteFlush, BeginWrite
<1>7. CASE Write \/ Read \/ Available \/ Flush \/ Stop \/ SslIoCall
  BY <1>2, <1>3, <1>4, <1>7
     DEF Write, Read, Available, Flush, Stop, SslIoCall, BeginRead, BeginWrite, BeginAvailable,
     BeginClose
<1> QED BY <1>1, <1>5, <1>6, <1>7 DEF CallReturns, CallStarts

-----------------------------------------------------------------------------
(* Closure: the honest server.                                             *)

(* What a step of the server does for closure.                             *)
ServerKeeps ==
  /\ ServerTyped'
  /\ toPeer' \in Seq(SingleRecord)
  /\ ServerClosing => ServerClosing'
  /\ ~ServerClosing' /\ toClient \in Seq(QuietRecord) => toClient' \in Seq(QuietRecord)
  /\ CloseNotifySent => CloseNotifySent'

(* The fields of the honest server, and what it sends.                     *)
LEMMA ServerUpdates ==
  ASSUME NEW s \in Servers
  PROVE  /\ \A v \in ServerStates : [s EXCEPT !.pc = v] \in Servers
         /\ \A v \in Nat : /\ [s EXCEPT !.in_epoch = v] \in Servers
                           /\ [s EXCEPT !.out_epoch = v] \in Servers
                           /\ [s EXCEPT !.sent = v] \in Servers
                           /\ [s EXCEPT !.requests = v] \in Servers
                           /\ [s EXCEPT !.warnings = v] \in Servers
         /\ \A v \in BOOLEAN : [s EXCEPT !.session = v] \in Servers
         /\ \A v \in Seq(ClientItem) : [s EXCEPT !.rcvd = v] \in Servers
BY Zenon DEF Servers

LEMMA ServerCounts ==
  ASSUME ServerTyped
  PROVE  /\ srv.in_epoch + 1 \in Nat /\ srv.out_epoch + 1 \in Nat /\ srv.sent + 1 \in Nat
         /\ srv.requests + 1 \in Nat /\ srv.warnings + 1 \in Nat
         /\ srv.rcvd \in Seq(ClientItem) /\ srv.out_epoch \in Nat /\ srv.pc \in ServerStates
BY DEF ServerTyped, Servers

(* Whatever the server takes that is no close_notify, a close_notify on    *)
(* its way stays there.                                                    *)
LEMMA TakesOther ==
  ASSUME toPeer \in Seq(SingleRecord), NEW type, NEW name, Takes(type, name),
         ~(type = "alert" /\ name = "close_notify"), srv.pc = "closed" => srv'.pc = "closed"
  PROVE  toPeer' \in Seq(SingleRecord) /\ (CloseNotifySent => CloseNotifySent')
<1>1. toPeer # <<>> /\ toPeer' = Tail(toPeer) /\ Carries(Head(toPeer), type, name)
  BY DEF Takes
<1>2. ~Carries(Head(toPeer), "alert", "close_notify")
  <2>1. Head(toPeer) \in SingleRecord
    BY <1>1
  <2> QED BY <1>1, <2>1 DEF Carries, SingleRecord, ClientRecord
<1>3. ASSUME NEW i \in DOMAIN toPeer, Carries(toPeer[i], "alert", "close_notify")
      PROVE  CloseNotifySent'
  <2>1. i # 1
    BY <1>1, <1>2, <1>3
  <2>2. i - 1 \in DOMAIN toPeer' /\ toPeer'[i - 1] = toPeer[i]
    BY <1>1, <2>1
  <2> QED BY <1>3, <2>2 DEF CloseNotifySent, Carries
<1>4. toPeer' \in Seq(SingleRecord)
  BY <1>1
<1> QED BY <1>3, <1>4 DEF CloseNotifySent

LEMMA SameNotify ==
  ASSUME UNCHANGED toPeer, srv.pc = "closed" => srv'.pc = "closed"
  PROVE  CloseNotifySent => CloseNotifySent'
BY DEF CloseNotifySent

(* What the server sends is quiet.                                         *)
LEMMA QuietReply ==
  ASSUME ServerTyped, NEW type \in Types, NEW body \in Seq(QuietItem)
  PROVE  Reply(type, body) \in QuietRecord
BY ServerCounts DEF Reply, Record, QuietRecord

LEMMA QuietMessages ==
  ASSUME ServerTyped
  PROVE  /\ \A name \in {"HelloRequest", "Certificate", "ServerKeyExchange", "CertificateRequest",
                         "ServerHelloDone", "ccs", "Finished", "warning"} : Msg(name) \in QuietItem
         /\ Hello("ServerHello", srv.ri) \in QuietItem
         /\ Hello("ServerHelloResumed", srv.ri) \in QuietItem
         /\ \A n \in Nat : Data(n) \in QuietItem
BY DEF QuietItem, Msg, Hello, Data

LEMMA FlightIsQuiet ==
  ASSUME ServerTyped
  PROVE  ServerFlight \in Seq(QuietItem)
<1> USE QuietMessages
<1> HIDE DEF QuietItem
<1> DEFINE a == <<Hello("ServerHello", srv.ri), Msg("Certificate")>>
           b == IF Ephemeral THEN <<Msg("ServerKeyExchange")>> ELSE <<>>
           c == IF RequestsCert THEN <<Msg("CertificateRequest")>> ELSE <<>>
           d == <<Msg("ServerHelloDone")>>
<1>1. a \in Seq(QuietItem)
  OBVIOUS
<1>2. b \in Seq(QuietItem)
  OBVIOUS
<1>3. c \in Seq(QuietItem)
  OBVIOUS
<1>4. d \in Seq(QuietItem)
  OBVIOUS
<1>5. ServerFlight = a \o b \o c \o d
  BY DEF ServerFlight
<1> HIDE DEF a, b, c, d
<1> QED BY <1>1, <1>2, <1>3, <1>4, <1>5

LEMMA ChangeIsQuiet ==
  ASSUME ServerTyped
  PROVE  ChangeKeys \in Seq(QuietRecord)
<1> USE QuietMessages
<1>1. <<Msg("ccs")>> \in Seq(QuietItem) /\ <<Msg("Finished")>> \in Seq(QuietItem)
  <2> HIDE DEF QuietItem
  <2> QED OBVIOUS
<1>2. /\ Reply("change_cipher_spec", <<Msg("ccs")>>) \in QuietRecord
      /\ Record("handshake", <<Msg("Finished")>>, srv.out_epoch + 1) \in QuietRecord
  BY <1>1, QuietReply, ServerCounts DEF Types, QuietRecord, Record
<1> HIDE DEF QuietRecord
<1> QED BY <1>2 DEF ChangeKeys

LEMMA QuietSend ==
  ASSUME NEW records \in Seq(QuietRecord), Send(records), toClient \in Seq(QuietRecord)
  PROVE  toClient' \in Seq(QuietRecord)
BY DEF Send

LEMMA QuietOne ==
  ASSUME ServerTyped, NEW type \in Types, NEW item \in QuietItem
  PROVE  <<Reply(type, <<item>>)>> \in Seq(QuietRecord)
<1>1. <<item>> \in Seq(QuietItem)
  OBVIOUS
<1>2. Reply(type, <<item>>) \in QuietRecord
  BY <1>1, QuietReply
<1> HIDE DEF QuietRecord
<1> QED BY <1>2

(* Each answer, and each message of its own, keeps what closure needs of   *)
(* the server.                                                             *)
LEMMA ServerAnswersKeep ==
  ASSUME Honest, ServerTyped, toPeer \in Seq(SingleRecord), ServerAnswers
  PROVE  ServerKeeps
<1>0. {"change_cipher_spec", "alert", "handshake", "application_data"} = Types
  BY DEF Types
<1> USE DEF ServerClosing, ServerStates
<1>1. CASE FullHandshake
  <2>1. /\ Takes("handshake", "ClientHello") /\ srv' = [srv EXCEPT !.pc = "flight"]
        /\ srv.pc \in {"hello", "open"}
    BY <1>1 DEF FullHandshake
  <2>2. toPeer' \in Seq(SingleRecord) /\ (CloseNotifySent => CloseNotifySent')
    BY <2>1, TakesOther
  <2>3. ServerFlight \in Seq(QuietItem)
    BY FlightIsQuiet
  <2>4. <<Reply("handshake", ServerFlight)>> \in Seq(QuietRecord)
    <3>1. Reply("handshake", ServerFlight) \in QuietRecord
      BY <2>3, QuietReply DEF Types
    <3> QED BY <3>1
  <2>5. [i \in DOMAIN ServerFlight |-> Reply("handshake", <<ServerFlight[i]>>)] \in Seq(QuietRecord)
    <3> DEFINE flight == ServerFlight
    <3>1. DOMAIN flight = 1 .. Len(flight) /\ Len(flight) \in Nat
      BY <2>3
    <3>2. ASSUME NEW i \in DOMAIN flight
          PROVE  Reply("handshake", <<flight[i]>>) \in QuietRecord
      <4>1. <<flight[i]>> \in Seq(QuietItem)
        BY <2>3
      <4> QED BY <4>1, QuietReply DEF Types
    <3> HIDE DEF flight, QuietRecord
    <3>3. [i \in DOMAIN flight |-> Reply("handshake", <<flight[i]>>)] \in Seq(QuietRecord)
      BY <3>1, <3>2
    <3> QED BY <3>3 DEF flight
  <2>6. toClient \in Seq(QuietRecord) => toClient' \in Seq(QuietRecord)
    BY <1>1, <2>4, <2>5, QuietSend DEF FullHandshake
  <2>7. ServerTyped'
    BY Zenon, <2>1, ServerUpdates, ServerCounts DEF ServerTyped, ServerStates
  <2>8. srv'.pc = "flight"
    BY <2>1 DEF ServerTyped, Servers
  <2> QED BY <2>1, <2>2, <2>6, <2>7, <2>8 DEF ServerKeeps
<1>2. CASE AbbreviatedHandshake
  <2>1. /\ Takes("handshake", "ClientHello")
        /\ srv' = [srv EXCEPT !.pc = "resumed", !.out_epoch = @ + 1]
        /\ srv.pc \in {"hello", "open"}
    BY <1>2 DEF AbbreviatedHandshake
  <2>2. toPeer' \in Seq(SingleRecord) /\ (CloseNotifySent => CloseNotifySent')
    BY <2>1, TakesOther
  <2> DEFINE hello == <<Reply("handshake", <<Hello("ServerHelloResumed", srv.ri)>>)>>
  <2>3. hello \in Seq(QuietRecord)
    BY <1>0, QuietOne, QuietMessages
  <2>4. hello \o ChangeKeys \in Seq(QuietRecord)
    BY <2>3, ChangeIsQuiet
  <2>5. toClient \in Seq(QuietRecord) => toClient' \in Seq(QuietRecord)
    BY <1>2, <2>4, QuietSend DEF AbbreviatedHandshake
  <2>6. ServerTyped'
    BY Zenon, <2>1, ServerUpdates, ServerCounts DEF ServerTyped, ServerStates
  <2>7. srv'.pc = "resumed"
    BY <2>1 DEF ServerTyped, Servers
  <2> QED BY <2>1, <2>2, <2>5, <2>6, <2>7 DEF ServerKeeps
<1>3. CASE ClientFlight \/ ClientDeclines \/ ServerIgnores
  <2>1. /\ UNCHANGED <<toClient, srv>>
        /\ \/ \E name \in {"Certificate", "ClientKeyExchange", "CertificateVerify", "ClientHello"} :
                Takes("handshake", name)
           \/ Takes("alert", "no_renegotiation")
    BY <1>3 DEF ClientFlight, ClientDeclines, ServerIgnores
  <2>2. toPeer' \in Seq(SingleRecord) /\ (CloseNotifySent => CloseNotifySent')
    BY <2>1, TakesOther
  <2>3. ServerTyped' /\ ServerClosing' = ServerClosing
    BY <2>1 DEF ServerTyped
  <2> QED BY <2>1, <2>2, <2>3 DEF ServerKeeps
<1>4. CASE ClientCCS
  <2>1. /\ Takes("change_cipher_spec", "ccs") /\ UNCHANGED toClient /\ srv.pc \in {"flight", "resumed"}
        /\ srv' = [srv EXCEPT !.in_epoch = @ + 1,
                              !.pc = IF @ = "flight" THEN "finished" ELSE "confirmed"]
    BY <1>4 DEF ClientCCS
  <2>2. toPeer' \in Seq(SingleRecord) /\ (CloseNotifySent => CloseNotifySent')
    BY <2>1, TakesOther
  <2>3. (IF srv.pc = "flight" THEN "finished" ELSE "confirmed") \in ServerStates
    OBVIOUS
  <2>4. ServerTyped'
    BY Zenon, <2>1, <2>3, ServerUpdates, ServerCounts DEF ServerTyped
  <2> QED BY <2>1, <2>2, <2>4 DEF ServerKeeps
<1>5. CASE ClientFinished
  <2>1. /\ Takes("handshake", "Finished") /\ srv.pc \in {"finished", "confirmed"}
        /\ Send(ChangeKeys) \/ UNCHANGED toClient
        /\ \/ srv' = [srv EXCEPT !.pc = "open", !.out_epoch = @ + 1, !.session = TRUE]
           \/ srv' = [srv EXCEPT !.pc = "open"]
    BY <1>5 DEF ClientFinished
  <2>2. toPeer' \in Seq(SingleRecord) /\ (CloseNotifySent => CloseNotifySent')
    BY <2>1, TakesOther
  <2>3. toClient \in Seq(QuietRecord) => toClient' \in Seq(QuietRecord)
    BY <2>1, ChangeIsQuiet, QuietSend
  <2>4. ServerTyped'
    BY Zenon, <2>1, ServerUpdates, ServerCounts DEF ServerTyped, ServerStates
  <2>5. srv'.pc = "open"
    BY <2>1 DEF ServerTyped, Servers
  <2> QED BY <2>1, <2>2, <2>3, <2>4, <2>5 DEF ServerKeeps
<1>6. CASE ClientData
  <2>1. /\ Takes("application_data", "data") /\ UNCHANGED toClient
        /\ srv' = [srv EXCEPT !.rcvd = @ \o Head(toPeer).body]
        /\ toPeer # <<>>
    BY <1>6 DEF ClientData, Takes
  <2>2. toPeer' \in Seq(SingleRecord) /\ (CloseNotifySent => CloseNotifySent')
    BY <2>1, TakesOther
  <2>3. Head(toPeer).body \in Seq(ClientItem)
    <3>1. Head(toPeer) \in SingleRecord
      BY <2>1
    <3> QED BY <3>1 DEF SingleRecord, ClientRecord
  <2>4. srv.rcvd \o Head(toPeer).body \in Seq(ClientItem)
    BY <2>3, ServerCounts
  <2>5. ServerTyped'
    BY Zenon, <2>1, <2>4, ServerUpdates DEF ServerTyped
  <2>6. srv'.pc = srv.pc
    BY <2>1 DEF ServerTyped, Servers
  <2> QED BY <2>1, <2>2, <2>5, <2>6 DEF ServerKeeps
<1>7. CASE ClientCloses
  <2>1. /\ Takes("alert", "close_notify") /\ srv' = [srv EXCEPT !.pc = "closed"]
        /\ toPeer # <<>> /\ toPeer' = Tail(toPeer)
    BY <1>7 DEF ClientCloses, Takes
  <2>2. ServerTyped'
    BY Zenon, <2>1, ServerUpdates, ServerCounts DEF ServerTyped, ServerStates
  <2>3. srv'.pc = "closed"
    BY <2>1 DEF ServerTyped, Servers
  <2>4. CloseNotifySent'
    BY <2>3 DEF CloseNotifySent
  <2>5. toPeer' \in Seq(SingleRecord)
    BY <2>1
  <2> QED BY <2>2, <2>3, <2>4, <2>5 DEF ServerKeeps
<1>8. ~ReceiveAnything
  BY DEF ReceiveAnything
<1> QED BY <1>1, <1>2, <1>3, <1>4, <1>5, <1>6, <1>7, <1>8 DEF ServerAnswers

LEMMA ServerSpeaksKeep ==
  ASSUME Honest, ServerTyped, toPeer \in Seq(SingleRecord), ServerSpeaks
  PROVE  ServerKeeps
<1>0. {"change_cipher_spec", "alert", "handshake", "application_data"} = Types
  BY DEF Types
<1> USE DEF ServerClosing, ServerStates
<1>1. CASE SendData
  <2>1. /\ UNCHANGED toPeer /\ srv' = [srv EXCEPT !.sent = @ + 1]
        /\ Send(<<Reply("application_data", <<Data(srv.sent + 1)>>)>>)
    BY <1>1 DEF SendData
  <2>2. ServerTyped'
    BY Zenon, <2>1, ServerUpdates, ServerCounts DEF ServerTyped, ServerStates
  <2>3. srv'.pc = srv.pc
    BY <2>1 DEF ServerTyped, Servers
  <2>4. <<Reply("application_data", <<Data(srv.sent + 1)>>)>> \in Seq(QuietRecord)
    <3>1. Data(srv.sent + 1) \in QuietItem
      BY QuietMessages, ServerCounts
    <3> QED BY <1>0, <3>1, QuietOne
  <2> QED BY <2>1, <2>2, <2>3, <2>4, QuietSend, SameNotify DEF ServerKeeps
<1>2. CASE SendHelloRequest
  <2>1. /\ UNCHANGED toPeer /\ srv' = [srv EXCEPT !.requests = @ + 1]
        /\ Send(<<Reply("handshake", <<Msg("HelloRequest")>>)>>)
    BY <1>2 DEF SendHelloRequest
  <2>2. ServerTyped'
    BY Zenon, <2>1, ServerUpdates, ServerCounts DEF ServerTyped, ServerStates
  <2>3. srv'.pc = srv.pc
    BY <2>1 DEF ServerTyped, Servers
  <2>4. <<Reply("handshake", <<Msg("HelloRequest")>>)>> \in Seq(QuietRecord)
    BY <1>0, QuietOne, QuietMessages
  <2> QED BY <2>1, <2>2, <2>3, <2>4, QuietSend, SameNotify DEF ServerKeeps
<1>3. CASE SendWarning
  <2>1. /\ UNCHANGED toPeer /\ srv' = [srv EXCEPT !.warnings = @ + 1]
        /\ Send(<<Reply("alert", <<Msg("warning")>>)>>)
    BY <1>3 DEF SendWarning
  <2>2. ServerTyped'
    BY Zenon, <2>1, ServerUpdates, ServerCounts DEF ServerTyped, ServerStates
  <2>3. srv'.pc = srv.pc
    BY <2>1 DEF ServerTyped, Servers
  <2>4. <<Reply("alert", <<Msg("warning")>>)>> \in Seq(QuietRecord)
    BY <1>0, QuietOne, QuietMessages
  <2> QED BY <2>1, <2>2, <2>3, <2>4, QuietSend, SameNotify DEF ServerKeeps
<1>4. CASE SendCloseNotify
  <2>1. UNCHANGED toPeer /\ srv' = [srv EXCEPT !.pc = "closing"] /\ srv.pc = "open"
    BY <1>4 DEF SendCloseNotify
  <2>2. ServerTyped'
    BY Zenon, <2>1, ServerUpdates, ServerCounts DEF ServerTyped, ServerStates
  <2>3. srv'.pc = "closing"
    BY <2>1 DEF ServerTyped, Servers
  <2> QED BY <2>1, <2>2, <2>3, SameNotify DEF ServerKeeps
<1>5. CASE PeerHangsUp \/ LinkLost
  <2>1. UNCHANGED <<toPeer, srv>> /\ toClient' \in {toClient, <<>>}
    BY <1>5 DEF PeerHangsUp, LinkLost
  <2>2. ServerTyped' /\ ServerClosing' = ServerClosing /\ <<>> \in Seq(QuietRecord)
    BY <2>1 DEF ServerTyped
  <2> QED BY <2>1, <2>2, SameNotify DEF ServerKeeps
<1>6. ~SendAnything
  BY DEF SendAnything
<1> QED BY <1>1, <1>2, <1>3, <1>4, <1>5, <1>6 DEF ServerSpeaks

(* The peer keeps the invariant of closure.                                *)
LEMMA PeerKeepsClosure ==
  ASSUME Honest, ClosureInv, PeerStep, UNCHANGED connects
  PROVE  ClosureInv'
<1>1. ServerKeeps
  BY ServerAnswersKeep, ServerSpeaksKeep DEF PeerStep, ClosureInv, Sent
<1>2. UNCHANGED <<eng, hs, inrec, outrec>>
  BY DEF PeerStep, engineVars
<1>3. Sent' /\ Unanswered'
  BY <1>1, <1>2 DEF ServerKeeps, ClosureInv, Sent, Unanswered
<1>4. NotifyLeaves' /\ BothNotified'
  BY <1>1, <1>2 DEF ServerKeeps, ClosureInv, NotifyLeaves, BothNotified, Carries
<1> QED BY <1>1, <1>3, <1>4 DEF ServerKeeps, ClosureInv

LEMMA NextKeepsClosure ==
  ASSUME Honest, EngineInv, ChannelInv, ClosureInv, [Next]_vars
  PROVE  ClosureInv'
<1>0. OutputInv
  BY DEF ChannelInv, OutputInv
<1>1. CASE EngineStep
  BY <1>0, <1>1, ProcessorKeepsClosure DEF EngineStep, linkVars, appVars
<1>2. CASE IoStep
  BY <1>0, <1>2, RunKeepsClosure, FinishKeepsClosure DEF IoStep, appVars
<1>3. CASE CallReturns \/ CallStarts
  BY <1>0, <1>3, CallKeepsClosure
<1>4. CASE PeerStep /\ UNCHANGED appVars
  BY <1>4, PeerKeepsClosure DEF appVars
<1>5. CASE UNCHANGED vars
  BY <1>5, SameKeepsClosure DEF vars, engineVars, linkVars, appVars
<1> QED BY <1>1, <1>2, <1>3, <1>4, <1>5 DEF Next

(* The invariant of closure, for an honest server.                         *)
LEMMA ClosureSafe == Honest => (Spec => []ClosureInv)
<1> SUFFICES ASSUME Honest
             PROVE  Spec => []ClosureInv
  OBVIOUS
<1>1. Init => ClosureInv
  <2> SUFFICES ASSUME Init
               PROVE  ClosureInv
    OBVIOUS
  <2>1. ServerTyped
    BY DEF Init, ServerTyped, Servers, FreshServer, ServerStates
  <2>2. NoRecord \in SingleRecord /\ NoRecord \in QuietRecord
    BY SoundNothing DEF SoundRecord, SingleRecord, QuietRecord, NoRecord, Record
  <2> QED BY <2>1, <2>2 DEF Init, IoInit, EngineInit, FreshEngine, ClosureInv, Sent, Unanswered,
                  NotifyLeaves, BothNotified
<1>2. EngineInv /\ ChannelInv /\ ClosureInv /\ [Next]_vars => ClosureInv'
  BY NextKeepsClosure
<1> QED BY <1>1, <1>2, EngineSafe, ChannelSafe, PTL DEF Spec

(* CloseAgreed for an honest server, any calls and any loss of the         *)
(* connection: the engine is closed without error only if the server has   *)
(* sent its close_notify and the close_notify of the client left the       *)
(* engine before, so that truncation is always told from the end.          *)
THEOREM ClosureAlwaysAgreed == Honest => (Spec => []CloseAgreed)
<1> SUFFICES ASSUME Honest
             PROVE  Spec => []CloseAgreed
  OBVIOUS
<1>1. ClosureInv => CloseAgreed
  BY DEF ClosureInv, Unanswered, BothNotified, ServerClosing, CloseAgreed
<1> QED BY <1>1, ClosureSafe, PTL

-----------------------------------------------------------------------------
(* What the server makes of what is on its way: its places, and the paths  *)
(* from place to place that the records of the client lead it.             *)

(* The places of the server: its states, and "asked", when a ClientHello   *)
(* is read that it has not answered; with the keys it reads under.         *)
Places ==
  {place \in [pc : ServerStates \cup {"asked"}, epoch : Nat] :
     /\ place.pc = "hello" => place.epoch = 0
     /\ place.pc \in {"finished", "confirmed"} => place.epoch > 0}

Here == [pc |-> srv.pc, epoch |-> srv.in_epoch]

(* Records with one message, with messages of the last flight of the       *)
(* client, with data.                                                      *)
Sole(rec, type, name) == rec.type = type /\ rec.body = <<Msg(name)>>

FlightRecord(rec) ==
  /\ rec.type = "handshake" /\ rec.body # <<>>
  /\ \A i \in DOMAIN rec.body :
       rec.body[i].msg \in {"Certificate", "ClientKeyExchange", "CertificateVerify"}

DataRecord(rec) ==
  /\ rec.type = "application_data" /\ rec.body # <<>>
  /\ \A i \in DOMAIN rec.body : IsData(rec.body[i])

(* At place a the server understands the record, and is at b behind it.    *)
Leads(a, rec, b) ==
  /\ rec.epoch = a.epoch
  /\ \/ /\ Sole(rec, "handshake", "ClientHello")
        /\ \/ a.pc \in {"hello", "open"} /\ b = [pc |-> "asked", epoch |-> a.epoch]
           \/ a.pc = "closing" /\ b = a
     \/ FlightRecord(rec) /\ a.pc = "flight" /\ b = a
     \/ /\ Sole(rec, "change_cipher_spec", "ccs")
        /\ \/ a.pc = "flight" /\ b = [pc |-> "finished", epoch |-> a.epoch + 1]
           \/ a.pc = "resumed" /\ b = [pc |-> "confirmed", epoch |-> a.epoch + 1]
     \/ /\ Sole(rec, "handshake", "Finished") /\ a.pc \in {"finished", "confirmed"}
        /\ b = [pc |-> "open", epoch |-> a.epoch]
     \/ DataRecord(rec) /\ a.pc \in {"open", "closing"} /\ b = a
     \/ Sole(rec, "alert", "no_renegotiation") /\ a.pc # "closed" /\ b = a
     \/ /\ Sole(rec, "alert", "close_notify") /\ a.pc # "closed"
        /\ b = [pc |-> "closed", epoch |-> a.epoch]

(* Where the server can be later, without answering or speaking.           *)
Later(a, b) ==
  /\ a.pc = "hello" => b.pc \in {"hello", "asked", "closed"}
  /\ a.pc = "open" => b.pc \in {"open", "asked", "closed"}
  /\ a.pc = "asked" => b.pc \in {"asked", "closed"}
  /\ a.pc = "closing" => b.pc \in {"closing", "closed"}
  /\ a.pc = "closed" => b.pc = "closed"
  /\ a.epoch <= b.epoch

(* A path of the server over records: p[i] is behind the i-th of them.     *)
Path(p, start, records) ==
  /\ p \in [Nat -> Places] /\ p[0] = start
  /\ \A i \in DOMAIN records : Leads(p[i - 1], records[i], p[i])
  /\ \A i, j \in 0 .. Len(records) : i <= j => Later(p[i], p[j])

(* A record the server understands leads it to a later place, and Later is *)
(* transitive.                                                             *)
LEMMA LeadsLater ==
  ASSUME NEW a \in Places, NEW rec, NEW b \in Places, Leads(a, rec, b)
  PROVE  Later(a, b)
<1>1. b.epoch \in {a.epoch, a.epoch + 1} /\ a.epoch \in Nat
  BY DEF Leads, Places
<1>2. /\ b.pc = a.pc \/ b.pc \in {"asked", "finished", "confirmed", "open", "closed"}
      /\ b.pc = "asked" => a.pc \in {"hello", "open", "asked"}
      /\ b.pc \in {"finished", "confirmed"} => a.pc \in {"flight", "resumed", "finished", "confirmed"}
      /\ b.pc = "open" => a.pc \in {"finished", "confirmed", "open"}
      /\ a.pc = "closed" => b.pc = "closed"
  BY DEF Leads
<1> QED BY <1>1, <1>2 DEF Later

(* Places that are later.                                                  *)
LEMMA LaterIsOrder ==
  /\ \A a \in Places : Later(a, a)
  /\ \A a, b, c \in Places : Later(a, b) /\ Later(b, c) => Later(a, c)
BY DEF Later, Places

(* A path goes on, ends before the last record, and begins behind the first*)
LEMMA PathExtends ==
  ASSUME NEW R, NEW records \in Seq(R), NEW rec \in R, NEW p, NEW start,
         Path(p, start, records), NEW b \in Places, Leads(p[Len(records)], rec, b)
  PROVE  \E q : Path(q, start, Append(records, rec)) /\ q[Len(records) + 1] = b
<1> DEFINE n == Len(records)
           q == [p EXCEPT ![n + 1] = b]
           longer == Append(records, rec)
<1>1. n \in Nat /\ Len(longer) = n + 1 /\ DOMAIN longer = 1 .. n + 1 /\ DOMAIN records = 1 .. n
      /\ longer[n + 1] = rec /\ \A i \in 1 .. n : longer[i] = records[i]
  OBVIOUS
<1>2. p \in [Nat -> Places] /\ p[0] = start
  BY DEF Path
<1>3. q \in [Nat -> Places] /\ q[n + 1] = b /\ \A i \in 0 .. n : q[i] = p[i]
  BY <1>1, <1>2
<1> HIDE DEF q, longer
<1>4. \A i \in DOMAIN longer : Leads(q[i - 1], longer[i], q[i])
  <2> SUFFICES ASSUME NEW i \in 1 .. n + 1
               PROVE  Leads(q[i - 1], longer[i], q[i])
    BY <1>1
  <2>1. CASE i = n + 1
    BY <1>1, <1>3, <2>1 DEF n
  <2>2. CASE i \in 1 .. n
    <3>1. q[i - 1] = p[i - 1] /\ q[i] = p[i]
      BY <1>1, <1>3, <2>2
    <3> QED BY <1>1, <2>2, <3>1 DEF Path
  <2> QED BY <1>1, <2>1, <2>2
<1>5. \A i, j \in 0 .. Len(longer) : i <= j => Later(q[i], q[j])
  <2> SUFFICES ASSUME NEW i \in 0 .. n + 1, NEW j \in 0 .. n + 1, i <= j
               PROVE  Later(q[i], q[j])
    BY <1>1
  <2>1. CASE j <= n
    BY <1>1, <1>3, <2>1 DEF Path
  <2>2. CASE i = n + 1
    <3>1. q[i] \in Places /\ i = j
      BY <1>1, <1>3, <2>2
    <3> QED BY <3>1, LaterIsOrder
  <2>3. CASE i <= n /\ j = n + 1
    <3>1. Later(p[i], p[n]) /\ p[i] \in Places /\ p[n] \in Places /\ q[i] = p[i] /\ q[j] = b
      BY <1>1, <1>2, <1>3, <2>3 DEF Path
    <3>2. Later(p[n], b)
      BY <3>1, LeadsLater
    <3> QED BY <3>1, <3>2, LaterIsOrder
  <2> QED BY <1>1, <2>1, <2>2, <2>3
<1> HIDE DEF n
<1>6. q[0] = start
  BY <1>1, <1>2, <1>3
<1>7. Path(q, start, longer)
  BY <1>3, <1>4, <1>5, <1>6 DEF Path
<1> QED BY <1>3, <1>7 DEF longer, n

LEMMA PathEnds ==
  ASSUME NEW R, NEW records \in Seq(R), NEW rec \in R, NEW p, NEW start,
         Path(p, start, Append(records, rec))
  PROVE  Path(p, start, records)
<1> DEFINE longer == Append(records, rec)
<1>1. /\ Len(records) \in Nat /\ Len(longer) = Len(records) + 1 
      /\ DOMAIN longer = 1 .. Len(records) + 1 /\ DOMAIN records = 1 .. Len(records)
      /\ \A i \in 1 .. Len(records) : longer[i] = records[i]
  OBVIOUS
<1> HIDE DEF longer
<1>2. Path(p, start, longer)
  BY DEF longer
<1>3. \A i \in DOMAIN records : Leads(p[i - 1], records[i], p[i])
  BY <1>1, <1>2 DEF Path
<1>4. \A i, j \in 0 .. Len(records) : i <= j => Later(p[i], p[j])
  BY <1>1, <1>2 DEF Path
<1> QED BY <1>2, <1>3, <1>4 DEF Path

LEMMA PathStarts ==
  ASSUME NEW R, NEW records \in Seq(R), records # <<>>, NEW p, NEW start,
         Path(p, start, records)
  PROVE  /\ Leads(start, Head(records), p[1]) /\ p[1] \in Places
         /\ \E q : Path(q, p[1], Tail(records)) /\ q[Len(Tail(records))] = p[Len(records)]
<1> DEFINE n == Len(records) - 1
           q == [i \in Nat |-> p[i + 1]]
           rest == Tail(records)
<1>1. n \in Nat /\ Len(rest) = n /\ DOMAIN rest = 1 .. n /\ DOMAIN records = 1 .. n + 1
      /\ Len(records) = n + 1 /\ records[1] = Head(records) 
      /\ \A i \in 1 .. n : rest[i] = records[i + 1]
  OBVIOUS
<1>2. p \in [Nat -> Places] /\ p[0] = start /\ 1 - 1 = 0 /\ 1 \in DOMAIN records
  BY <1>1 DEF Path
<1>3. q \in [Nat -> Places] /\ \A i \in Nat : q[i] = p[i + 1]
  BY <1>2
<1>4. Leads(start, Head(records), p[1]) /\ p[1] \in Places
  BY <1>1, <1>2 DEF Path
<1> HIDE DEF q, rest, n
<1>5. \A i \in DOMAIN rest : Leads(q[i - 1], rest[i], q[i])
  <2> SUFFICES ASSUME NEW i \in 1 .. n
               PROVE  Leads(q[i - 1], rest[i], q[i])
    BY <1>1
  <2>1. i - 1 \in Nat /\ i \in Nat /\ (i - 1) + 1 = i /\ (i + 1) - 1 = i
    BY <1>1
  <2>2. i + 1 \in DOMAIN records /\ rest[i] = records[i + 1]
    BY <1>1
  <2>3. q[i - 1] = p[i] /\ q[i] = p[i + 1]
    BY <1>3, <2>1
  <2>4. Leads(p[(i + 1) - 1], records[i + 1], p[i + 1])
    BY <2>2 DEF Path
  <2> QED BY <2>1, <2>2, <2>3, <2>4
<1>6. \A i, j \in 0 .. Len(rest) : i <= j => Later(q[i], q[j])
  <2> SUFFICES ASSUME NEW i \in 0 .. n, NEW j \in 0 .. n, i <= j
               PROVE  Later(q[i], q[j])
    BY <1>1
  <2>1. i + 1 \in 0 .. Len(records) /\ j + 1 \in 0 .. Len(records) /\ i + 1 <= j + 1
    BY <1>1
  <2>2. q[i] = p[i + 1] /\ q[j] = p[j + 1]
    <3>1. i \in Nat /\ j \in Nat
      BY <1>1
    <3> QED BY <1>3, <3>1, Zenon
  <2> QED BY <2>1, <2>2 DEF Path
<1>7. q[0] = p[1] /\ q[n] = p[Len(records)]
  BY <1>1, <1>3
<1>8. Path(q, p[1], rest)
  BY <1>3, <1>5, <1>6, <1>7 DEF Path
<1> QED BY <1>1, <1>4, <1>7, <1>8 DEF rest

(* Moving the places of a path.                                            *)
LEMMA PathMoves ==
  ASSUME NEW R, NEW records \in Seq(R), NEW p, NEW start, Path(p, start, records),
         NEW f \in [Places -> Places],
         \A a, b \in Places : Later(start, a) /\ Later(start, b) /\ Later(a, b) => Later(f[a], f[b]),
         \A rec : \A a, b \in Places :
           Later(start, a) /\ Later(start, b) /\ Leads(a, rec, b) => Leads(f[a], rec, f[b])
  PROVE  \E q : /\ Path(q, f[start], records) /\ q[Len(records)] = f[p[Len(records)]]
                /\ p[Len(records)] \in Places /\ Later(start, p[Len(records)])
<1> DEFINE q == [i \in Nat |-> f[p[i]]]
<1>1. p \in [Nat -> Places] /\ p[0] = start /\ Len(records) \in Nat /\ DOMAIN records = 1 .. Len(records)
  BY DEF Path
<1>2. q \in [Nat -> Places] /\ \A i \in Nat : q[i] = f[p[i]]
  BY <1>1
<1>3. \A i \in 0 .. Len(records) : Later(start, p[i]) /\ p[i] \in Places
  BY <1>1 DEF Path
<1> HIDE DEF q
<1>4. \A i \in DOMAIN records : Leads(q[i - 1], records[i], q[i])
  <2> SUFFICES ASSUME NEW i \in 1 .. Len(records)
               PROVE  Leads(q[i - 1], records[i], q[i])
    BY <1>1
  <2>1. /\ i - 1 \in 0 .. Len(records) /\ i \in 0 .. Len(records) /\ q[i - 1] = f[p[i - 1]]
        /\ q[i] = f[p[i]] /\ i \in DOMAIN records
    BY <1>1, <1>2
  <2>2. Leads(p[i - 1], records[i], p[i])
    BY <2>1 DEF Path
  <2> QED BY <1>3, <2>1, <2>2
<1>5. \A i, j \in 0 .. Len(records) : i <= j => Later(q[i], q[j])
  <2> SUFFICES ASSUME NEW i \in 0 .. Len(records), NEW j \in 0 .. Len(records), i <= j
               PROVE  Later(q[i], q[j])
    OBVIOUS
  <2>1. q[i] = f[p[i]] /\ q[j] = f[p[j]]
    BY <1>1, <1>2
  <2>2. Later(p[i], p[j])
    BY DEF Path
  <2> QED BY <1>3, <2>1, <2>2
<1>6. q[0] = f[start] /\ q[Len(records)] = f[p[Len(records)]]
  BY <1>1, <1>2
<1>7. Path(q, f[start], records)
  BY <1>2, <1>4, <1>5, <1>6 DEF Path
<1> QED BY <1>1, <1>3, <1>6, <1>7

-----------------------------------------------------------------------------
(* What the server says, and the one ServerHello on its way.               *)

(* What the server says: messages, a ServerHello only at the beginning of  *)
(* a record.                                                               *)
Hellos == {"ServerHello", "ServerHelloResumed"}
SpeechItem ==
  [msg : {"HelloRequest", "ServerHello", "ServerHelloResumed", "Certificate", "ServerKeyExchange",
          "CertificateRequest", "ServerHelloDone", "ccs", "Finished", "warning", "data",
          "close_notify"},
   n : Nat]
HelloFirst(rec) == \A i \in DOMAIN rec.body : rec.body[i].msg \in Hellos => i = 1
SpeechRecord ==
  {rec \in [type : Types \cup {"none"}, body : Seq(SpeechItem), epoch : Nat] : HelloFirst(rec)}
Speech == inrec \in SpeechRecord /\ toClient \in Seq(SpeechRecord)

(* A record that begins with a ServerHello.                                *)
Opening(rec) == rec.body # <<>> /\ Head(rec.body).msg \in Hellos

(* No ServerHello is on its way, or one of this kind.                      *)
NoHello == ~Opening(inrec) /\ \A i \in DOMAIN toClient : ~Opening(toClient[i])
OneHello(name) ==
  /\ Opening(inrec) =>
       Head(inrec.body).msg = name /\ \A i \in DOMAIN toClient : ~Opening(toClient[i])
  /\ \A i \in DOMAIN toClient : Opening(toClient[i]) =>
       /\ Head(toClient[i].body).msg = name
       /\ \A j \in DOMAIN toClient : Opening(toClient[j]) => j = i

(* The processor leaves its input, or takes the front or all of it.        *)
LEMMA SpeechShrinks ==
  ASSUME inrec \in SpeechRecord,
         inrec' = inrec \/ DropInput \/ (inrec.body # <<>> /\ TakeInput)
  PROVE  inrec' \in SpeechRecord /\ (inrec' = inrec \/ ~Opening(inrec)')
<1>1. inrec.body \in Seq(SpeechItem) /\ HelloFirst(inrec)
  BY DEF SpeechRecord
<1>2. CASE inrec' = inrec
  BY <1>2
<1>3. CASE DropInput
  <2>1. <<>> \in Seq(SpeechItem)
    OBVIOUS
  <2> HIDE DEF SpeechItem
  <2>2. inrec' \in [type : Types \cup {"none"}, body : Seq(SpeechItem), epoch : Nat] /\ inrec'.body = <<>>
    BY <1>3, <2>1 DEF SpeechRecord, DropInput
  <2> QED BY <2>2 DEF SpeechRecord, HelloFirst, Opening
<1>4. CASE inrec.body # <<>> /\ TakeInput
  <2> DEFINE rest == Tail(inrec.body)
  <2> HIDE DEF SpeechItem
  <2>1. rest \in Seq(SpeechItem) /\ \A i \in DOMAIN rest : rest[i] = inrec.body[i + 1] /\ i + 1 \in DOMAIN inrec.body
    BY <1>1, <1>4
  <2>2. \A i \in DOMAIN rest : rest[i].msg \notin Hellos
    BY <1>1, <2>1 DEF HelloFirst
  <2>3. rest # <<>> => Head(rest).msg \notin Hellos
    BY <2>1, <2>2
  <2> HIDE DEF rest
  <2>4. inrec' = [inrec EXCEPT !.body = rest]
    BY <1>4 DEF TakeInput, rest
  <2>5. inrec' \in [type : Types \cup {"none"}, body : Seq(SpeechItem), epoch : Nat] /\ inrec'.body = rest
    BY <2>1, <2>4 DEF SpeechRecord
  <2> QED BY <2>2, <2>3, <2>5 DEF SpeechRecord, HelloFirst, Opening
<1> QED BY <1>2, <1>3, <1>4

(* What is on its way to the client changes by what is said,               *)
LEMMA HellosStay ==
  ASSUME UNCHANGED toClient, inrec' = inrec \/ ~Opening(inrec)'
  PROVE  /\ NoHello => NoHello'
         /\ \A name \in Hellos : OneHello(name) => OneHello(name)'
BY DEF NoHello, OneHello, Opening

(* by what is received,                                                    *)
LEMMA HellosArrive ==
  ASSUME Speech, toClient # <<>>, toClient' = Tail(toClient), ~Opening(inrec),
         inrec' = Head(toClient) \/ ~Opening(inrec)'
  PROVE  /\ NoHello => NoHello'
         /\ \A name \in Hellos : OneHello(name) => OneHello(name)'
<1> DEFINE rest == Tail(toClient)
<1> HIDE DEF SpeechRecord
<1>1. /\ \A i \in DOMAIN rest : rest[i] = toClient[i + 1] /\ i + 1 \in DOMAIN toClient /\ i + 1 # 1
      /\ 1 \in DOMAIN toClient /\ Head(toClient) = toClient[1]
      /\ DOMAIN rest \subseteq Nat
  BY DEF Speech
<1>2. toClient' = rest
  OBVIOUS
<1> HIDE DEF rest
<1>3. NoHello => NoHello'
  BY <1>1, <1>2 DEF NoHello, Opening
<1>4. ASSUME NEW name \in Hellos, OneHello(name)
      PROVE  OneHello(name)'
  <2>1. Opening(inrec)' => Head(inrec'.body).msg = name /\ \A i \in DOMAIN rest : ~Opening(rest[i])
    <3> SUFFICES ASSUME inrec' = Head(toClient), Opening(toClient[1])
                 PROVE  Head(inrec'.body).msg = name /\ \A i \in DOMAIN rest : ~Opening(rest[i])
      BY <1>1 DEF Opening
    <3> QED BY <1>1, <1>4 DEF OneHello
  <2>2. \A i \in DOMAIN rest : Opening(rest[i]) =>
          /\ Head(rest[i].body).msg = name
          /\ \A j \in DOMAIN rest : Opening(rest[j]) => j = i
    <3> SUFFICES ASSUME NEW i \in DOMAIN rest, Opening(rest[i])
                 PROVE  /\ Head(rest[i].body).msg = name
                        /\ \A j \in DOMAIN rest : Opening(rest[j]) => j = i
      OBVIOUS
    <3>1. /\ Head(toClient[i + 1].body).msg = name
          /\ \A j \in DOMAIN toClient : Opening(toClient[j]) => j = i + 1
      BY <1>1, <1>4 DEF OneHello
    <3>2. ASSUME NEW j \in DOMAIN rest, Opening(rest[j])
          PROVE  j = i
      <4>1. j + 1 = i + 1 /\ j \in Nat /\ i \in Nat
        BY <1>1, <3>1, <3>2
      <4> QED BY <4>1
    <3> QED BY <1>1, <3>1, <3>2
  <2> QED BY <1>2, <2>1, <2>2 DEF OneHello, Opening
<1> QED BY <1>3, <1>4

(* by what the server sends: other messages, or a ServerHello.             *)
LEMMA HellosFollow ==
  ASSUME Speech, NEW records \in Seq(SpeechRecord), Send(records), UNCHANGED inrec
  PROVE  /\ Speech'
         /\ (\A i \in DOMAIN records : ~Opening(records[i])) =>
              /\ NoHello => NoHello'
              /\ \A name \in Hellos : OneHello(name) => OneHello(name)'
         /\ \A name \in Hellos :
              /\ records # <<>> /\ Opening(records[1]) /\ Head(records[1].body).msg = name
              /\ \A i \in DOMAIN records : Opening(records[i]) => i = 1
              /\ NoHello
              => OneHello(name)'
<1> DEFINE n == Len(toClient)
           longer == toClient \o records
<1> HIDE DEF SpeechRecord
<1>1. /\ n \in Nat /\ DOMAIN toClient = 1 .. n /\ longer \in Seq(SpeechRecord)
      /\ \A i \in DOMAIN longer :
           \/ i \in DOMAIN toClient /\ longer[i] = toClient[i]
           \/ i - n \in DOMAIN records /\ longer[i] = records[i - n] /\ i \notin DOMAIN toClient
      /\ DOMAIN longer \subseteq Nat
      /\ \A i \in DOMAIN toClient : i \in DOMAIN longer /\ longer[i] = toClient[i]
  BY DEF Speech
<1>2. toClient' = longer
  BY DEF Send
<1> HIDE DEF longer, n
<1>3. Speech'
  BY <1>1, <1>2 DEF Speech
<1>4. ASSUME \A i \in DOMAIN records : ~Opening(records[i])
      PROVE  /\ NoHello => NoHello'
             /\ \A name \in Hellos : OneHello(name) => OneHello(name)'
  <2>1. \A i \in DOMAIN longer : Opening(longer[i]) => i \in DOMAIN toClient /\ longer[i] = toClient[i]
    BY <1>1, <1>4
  <2> QED BY <1>2, <2>1 DEF NoHello, OneHello, Opening
<1>5. ASSUME NEW name \in Hellos, records # <<>>, Opening(records[1]), Head(records[1].body).msg = name,
             \A i \in DOMAIN records : Opening(records[i]) => i = 1, NoHello
      PROVE  OneHello(name)'
  <2>1. \A i \in DOMAIN longer : Opening(longer[i]) => i = n + 1 /\ longer[i] = records[1]
    <3> SUFFICES ASSUME NEW i \in DOMAIN longer, Opening(longer[i])
                 PROVE  i = n + 1 /\ longer[i] = records[1]
      OBVIOUS
    <3>1. i - n \in DOMAIN records /\ longer[i] = records[i - n]
      BY <1>1, <1>5 DEF NoHello
    <3>2. i - n = 1 /\ i \in Nat
      BY <1>1, <1>5, <3>1
    <3> QED BY <1>1, <3>1, <3>2
  <2>2. ~Opening(inrec)'
    BY <1>5 DEF NoHello, Opening
  <2> QED BY <1>2, <1>5, <2>1, <2>2 DEF OneHello, Opening
<1> QED BY <1>3, <1>4, <1>5

(* The server's words as records.                                          *)
LEMMA SpeechReply ==
  ASSUME ServerTyped, NEW type \in Types, NEW body \in Seq(SpeechItem),
         \A i \in DOMAIN body : body[i].msg \in Hellos => i = 1
  PROVE  Reply(type, body) \in SpeechRecord /\ Reply(type, body).body = body
<1> HIDE DEF SpeechItem
<1> QED BY ServerCounts DEF Reply, Record, SpeechRecord, HelloFirst

(* Each message is one of its words; of a record with one message.         *)
LEMMA SpeechMessages ==
  ASSUME ServerTyped
  PROVE  /\ \A name \in {"HelloRequest", "Certificate", "ServerKeyExchange", "CertificateRequest",
                         "ServerHelloDone", "ccs", "Finished", "warning", "close_notify"} :
              Msg(name) \in SpeechItem /\ Msg(name).msg \notin Hellos
         /\ \A name \in Hellos :
              Hello(name, srv.ri) \in SpeechItem /\ Hello(name, srv.ri).msg = name
         /\ \A n \in Nat : Data(n) \in SpeechItem /\ Data(n).msg \notin Hellos
BY DEF SpeechItem, Msg, Hello, Data, Hellos

(* A record with one message opens with it.                                *)
LEMMA SpeechOne ==
  ASSUME ServerTyped, NEW type \in Types, NEW item \in SpeechItem
  PROVE  /\ Reply(type, <<item>>) \in SpeechRecord
         /\ <<Reply(type, <<item>>)>> \in Seq(SpeechRecord)
         /\ Opening(Reply(type, <<item>>)) <=> item.msg \in Hellos
         /\ Head(Reply(type, <<item>>).body) = item
<1> HIDE DEF SpeechItem
<1>1. <<item>> \in Seq(SpeechItem) /\ \A i \in DOMAIN <<item>> : <<item>>[i].msg \in Hellos => i = 1
  OBVIOUS
<1>2. Reply(type, <<item>>) \in SpeechRecord /\ Reply(type, <<item>>).body = <<item>>
  BY <1>1, SpeechReply
<1> HIDE DEF SpeechRecord
<1>3. <<Reply(type, <<item>>)>> \in Seq(SpeechRecord)
  BY <1>2
<1>4. <<item>> # <<>> /\ Head(<<item>>) = item
  OBVIOUS
<1>5. /\ Opening(Reply(type, <<item>>)) <=> item.msg \in Hellos
      /\ Head(Reply(type, <<item>>).body) = item
  BY <1>2, <1>4, Zenon DEF Opening
<1> QED BY <1>2, <1>3, <1>5

(* A message that is no ServerHello says nothing new.                      *)
LEMMA SaysOne ==
  ASSUME ServerTyped, Speech, UNCHANGED inrec, NEW type \in Types, NEW item \in SpeechItem,
         item.msg \notin Hellos, Send(<<Reply(type, <<item>>)>>)
  PROVE  Speech' /\ (NoHello => NoHello') /\ \A name \in Hellos : OneHello(name) => OneHello(name)'
<1> DEFINE said == <<Reply(type, <<item>>)>>
<1>1. said \in Seq(SpeechRecord) /\ \A i \in DOMAIN said : ~Opening(said[i])
  BY SpeechOne
<1> HIDE DEF said
<1>2. Send(said)
  BY DEF said
<1> QED BY <1>1, <1>2, HellosFollow

(* The server's ChangeCipherSpec and Finished hold no ServerHello.         *)
LEMMA ChangeSpeaks ==
  ASSUME ServerTyped
  PROVE  ChangeKeys \in Seq(SpeechRecord) /\ \A i \in DOMAIN ChangeKeys : ~Opening(ChangeKeys[i])
<1> USE SpeechMessages
<1>1. /\ Reply("change_cipher_spec", <<Msg("ccs")>>) \in SpeechRecord
      /\ ~Opening(Reply("change_cipher_spec", <<Msg("ccs")>>))
  BY SpeechOne DEF Types
<1>2. /\ Record("handshake", <<Msg("Finished")>>, srv.out_epoch + 1) \in SpeechRecord
      /\ ~Opening(Record("handshake", <<Msg("Finished")>>, srv.out_epoch + 1))
  <2>1. <<Msg("Finished")>> \in Seq(SpeechItem) /\ Msg("Finished").msg \notin Hellos
    <3> HIDE DEF SpeechItem
    <3> QED OBVIOUS
  <2> HIDE DEF SpeechItem
  <2> QED BY <2>1, ServerCounts DEF SpeechRecord, Record, Types, Opening, HelloFirst
<1> HIDE DEF SpeechRecord
<1> QED BY <1>1, <1>2 DEF ChangeKeys

(* The flight of the server begins with its only ServerHello.              *)
LEMMA FlightGrows ==
  ASSUME NEW S, NEW s \in Seq(S), s # <<>>, NEW t \in Seq(S),
         \A i \in DOMAIN s : s[i].msg \in Hellos => i = 1,
         \A i \in DOMAIN t : t[i].msg \notin Hellos
  PROVE  /\ s \o t \in Seq(S) /\ s \o t # <<>> /\ (s \o t)[1] = s[1]
         /\ \A i \in DOMAIN (s \o t) : (s \o t)[i].msg \in Hellos => i = 1
<1>1. /\ \A i \in DOMAIN (s \o t) : \/ i \in DOMAIN s /\ (s \o t)[i] = s[i]
                                    \/ i - Len(s) \in DOMAIN t /\ (s \o t)[i] = t[i - Len(s)]
      /\ 1 \in DOMAIN s /\ (s \o t)[1] = s[1] /\ s \o t # <<>> /\ s \o t \in Seq(S)
  OBVIOUS
<1> QED BY <1>1

(* So does the flight of the model, whatever messages are in it.           *)
LEMMA FlightSpeaks ==
  ASSUME ServerTyped
  PROVE  /\ ServerFlight \in Seq(SpeechItem) /\ ServerFlight # <<>>
         /\ ServerFlight[1].msg = "ServerHello"
         /\ \A i \in DOMAIN ServerFlight : ServerFlight[i].msg \in Hellos => i = 1
<1> USE SpeechMessages
<1> HIDE DEF SpeechItem
<1>0. "ServerHello" \in Hellos
  BY DEF Hellos
<1> HIDE DEF Hellos
<1> DEFINE a == <<Hello("ServerHello", srv.ri), Msg("Certificate")>>
           b == IF Ephemeral THEN <<Msg("ServerKeyExchange")>> ELSE <<>>
           c == IF RequestsCert THEN <<Msg("CertificateRequest")>> ELSE <<>>
           d == <<Msg("ServerHelloDone")>>
<1>1. /\ a \in Seq(SpeechItem) /\ a # <<>> /\ a[1].msg = "ServerHello"
      /\ \A i \in DOMAIN a : a[i].msg \in Hellos => i = 1
  BY <1>0
<1>2. b \in Seq(SpeechItem) /\ \A i \in DOMAIN b : b[i].msg \notin Hellos
  OBVIOUS
<1>3. c \in Seq(SpeechItem) /\ \A i \in DOMAIN c : c[i].msg \notin Hellos
  OBVIOUS
<1>4. d \in Seq(SpeechItem) /\ \A i \in DOMAIN d : d[i].msg \notin Hellos
  OBVIOUS
<1>5. ServerFlight = a \o b \o c \o d
  BY DEF ServerFlight
<1> HIDE DEF a, b, c, d
<1> DEFINE ab == a \o b
<1>6. /\ ab \in Seq(SpeechItem) /\ ab # <<>> /\ ab[1].msg = "ServerHello"
      /\ \A i \in DOMAIN ab : ab[i].msg \in Hellos => i = 1
  BY <1>1, <1>2, FlightGrows
<1> HIDE DEF ab
<1> DEFINE abc == ab \o c
<1>7. /\ abc \in Seq(SpeechItem) /\ abc # <<>> /\ abc[1].msg = "ServerHello"
      /\ \A i \in DOMAIN abc : abc[i].msg \in Hellos => i = 1
  BY <1>3, <1>6, FlightGrows
<1> HIDE DEF abc
<1> DEFINE abcd == abc \o d
<1>8. /\ abcd \in Seq(SpeechItem) /\ abcd # <<>> /\ abcd[1].msg = "ServerHello"
      /\ \A i \in DOMAIN abcd : abcd[i].msg \in Hellos => i = 1
  BY <1>4, <1>7, FlightGrows
<1>9. ServerFlight = abcd
  BY <1>5 DEF ab, abc
<1> QED BY <1>8, <1>9

(* The answer to a ClientHello brings the one ServerHello: of a full       *)
(* handshake, of a resumption.                                             *)
LEMMA SaysFlight ==
  ASSUME ServerTyped, Speech, UNCHANGED inrec,
         \/ Send(<<Reply("handshake", ServerFlight)>>)
         \/ Send([i \in DOMAIN ServerFlight |-> Reply("handshake", <<ServerFlight[i]>>)])
  PROVE  Speech' /\ (NoHello => OneHello("ServerHello")')
<1> DEFINE flight == ServerFlight
           whole == <<Reply("handshake", flight)>>
           parts == [i \in DOMAIN flight |-> Reply("handshake", <<flight[i]>>)]
<1>0. "handshake" \in Types /\ "ServerHello" \in Hellos
  BY DEF Types, Hellos
<1>1. /\ flight \in Seq(SpeechItem) /\ flight # <<>> /\ flight[1].msg = "ServerHello"
      /\ \A i \in DOMAIN flight : flight[i].msg \in Hellos => i = 1
  BY FlightSpeaks
<1> HIDE DEF flight, SpeechItem
<1>2. /\ flight[1] = Head(flight) /\ DOMAIN flight = 1 .. Len(flight) /\ Len(flight) \in Nat
      /\ Len(flight) >= 1 /\ \A i \in DOMAIN flight : flight[i] \in SpeechItem
  BY <1>1
<1>3. /\ whole \in Seq(SpeechRecord) /\ whole # <<>> /\ Opening(whole[1])
      /\ Head(whole[1].body).msg = "ServerHello"
      /\ \A i \in DOMAIN whole : Opening(whole[i]) => i = 1
  <2>1. Reply("handshake", flight) \in SpeechRecord /\ Reply("handshake", flight).body = flight
    BY <1>0, <1>1, SpeechReply
  <2> HIDE DEF SpeechRecord
  <2>2. whole \in Seq(SpeechRecord) /\ whole # <<>> /\ whole[1] = Reply("handshake", flight)
        /\ DOMAIN whole = {1}
    BY <2>1
  <2> HIDE DEF whole
  <2> QED BY <1>0, <1>1, <1>2, <2>1, <2>2 DEF Opening
<1>4. /\ parts \in Seq(SpeechRecord) /\ parts # <<>> /\ Opening(parts[1])
      /\ Head(parts[1].body).msg = "ServerHello"
      /\ \A i \in DOMAIN parts : Opening(parts[i]) => i = 1
  <2>1. \A i \in DOMAIN flight :
          /\ Reply("handshake", <<flight[i]>>) \in SpeechRecord
          /\ Opening(Reply("handshake", <<flight[i]>>)) <=> flight[i].msg \in Hellos
          /\ Head(Reply("handshake", <<flight[i]>>).body) = flight[i]
    BY <1>0, <1>2, SpeechOne
  <2> HIDE DEF SpeechRecord, Hellos
  <2>2. /\ DOMAIN parts = 1 .. Len(flight)
        /\ \A i \in 1 .. Len(flight) : parts[i] = Reply("handshake", <<flight[i]>>)
    BY <1>2
  <2>3. parts \in Seq(SpeechRecord)
    BY <1>2, <2>1, <2>2
  <2> HIDE DEF parts
  <2>4. 1 \in DOMAIN parts /\ parts # <<>>
    BY <1>2, <2>2
  <2> QED BY <1>0, <1>1, <1>2, <2>1, <2>2, <2>3, <2>4
<1>5. Send(whole) \/ Send(parts)
  BY DEF flight
<1> HIDE DEF whole, parts
<1> QED BY <1>0, <1>3, <1>4, <1>5, HellosFollow

(* The answer that resumes a session.                                      *)
LEMMA SaysResumption ==
  ASSUME ServerTyped, Speech, UNCHANGED inrec,
         Send(<<Reply("handshake", <<Hello("ServerHelloResumed", srv.ri)>>)>> \o ChangeKeys)
  PROVE  Speech' /\ (NoHello => OneHello("ServerHelloResumed")')
<1> DEFINE first == Reply("handshake", <<Hello("ServerHelloResumed", srv.ri)>>)
           said == <<first>> \o ChangeKeys
<1>0. "handshake" \in Types /\ "ServerHelloResumed" \in Hellos
  BY DEF Types, Hellos
<1>1. first \in SpeechRecord /\ Opening(first) /\ Head(first.body).msg = "ServerHelloResumed"
  BY <1>0, SpeechMessages, SpeechOne
<1> HIDE DEF first, SpeechRecord
<1>2. ChangeKeys \in Seq(SpeechRecord) /\ \A i \in DOMAIN ChangeKeys : ~Opening(ChangeKeys[i])
  BY ChangeSpeaks
<1>3. /\ said \in Seq(SpeechRecord) /\ said # <<>> /\ said[1] = first
      /\ \A i \in DOMAIN said : i = 1 \/ (i - 1 \in DOMAIN ChangeKeys /\ said[i] = ChangeKeys[i - 1])
  BY <1>1, <1>2
<1>4. Send(said)
  BY DEF first
<1> HIDE DEF said
<1>5. \A i \in DOMAIN said : Opening(said[i]) => i = 1
  BY <1>2, <1>3
<1> QED BY <1>0, <1>1, <1>3, <1>4, <1>5, HellosFollow

-----------------------------------------------------------------------------
(* The inductive invariant of the dialogue: behind everything the client   *)
(* has sent, the server will be where the handshake processor needs it.    *)

(* The engine can still send, and what it has sent or sealed.              *)
Live == link = "up" /\ ~eng.closed
Onway == IF Live /\ outrec # NoRecord THEN Append(toPeer, outrec) ELSE toPeer

(* Behind everything on its way, the server is at a place that fits the    *)
(* location of the handshake processor.                                    *)
Meets(place) ==
  /\ hs.pc \in {"start", "write_ClientHello"} => place.pc \in {"hello", "open", "closing"}
  /\ hs.pc = "read_ServerHello" => place.pc \in {"asked", "closing", "flight", "resumed"}
  /\ hs.pc \in Negotiating => place.pc = "flight"
  /\ hs.pc \in {"flush", "write_CCS"} =>
       place.pc = IF hs.resuming THEN "resumed" ELSE "flight"
  /\ hs.pc = "write_Finished" => place.pc = IF hs.resuming THEN "confirmed" ELSE "finished"
  /\ hs.pc \in {"read_CCS", "read_Finished"} =>
       place.pc \in IF hs.resuming THEN {"resumed"} ELSE {"open", "closing"}
  /\ hs.pc \in InSession => place.pc \in {"open", "closing"}
  /\ hs.pc # "close_wait" => place.pc # "closed"

(* A ServerHello comes only while the processor reads one, and is of the   *)
(* handshake that the server is in.                                        *)
Expects(place) ==
  hs.pc \notin Closing \cup {"close"} =>
    \/ NoHello
    \/ /\ hs.pc = "read_ServerHello"
       /\ \/ place.pc = "flight" /\ OneHello("ServerHello")
          \/ place.pc = "resumed" /\ OneHello("ServerHelloResumed") /\ eng.session

Agrees(place) == place.epoch = eng.out_epoch /\ Meets(place) /\ Expects(place)

Route ==
  \E p \in [Nat -> Places] :
    Path(p, Here, Onway) /\ (Live => Agrees(p[Len(Onway)]))

Remembered ==
  /\ srv.session => srv.in_epoch > 0
  /\ eng.reneg # 0 => eng.session

(* A resumption has no flight of messages to flush.                        *)
NoFlight == hs.pc = "flush" /\ hs.resuming => outbuf = <<>>

RouteInv == Route /\ Speech /\ Remembered /\ NoFlight

(* What is on its way are records of the client.                           *)
LEMMA OnwayTyped ==
  ASSUME Sent
  PROVE  Onway \in Seq(SingleRecord) /\ toPeer \in Seq(SingleRecord)
<1>1. toPeer \in Seq(SingleRecord) /\ outrec \in SingleRecord
  BY DEF Sent
<1>2. Append(toPeer, outrec) \in Seq(SingleRecord)
  <2> HIDE DEF SingleRecord
  <2> QED BY <1>1
<1> QED BY <1>1, <1>2 DEF Onway

(* A step of the client keeps the route if it says nothing and agrees as   *)
(* before, ends, or sends a record that the server will understand.        *)
LEMMA RouteAgrees ==
  ASSUME Route, UNCHANGED <<Here, Onway>>,
         Live' => Live /\ \A z \in Places : Agrees(z) => Agrees(z)'
  PROVE  Route'
<1>1. PICK p \in [Nat -> Places] :
        Path(p, Here, Onway) /\ (Live => Agrees(p[Len(Onway)]))
  BY DEF Route
<1>2. Path(p, Here', Onway')
  BY <1>1
<1>3. Live' => Agrees(p[Len(Onway)])'
  BY <1>1 DEF Path
<1> QED BY <1>2, <1>3 DEF Route

(* The connection ends.                                                    *)
LEMMA RouteEnds ==
  ASSUME Sent, Route, UNCHANGED <<Here, toPeer>>, ~Live'
  PROVE  Route'
<1>1. PICK p \in [Nat -> Places] :
        Path(p, Here, Onway) /\ (Live => Agrees(p[Len(Onway)]))
  BY DEF Route
<1>2. Onway' = toPeer
  BY DEF Onway
<1>3. Path(p, Here, toPeer)
  <2>1. CASE Onway = toPeer
    BY <1>1, <2>1
  <2>2. CASE Onway # toPeer
    <3>1. Onway = Append(toPeer, outrec) /\ outrec \in SingleRecord /\ toPeer \in Seq(SingleRecord)
      BY <2>2 DEF Onway, Sent
    <3> QED BY <1>1, <3>1, PathEnds
  <2> QED BY <2>1, <2>2
<1> QED BY <1>2, <1>3 DEF Route

(* A record is sealed.                                                     *)
LEMMA RouteSends ==
  ASSUME Sent, Sent', Route, UNCHANGED <<Here, toPeer>>, Live, Live', outrec = NoRecord,
         outrec' # NoRecord,
         \A z \in Places : Agrees(z) => \E b \in Places : Leads(z, outrec', b) /\ Agrees(b)'
  PROVE  Route'
<1>1. PICK p \in [Nat -> Places] : Path(p, Here, toPeer) /\ Agrees(p[Len(toPeer)])
  BY DEF Route, Onway
<1>2. toPeer \in Seq(SingleRecord) /\ outrec' \in SingleRecord
  BY DEF Sent
<1>3. p[Len(toPeer)] \in Places
  <2>1. Len(toPeer) \in Nat
    BY <1>2
  <2> QED BY <2>1
<1>4. PICK b \in Places : Leads(p[Len(toPeer)], outrec', b) /\ Agrees(b)'
  BY <1>1, <1>3
<1>5. PICK q : Path(q, Here, Append(toPeer, outrec')) /\ q[Len(toPeer) + 1] = b
  BY <1>1, <1>2, <1>4, PathExtends
<1>6. Onway' = Append(toPeer, outrec') /\ Len(Onway') = Len(toPeer) + 1
  <2> HIDE DEF SingleRecord
  <2> QED BY <1>2 DEF Onway
<1>7. q \in [Nat -> Places]
  BY <1>5 DEF Path
<1>8. Path(q, Here', Onway') /\ Agrees(q[Len(Onway)])'
  BY <1>4, <1>5, <1>6
<1> QED BY <1>7, <1>8 DEF Route

(* What the server can read, it understands.                               *)
LEMMA LeadsIsUnderstood ==
  ASSUME NEW rec \in SingleRecord, NEW b, Leads(Here, rec, b)
  PROVE  Understood(rec)
<1>0. rec.body # <<>> => 1 \in DOMAIN rec.body
  <2>1. rec.body \in Seq(ClientItem)
    BY DEF SingleRecord, ClientRecord
  <2> HIDE DEF ClientItem
  <2> QED BY <2>1
<1>1. ASSUME NEW type, NEW name, Sole(rec, type, name)
      PROVE  Carries(rec, type, name)
  BY <1>1 DEF Sole, Carries, Msg
<1>2. ASSUME FlightRecord(rec)
      PROVE  \E name \in {"Certificate", "ClientKeyExchange", "CertificateVerify"} :
               Carries(rec, "handshake", name)
  BY <1>0, <1>2 DEF FlightRecord, Carries
<1>3. ASSUME DataRecord(rec)
      PROVE  Carries(rec, "application_data", "data")
  BY <1>0, <1>3 DEF DataRecord, Carries, IsData
<1> QED BY <1>1, <1>2, <1>3 DEF Leads, Here, Understood

(* The invariant implies the property.                                     *)
LEMMA RouteIsUnderstood ==
  ASSUME Sent, Route
  PROVE  ServerUnderstands
<1> SUFFICES ASSUME toPeer # <<>>
             PROVE  Understood(Head(toPeer))
  BY DEF ServerUnderstands
<1>1. PICK p \in [Nat -> Places] : Path(p, Here, Onway)
  BY DEF Route
<1>2. Onway \in Seq(SingleRecord) /\ Onway # <<>> /\ Head(Onway) = Head(toPeer)
  <2>1. toPeer \in Seq(SingleRecord) /\ Onway \in {toPeer, Append(toPeer, outrec)}
    BY OnwayTyped DEF Onway
  <2>2. Onway \in Seq(SingleRecord)
    BY OnwayTyped
  <2> HIDE DEF SingleRecord, Onway
  <2>3. Append(toPeer, outrec) # <<>> /\ Head(Append(toPeer, outrec)) = Head(toPeer)
    BY <2>1
  <2> QED BY <2>1, <2>2, <2>3
<1>3. Leads(Here, Head(Onway), p[1])
  BY <1>1, <1>2, PathStarts
<1>4. Head(Onway) \in SingleRecord
  BY <1>2
<1> QED BY <1>2, <1>3, <1>4, LeadsIsUnderstood

-----------------------------------------------------------------------------
(* The dialogue: the steps of the handshake processor, sorted by where     *)
(* they go and what they say.                                              *)

(* Where the processor goes without a word.                                *)
Onward ==
  \/ hs'.pc = hs.pc
  \/ hs'.pc = "close" /\ hs.pc \notin Closing
  \/ hs.pc \in Negotiating /\ hs'.pc \in Negotiating
  \/ hs.pc \in InSession /\ hs'.pc \in InSession \cup {"start"}
  \/ hs.pc = "start" /\ hs'.pc = "write_ClientHello"
  \/ hs.pc = "read_CCS" /\ hs'.pc = "read_Finished"
  \/ hs.pc = "read_Finished" /\ hs'.pc = IF hs.resuming THEN "flush" ELSE "done"

Silent == SameOutput /\ eng'.out_epoch = eng.out_epoch /\ Onward

(* It takes a ServerHello.                                                 *)
Greeted(name) ==
  /\ SameOutput /\ eng'.out_epoch = eng.out_epoch
  /\ hs.pc = "read_ServerHello" /\ inrec.body # <<>> /\ Head(inrec.body).msg = name
  /\ TakeInput /\ eng'.session
  /\ hs'.resuming = (name = "ServerHelloResumed" /\ eng.session)
  /\ hs'.pc = IF hs'.resuming THEN "read_CCS" ELSE "read_Certificate"

(* It goes on with the same handshake.                                     *)
Continues ==
  /\ hs'.resuming = hs.resuming /\ eng'.session = eng.session /\ eng'.reneg = eng.reneg
  /\ Silent \/ Answers \/ Gathers \/ Empties

(* It fails.                                                               *)
Stops ==
  /\ eng'.closed /\ eng'.session = eng.session /\ eng'.reneg = eng.reneg
  /\ hs'.pc = hs.pc /\ hs'.resuming = hs.resuming /\ outbuf' = outbuf

Walks == Stops \/ (\E name \in Hellos : Greeted(name)) \/ Continues

(* The steps of the processor are of these kinds: first those that wait,   *)
(* fail and read.                                                          *)
LEMMA SuspendWalks ==
  ASSUME EngineInv, NEW pc, Suspend(pc), pc = hs.pc \/ (pc = "main" /\ hs.pc = "enter_main")
  PROVE  Walks
BY DEF Walks, Continues, Silent, Onward, Suspend, SameOutput, InSession, EngineInv, EngineTypeOK,
       Coroutines, EngineFlags

(* A failure.                                                              *)
LEMMA FailWalks ==
  ASSUME EngineInv, NEW err, Fail(err)
  PROVE  Walks
BY DEF Walks, Stops, Fail, EngineInv, EngineTypeOK, EngineFlags, Coroutines

(* The processor takes from its input what it reads.                       *)
LEMMA WaitTakes ==
  ASSUME EngineInv, wait_co \/ wait_for_close
  PROVE  inrec' = inrec \/ DropInput \/ (inrec.body # <<>> /\ TakeInput)
BY DEF wait_co, wait_for_close, CloseRequested, Resumed, AlertReceived, CloseAlertReceived, Fail,
       HasInput

(* So does every step.                                                     *)
LEMMA StepTakes ==
  ASSUME EngineInv, HandshakeStep
  PROVE  inrec' = inrec \/ DropInput \/ (inrec.body # <<>> /\ TakeInput)
BY WaitTakes, StepListens DEF Listens

(* The processor waits for the engine or for the end.                      *)
LEMMA WaitWalks ==
  ASSUME EngineInv, wait_co \/ wait_for_close
  PROVE  Walks
<1> USE DEF Walks, Continues, Silent, Onward, EngineInv, EngineTypeOK, Coroutines, EngineFlags
<1>1. SameOutput /\ eng'.out_epoch = eng.out_epoch
  BY WaitEffect DEF Turns
<1>2. CASE wait_co /\ (CloseRequested \/ Resumed)
  BY <1>1, <1>2 DEF wait_co, CloseRequested, Resumed, Goto
<1>3. CASE wait_co /\ AlertReceived
  <2>1. CASE Fail(Head(inrec.body).msg)
    BY <2>1, FailWalks
  <2>2. CASE /\ eng' = [eng EXCEPT !.shutdown_recv = TRUE]
             /\ hs' = [hs EXCEPT !.co = "running", !.pc = "close", !.cnr = TRUE, !.ate = TRUE]
    BY <1>1, <1>3, <2>2 DEF wait_co
  <2>3. CASE GotoAte(hs.pc) /\ UNCHANGED eng
    BY <1>1, <2>3 DEF GotoAte
  <2> QED BY <1>3, <2>1, <2>2, <2>3 DEF AlertReceived
<1>4. CASE wait_for_close /\ CloseAlertReceived
  <2>1. CASE Fail(Head(inrec.body).msg)
    BY <2>1, FailWalks
  <2>2. CASE Head(inrec.body).msg \in {"warning", "close_notify"}
    <3>1. /\ eng' = [eng EXCEPT !.application_data = 0,
                       !.shutdown_recv = @ \/ Head(inrec.body).msg = "close_notify"]
          /\ hs' = [hs EXCEPT !.co = "running", !.ate = TRUE,
                       !.cnr = (Head(inrec.body).msg = "close_notify")]
      BY <1>4, <2>2 DEF CloseAlertReceived
    <3> QED BY <1>1, <3>1
  <2> QED BY <1>4, <2>1, <2>2 DEF CloseAlertReceived
<1>5. CASE wait_for_close /\ ~CloseAlertReceived
  <2>1. (Goto(hs.pc) \/ GotoAte(hs.pc)) /\ UNCHANGED eng
    BY <1>5 DEF wait_for_close
  <2> QED BY <1>1, <2>1 DEF Goto, GotoAte
<1> QED BY <1>2, <1>3, <1>4, <1>5 DEF wait_co, wait_for_close

(* It reads a message.                                                     *)
LEMMA ReadWalks ==
  ASSUME EngineInv,
         \/ Main \/ ReadWaits \/ SkipHelloRequest \/ ReadUnexpected \/ ReadServerHello \/ ReadCertificate
         \/ ReadServerKeyExchange \/ ReadCertificateRequest \/ ReadServerHelloDone \/ ReadCCS
         \/ ReadFinished \/ ReadHelloRequest
  PROVE  Walks
<1>1. SameOutput /\ eng'.out_epoch = eng.out_epoch
  BY ReadEffect DEF Turns
<1>2. CASE ReadServerHello
  <2>1. PICK name \in {"ServerHello", "ServerHelloResumed"} : ReadServerHello!(name)
    BY <1>2 DEF ReadServerHello
  <2> DEFINE ri == Head(inrec.body).n = 1
             resumes == name = "ServerHelloResumed" /\ eng.session
  <2>2. CASE Fail("BAD_SECRENEG")
    BY <2>2, FailWalks
  <2>3. CASE /\ eng' = [eng EXCEPT !.session = TRUE, !.reneg = IF ri THEN 2 ELSE 1]
             /\ hs' = [hs EXCEPT !.resuming = resumes, !.ate = TRUE,
                         !.pc = IF resumes THEN "read_CCS" ELSE "read_Certificate"]
             /\ TakeInput
    <3>1. hs.pc = "read_ServerHello" /\ inrec.body # <<>> /\ Head(inrec.body).msg = name
      BY <2>1 DEF Incoming, HasInput
    <3>2. hs'.resuming = resumes /\ hs'.pc = IF resumes THEN "read_CCS" ELSE "read_Certificate"
      <4> HIDE DEF resumes
      <4> QED BY <2>3 DEF EngineInv, EngineTypeOK, Coroutines
    <3>3. eng'.session
      <4> HIDE DEF ri
      <4> QED BY <2>3 DEF EngineInv, EngineTypeOK, EngineFlags
    <3> QED BY <1>1, <2>3, <3>1, <3>2, <3>3 DEF Walks, Greeted, Hellos
  <2> QED BY <2>1, <2>2, <2>3
<1> USE DEF Walks, Continues, Silent, Onward, EngineInv, EngineTypeOK, Coroutines, EngineFlags,
            Negotiating, InSession
<1>3. CASE Main
  <2>1. CASE HasInput /\ inrec.type = "handshake"
    BY <1>1, <1>3, <2>1 DEF Main, Running, Goto
  <2>2. CASE Fail("UNEXPECTED")
    BY <2>2, FailWalks
  <2>3. CASE ~HasInput /\ hs.action = 2 /\ eng.application_data = 1
    BY <1>1, <1>3, <2>3 DEF Main, Running, Goto
  <2>4. CASE Suspend("main")
    BY <1>3, <2>4, SuspendWalks DEF Main, Running
  <2> QED BY <1>3, <2>1, <2>2, <2>3, <2>4 DEF Main
<1>4. CASE ReadWaits
  BY <1>4, SuspendWalks DEF ReadWaits
<1>5. CASE ReadUnexpected
  BY <1>5, FailWalks DEF ReadUnexpected
<1>6. CASE SkipHelloRequest
  BY <1>1, <1>6 DEF SkipHelloRequest, GotoAte
<1>7. CASE ReadCertificate
  BY <1>1, <1>7 DEF ReadCertificate, GotoAte
<1>8. CASE ReadServerKeyExchange
  BY <1>1, <1>8 DEF ReadServerKeyExchange, GotoAte
<1>9. CASE ReadCertificateRequest
  BY <1>1, <1>9 DEF ReadCertificateRequest
<1>10. CASE ReadServerHelloDone
  <2>1. CASE Len(inrec.body) = 1
    <3>1. /\ hs.pc = "read_ServerHelloDone" /\ UNCHANGED eng
          /\ GotoAte(IF hs.auth THEN "write_Certificate" ELSE "write_ClientKeyExchange")
      BY <1>10, <2>1 DEF ReadServerHelloDone
    <3> QED BY <1>1, <3>1 DEF GotoAte
  <2>2. CASE Fail("UNEXPECTED")
    BY <2>2, FailWalks
  <2> QED BY <1>10, <2>1, <2>2 DEF ReadServerHelloDone
<1>11. CASE ReadCCS
  <2>1. CASE HasInput /\ inrec.type = "change_cipher_spec"
    BY <1>1, <1>11, <2>1 DEF ReadCCS, Running, GotoAte
  <2>2. CASE Fail("UNEXPECTED")
    BY <2>2, FailWalks
  <2>3. CASE Suspend("read_CCS")
    BY <1>11, <2>3, SuspendWalks DEF ReadCCS, Running
  <2> QED BY <1>11, <2>1, <2>2, <2>3 DEF ReadCCS
<1>12. CASE ReadFinished
  BY <1>1, <1>12 DEF ReadFinished, GotoAte
<1>13. CASE ReadHelloRequest
  BY <1>1, <1>13 DEF ReadHelloRequest, GotoAte
<1> QED BY <1>2, <1>3, <1>4, <1>5, <1>6, <1>7, <1>8, <1>9, <1>10, <1>11, <1>12, <1>13

(* Those that write.                                                       *)
LEMMA WriteWalks ==
  ASSUME EngineInv, OutputInv,
         \/ WriteClientHello \/ WriteCCS \/ WriteFinished \/ WriteNoRenegotiation
         \/ WriteCloseNotify
  PROVE  Walks
<1>1. CASE ~hs.can_output
  <2>1. Suspend(hs.pc)
    BY <1>1 DEF WriteClientHello, WriteCCS, WriteFinished, WriteNoRenegotiation, WriteCloseNotify
  <2> QED BY <2>1, SuspendWalks
<1>2. CASE hs.can_output
  <2>1. hs'.resuming = hs.resuming
    BY <1>2 DEF WriteClientHello, WriteCCS, WriteFinished, WriteNoRenegotiation, WriteCloseNotify,
         Running, EngineInv, EngineTypeOK, Coroutines
  <2>2. Answers
    <3>1. outrec' # outrec
      BY <1>2 DEF WriteClientHello, WriteCCS, WriteFinished, WriteNoRenegotiation,
           WriteCloseNotify, Running, Emit, EngineInv, Control, NoRecord, Record
    <3> QED BY <3>1, WriteEffect DEF OutputInv, Turns, SameOutput
  <2>3. eng'.session = eng.session /\ eng'.reneg = eng.reneg
    BY <2>2 DEF Answers, OpenChannel, EngineInv, EngineTypeOK, EngineFlags
  <2> QED BY <2>1, <2>2, <2>3 DEF Walks, Continues
<1> QED BY <1>1, <1>2

(* It writes a message of the flight.                                      *)
LEMMA FlightWalks ==
  ASSUME EngineInv, WriteFlight
  PROVE  Walks
<1>1. CASE ~hs.can_output
  BY <1>1, SuspendWalks DEF WriteFlight
<1>2. CASE hs.can_output
  <2>1. /\ UNCHANGED eng /\ hs.pc \in DOMAIN Flight
        /\ \/ Goto(Flight[hs.pc].next)
           \/ hs' = [hs EXCEPT !.pc = Flight[hs.pc].next, !.can_output = FALSE]
    BY <1>2 DEF WriteFlight
  <2>2. Flight[hs.pc].next # hs.pc
    BY <2>1 DEF Flight
  <2> HIDE DEF Flight
  <2>3. hs'.resuming = hs.resuming /\ hs'.pc = Flight[hs.pc].next
    BY <2>1 DEF Goto, EngineInv, EngineTypeOK, Coroutines
  <2>4. CASE Gathers
    BY <2>1, <2>3, <2>4 DEF Walks, Continues
  <2>5. CASE Turns /\ ~Gathers
    <3>1. hs.pc \in Negotiating /\ hs'.pc \in Negotiating \cup {"flush"}
      BY <2>1, <2>3 DEF Flight, Negotiating
    <3> QED BY <1>2, <2>1, <2>3, <2>5 DEF WriteFlight, Gathers, Goto, EngineInv, EngineTypeOK, Coroutines
  <2> QED BY <2>4, <2>5, FlightEffect
<1> QED BY <1>1, <1>2

(* Every step of the processor is of these kinds.                          *)
LEMMA ProcessorWalks ==
  ASSUME EngineInv, OutputInv, HandshakeStep
  PROVE  Walks
<1>1. CASE wait_co \/ wait_for_close
  BY <1>1, WaitWalks
<1>2. CASE \/ Main \/ ReadWaits \/ SkipHelloRequest \/ ReadUnexpected \/ ReadServerHello \/ ReadCertificate
         \/ ReadServerKeyExchange \/ ReadCertificateRequest \/ ReadServerHelloDone \/ ReadCCS
         \/ ReadFinished \/ ReadHelloRequest
  BY <1>2, ReadWalks
<1>3. CASE \/ WriteClientHello \/ WriteCCS \/ WriteFinished \/ WriteNoRenegotiation
         \/ WriteCloseNotify
  BY <1>3, WriteWalks
<1>4. CASE WriteFlight
  BY <1>4, FlightWalks
<1> USE DEF Running, Pcs, Goto, EngineInv, EngineTypeOK, Coroutines, EngineFlags, Walks, Continues
<1>5. CASE StartHandshake
  BY <1>5 DEF StartHandshake, Silent, Onward, SameOutput
<1>6. CASE HandshakeDone
  BY <1>6 DEF HandshakeDone, Silent, Onward, SameOutput, InSession, OpenChannel
<1>7. CASE FlushFlight \/ Decline
  BY <1>7 DEF FlushFlight, Decline, Empties
<1>8. CASE StartClose
  BY <1>8 DEF StartClose, Empties
<1>9. CASE EnterMain
  BY <1>9, SuspendWalks DEF EnterMain
<1>10. CASE AwaitCloseNotify
  BY <1>10, SuspendWalks, FailWalks DEF AwaitCloseNotify
<1> QED BY <1>1, <1>2, <1>3, <1>4, <1>5, <1>6, <1>7, <1>8, <1>9, <1>10 DEF HandshakeStep

(* What each kind of step does to the place at which the server will be: a *)
(* step without a word, a ServerHello that is taken, a record that leaves. *)
LEMMA SilentAgrees ==
  ASSUME Silent, hs'.resuming = hs.resuming, eng'.session = eng.session,
         UNCHANGED toClient, inrec' = inrec \/ ~Opening(inrec)',
         NEW z \in Places, Agrees(z)
  PROVE  Agrees(z)'
<1>1. Meets(z)'
  BY DEF Silent, Onward, Agrees, Meets, Closing, Negotiating, InSession
<1>2. Expects(z)'
  <2> SUFFICES ASSUME hs'.pc \notin Closing \cup {"close"}
               PROVE  \/ NoHello'
                      \/ /\ hs'.pc = "read_ServerHello"
                         /\ \/ z.pc = "flight" /\ OneHello("ServerHello")'
                            \/ z.pc = "resumed" /\ OneHello("ServerHelloResumed")' /\ eng'.session
    BY DEF Expects
  <2>1. hs.pc \notin Closing \cup {"close"}
    BY DEF Silent, Onward, Closing, Negotiating, InSession
  <2>2. hs.pc = "read_ServerHello" => hs'.pc = "read_ServerHello"
    BY DEF Silent, Onward, Closing, Negotiating, InSession
  <2> QED BY <2>1, <2>2, HellosStay DEF Agrees, Expects, Hellos
<1> QED BY <1>1, <1>2 DEF Agrees, Silent

(* A ServerHello that is taken is of the handshake the server is in.       *)
LEMMA GreetedAgrees ==
  ASSUME NEW name \in Hellos, Greeted(name), UNCHANGED toClient, ~Opening(inrec)',
         NEW z \in Places, Agrees(z)
  PROVE  Agrees(z)'
<1>1. hs.pc = "read_ServerHello" /\ Opening(inrec) /\ Head(inrec.body).msg = name
  BY DEF Greeted, Opening
<1>2. \/ z.pc = "flight" /\ OneHello("ServerHello")
      \/ z.pc = "resumed" /\ OneHello("ServerHelloResumed") /\ eng.session
  BY <1>1 DEF Agrees, Expects, NoHello, Closing
<1>3. NoHello'
  BY <1>1, <1>2 DEF OneHello, NoHello, Opening
<1>4. \/ name = "ServerHello" /\ z.pc = "flight"
      \/ name = "ServerHelloResumed" /\ z.pc = "resumed" /\ eng.session
  BY <1>1, <1>2 DEF OneHello
<1>5. Meets(z)'
  BY <1>4 DEF Greeted, Meets, Negotiating, InSession
<1> QED BY <1>3, <1>5 DEF Agrees, Expects, Greeted

(* A record of one message leads the server where the processor goes.      *)
LEMMA AnswersLead ==
  ASSUME EngineInv, Answers, hs'.resuming = hs.resuming, UNCHANGED toClient,
         inrec' = inrec \/ ~Opening(inrec)', NEW z \in Places, Agrees(z)
  PROVE  \E b \in Places : Leads(z, outrec', b) /\ Agrees(b)'
<1>1. z.epoch = eng.out_epoch /\ z.epoch \in Nat
  BY DEF Agrees, Places
<1>2. hs.pc # "close_out" => NoHello'
  BY HellosStay DEF Answers, Pcs, Agrees, Expects, Closing
<1>3. \A b : NoHello' => Expects(b)'
  BY DEF Expects
<1> USE DEF Emits, Pcs, Leads, Sole, Record
<1>4. CASE /\ Emits("handshake", Msg("ClientHello"))
           /\ Pcs("write_ClientHello", "read_ServerHello") /\ eng' = eng
  <2> DEFINE b == IF z.pc = "closing" THEN z ELSE [pc |-> "asked", epoch |-> z.epoch]
  <2>1. z.pc \in {"hello", "open", "closing"}
    BY <1>4 DEF Agrees, Meets
  <2>2. b \in Places /\ Leads(z, outrec', b) /\ b.epoch = z.epoch /\ b.pc \in {"asked", "closing"}
    BY <1>1, <1>4, <2>1 DEF Places
  <2>3. Meets(b)'
    BY <1>4, <2>2 DEF Meets, Negotiating, InSession
  <2> HIDE DEF b
  <2> QED BY <1>1, <1>2, <1>3, <1>4, <2>2, <2>3 DEF Agrees
<1>5. CASE /\ Emits("change_cipher_spec", Msg("ccs"))
           /\ Pcs("write_CCS", "write_Finished")
           /\ eng' = [eng EXCEPT !.record_type_out = "change_cipher_spec", !.out_epoch = @ + 1]
  <2>0. PICK name \in {"confirmed", "finished"} : name = IF hs.resuming THEN "confirmed" ELSE "finished"
    OBVIOUS
  <2> DEFINE b == [pc |-> name, epoch |-> z.epoch + 1]
  <2>1. z.pc = IF hs.resuming THEN "resumed" ELSE "flight"
    BY <1>5 DEF Agrees, Meets
  <2>2. b \in Places
    BY <1>1, <2>0 DEF Places, ServerStates
  <2>5. Leads(z, outrec', b)
    BY <1>1, <1>5, <2>0, <2>1
  <2>3. Meets(b)'
    BY <1>5, <2>0 DEF Meets, Negotiating, InSession
  <2>4. eng'.out_epoch = b.epoch
    BY <1>1, <1>5 DEF EngineInv, EngineTypeOK, EngineFlags
  <2> HIDE DEF b
  <2>6. Agrees(b)'
    BY <1>2, <1>3, <1>5, <2>3, <2>4 DEF Agrees
  <2> QED BY <2>2, <2>5, <2>6
<1>6. CASE /\ Emits("handshake", Msg("Finished"))
           /\ Pcs("write_Finished", IF hs.resuming THEN "done" ELSE "read_CCS")
           /\ eng' = [eng EXCEPT !.record_type_out = "handshake"]
  <2> DEFINE b == [pc |-> "open", epoch |-> z.epoch]
  <2>1. z.pc \in {"confirmed", "finished"}
    BY <1>6 DEF Agrees, Meets
  <2>2. b \in Places /\ Leads(z, outrec', b)
    BY <1>1, <1>6, <2>1 DEF Places, ServerStates
  <2>3. Meets(b)'
    BY <1>6 DEF Meets, Negotiating, InSession
  <2>4. eng'.out_epoch = b.epoch
    BY <1>1, <1>6 DEF EngineInv, EngineTypeOK, EngineFlags
  <2> HIDE DEF b
  <2> QED BY <1>2, <1>3, <1>6, <2>2, <2>3, <2>4 DEF Agrees
<1>7. CASE /\ Emits("alert", Msg("no_renegotiation"))
           /\ Pcs("write_no_renegotiation", "enter_main")
           /\ eng' = OpenChannel
  <2>1. z.pc \in {"open", "closing"}
    BY <1>7 DEF Agrees, Meets, InSession
  <2>2. Leads(z, outrec', z)
    BY <1>1, <1>7, <2>1
  <2>3. Meets(z)'
    BY <1>7, <2>1 DEF Meets, Negotiating, InSession
  <2>4. eng'.out_epoch = z.epoch
    BY <1>1, <1>7 DEF EngineInv, EngineTypeOK, EngineFlags, OpenChannel
  <2> QED BY <1>2, <1>3, <1>7, <2>2, <2>3, <2>4 DEF Agrees
<1>8. CASE /\ Emits("alert", Msg("close_notify"))
           /\ Pcs("close_out", "close_wait")
           /\ eng' = [eng EXCEPT !.record_type_out = "alert"]
  <2> DEFINE b == [pc |-> "closed", epoch |-> z.epoch]
  <2>1. z.pc # "closed"
    BY <1>8 DEF Agrees, Meets
  <2>2. b \in Places /\ Leads(z, outrec', b)
    BY <1>1, <1>8, <2>1 DEF Places, ServerStates
  <2>3. Meets(b)' /\ Expects(b)'
    BY <1>8 DEF Meets, Expects, Negotiating, InSession, Closing
  <2>4. eng'.out_epoch = b.epoch
    BY <1>1, <1>8 DEF EngineInv, EngineTypeOK, EngineFlags
  <2> HIDE DEF b
  <2> QED BY <1>8, <2>2, <2>3, <2>4 DEF Agrees
<1> QED BY <1>4, <1>5, <1>6, <1>7, <1>8 DEF Answers

(* A sealed part of the last flight leads the server nowhere.              *)
LEMMA SealedFlight ==
  ASSUME NEW body, body # <<>>, NEW epoch, NEW z \in Places, z.pc = "flight", z.epoch = epoch,
         \A i \in DOMAIN body :
           body[i].msg \in {"Certificate", "ClientKeyExchange", "CertificateVerify"}
  PROVE  Leads(z, Record("handshake", body, epoch), z)
BY DEF Leads, FlightRecord, Record

(* The messages of the flight go where the server waits for them.          *)
LEMMA GathersAgree ==
  ASSUME EngineInv, Gathers, hs'.resuming = hs.resuming, UNCHANGED toClient,
         inrec' = inrec \/ ~Opening(inrec)', NEW z \in Places, Agrees(z)
  PROVE  Agrees(z)' /\ z.pc = "flight" /\ z.epoch = eng.out_epoch
<1>1. hs.pc \in Negotiating /\ hs'.pc \in Negotiating \cup {"flush"} /\ ~hs.resuming
  BY DEF Gathers, Flight, Negotiating, EngineInv, KeysMatch
<1>2. z.pc = "flight" /\ z.epoch = eng.out_epoch
  BY <1>1 DEF Agrees, Meets
<1>3. NoHello'
  BY <1>1, HellosStay DEF Agrees, Expects, Closing, Negotiating
<1>4. Meets(z)'
  BY <1>1, <1>2 DEF Meets, Negotiating, InSession
<1> QED BY <1>2, <1>3, <1>4 DEF Agrees, Expects, Gathers

(* What is sealed of the flight is understood.                             *)
LEMMA GathersLead ==
  ASSUME EngineInv, OutputInv, Gathers, outrec' # outrec, NEW z \in Places,
         z.pc = "flight", z.epoch = eng.out_epoch
  PROVE  outrec = NoRecord /\ Leads(z, outrec', z)
<1> DEFINE body == Append(outbuf, Flight[hs.pc].item)
<1>1. Seal(body) /\ outrec = NoRecord /\ body # <<>> /\ eng.record_type_out = "handshake" 
  BY DEF Gathers, Seal, OutputInv, OutputType, Flight, TypedHandshake, Negotiating
<1>2. NoData /\ outbuf \in Seq(Item)
  BY DEF OutputInv, Buffered, Gathers, EngineInv, Items, Flight, DataFree, Negotiating
<1>3. \A item \in Item : ~IsData(item) => item.msg \in {"Certificate", "ClientKeyExchange", "CertificateVerify"}
  BY DEF Item, IsData
<1>4. Flight[hs.pc].item \in Item /\ ~IsData(Flight[hs.pc].item)
  BY DEF Gathers, Flight, IsData, Msg, Item
<1> HIDE DEF Item, IsData, Flight
<1>5. \A i \in DOMAIN body : body[i] \in Item /\ ~IsData(body[i])
  BY <1>2, <1>4 DEF NoData
<1>6. outrec' = Record("handshake", body, eng.out_epoch)
  BY <1>1 DEF Seal
<1> HIDE DEF body
<1> QED BY <1>1, <1>3, <1>5, <1>6, SealedFlight

(* A flush: of the flight before ChangeCipherSpec, of nothing elsewhere.   *)
LEMMA EmptiesAgree ==
  ASSUME Empties, hs'.resuming = hs.resuming, UNCHANGED toClient,
         inrec' = inrec \/ ~Opening(inrec)', EngineInv, NEW z \in Places, Agrees(z)
  PROVE  Agrees(z)'
<1>1. eng'.out_epoch = eng.out_epoch
  BY DEF Empties, EngineInv, EngineTypeOK, EngineFlags
<1>2. Meets(z)'
  BY DEF Empties, Pcs, Agrees, Meets, Negotiating, InSession
<1>3. Expects(z)'
  BY HellosStay DEF Empties, Pcs, Agrees, Expects, Closing
<1> QED BY <1>1, <1>2, <1>3 DEF Agrees

(* So is what a flush seals.                                               *)
LEMMA EmptiesLead ==
  ASSUME EngineInv, OutputInv, NoData, NoFlight, Empties, outrec' # outrec, NEW z \in Places, Agrees(z)
  PROVE  outrec = NoRecord /\ Leads(z, outrec', z)
<1>1. outrec = NoRecord /\ outbuf # <<>> /\ outrec' = Record(eng.record_type_out, outbuf, eng.out_epoch)
  BY DEF Empties, Seal
<1>2. hs.pc = "flush" /\ ~hs.resuming
  <2>1. hs.pc = "flush"
    <3> SUFFICES ASSUME hs.pc # "flush" PROVE FALSE
      OBVIOUS
    <3>1. OnlyData
      BY DEF Empties, Pcs, EngineInv, Gathered
    <3> QED BY <1>1, <3>1, NothingGathered
  <2> QED BY <1>1, <2>1 DEF NoFlight
<1>3. eng.record_type_out = "handshake" /\ z.pc = "flight" /\ z.epoch = eng.out_epoch
  BY <1>2 DEF OutputInv, OutputType, TypedHandshake, Agrees, Meets
<1>4. outbuf \in Seq(Item)
  BY DEF EngineInv, Items
<1>5. \A item \in Item : ~IsData(item) => item.msg \in {"Certificate", "ClientKeyExchange", "CertificateVerify"}
  BY DEF Item, IsData
<1> HIDE DEF Item, IsData
<1>6. \A i \in DOMAIN outbuf : outbuf[i].msg \in {"Certificate", "ClientKeyExchange", "CertificateVerify"}
  BY <1>4, <1>5 DEF NoData
<1> QED BY <1>1, <1>3, <1>6, SealedFlight

(* A resumption still has no flight to flush.                              *)
LEMMA NoFlightHere ==
  ASSUME EngineInv, OutputInv, NoFlight, Continues
  PROVE  NoFlight'
<1> SUFFICES ASSUME hs'.pc = "flush", hs'.resuming
             PROVE  outbuf' = <<>>
  BY DEF NoFlight
<1>1. CASE Silent
  <2>1. outbuf' = outbuf
    BY <1>1 DEF Silent, SameOutput
  <2>2. CASE hs.pc = "flush"
    BY <2>1, <2>2 DEF NoFlight, Continues
  <2>3. CASE hs.pc # "flush"
    <3>1. hs.pc = "read_Finished"
      BY <1>1, <2>3 DEF Silent, Onward, Negotiating, InSession
    <3>2. OnlyData /\ NoData
      BY <3>1 DEF EngineInv, Gathered, OutputInv, Buffered, DataFree, ChangingKeys
    <3> QED BY <2>1, <3>2, NothingGathered
  <2> QED BY <2>2, <2>3
<1>2. CASE Answers
  BY <1>2 DEF Answers, Pcs
<1>3. CASE Gathers
  BY <1>3 DEF Gathers, Flight, Continues, EngineInv, KeysMatch, Negotiating
<1>4. CASE Empties
  BY <1>4 DEF Empties, Pcs
<1> QED BY <1>1, <1>2, <1>3, <1>4 DEF Continues

(* A record from which something is taken is not the same.                 *)
LEMMA SpeechLoses ==
  ASSUME inrec \in SpeechRecord, inrec.body # <<>>, TakeInput
  PROVE  inrec' # inrec
<1>1. inrec.body \in Seq(SpeechItem)
  BY DEF SpeechRecord
<1>2. Len(Tail(inrec.body)) # Len(inrec.body)
  <2> HIDE DEF SpeechItem
  <2> QED BY <1>1
<1>3. inrec'.body = Tail(inrec.body)
  BY DEF TakeInput, SpeechRecord
<1> QED BY <1>2, <1>3

(* The processor keeps the invariant of the dialogue.                      *)
LEMMA ProcessorKeepsRoute ==
  ASSUME EngineInv, OutputInv, NoData, Sent, RouteInv, HandshakeStep, UNCHANGED <<linkVars, srv>>
  PROVE  RouteInv'
<1>1. Walks /\ ~eng.closed /\ Sent'
  BY ProcessorWalks, ProcessorRuns, ProcessorSends DEF EngineInv, Control, Sent, linkVars
<1>2. inrec' \in SpeechRecord /\ (inrec' = inrec \/ ~Opening(inrec)')
  BY StepTakes, SpeechShrinks DEF RouteInv, Speech
<1>3. Speech'
  BY <1>2 DEF RouteInv, Speech, linkVars
<1>4. UNCHANGED <<Here, toPeer, toClient, link>>
  BY DEF Here, linkVars
<1>5. CASE Stops
  <2>1. Route'
    BY <1>1, <1>4, <1>5, RouteEnds DEF Live, RouteInv, Stops
  <2> QED BY <1>3, <1>5, <2>1 DEF RouteInv, Remembered, NoFlight, Stops
<1>6. CASE \E name \in Hellos : Greeted(name)
  <2>1. PICK name \in Hellos : Greeted(name)
    BY <1>6
  <2>2. ~Opening(inrec)'
    <3>1. inrec' # inrec
      BY <2>1, SpeechLoses DEF Greeted, RouteInv, Speech
    <3> QED BY <1>2, <3>1
  <2>3. UNCHANGED <<outrec, outbuf>>
    BY <2>1 DEF Greeted, SameOutput
  <2>4. Route'
    <3>1. CASE ~Live'
      BY <1>1, <1>4, <3>1, RouteEnds DEF RouteInv
    <3>2. CASE Live'
      <4>1. Live /\ Onway' = Onway
        BY <1>1, <1>4, <2>3, <3>2 DEF Live, Onway
      <4>2. \A z \in Places : Agrees(z) => Agrees(z)'
        BY <1>4, <2>1, <2>2, GreetedAgrees
      <4> QED BY <1>4, <4>1, <4>2, RouteAgrees DEF RouteInv
    <3> QED BY <3>1, <3>2
  <2>5. Remembered' /\ NoFlight'
    BY <2>1 DEF Greeted, RouteInv, Remembered, NoFlight
  <2> QED BY <1>3, <2>4, <2>5 DEF RouteInv
<1>7. CASE Continues
  <2>1. Route'
    <3>1. CASE ~Live'
      BY <1>1, <1>4, <3>1, RouteEnds DEF RouteInv
    <3>2. CASE Live' /\ Answers
      <4>1. outrec = NoRecord /\ outrec' # NoRecord
        BY <3>2, ProcessorRuns DEF Answers, Emits, EngineInv, Control, NoRecord, Record
      <4>2. \A z \in Places : Agrees(z) => \E b \in Places : Leads(z, outrec', b) /\ Agrees(b)'
        BY <1>2, <1>4, <1>7, <3>2, AnswersLead DEF Continues
      <4> QED BY <1>1, <1>4, <3>2, <4>1, <4>2, RouteSends DEF RouteInv, Live
    <3>3. CASE Live' /\ ~Answers
      <4>1. \A z \in Places : Agrees(z) => Agrees(z)'
        BY <1>2, <1>4, <1>7, <3>3, SilentAgrees, GathersAgree, EmptiesAgree DEF Continues
      <4>2. CASE outrec' = outrec
        <5>1. Live /\ Onway' = Onway
          BY <1>1, <1>4, <3>3, <4>2 DEF Live, Onway
        <5> QED BY <1>4, <4>1, <5>1, RouteAgrees DEF RouteInv
      <4>3. CASE outrec' # outrec
        <5>1. \A z \in Places : Agrees(z) => Leads(z, outrec', z)
          BY <1>2, <1>4, <1>7, <3>3, <4>3, GathersAgree, GathersLead, EmptiesLead
             DEF Continues, Silent, SameOutput, RouteInv
        <5>2. outrec = NoRecord
          BY <1>7, <3>3, <4>3 DEF Continues, Silent, SameOutput, Gathers, Empties, Seal
        <5>3. outrec' # NoRecord /\ Live
          BY <1>1, <1>4, <3>3, <4>3, <5>2 DEF Live
        <5> QED BY <1>1, <1>4, <3>3, <4>1, <5>1, <5>2, <5>3, RouteSends DEF RouteInv
      <4> QED BY <4>2, <4>3
    <3> QED BY <3>1, <3>2, <3>3
  <2>2. Remembered' /\ NoFlight'
    BY <1>7, NoFlightHere DEF Continues, RouteInv, Remembered
  <2> QED BY <1>3, <2>1, <2>2 DEF RouteInv
<1> QED BY <1>1, <1>5, <1>6, <1>7 DEF Walks

-----------------------------------------------------------------------------
(* The dialogue: the rest of a step of the client.                         *)

(* The rest of a step of the client: nothing is said.                      *)
LEMMA ClientKeepsRoute ==
  ASSUME Sent, RouteInv, UNCHANGED <<srv, toPeer, outrec>>,
         hs'.pc = hs.pc, hs'.resuming = hs.resuming,
         eng'.session = eng.session, eng'.reneg = eng.reneg, eng'.out_epoch = eng.out_epoch,
         Live' => Live, Speech', hs.pc = "flush" /\ hs.resuming => outbuf' \in {outbuf, <<>>},
         Live' => (NoHello => NoHello') /\ \A name \in Hellos : OneHello(name) => OneHello(name)'
  PROVE  RouteInv'
<1>1. Here' = Here
  BY DEF Here
<1>2. CASE ~Live'
  <2>1. Route'
    BY <1>1, <1>2, RouteEnds DEF RouteInv
  <2> QED BY <2>1 DEF RouteInv, Remembered, NoFlight
<1>3. CASE Live'
  <2>1. Onway' = Onway
    BY <1>3 DEF Onway
  <2>2. ASSUME NEW z \in Places, Agrees(z)
        PROVE  Agrees(z)'
    <3>1. Meets(z)'
      BY <2>2 DEF Agrees, Meets
    <3>2. Expects(z)'
      BY <1>3, <2>2 DEF Agrees, Expects, Hellos
    <3> QED BY <2>2, <3>1, <3>2 DEF Agrees
  <2>3. Route'
    BY <1>1, <1>3, <2>1, <2>2, RouteAgrees DEF RouteInv
  <2> QED BY <2>3 DEF RouteInv, Remembered, NoFlight
<1> QED BY <1>2, <1>3

(* Nothing of it changes.                                                  *)
LEMMA SameKeepsRoute ==
  ASSUME Sent, RouteInv, UNCHANGED <<srv, toPeer, link, toClient, eng, hs, inrec, outbuf, outrec>>
  PROVE  RouteInv'
<1>1. Speech' /\ (Live' => Live) /\ (NoHello => NoHello')
      /\ \A name \in Hellos : OneHello(name) => OneHello(name)'
  BY HellosStay DEF RouteInv, Speech, Live
<1> QED BY <1>1, ClientKeepsRoute

(* A failure ends it.                                                      *)
LEMMA FailKeepsRoute ==
  ASSUME EngineInv, Sent, RouteInv, NEW err, Fail(err), UNCHANGED <<srv, toPeer>>,
         toClient' = toClient \/ (toClient # <<>> /\ toClient' = Tail(toClient))
  PROVE  RouteInv'
<1>1. /\ UNCHANGED <<inrec, outbuf, outrec>> /\ ~Live' /\ hs'.pc = hs.pc
      /\ hs'.resuming = hs.resuming /\ eng'.session = eng.session /\ eng'.reneg = eng.reneg
      /\ eng'.out_epoch = eng.out_epoch
  BY DEF Fail, Live, EngineInv, EngineTypeOK, EngineFlags, Coroutines
<1>2. Speech'
  <2> HIDE DEF SpeechRecord
  <2> QED BY <1>1 DEF RouteInv, Speech
<1> QED BY <1>1, <1>2, ClientKeepsRoute

(* An application's data is sealed while the session is open.              *)
LEMMA DataLeads ==
  ASSUME EngineInv, OutputInv, Idle, SENDAPP, NEW body, body # <<>>,
         \A i \in DOMAIN body : IsData(body[i]), NEW z \in Places, Agrees(z)
  PROVE  Leads(z, Record("application_data", body, eng.out_epoch), z)
<1>1. hs.pc \in {"start", "enter_main", "main"} /\ eng.out_epoch > 0
  BY DEF SENDAPP, Idle, EngineInv, EngineTypeOK, Coroutines, DataOff, Control, OutputInv,
         OutputType, Locations, Closing
<1>2. z.pc \in {"open", "closing"} /\ z.epoch = eng.out_epoch
  BY <1>1 DEF Agrees, Meets, Places, InSession
<1> QED BY <1>2 DEF Leads, DataRecord, Record

(* The data is sealed by the engine, the end of a write or a flush.        *)
LEMMA DataKeepsRoute ==
  ASSUME EngineInv, OutputInv, Idle, SENDAPP, Sent, Sent', RouteInv, NEW body, body # <<>>,
         \A i \in DOMAIN body : IsData(body[i]),
         outrec' = Record("application_data", body, eng.out_epoch), outbuf' = <<>>,
         UNCHANGED <<srv, toPeer, link, toClient, eng, hs, inrec>>
  PROVE  RouteInv'
<1>1. Here' = Here /\ Live' = Live /\ outrec = NoRecord /\ outrec' # NoRecord
  BY DEF Here, Live, SENDAPP, NoRecord, Record
<1>2. ASSUME NEW z \in Places, Agrees(z)
      PROVE  Agrees(z)' /\ Leads(z, outrec', z)
  <2>1. Leads(z, outrec', z)
    BY <1>2, DataLeads
  <2>2. Meets(z)'
    BY <1>2 DEF Agrees, Meets
  <2>3. Expects(z)'
    BY <1>2, HellosStay DEF Agrees, Expects, Hellos
  <2> QED BY <1>2, <2>1, <2>2, <2>3 DEF Agrees
<1>3. Route'
  <2>1. CASE Live
    BY <1>1, <1>2, <2>1, RouteSends DEF RouteInv
  <2>2. CASE ~Live
    BY <1>1, <2>2, RouteEnds DEF RouteInv
  <2> QED BY <2>1, <2>2
<1>4. Speech'
  BY DEF RouteInv, Speech
<1> QED BY <1>3, <1>4 DEF RouteInv, Remembered, NoFlight

(* A record goes from the engine to the transport,                         *)
LEMMA WriteKeepsRoute ==
  ASSUME EngineInv, Sent, RouteInv, LowWriteAccepts, UNCHANGED srv
  PROVE  RouteInv'
<1>1. /\ toPeer' = Append(toPeer, outrec) /\ outrec' = NoRecord /\ Live /\ outrec # NoRecord
      /\ UNCHANGED <<eng, inrec, outbuf, toClient, link>>
      /\ hs'.pc = hs.pc /\ hs'.resuming = hs.resuming
  BY DEF LowWriteAccepts, sendrec_ack, SENDREC, Accepts, Live, Jump, EngineInv, EngineTypeOK,
         Coroutines
<1>2. Here' = Here /\ Onway' = Onway
  BY <1>1 DEF Here, Onway, Live
<1>3. ASSUME NEW z \in Places, Agrees(z)
      PROVE  Agrees(z)'
  <2>1. Meets(z)'
    BY <1>1, <1>3 DEF Agrees, Meets
  <2>2. Expects(z)'
    BY <1>1, <1>3, HellosStay DEF Agrees, Expects, Hellos
  <2> QED BY <1>1, <1>3, <2>1, <2>2 DEF Agrees
<1>4. Route'
  BY <1>1, <1>2, <1>3, RouteAgrees DEF RouteInv
<1>5. Speech'
  BY <1>1 DEF RouteInv, Speech
<1> QED BY <1>1, <1>4, <1>5 DEF RouteInv, Remembered, NoFlight

(* or from the transport into the engine.                                  *)
LEMMA ReadKeepsRoute ==
  ASSUME EngineInv, Sent, RouteInv, LowReadDelivers, UNCHANGED srv
  PROVE  RouteInv'
<1>1. /\ recvrec_ack(Head(toClient)) /\ toClient # <<>> /\ toClient' = Tail(toClient)
      /\ UNCHANGED <<toPeer, link>> /\ inrec.body = <<>>
  BY DEF LowReadDelivers, Arrived, MayReceive, RECVREC
<1>2. CASE Fail("BAD_MAC") \/ Fail("UNEXPECTED")
  BY <1>1, <1>2, FailKeepsRoute
<1>3. CASE ~(Fail("BAD_MAC") \/ Fail("UNEXPECTED"))
  <2>1. /\ UNCHANGED <<eng, outbuf, outrec>> /\ inrec' \in {inrec, Head(toClient)}
        /\ Jump(0) \/ UNCHANGED hs
    BY <1>1, <1>3 DEF recvrec_ack, RecvBadRecord, RecvHandshake, RecvData, engineVars
  <2>2. hs'.pc = hs.pc /\ hs'.resuming = hs.resuming
    BY <2>1 DEF Jump, EngineInv, EngineTypeOK, Coroutines
  <2>3. toClient \in Seq(SpeechRecord) /\ inrec \in SpeechRecord
    BY DEF RouteInv, Speech
  <2>4. Speech'
    <3> HIDE DEF SpeechRecord
    <3>1. Head(toClient) \in SpeechRecord /\ Tail(toClient) \in Seq(SpeechRecord)
      BY <1>1, <2>3
    <3> QED BY <1>1, <2>1, <2>3, <3>1 DEF Speech
  <2>5. ~Opening(inrec) /\ (inrec' = Head(toClient) \/ ~Opening(inrec)')
    BY <1>1, <2>1 DEF Opening
  <2>6. (NoHello => NoHello') /\ \A name \in Hellos : OneHello(name) => OneHello(name)'
    BY <1>1, <2>5, HellosArrive DEF RouteInv
  <2> QED BY <1>1, <2>1, <2>2, <2>4, <2>6, ClientKeepsRoute DEF Live
<1> QED BY <1>2, <1>3

(* The loop, and the end of each call of ssl_io.c.                         *)
LEMMA RunKeepsRoute ==
  ASSUME EngineInv, OutputInv, Held, Sent, RouteInv, run_until, UNCHANGED srv
  PROVE  RouteInv'
<1>1. CASE RunClosed \/ TargetReached
  BY <1>1, SameKeepsRoute DEF RunClosed, TargetReached, engineVars, linkVars
<1>2. CASE LowWriteAccepts
  BY <1>2, WriteKeepsRoute
<1>3. CASE LowWriteFails
  BY <1>3, FailKeepsRoute, SameKeepsRoute DEF LowWriteFails, engineVars, linkVars
<1>4. CASE LowReadDelivers
  BY <1>4, ReadKeepsRoute
<1>5. CASE LowReadFails
  BY <1>5, FailKeepsRoute DEF LowReadFails, linkVars
<1>6. CASE RunFlush
  <2>1. outbuf = <<>>
    <3>1. Idle /\ run = "running"
      BY <1>6 DEF RunFlush, InRun
    <3> QED BY <3>1, IdleGathers, NothingGathered DEF Held, Holding
  <2>2. UNCHANGED <<link, toPeer, toClient, eng, hs, inrec, outbuf, outrec>>
    BY <1>6, <2>1 DEF RunFlush, engine_flush, Seal, linkVars
  <2> QED BY <2>2, SameKeepsRoute
<1> QED BY <1>1, <1>2, <1>3, <1>4, <1>5, <1>6 DEF run_until

(* The end of a call.                                                      *)
LEMMA FinishKeepsRoute ==
  ASSUME EngineInv, ChannelInv, Held, Sent, Sent', RouteInv, FinishIo, UNCHANGED srv
  PROVE  RouteInv'
<1>0. UNCHANGED <<link, toPeer, toClient>>
  BY DEF FinishIo, FinishRead, FinishAvailable, FinishWrite, FinishFlush, CloseLoop, linkVars
<1>1. CASE /\ UNCHANGED <<eng, hs, outbuf, outrec>>
           /\ inrec' = inrec \/ DropInput \/ (inrec.body # <<>> /\ TakeInput)
  <2>1. inrec' \in SpeechRecord /\ (inrec' = inrec \/ ~Opening(inrec)')
    BY <1>1, SpeechShrinks DEF RouteInv, Speech
  <2>2. Speech' /\ (Live' => Live)
    BY <1>0, <1>1, <2>1 DEF RouteInv, Speech, Live
  <2>3. (NoHello => NoHello') /\ \A name \in Hellos : OneHello(name) => OneHello(name)'
    BY <1>0, <2>1, HellosStay
  <2> QED BY <1>0, <1>1, <2>2, <2>3, ClientKeepsRoute
<1>2. CASE FinishRead
  <2>1. run = "done" => inrec.body # <<>>
    BY <1>2 DEF FinishRead, ChannelInv, InCall, RECVAPP
  <2> QED BY <1>1, <1>2, <2>1 DEF FinishRead, engineVars
<1>3. CASE FinishAvailable \/ FinishFlush \/ CloseLoop
  BY <1>1, <1>3 DEF FinishAvailable, FinishFlush, CloseLoop, recvapp_ack, engineVars
<1>4. CASE FinishWrite(todo) /\ run = "error"
  BY <1>1, <1>4 DEF FinishWrite, engineVars
<1>5. CASE FinishWrite(todo) /\ run = "done"
  <2>1. PICK k \in 1 .. todo : sendapp_ack([i \in 1 .. k |-> Data(wrote + i)])
    BY <1>5 DEF FinishWrite, Accept
  <2> DEFINE items == [i \in 1 .. k |-> Data(wrote + i)]
  <2>2. /\ SENDAPP /\ Idle /\ eng.record_type_out = "application_data" /\ OutputInv
        /\ io = "write"
    BY <1>5 DEF FinishWrite, ChannelInv, InCall, OutputType, OutputInv, SENDAPP
  <2>3. outbuf = <<>>
    BY <2>2, IdleGathers, NothingGathered DEF Held, Holding
  <2>4. items \in Seq(ClientItem) /\ items # <<>> /\ \A i \in DOMAIN items : IsData(items[i])
    <3>1. wrote \in Nat /\ todo \in Int
      BY DEF EngineInv, Items
    <3>2. k \in Nat /\ k > 0
      BY <3>1
    <3>3. \A i \in 1 .. k : Data(wrote + i) \in ClientItem /\ IsData(Data(wrote + i))
      BY <3>1 DEF Data, ClientItem, IsData
    <3> HIDE DEF ClientItem, IsData
    <3> QED BY <3>2, <3>3
  <2> HIDE DEF items
  <2>5. outbuf \o items = items
    BY <2>3, <2>4
  <2>6. UNCHANGED <<eng, hs, inrec>> /\ outrec = NoRecord
    BY <2>1, <2>2 DEF sendapp_ack, SENDAPP
  <2>7. CASE outrec' = outrec
    <3>1. hs.pc # "flush"
      BY <2>2 DEF SENDAPP, EngineInv, DataOff, Locations, ChangingKeys, Closing
    <3>2. Speech' /\ (Live' => Live)
      BY <1>0, <2>6 DEF RouteInv, Speech, Live
    <3>3. (NoHello => NoHello') /\ \A name \in Hellos : OneHello(name) => OneHello(name)'
      BY <1>0, <2>6, HellosStay
    <3> QED BY <1>0, <2>6, <2>7, <3>1, <3>2, <3>3, ClientKeepsRoute
  <2>8. CASE outrec' # outrec
    <3>1. outrec' = Record("application_data", items, eng.out_epoch) /\ outbuf' = <<>>
      BY <2>1, <2>2, <2>5, <2>8 DEF sendapp_ack, Seal, items
    <3> QED BY <1>0, <2>2, <2>4, <2>6, <3>1, DataKeepsRoute
  <2> QED BY <2>7, <2>8
<1> QED BY <1>2, <1>3, <1>4, <1>5 DEF FinishIo, FinishWrite

(* The calls of the application.                                           *)
LEMMA FlushKeepsRoute ==
  ASSUME EngineInv, OutputInv, Idle, engine_flush, NoData \/ SENDAPP, Sent, Sent', RouteInv,
         UNCHANGED <<srv, linkVars>>
  PROVE  RouteInv'
<1>1. OnlyData /\ UNCHANGED <<srv, toPeer, link, toClient, eng, hs, inrec>>
  BY IdleGathers DEF engine_flush, linkVars
<1>2. CASE outbuf = <<>> \/ outrec # NoRecord \/ ~(~eng.closed /\ eng.application_data = 1)
  <2>1. UNCHANGED <<outbuf, outrec>>
    BY <1>2 DEF engine_flush, Seal
  <2> QED BY <1>1, <2>1, SameKeepsRoute
<1>3. CASE ~(outbuf = <<>> \/ outrec # NoRecord \/ ~(~eng.closed /\ eng.application_data = 1))
  <2>1. SENDAPP
    BY <1>1, <1>3, NothingGathered
  <2>2. /\ outrec' = Record("application_data", outbuf, eng.out_epoch) /\ outbuf' = <<>>
    BY <1>3 DEF engine_flush, Seal, OutputInv, OutputType
  <2>3. outbuf # <<>> /\ \A i \in DOMAIN outbuf : IsData(outbuf[i])
    BY <1>1, <1>3 DEF OnlyData
  <2> QED BY <1>1, <2>1, <2>2, <2>3, DataKeepsRoute
<1> QED BY <1>2, <1>3

(* A connection begins with nothing on its way.                            *)
LEMMA ConnectKeepsRoute ==
  ASSUME Connect
  PROVE  RouteInv'
<1>1. /\ client_reset /\ toPeer' = <<>> /\ toClient' = <<>> /\ link' = "up"
      /\ \E ri \in SecureReneg : srv' = FreshServer(ri)
  BY DEF Connect
<1> DEFINE here == [pc |-> "hello", epoch |-> 0]
           p == [i \in Nat |-> here]
<1>2. /\ srv'.pc = "hello" /\ srv'.in_epoch = 0 /\ ~srv'.session /\ Here' = here
  BY <1>1 DEF Here, FreshServer
<1>3. /\ eng'.out_epoch = 0 /\ eng'.reneg = 0 /\ hs'.pc = "start" /\ outrec' = NoRecord
      /\ inrec' = NoRecord
  BY <1>1 DEF client_reset, FreshEngine
<1>4. here \in Places
  BY DEF Places, ServerStates
<1>5. p \in [Nat -> Places] /\ p[0] = here
  BY <1>4
<1>6. Onway' = <<>>
  BY <1>1, <1>3 DEF Onway
<1>7. NoHello'
  BY <1>1, <1>3 DEF NoHello, Opening, NoRecord, Record
<1>8. Agrees(here)'
  BY <1>3, <1>7 DEF Agrees, Meets, Expects, Negotiating, InSession
<1>9. Path(p, Here, Onway)'
  <2>1. Later(here, here)
    BY <1>4, LaterIsOrder
  <2>2. p[0] = here /\ \A i, j \in 0 .. 0 : i <= j => Later(p[i], p[j])
    BY <2>1
  <2> HIDE DEF p, here
  <2>3. Path(p, here, <<>>)
    BY <1>5, <2>2 DEF Path
  <2> QED BY <1>2, <1>6, <2>3
<1>10. Agrees(p[Len(Onway)])'
  <2>1. p[Len(<<>>)] = here
    BY <1>5
  <2> HIDE DEF p, here
  <2> QED BY <1>6, <1>8, <2>1
<1> HIDE DEF p, here
<1>11. Route'
  BY <1>5, <1>9, <1>10 DEF Route
<1>12. Speech'
  <2>1. NoRecord \in SpeechRecord
    BY DEF NoRecord, Record, SpeechRecord, HelloFirst
  <2> QED BY <1>1, <1>3, <2>1 DEF Speech
<1> QED BY <1>2, <1>3, <1>11, <1>12 DEF RouteInv, Remembered, NoFlight

(* A close or a renegotiation is asked for: nothing is said yet.           *)
LEMMA JumpKeepsRoute ==
  ASSUME EngineInv, Sent, RouteInv, engine_close \/ engine_renegotiate, UNCHANGED <<srv, linkVars>>
  PROVE  RouteInv'
<1>1. /\ hs'.pc = hs.pc /\ hs'.resuming = hs.resuming
      /\ UNCHANGED <<eng, inrec, outbuf, outrec, toPeer, toClient, link>>
  BY DEF engine_close, engine_renegotiate, Jump, EngineInv, EngineTypeOK, Coroutines, linkVars
<1>2. Speech' /\ (Live' => Live) /\ (NoHello => NoHello')
      /\ \A name \in Hellos : OneHello(name) => OneHello(name)'
  BY <1>1, HellosStay DEF RouteInv, Speech, Live
<1> QED BY <1>1, <1>2, ClientKeepsRoute

(* Each call of BearSSLClient, where it starts and where it goes on.       *)
LEMMA CallKeepsRoute ==
  ASSUME ThroughBearSSLClient, EngineInv, OutputInv, Held, Sent, Sent', RouteInv,
         CallReturns \/ CallStarts
  PROVE  RouteInv'
<1>1. CASE Connect
  BY <1>1, ConnectKeepsRoute
<1>2. CASE WriteFlush \/ Flush
  <2>1. engine_flush /\ Idle /\ UNCHANGED <<srv, linkVars>>
    BY <1>2 DEF WriteFlush, Flush, BeginFlush, Enter
  <2>2. NoData \/ SENDAPP
    BY DEF Held, Holding
  <2> QED BY <2>1, <2>2, FlushKeepsRoute
<1>3. CASE UNCHANGED <<engineVars, linkVars, srv>>
  BY <1>3, SameKeepsRoute DEF engineVars, linkVars
<1>4. CASE BeginClose /\ UNCHANGED <<linkVars, srv>>
  BY <1>4, JumpKeepsRoute DEF BeginClose
<1>5. CASE Stopped
  <2>1. /\ UNCHANGED <<eng, hs, inrec, outbuf, outrec, toPeer, srv>> /\ toClient' = <<>>
        /\ link' = "down"
    BY <1>5 DEF Stopped, engineVars
  <2>2. Speech' /\ ~Live'
    BY <2>1 DEF RouteInv, Speech, Live
  <2> QED BY <2>1, <2>2, ClientKeepsRoute
<1>6. CASE ConnectReturns \/ Return \/ WriteLoop \/ Write \/ Read \/ Available
  BY <1>3, <1>6 DEF ConnectReturns, Return, WriteLoop, Write, Read, Available, BeginRead,
       BeginWrite, BeginAvailable
<1>7. CASE Stop
  BY <1>3, <1>4, <1>7 DEF Stop
<1>8. ~SslIoCall
  BY DEF SslIoCall, ThroughBearSSLClient
<1> QED BY <1>1, <1>2, <1>5, <1>6, <1>7, <1>8 DEF CallReturns, CallStarts

-----------------------------------------------------------------------------
(* The dialogue: the honest server.                                        *)

(* What the server takes at a place, it understands there.                 *)
LEMMA TakesLeads ==
  ASSUME NEW a \in Places, NEW rec \in SingleRecord, NEW b, Leads(a, rec, b), NEW type, NEW name,
         Carries(rec, type, name)
  PROVE  /\ type = "handshake" /\ name = "ClientHello" =>
              \/ a.pc \in {"hello", "open"} /\ b = [pc |-> "asked", epoch |-> a.epoch]
              \/ a.pc = "closing" /\ b = a
         /\ type = "handshake" /\ name \in {"Certificate", "ClientKeyExchange", "CertificateVerify"}
              => b = a
         /\ type = "change_cipher_spec" =>
              \/ a.pc = "flight" /\ b = [pc |-> "finished", epoch |-> a.epoch + 1]
              \/ a.pc = "resumed" /\ b = [pc |-> "confirmed", epoch |-> a.epoch + 1]
         /\ type = "handshake" /\ name = "Finished" => b = [pc |-> "open", epoch |-> a.epoch]
         /\ type = "application_data" => b = a
         /\ type = "alert" /\ name = "no_renegotiation" => b = a
         /\ type = "alert" /\ name = "close_notify" => b = [pc |-> "closed", epoch |-> a.epoch]
<1>1. rec.type = type /\ \E i \in DOMAIN rec.body : rec.body[i].msg = name
  BY DEF Carries
<1>2. ASSUME NEW t, NEW m, Sole(rec, t, m)
      PROVE  type = t /\ name = m
  BY <1>1, <1>2 DEF Sole, Msg
<1>3. FlightRecord(rec) =>
        type = "handshake" /\ name \in {"Certificate", "ClientKeyExchange", "CertificateVerify"}
  BY <1>1 DEF FlightRecord
<1>4. DataRecord(rec) => type = "application_data"
  BY <1>1 DEF DataRecord
<1>5. CASE Sole(rec, "handshake", "ClientHello")
  <2>1. type = "handshake" /\ name = "ClientHello"
    BY <1>2, <1>5
  <2> QED BY <1>2, <1>3, <1>4, <2>1 DEF Leads
<1>6. CASE FlightRecord(rec)
  BY <1>2, <1>3, <1>4, <1>6 DEF Leads, FlightRecord, Sole, Msg
<1>7. CASE Sole(rec, "change_cipher_spec", "ccs")
  <2>1. type = "change_cipher_spec"
    BY <1>2, <1>7
  <2> QED BY <1>2, <1>3, <1>4, <2>1 DEF Leads
<1>8. CASE Sole(rec, "handshake", "Finished")
  <2>1. type = "handshake" /\ name = "Finished"
    BY <1>2, <1>8
  <2> QED BY <1>2, <1>3, <1>4, <2>1 DEF Leads
<1>9. CASE DataRecord(rec)
  <2>1. type = "application_data"
    BY <1>4, <1>9
  <2> QED BY <1>2, <1>3, <2>1 DEF Leads
<1>10. CASE Sole(rec, "alert", "no_renegotiation")
  <2>1. type = "alert" /\ name = "no_renegotiation"
    BY <1>2, <1>10
  <2> QED BY <1>2, <1>3, <1>4, <2>1 DEF Leads
<1>11. CASE Sole(rec, "alert", "close_notify")
  <2>1. type = "alert" /\ name = "close_notify"
    BY <1>2, <1>11
  <2> QED BY <1>2, <1>3, <1>4, <2>1 DEF Leads
<1> QED BY <1>5, <1>6, <1>7, <1>8, <1>9, <1>10, <1>11 DEF Leads

(* The path behind the record that the server takes.                       *)
LEMMA TakesStarts ==
  ASSUME Sent, Route, NEW type, NEW name, Takes(type, name), UNCHANGED engineVars
  PROVE  \E b \in Places :
           /\ Leads(Here, Head(toPeer), b) /\ Head(toPeer) \in SingleRecord
           /\ Carries(Head(toPeer), type, name) /\ Here \in Places
           /\ Live' = Live /\ Onway' \in Seq(SingleRecord)
           /\ \E q \in [Nat -> Places] : Path(q, b, Onway') /\ (Live => Agrees(q[Len(Onway')]))
<1>1. PICK p \in [Nat -> Places] :
        Path(p, Here, Onway) /\ (Live => Agrees(p[Len(Onway)]))
  BY DEF Route
<1>2. /\ toPeer # <<>> /\ toPeer' = Tail(toPeer) /\ Carries(Head(toPeer), type, name)
      /\ UNCHANGED <<link, eng, outrec>>
  BY DEF Takes, engineVars
<1>3. Onway \in Seq(SingleRecord) /\ toPeer \in Seq(SingleRecord) /\ outrec \in SingleRecord
  BY OnwayTyped DEF Sent
<1>4. Live' = Live /\ Onway' = IF Live /\ outrec # NoRecord THEN Append(Tail(toPeer), outrec) ELSE Tail(toPeer)
  BY <1>2 DEF Live, Onway
<1>5. /\ Onway # <<>> /\ Head(Onway) = Head(toPeer) /\ Onway' = Tail(Onway)
      /\ Head(toPeer) \in SingleRecord /\ Tail(Onway) \in Seq(SingleRecord)
  <2> DEFINE all == Append(toPeer, outrec)
  <2> HIDE DEF SingleRecord
  <2>1. /\ all \in Seq(SingleRecord) /\ all # <<>> /\ Head(all) = Head(toPeer)
        /\ Tail(all) = Append(Tail(toPeer), outrec)
        /\ Head(toPeer) \in SingleRecord
    BY <1>2, <1>3
  <2>2. Onway = IF Live /\ outrec # NoRecord THEN all ELSE toPeer
    BY DEF Onway
  <2> HIDE DEF all
  <2>3. Onway # <<>> /\ Head(Onway) = Head(toPeer) /\ Onway' = Tail(Onway)
    BY <1>2, <1>4, <2>1, <2>2
  <2> QED BY <1>3, <2>1, <2>3
<1>6. /\ Leads(Here, Head(Onway), p[1]) /\ p[1] \in Places
      /\ \E q : Path(q, p[1], Tail(Onway)) /\ q[Len(Tail(Onway))] = p[Len(Onway)]
  BY <1>1, <1>3, <1>5, PathStarts
<1>7. PICK q : Path(q, p[1], Tail(Onway)) /\ q[Len(Tail(Onway))] = p[Len(Onway)]
  BY <1>6
<1>8. q \in [Nat -> Places] /\ Here \in Places
  BY <1>1, <1>7 DEF Path
<1>9. Path(q, p[1], Onway') /\ (Live => Agrees(q[Len(Onway')]))
  BY <1>1, <1>5, <1>7
<1> HIDE DEF Places
<1> QED BY <1>2, <1>4, <1>5, <1>6, <1>8, <1>9

(* The server goes on to the next place of the path.                       *)
LEMMA ServerFollows ==
  ASSUME Sent, RouteInv, Speech', Remembered', NEW type, NEW name, Takes(type, name),
         UNCHANGED engineVars,
         \A b \in Places : Leads(Here, Head(toPeer), b) /\ Head(toPeer) \in SingleRecord
                             /\ Carries(Head(toPeer), type, name) /\ Here \in Places => Here' = b,
         (NoHello => NoHello') /\ \A kind \in Hellos : OneHello(kind) => OneHello(kind)'
  PROVE  RouteInv'
<1>1. PICK b \in Places :
           /\ Leads(Here, Head(toPeer), b) /\ Head(toPeer) \in SingleRecord
           /\ Carries(Head(toPeer), type, name) /\ Here \in Places
           /\ Live' = Live
           /\ \E q \in [Nat -> Places] : Path(q, b, Onway') /\ (Live => Agrees(q[Len(Onway')]))
  BY TakesStarts DEF RouteInv
<1>2. PICK q \in [Nat -> Places] : Path(q, b, Onway') /\ (Live => Agrees(q[Len(Onway')]))
  BY <1>1
<1>3. Here' = b
  BY <1>1
<1>4. ASSUME NEW z, Agrees(z)
      PROVE  Agrees(z)'
  <2>1. UNCHANGED <<eng, hs>>
    BY DEF engineVars
  <2>2. Meets(z)'
    BY <1>4, <2>1 DEF Agrees, Meets
  <2>3. Expects(z)'
    BY <1>4, <2>1 DEF Agrees, Expects, Hellos
  <2> QED BY <1>4, <2>1, <2>2, <2>3 DEF Agrees
<1>5. Path(q, Here, Onway)'
  BY <1>2, <1>3
<1>6. Live' => Agrees(q[Len(Onway)])'
  BY <1>1, <1>2, <1>4
<1>7. Route'
  BY <1>5, <1>6 DEF Route
<1>8. NoFlight'
  BY DEF RouteInv, NoFlight, engineVars
<1> QED BY <1>7, <1>8 DEF RouteInv

(* An answer to a ClientHello: what the client sent behind it is           *)
(* understood after the answer as well.                                    *)
LEMMA AskedMoves ==
  ASSUME NEW start \in Places, start.pc = "asked", NEW records \in Seq(SingleRecord), NEW p,
         Path(p, start, records),
         NEW here \in Places, here.pc \in {"flight", "resumed"}, here.epoch = start.epoch
  PROVE  \E q \in [Nat -> Places], z \in Places, y \in Places :
           /\ Path(q, here, records)
           /\ q[Len(records)] = y /\ p[Len(records)] = z
           /\ z.pc \in {"asked", "closed"} /\ z.epoch >= start.epoch /\ y.epoch = z.epoch
           /\ y.pc = IF z.pc = "asked" THEN here.pc ELSE "closed"
<1> DEFINE move(a) == IF a.pc = "asked" THEN [pc |-> here.pc, epoch |-> a.epoch] ELSE a
           f == [a \in Places |-> move(a)]
<1>1. \A a \in Places : move(a) \in Places
  BY DEF Places, ServerStates
<1>2. f \in [Places -> Places] /\ \A a \in Places : f[a] = move(a)
  BY <1>1
<1>3. \A a \in Places : Later(start, a) =>
        /\ a.pc \in {"asked", "closed"} /\ a.epoch >= start.epoch
        /\ a.epoch \in Nat /\ f[a].epoch = a.epoch
        /\ a.pc = "asked" => f[a] = [pc |-> here.pc, epoch |-> a.epoch]
        /\ a.pc = "closed" => f[a] = a
  BY <1>2 DEF Later, Places
<1> HIDE DEF f, move
<1>4. ASSUME NEW a \in Places, NEW b \in Places, Later(start, a), Later(start, b), Later(a, b)
      PROVE  Later(f[a], f[b])
  <2>1. CASE a.pc = "closed"
    <3>1. b.pc = "closed"
      BY <1>4, <2>1 DEF Later
    <3> QED BY <1>3, <1>4, <2>1, <3>1
  <2>2. CASE a.pc = "asked"
    <3>1. f[a] = [pc |-> here.pc, epoch |-> a.epoch] /\ f[b].epoch = b.epoch /\ a.epoch <= b.epoch
      BY <1>3, <1>4, <2>2 DEF Later
    <3> QED BY <3>1 DEF Later
  <2> QED BY <1>3, <1>4, <2>1, <2>2
<1>5. ASSUME NEW rec, NEW a \in Places, NEW b \in Places, Later(start, a), Later(start, b),
             Leads(a, rec, b)
      PROVE  Leads(f[a], rec, f[b])
  <2>1. a.pc = "asked" /\ f[a] = [pc |-> here.pc, epoch |-> a.epoch] /\ rec.epoch = a.epoch
    BY <1>3, <1>5 DEF Leads
  <2>2. CASE Sole(rec, "alert", "no_renegotiation") /\ b = a
    BY <2>1, <2>2 DEF Leads
  <2>3. CASE Sole(rec, "alert", "close_notify") /\ b = [pc |-> "closed", epoch |-> a.epoch]
    <3>1. f[b] = b
      BY <1>3, <1>5, <2>3
    <3> QED BY <2>1, <2>3, <3>1 DEF Leads
  <2>4. b.pc \in {"asked", "closed"}
    BY <1>3, <1>5
  <2> QED BY <1>5, <2>1, <2>2, <2>3, <2>4 DEF Leads
<1>6. PICK q : /\ Path(q, f[start], records) /\ q[Len(records)] = f[p[Len(records)]]
               /\ p[Len(records)] \in Places /\ Later(start, p[Len(records)])
  BY <1>2, <1>4, <1>5, PathMoves
<1>7. q \in [Nat -> Places]
  BY <1>6 DEF Path
<1>8. f[start] = here
  BY <1>3, LaterIsOrder DEF Places
<1> DEFINE z == p[Len(records)]
           y == f[z]
<1>9. /\ z \in Places /\ y \in Places
      /\ z.pc \in {"asked", "closed"} /\ z.epoch >= start.epoch /\ y.epoch = z.epoch
      /\ y.pc = IF z.pc = "asked" THEN here.pc ELSE "closed"
  BY <1>2, <1>3, <1>6
<1>10. q[Len(records)] = y /\ p[Len(records)] = z
  BY <1>6
<1> HIDE DEF z, y
<1> QED BY <1>6, <1>7, <1>8, <1>9, <1>10, Zenon

(* Both answers keep the invariant of the dialogue.                        *)
LEMMA AnswerKeepsRoute ==
  ASSUME EngineInv, Sent, RouteInv, Speech', Remembered', Takes("handshake", "ClientHello"),
         UNCHANGED engineVars, srv.pc \in {"hello", "open"},
         NEW pc \in {"flight", "resumed"}, Here' = [pc |-> pc, epoch |-> srv.in_epoch],
         pc = "flight" => (NoHello => OneHello("ServerHello")'),
         pc = "resumed" => srv.session /\ (NoHello => OneHello("ServerHelloResumed")')
  PROVE  RouteInv'
<1>1. PICK b \in Places :
           /\ Leads(Here, Head(toPeer), b) /\ Head(toPeer) \in SingleRecord
           /\ Carries(Head(toPeer), "handshake", "ClientHello") /\ Here \in Places
           /\ Live' = Live /\ Onway' \in Seq(SingleRecord)
           /\ \E p \in [Nat -> Places] : Path(p, b, Onway') /\ (Live => Agrees(p[Len(Onway')]))
  BY TakesStarts DEF RouteInv
<1>2. PICK p \in [Nat -> Places] : Path(p, b, Onway') /\ (Live => Agrees(p[Len(Onway')]))
  BY <1>1
<1>3. b.pc = "asked" /\ b.epoch = srv.in_epoch
  BY <1>1, TakesLeads DEF Here
<1> DEFINE here == [pc |-> pc, epoch |-> srv.in_epoch]
<1>4. here \in Places /\ here.pc = pc /\ here.epoch = b.epoch
  BY <1>1, <1>3 DEF Places, ServerStates
<1> HIDE DEF here
<1>5. PICK q \in [Nat -> Places], z \in Places, y \in Places :
           /\ Path(q, here, Onway')
           /\ q[Len(Onway')] = y /\ p[Len(Onway')] = z
           /\ z.pc \in {"asked", "closed"} /\ z.epoch >= b.epoch /\ y.epoch = z.epoch
           /\ y.pc = IF z.pc = "asked" THEN here.pc ELSE "closed"
  BY <1>1, <1>2, <1>3, <1>4, AskedMoves
<1>6. ASSUME Live
      PROVE  Agrees(y)'
  <2>1. Agrees(z) /\ UNCHANGED <<eng, hs>>
    BY <1>2, <1>4, <1>5, <1>6 DEF engineVars
  <2>2. \/ hs.pc \in {"close"} \cup Closing
        \/ hs.pc = "read_ServerHello" /\ z.pc = "asked" /\ y.pc = pc
    BY <1>4, <1>5, <2>1 DEF Agrees, Meets, EngineInv, EngineTypeOK, Coroutines, Locations, AtHello,
         ChangingKeys, Closing
  <2>3. Meets(y)'
    <3>1. CASE hs.pc \in {"close"} \cup Closing
      <4>1. y.pc = "closed" => hs.pc = "close_wait"
        BY <1>4, <1>5, <2>1 DEF Agrees, Meets
      <4> QED BY <2>1, <3>1, <4>1 DEF Meets, Closing, Negotiating, InSession
    <3>2. CASE hs.pc = "read_ServerHello" /\ y.pc = pc
      BY <2>1, <3>2 DEF Meets, Negotiating, InSession
    <3> QED BY <2>2, <3>1, <3>2
  <2>4. Expects(y)'
    <3>1. CASE hs.pc \in {"close"} \cup Closing
      BY <2>1, <3>1 DEF Expects
    <3>2. CASE hs.pc = "read_ServerHello" /\ z.pc = "asked" /\ y.pc = pc
      <4>1. NoHello
        BY <2>1, <3>2 DEF Agrees, Expects, Closing
      <4>2. pc = "resumed" => eng.session
        <5> SUFFICES ASSUME pc = "resumed"
                     PROVE  eng.session
          OBVIOUS
        <5>1. srv.in_epoch > 0 /\ (eng.reneg # 0 => eng.session)
          BY DEF RouteInv, Remembered
        <5>2. z.epoch = eng.out_epoch /\ z.epoch \in Nat /\ b.epoch \in Nat
          BY <2>1 DEF Agrees, Places
        <5>3. eng.out_epoch # 0
          BY <1>3, <1>4, <1>5, <5>1, <5>2
        <5> QED BY <5>1, <5>3 DEF EngineInv, FirstHandshake
      <4> QED BY <2>1, <3>2, <4>1, <4>2 DEF Expects
    <3> QED BY <2>2, <3>1, <3>2
  <2> QED BY <1>4, <1>5, <2>1, <2>3, <2>4 DEF Agrees
<1>7. Path(q, Here, Onway)'
  BY <1>4, <1>5 DEF here
<1>8. Live' => Agrees(q[Len(Onway)])'
  BY <1>1, <1>4, <1>5, <1>6
<1>9. Route'
  BY <1>7, <1>8 DEF Route
<1>10. NoFlight'
  BY DEF RouteInv, NoFlight, engineVars
<1> QED BY <1>9, <1>10 DEF RouteInv

(* A server that closes: the same.                                         *)
LEMMA OpenMoves ==
  ASSUME NEW start \in Places, start.pc = "open", NEW R, NEW records \in Seq(R), NEW p,
         Path(p, start, records)
  PROVE  \E q \in [Nat -> Places], z \in Places, y \in Places :
           /\ Path(q, [pc |-> "closing", epoch |-> start.epoch], records)
           /\ q[Len(records)] = y /\ p[Len(records)] = z
           /\ z.pc \in {"open", "asked", "closed"} /\ y.epoch = z.epoch
           /\ y.pc = IF z.pc = "closed" THEN "closed" ELSE "closing"
<1> DEFINE move(a) == IF a.pc = "closed" THEN a ELSE [pc |-> "closing", epoch |-> a.epoch]
           f == [a \in Places |-> move(a)]
<1>1. \A a \in Places : move(a) \in Places
  BY DEF Places, ServerStates
<1>2. f \in [Places -> Places] /\ \A a \in Places : f[a] = move(a)
  BY <1>1
<1>3. \A a \in Places : Later(start, a) =>
        /\ a.pc \in {"open", "asked", "closed"} /\ a.epoch \in Nat /\ f[a].epoch = a.epoch
        /\ a.pc # "closed" => f[a] = [pc |-> "closing", epoch |-> a.epoch]
        /\ a.pc = "closed" => f[a] = a
  BY <1>2 DEF Later, Places
<1> HIDE DEF f, move
<1>4. ASSUME NEW a \in Places, NEW b \in Places, Later(start, a), Later(start, b), Later(a, b)
      PROVE  Later(f[a], f[b])
  <2>1. CASE a.pc = "closed"
    <3>1. b.pc = "closed"
      BY <1>4, <2>1 DEF Later
    <3> QED BY <1>3, <1>4, <2>1, <3>1
  <2>2. CASE a.pc # "closed"
    <3>1. f[a] = [pc |-> "closing", epoch |-> a.epoch] /\ f[b].epoch = b.epoch /\ a.epoch <= b.epoch
      BY <1>3, <1>4, <2>2 DEF Later
    <3>2. f[b].pc \in {"closing", "closed"}
      <4>1. b.pc = "closed" \/ f[b] = [pc |-> "closing", epoch |-> b.epoch]
        BY <1>3, <1>4
      <4> QED BY <1>3, <1>4, <4>1
    <3> QED BY <3>1, <3>2 DEF Later
  <2> QED BY <2>1, <2>2
<1>5. ASSUME NEW rec, NEW a \in Places, NEW b \in Places, Later(start, a), Later(start, b),
             Leads(a, rec, b)
      PROVE  Leads(f[a], rec, f[b])
  <2>1. /\ a.pc \in {"open", "asked"} /\ f[a] = [pc |-> "closing", epoch |-> a.epoch]
        /\ rec.epoch = a.epoch
    BY <1>3, <1>5 DEF Leads
  <2>2. CASE Sole(rec, "alert", "close_notify") /\ b = [pc |-> "closed", epoch |-> a.epoch]
    <3>1. f[b] = b
      BY <1>3, <1>5, <2>2
    <3> QED BY <2>1, <2>2, <3>1 DEF Leads
  <2>3. CASE /\ \/ Sole(rec, "alert", "no_renegotiation") \/ DataRecord(rec)
                \/ Sole(rec, "handshake", "ClientHello")
             /\ b.pc # "closed" /\ b.epoch = a.epoch
    <3>1. f[b] = f[a]
      BY <1>3, <1>5, <2>1, <2>3
    <3> QED BY <2>1, <2>3, <3>1 DEF Leads
  <2>4. \/ Sole(rec, "alert", "close_notify") /\ b = [pc |-> "closed", epoch |-> a.epoch]
        \/ /\ \/ Sole(rec, "alert", "no_renegotiation") \/ DataRecord(rec)
              \/ Sole(rec, "handshake", "ClientHello")
           /\ b.pc # "closed" /\ b.epoch = a.epoch
    BY <1>5, <2>1 DEF Leads
  <2> QED BY <2>2, <2>3, <2>4
<1>6. PICK q : /\ Path(q, f[start], records) /\ q[Len(records)] = f[p[Len(records)]]
               /\ p[Len(records)] \in Places /\ Later(start, p[Len(records)])
  BY <1>2, <1>4, <1>5, PathMoves
<1>7. q \in [Nat -> Places]
  BY <1>6 DEF Path
<1>8. f[start] = [pc |-> "closing", epoch |-> start.epoch]
  BY <1>3, LaterIsOrder
<1> DEFINE z == p[Len(records)]
           y == f[z]
<1>9. /\ z \in Places /\ y \in Places
      /\ z.pc \in {"open", "asked", "closed"} /\ y.epoch = z.epoch
      /\ y.pc = IF z.pc = "closed" THEN "closed" ELSE "closing"
  BY <1>2, <1>3, <1>6
<1>10. q[Len(records)] = y /\ p[Len(records)] = z
  BY <1>6
<1> HIDE DEF z, y
<1> QED BY <1>6, <1>7, <1>8, <1>9, <1>10, Zenon

(* A close_notify of the server keeps it.                                  *)
LEMMA ClosingKeepsRoute ==
  ASSUME EngineInv, Sent, RouteInv, Speech', Remembered', UNCHANGED <<engineVars, link, toPeer>>,
         srv.pc = "open", Here' = [pc |-> "closing", epoch |-> srv.in_epoch], NoHello => NoHello'
  PROVE  RouteInv'
<1>1. PICK p \in [Nat -> Places] :
        Path(p, Here, Onway) /\ (Live => Agrees(p[Len(Onway)]))
  BY DEF RouteInv, Route
<1>2. UNCHANGED <<eng, hs, outrec, Live, Onway>> /\ Onway \in Seq(SingleRecord)
  BY OnwayTyped DEF engineVars, Live, Onway
<1>3. Here \in Places /\ Here.pc = "open" /\ Here.epoch = srv.in_epoch
  BY <1>1 DEF Path, Here
<1>4. PICK q \in [Nat -> Places], z \in Places, y \in Places :
           /\ Path(q, [pc |-> "closing", epoch |-> Here.epoch], Onway)
           /\ q[Len(Onway)] = y /\ p[Len(Onway)] = z
           /\ z.pc \in {"open", "asked", "closed"} /\ y.epoch = z.epoch
           /\ y.pc = IF z.pc = "closed" THEN "closed" ELSE "closing"
  BY <1>1, <1>2, <1>3, OpenMoves
<1>5. ASSUME Live
      PROVE  Agrees(y)'
  <2>1. Agrees(z)
    BY <1>1, <1>4, <1>5
  <2>2. Meets(y)'
    BY <1>2, <1>4, <2>1 DEF Agrees, Meets, Negotiating, ChangingKeys, InSession
  <2>3. Expects(y)'
    BY <1>2, <1>4, <2>1 DEF Agrees, Expects
  <2> QED BY <1>2, <1>4, <2>1, <2>2, <2>3 DEF Agrees
<1>6. Path(q, Here, Onway)'
  BY <1>2, <1>3, <1>4
<1>7. Live' => Agrees(q[Len(Onway)])'
  BY <1>2, <1>4, <1>5
<1>8. Route'
  BY <1>6, <1>7 DEF Route
<1>9. NoFlight'
  BY DEF RouteInv, NoFlight, engineVars
<1> QED BY <1>8, <1>9 DEF RouteInv

(* Every answer of the server, and everything it says of its own accord.   *)
LEMMA ServerAnswersRoute ==
  ASSUME Honest, EngineInv, ServerTyped, Sent, RouteInv, ServerAnswers,
         UNCHANGED engineVars
  PROVE  RouteInv'
<1>0. {"change_cipher_spec", "alert", "handshake", "application_data"} = Types
  BY DEF Types
<1>1. UNCHANGED <<eng, inrec>> /\ (srv.session => srv.in_epoch > 0) /\ Speech
      /\ (eng.reneg # 0 => eng.session)
  BY DEF engineVars, RouteInv, Remembered
<1>2. CASE FullHandshake
  <2>1. /\ Takes("handshake", "ClientHello") /\ srv' = [srv EXCEPT !.pc = "flight"]
        /\ srv.pc \in {"hello", "open"}
        /\ \/ Send(<<Reply("handshake", ServerFlight)>>)
           \/ Send([i \in DOMAIN ServerFlight |-> Reply("handshake", <<ServerFlight[i]>>)])
    BY <1>2 DEF FullHandshake
  <2>2. Speech' /\ (NoHello => OneHello("ServerHello")')
    BY <1>1, <2>1, SaysFlight
  <2>3. srv'.pc = "flight" /\ srv'.in_epoch = srv.in_epoch /\ srv'.session = srv.session
    BY <2>1 DEF ServerTyped, Servers
  <2>4. Here' = [pc |-> "flight", epoch |-> srv.in_epoch] /\ Remembered'
    BY <1>1, <2>3 DEF Here, Remembered
  <2> QED BY <2>1, <2>2, <2>4, AnswerKeepsRoute
<1>3. CASE AbbreviatedHandshake
  <2>1. /\ Takes("handshake", "ClientHello") /\ srv.session
        /\ srv' = [srv EXCEPT !.pc = "resumed", !.out_epoch = @ + 1]
        /\ srv.pc \in {"hello", "open"}
        /\ Send(<<Reply("handshake", <<Hello("ServerHelloResumed", srv.ri)>>)>> \o ChangeKeys)
    BY <1>3 DEF AbbreviatedHandshake
  <2>2. Speech' /\ (NoHello => OneHello("ServerHelloResumed")')
    BY <1>1, <2>1, SaysResumption
  <2>3. srv'.pc = "resumed" /\ srv'.in_epoch = srv.in_epoch /\ srv'.session = srv.session
    BY <2>1 DEF ServerTyped, Servers
  <2>4. Here' = [pc |-> "resumed", epoch |-> srv.in_epoch] /\ Remembered'
    BY <1>1, <2>3 DEF Here, Remembered
  <2> QED BY <2>1, <2>2, <2>4, AnswerKeepsRoute
<1>4. ASSUME UNCHANGED toClient
      PROVE  Speech' /\ (NoHello => NoHello') /\ \A kind \in Hellos : OneHello(kind) => OneHello(kind)'
  BY <1>1, <1>4, HellosStay DEF Speech
<1>5. CASE ClientFlight \/ ClientDeclines \/ ServerIgnores
  <2>1. PICK type, name :
             /\ type \in Types
             /\ Takes(type, name) /\ UNCHANGED <<toClient, srv>>
             /\ \/ type = "handshake" /\ name \in {"Certificate", "ClientKeyExchange", "CertificateVerify"}
                \/ type = "alert" /\ name = "no_renegotiation"
                \/ type = "handshake" /\ name = "ClientHello" /\ srv.pc = "closing"
    BY <1>0, <1>5 DEF ClientFlight, ClientDeclines, ServerIgnores
  <2>2. Here' = Here /\ Remembered' /\ Here.pc = srv.pc
    BY <1>1, <2>1 DEF Here, Remembered
  <2>3. ASSUME NEW b \in Places, Leads(Here, Head(toPeer), b), Head(toPeer) \in SingleRecord,
               Carries(Head(toPeer), type, name), Here \in Places
        PROVE  Here' = b
    BY <2>1, <2>2, <2>3, TakesLeads
  <2> QED BY <1>4, <2>1, <2>2, <2>3, ServerFollows
<1>6. CASE ClientCCS
  <2>1. /\ Takes("change_cipher_spec", "ccs") /\ UNCHANGED toClient
        /\ srv' = [srv EXCEPT !.in_epoch = @ + 1,
                              !.pc = IF @ = "flight" THEN "finished" ELSE "confirmed"]
    BY <1>6 DEF ClientCCS
  <2>2. /\ srv'.pc = IF srv.pc = "flight" THEN "finished" ELSE "confirmed"
        /\ srv'.in_epoch = srv.in_epoch + 1 /\ srv'.session = srv.session
    BY <2>1 DEF ServerTyped, Servers
  <2>3. Remembered'
    BY <1>1, <2>2 DEF Remembered, ServerTyped, Servers
  <2>4. ASSUME NEW b \in Places, Leads(Here, Head(toPeer), b), Head(toPeer) \in SingleRecord,
               Carries(Head(toPeer), "change_cipher_spec", "ccs"), Here \in Places
        PROVE  Here' = b
    <3>1. \/ Here.pc = "flight" /\ b = [pc |-> "finished", epoch |-> Here.epoch + 1]
          \/ Here.pc = "resumed" /\ b = [pc |-> "confirmed", epoch |-> Here.epoch + 1]
      BY <2>4, TakesLeads
    <3> QED BY <2>2, <3>1 DEF Here
  <2> QED BY <1>4, <2>1, <2>3, <2>4, ServerFollows
<1>7. CASE ClientFinished
  <2>1. /\ Takes("handshake", "Finished") /\ srv.pc \in {"finished", "confirmed"}
        /\ Send(ChangeKeys) \/ UNCHANGED toClient
        /\ \/ srv' = [srv EXCEPT !.pc = "open", !.out_epoch = @ + 1, !.session = TRUE]
           \/ srv' = [srv EXCEPT !.pc = "open"]
    BY <1>7 DEF ClientFinished
  <2>2. srv'.pc = "open" /\ srv'.in_epoch = srv.in_epoch
    BY <2>1 DEF ServerTyped, Servers
  <2>3. srv.in_epoch > 0
    <3>1. Here \in Places
      BY DEF RouteInv, Route, Path
    <3> QED BY <2>1, <3>1 DEF Here, Places
  <2>4. Remembered'
    BY <1>1, <2>2, <2>3 DEF Remembered
  <2>5. Speech' /\ (NoHello => NoHello') /\ \A kind \in Hellos : OneHello(kind) => OneHello(kind)'
    <3>1. CASE Send(ChangeKeys)
      BY <1>1, <3>1, ChangeSpeaks, HellosFollow
    <3> QED BY <1>4, <2>1, <3>1
  <2>6. ASSUME NEW b \in Places, Leads(Here, Head(toPeer), b), Head(toPeer) \in SingleRecord,
               Carries(Head(toPeer), "handshake", "Finished"), Here \in Places
        PROVE  Here' = b
    <3>1. b = [pc |-> "open", epoch |-> Here.epoch]
      BY <2>6, TakesLeads
    <3> QED BY <2>2, <3>1 DEF Here
  <2> QED BY <2>1, <2>4, <2>5, <2>6, ServerFollows
<1>8. CASE ClientData
  <2>1. /\ Takes("application_data", "data") /\ UNCHANGED toClient
        /\ srv' = [srv EXCEPT !.rcvd = @ \o Head(toPeer).body]
    BY <1>8 DEF ClientData
  <2>2. srv'.pc = srv.pc /\ srv'.in_epoch = srv.in_epoch /\ srv'.session = srv.session
    BY <2>1 DEF ServerTyped, Servers
  <2>3. Here' = Here /\ Remembered'
    BY <1>1, <2>2 DEF Here, Remembered
  <2>4. ASSUME NEW b \in Places, Leads(Here, Head(toPeer), b), Head(toPeer) \in SingleRecord,
               Carries(Head(toPeer), "application_data", "data"), Here \in Places
        PROVE  Here' = b
    BY <2>3, <2>4, TakesLeads
  <2> QED BY <1>4, <2>1, <2>3, <2>4, ServerFollows
<1>9. CASE ClientCloses
  <2>1. /\ Takes("alert", "close_notify") /\ srv' = [srv EXCEPT !.pc = "closed"]
        /\ UNCHANGED toClient \/ Send(<<Reply("alert", <<Msg("close_notify")>>)>>)
    BY <1>9 DEF ClientCloses
  <2>2. srv'.pc = "closed" /\ srv'.in_epoch = srv.in_epoch /\ srv'.session = srv.session
    BY <2>1 DEF ServerTyped, Servers
  <2>3. Remembered'
    BY <1>1, <2>2 DEF Remembered
  <2>4. Speech' /\ (NoHello => NoHello') /\ \A kind \in Hellos : OneHello(kind) => OneHello(kind)'
    <3>1. CASE Send(<<Reply("alert", <<Msg("close_notify")>>)>>)
      BY <1>0, <1>1, <3>1, SpeechMessages, SaysOne
    <3> QED BY <1>4, <2>1, <3>1
  <2>5. ASSUME NEW b \in Places, Leads(Here, Head(toPeer), b), Head(toPeer) \in SingleRecord,
               Carries(Head(toPeer), "alert", "close_notify"), Here \in Places
        PROVE  Here' = b
    <3>1. b = [pc |-> "closed", epoch |-> Here.epoch]
      BY <2>5, TakesLeads
    <3> QED BY <2>2, <3>1 DEF Here
  <2> QED BY <2>1, <2>3, <2>4, <2>5, ServerFollows
<1>10. ~ReceiveAnything
  BY DEF ReceiveAnything
<1> QED BY <1>2, <1>3, <1>5, <1>6, <1>7, <1>8, <1>9, <1>10 DEF ServerAnswers

(* What it says of its own accord.                                         *)
LEMMA ServerSpeaksRoute ==
  ASSUME Honest, EngineInv, ServerTyped, Sent, RouteInv, ServerSpeaks,
         UNCHANGED engineVars
  PROVE  RouteInv'
<1>0. {"change_cipher_spec", "alert", "handshake", "application_data"} = Types
  BY DEF Types
<1>1. UNCHANGED <<eng, hs, inrec, outbuf, outrec>> /\ (srv.session => srv.in_epoch > 0) /\ Speech
      /\ (eng.reneg # 0 => eng.session)
  BY DEF engineVars, RouteInv, Remembered
<1>2. ASSUME UNCHANGED toPeer, Here' = Here, srv'.session = srv.session, Speech', Live' => Live,
             Live' => (NoHello => NoHello') /\ \A kind \in Hellos : OneHello(kind) => OneHello(kind)'
      PROVE  RouteInv'
  <2>1. Remembered' /\ NoFlight'
    BY <1>1, <1>2 DEF Remembered, Here, RouteInv, NoFlight
  <2>2. CASE ~Live'
    BY <1>2, <2>1, <2>2, RouteEnds DEF RouteInv
  <2>3. CASE Live'
    <3>1. Onway' = Onway
      BY <1>1, <1>2, <2>3 DEF Onway
    <3>2. ASSUME NEW z \in Places, Agrees(z)
          PROVE  Agrees(z)'
      <4>1. Meets(z)'
        BY <1>1, <3>2 DEF Agrees, Meets
      <4>2. Expects(z)'
        BY <1>1, <1>2, <2>3, <3>2 DEF Agrees, Expects, Hellos
      <4> QED BY <1>1, <3>2, <4>1, <4>2 DEF Agrees
    <3> QED BY <1>2, <2>1, <2>3, <3>1, <3>2, RouteAgrees DEF RouteInv
  <2> QED BY <2>2, <2>3
<1>3. CASE SendData \/ SendHelloRequest \/ SendWarning
  <2>1. PICK type \in Types, item \in SpeechItem :
             item.msg \notin Hellos /\ Send(<<Reply(type, <<item>>)>>)
    <3>1. \A n \in Nat : Data(n) \in SpeechItem /\ Data(n).msg \notin Hellos
      BY SpeechMessages
    <3>2. /\ Msg("HelloRequest") \in SpeechItem /\ Msg("HelloRequest").msg \notin Hellos
          /\ Msg("warning") \in SpeechItem /\ Msg("warning").msg \notin Hellos
      BY SpeechMessages
    <3> HIDE DEF SpeechItem, Hellos
    <3> QED BY <1>0, <1>3, <3>1, <3>2, ServerCounts DEF SendData, SendHelloRequest, SendWarning
  <2>2. Speech' /\ (NoHello => NoHello') /\ \A kind \in Hellos : OneHello(kind) => OneHello(kind)'
    BY <1>1, <2>1, SaysOne
  <2>3. /\ UNCHANGED <<link, toPeer>>
        /\ \/ srv' = [srv EXCEPT !.sent = @ + 1]
           \/ srv' = [srv EXCEPT !.requests = @ + 1]
           \/ srv' = [srv EXCEPT !.warnings = @ + 1]
    BY <1>3 DEF SendData, SendHelloRequest, SendWarning
  <2>4. srv'.pc = srv.pc /\ srv'.in_epoch = srv.in_epoch /\ srv'.session = srv.session
    BY <2>3 DEF ServerTyped, Servers
  <2>5. Here' = Here /\ Live' = Live
    BY <1>1, <2>3, <2>4 DEF Here, Live
  <2> QED BY <1>2, <2>2, <2>3, <2>4, <2>5
<1>4. CASE SendCloseNotify
  <2>1. /\ UNCHANGED <<link, toPeer>> /\ srv' = [srv EXCEPT !.pc = "closing"] /\ srv.pc = "open"
        /\ Send(<<Reply("alert", <<Msg("close_notify")>>)>>)
    BY <1>4 DEF SendCloseNotify
  <2>2. srv'.pc = "closing" /\ srv'.in_epoch = srv.in_epoch /\ srv'.session = srv.session
    BY <2>1 DEF ServerTyped, Servers
  <2>3. Speech' /\ (NoHello => NoHello')
    BY <1>0, <1>1, <2>1, SpeechMessages, SaysOne
  <2>4. Here' = [pc |-> "closing", epoch |-> srv.in_epoch] /\ Remembered'
    BY <1>1, <2>2 DEF Here, Remembered
  <2> QED BY <2>1, <2>3, <2>4, ClosingKeepsRoute
<1>5. CASE PeerHangsUp \/ LinkLost
  <2>1. UNCHANGED <<toPeer, srv>> /\ toClient' \in {toClient, <<>>} /\ link' # "up"
    BY <1>5 DEF PeerHangsUp, LinkLost
  <2>2. Speech'
    <3>1. <<>> \in Seq(SpeechRecord)
      OBVIOUS
    <3> HIDE DEF SpeechRecord
    <3> QED BY <1>1, <2>1, <3>1 DEF Speech
  <2>3. Here' = Here /\ ~Live'
    BY <2>1 DEF Here, Live
  <2> QED BY <1>2, <2>1, <2>2, <2>3
<1>6. ~SendAnything
  BY DEF SendAnything
<1> QED BY <1>3, <1>4, <1>5, <1>6 DEF ServerSpeaks

(* Every step of the system.                                               *)
LEMMA NextKeepsRoute ==
  ASSUME Honest, ThroughBearSSLClient, EngineInv, ChannelInv, Held, ClosureInv, RouteInv, ClosureInv',
         [Next]_vars
  PROVE  RouteInv'
<1>0. OutputInv /\ Sent /\ Sent' /\ ServerTyped
  BY DEF ChannelInv, OutputInv, ClosureInv
<1>1. CASE EngineStep
  <2>1. HandshakeStep /\ UNCHANGED <<linkVars, srv>>
    BY <1>1 DEF EngineStep
  <2>2. NoData
    BY <2>1, ProcessorRuns DEF Held, Holding, Idle
  <2> QED BY <1>0, <2>1, <2>2, ProcessorKeepsRoute
<1>2. CASE IoStep
  BY <1>0, <1>2, RunKeepsRoute, FinishKeepsRoute DEF IoStep
<1>3. CASE CallReturns \/ CallStarts
  BY <1>0, <1>3, CallKeepsRoute
<1>4. CASE PeerStep
  BY <1>0, <1>4, ServerAnswersRoute, ServerSpeaksRoute DEF PeerStep
<1>5. CASE UNCHANGED vars
  BY <1>0, <1>5, SameKeepsRoute DEF vars, engineVars, linkVars
<1> QED BY <1>1, <1>2, <1>3, <1>4, <1>5 DEF Next

-----------------------------------------------------------------------------
(* What the server understands.                                            *)

(* Before the first connection there is nothing on its way.                *)
LEMMA InitRoute == Init => RouteInv
<1> SUFFICES ASSUME Init
             PROVE  RouteInv
  OBVIOUS
<1> DEFINE p == [i \in Nat |-> Here]
<1>1. /\ Here = [pc |-> "hello", epoch |-> 0] /\ Here \in Places /\ ~Live /\ Onway = <<>>
      /\ ~srv.session /\ eng.reneg = 0 /\ hs.pc = "start" /\ inrec = NoRecord /\ toClient = <<>>
  BY DEF Init, IoInit, EngineInit, FreshEngine, FreshServer, Here, Places, ServerStates, Live, Onway
<1>2. p \in [Nat -> Places] /\ p[0] = Here
  BY <1>1
<1>3. Later(Here, Here)
  BY <1>1, LaterIsOrder
<1>4. \A i, j \in 0 .. 0 : i <= j => Later(p[i], p[j])
  BY <1>2, <1>3
<1> HIDE DEF p
<1>5. Path(p, Here, <<>>)
  BY <1>2, <1>4 DEF Path
<1>6. Route
  BY <1>1, <1>2, <1>5 DEF Route
<1>7. NoRecord \in SpeechRecord
  BY DEF NoRecord, Record, SpeechRecord, HelloFirst
<1> QED BY <1>1, <1>6, <1>7 DEF RouteInv, Speech, Remembered, NoFlight

(* ServerUnderstands for an honest server and an application that calls    *)
(* BearSSLClient: whatever the server says at the same time (data, a       *)
(* HelloRequest, a warning, its closure), each record that reaches it has  *)
(* the type, the order and the keys that it expects at that moment.        *)
THEOREM ServerAlwaysUnderstands ==
  Honest /\ ThroughBearSSLClient => (Spec => []ServerUnderstands)
<1> SUFFICES ASSUME Honest, ThroughBearSSLClient
             PROVE  Spec => []ServerUnderstands
  OBVIOUS
<1>1. Init => RouteInv
  BY InitRoute
<1>2. EngineInv /\ ChannelInv /\ Held /\ ClosureInv /\ RouteInv /\ ClosureInv' /\ [Next]_vars
      => RouteInv'
  BY NextKeepsRoute
<1>3. ClosureInv /\ RouteInv => ServerUnderstands
  BY RouteIsUnderstood DEF ClosureInv, RouteInv
<1> QED BY <1>1, <1>2, <1>3, EngineSafe, ChannelSafe, DataAlwaysHeld, ClosureSafe, PTL DEF Spec

-----------------------------------------------------------------------------
(* Data in a line.                                                         *)

(* A part without data.                                                    *)
Quiet(items) == \A i \in DOMAIN items : ~IsData(items[i])

(* In r, in the records q, in s and in b, one behind the other, are the    *)
(* pieces from first to last.                                              *)
Line(r, q, s, b, first, last) ==
  /\ Increasing(r) /\ Increasing(s) /\ Increasing(b)
  /\ \A i \in DOMAIN q : Increasing(q[i].body)
  /\ Ahead(r, s) /\ Ahead(r, b) /\ Ahead(s, b)
  /\ \A i \in DOMAIN q : Ahead(r, q[i].body) /\ Ahead(q[i].body, s) /\ Ahead(q[i].body, b)
  /\ \A i, j \in DOMAIN q : i < j => Ahead(q[i].body, q[j].body)
  /\ first \in Nat /\ last \in Nat /\ first <= last + 1
  /\ \A n : n \in first .. last <=>
       \/ n \in Pieces(r) \/ n \in Pieces(s) \/ n \in Pieces(b)
       \/ \E i \in DOMAIN q : n \in Pieces(q[i].body)

(* A part without data holds no piece and is ahead of every part.          *)
LEMMA NoPieces ==
  ASSUME NEW items, Quiet(items)
  PROVE  Pieces(items) = {} /\ Increasing(items)
BY DEF Pieces, Increasing, Quiet

LEMMA QuietNothing == Quiet(<<>>)
BY DEF Quiet

LEMMA AheadNone ==
  ASSUME NEW items, Pieces(items) = {}
  PROVE  \A others : Ahead(items, others) /\ Ahead(others, items)
BY DEF Ahead

(* Two parts joined hold the pieces of both, in order if one is ahead of   *)
(* the other.                                                              *)
LEMMA PiecesJoin ==
  ASSUME NEW R, NEW a \in Seq(R), NEW b \in Seq(R)
  PROVE  Pieces(a \o b) = Pieces(a) \cup Pieces(b)
<1>1. \A n \in Pieces(a) : n \in Pieces(a \o b)
  <2> SUFFICES ASSUME NEW i \in DOMAIN a, IsData(a[i])
               PROVE  a[i].n \in Pieces(a \o b)
    BY DEF Pieces
  <2>1. i \in DOMAIN (a \o b) /\ (a \o b)[i] = a[i]
    OBVIOUS
  <2> QED BY <2>1 DEF Pieces
<1>2. \A n \in Pieces(b) : n \in Pieces(a \o b)
  <2> SUFFICES ASSUME NEW i \in DOMAIN b, IsData(b[i])
               PROVE  b[i].n \in Pieces(a \o b)
    BY DEF Pieces
  <2>1. i + Len(a) \in DOMAIN (a \o b) /\ (a \o b)[i + Len(a)] = b[i]
    OBVIOUS
  <2> QED BY <2>1 DEF Pieces
<1>3. \A n \in Pieces(a \o b) : n \in Pieces(a) \/ n \in Pieces(b)
  <2> SUFFICES ASSUME NEW i \in DOMAIN (a \o b), IsData((a \o b)[i])
               PROVE  (a \o b)[i].n \in Pieces(a) \/ (a \o b)[i].n \in Pieces(b)
    BY DEF Pieces
  <2>1. CASE i \in DOMAIN a
    <3>1. (a \o b)[i] = a[i]
      BY <2>1
    <3> QED BY <2>1, <3>1 DEF Pieces
  <2>2. CASE i \notin DOMAIN a
    <3>1. i - Len(a) \in DOMAIN b /\ (a \o b)[i] = b[i - Len(a)]
      BY <2>2
    <3> QED BY <3>1 DEF Pieces
  <2> QED BY <2>1, <2>2
<1> QED BY <1>1, <1>2, <1>3

LEMMA IncreasingJoin ==
  ASSUME NEW R, NEW a \in Seq(R), NEW b \in Seq(R), Increasing(a), Increasing(b), Ahead(a, b)
  PROVE  Increasing(a \o b)
<1> SUFFICES ASSUME NEW i \in DOMAIN (a \o b), NEW j \in DOMAIN (a \o b), i < j,
                    IsData((a \o b)[i]), IsData((a \o b)[j])
             PROVE  (a \o b)[i].n < (a \o b)[j].n
  BY DEF Increasing
<1>1. CASE j \in DOMAIN a
  <2>1. i \in DOMAIN a /\ (a \o b)[i] = a[i] /\ (a \o b)[j] = a[j]
    BY <1>1
  <2> QED BY <1>1, <2>1 DEF Increasing
<1>2. CASE j \notin DOMAIN a
  <2>1. j - Len(a) \in DOMAIN b /\ (a \o b)[j] = b[j - Len(a)]
    BY <1>2
  <2>2. CASE i \in DOMAIN a
    <3>1. (a \o b)[i] = a[i]
      BY <2>2
    <3>2. a[i].n \in Pieces(a) /\ b[j - Len(a)].n \in Pieces(b)
      BY <2>1, <2>2, <3>1 DEF Pieces
    <3> QED BY <2>1, <3>1, <3>2 DEF Ahead
  <2>3. CASE i \notin DOMAIN a
    <3>1. i - Len(a) \in DOMAIN b /\ (a \o b)[i] = b[i - Len(a)] /\ i - Len(a) < j - Len(a)
      BY <2>3
    <3> QED BY <2>1, <3>1 DEF Increasing
  <2> QED BY <2>2, <2>3
<1> QED BY <1>1, <1>2

(* Both ends of what is under way.                                         *)
LEMMA LineQuiet ==
  ASSUME NEW r, NEW q, NEW s, NEW b, NEW first, NEW last, Line(r, q, s, b, first, last),
         NEW s1, NEW b1, Quiet(s), Quiet(b), Quiet(s1), Quiet(b1)
  PROVE  Line(r, q, s1, b1, first, last)
BY NoPieces, AheadNone DEF Line

(* What is gathered is sealed.                                             *)
LEMMA LineSeal ==
  ASSUME NEW r, NEW q, NEW b, NEW first, NEW last, Line(r, q, <<>>, b, first, last)
  PROVE  Line(r, q, b, <<>>, first, last)
BY NoPieces, QuietNothing, AheadNone DEF Line

(* What is sealed leaves behind the other records.                         *)
LEMMA LineSend ==
  ASSUME NEW R, NEW r, NEW q \in Seq(R), NEW rec \in R, NEW b, NEW first, NEW last,
         Line(r, q, rec.body, b, first, last)
  PROVE  Line(r, Append(q, rec), <<>>, b, first, last)
<1> DEFINE Q == Append(q, rec)
<1>1. /\ DOMAIN Q = DOMAIN q \cup {Len(q) + 1} /\ Q[Len(q) + 1] = rec
      /\ \A i \in DOMAIN q : Q[i] = q[i] /\ i < Len(q) + 1
      /\ Len(q) \in Nat /\ DOMAIN q = 1 .. Len(q)
  OBVIOUS
<1>2. /\ Pieces(<<>>) = {} /\ Increasing(<<>>)
      /\ \A others : Ahead(<<>>, others) /\ Ahead(others, <<>>)
  BY NoPieces, QuietNothing, AheadNone
<1> HIDE DEF Q
<1>3. \A i, j \in DOMAIN Q : i < j => Ahead(Q[i].body, Q[j].body)
  BY <1>1 DEF Line
<1>4. \A n : (\E i \in DOMAIN Q : n \in Pieces(Q[i].body))
             <=> n \in Pieces(rec.body) \/ \E i \in DOMAIN q : n \in Pieces(q[i].body)
  BY <1>1
<1>5. \A i \in DOMAIN Q : Increasing(Q[i].body) /\ Ahead(r, Q[i].body) /\ Ahead(Q[i].body, b)
  BY <1>1 DEF Line
<1> QED BY <1>2, <1>3, <1>4, <1>5 DEF Line, Q

(* What is taken from the beginning of the records goes to the end of r.   *)
LEMMA LineTake ==
  ASSUME NEW I, NEW R, NEW r \in Seq(I), NEW q \in Seq(R), q # <<>>, Head(q).body \in Seq(I),
         NEW s, NEW b, NEW first, NEW last, Line(r, q, s, b, first, last)
  PROVE  Line(r \o Head(q).body, Tail(q), s, b, first, last)
<1> DEFINE body == Head(q).body
           Q == Tail(q)
           new == r \o body
<1>1. /\ 1 \in DOMAIN q /\ q[1].body = body
      /\ \A i \in DOMAIN Q : i + 1 \in DOMAIN q /\ Q[i] = q[i + 1] /\ 1 < i + 1
      /\ \A i \in DOMAIN q : i = 1 \/ (i - 1 \in DOMAIN Q /\ Q[i - 1] = q[i])
      /\ \A i, j \in DOMAIN Q : i < j => i + 1 < j + 1
  OBVIOUS
<1> HIDE DEF Q, body
<1>2. Pieces(new) = Pieces(r) \cup Pieces(body)
  BY PiecesJoin DEF body
<1>3. Increasing(new)
  BY <1>1, IncreasingJoin DEF Line, body
<1> HIDE DEF new
<1>4. \A others : Ahead(r, others) /\ Ahead(body, others) => Ahead(new, others)
  BY <1>2 DEF Ahead
<1>5. \A n : (\E i \in DOMAIN q : n \in Pieces(q[i].body))
             <=> n \in Pieces(body) \/ \E i \in DOMAIN Q : n \in Pieces(Q[i].body)
  BY <1>1
<1>6. \A i \in DOMAIN Q : /\ Increasing(Q[i].body) /\ Ahead(r, Q[i].body) /\ Ahead(body, Q[i].body)
                          /\ Ahead(Q[i].body, s) /\ Ahead(Q[i].body, b)
  BY <1>1 DEF Line
<1>7. \A i, j \in DOMAIN Q : i < j => Ahead(Q[i].body, Q[j].body)
  BY <1>1 DEF Line
<1>8. Ahead(new, s) /\ Ahead(new, b)
  BY <1>1, <1>4 DEF Line
<1>9. \A n : n \in first .. last <=>
        \/ n \in Pieces(new) \/ n \in Pieces(s) \/ n \in Pieces(b)
        \/ \E i \in DOMAIN Q : n \in Pieces(Q[i].body)
  BY <1>2, <1>5 DEF Line
<1>10. Line(new, Q, s, b, first, last)
  BY <1>3, <1>4, <1>6, <1>7, <1>8, <1>9 DEF Line
<1> QED BY <1>10 DEF new, Q, body

(* A record without data is taken from the front.                          *)
LEMMA LineSkip ==
  ASSUME NEW R, NEW r, NEW q \in Seq(R), q # <<>>, Quiet(Head(q).body),
         NEW s, NEW b, NEW first, NEW last, Line(r, q, s, b, first, last)
  PROVE  Line(r, Tail(q), s, b, first, last)
<1> DEFINE body == Head(q).body
           Q == Tail(q)
<1>1. /\ q[1].body = body
      /\ \A i \in DOMAIN Q : i + 1 \in DOMAIN q /\ Q[i] = q[i + 1]
      /\ \A i \in DOMAIN q : i = 1 \/ (i - 1 \in DOMAIN Q /\ Q[i - 1] = q[i])
      /\ \A i, j \in DOMAIN Q : i < j => i + 1 < j + 1
  OBVIOUS
<1>2. Pieces(body) = {}
  BY NoPieces
<1> HIDE DEF Q, body
<1>5. \A n : (\E i \in DOMAIN q : n \in Pieces(q[i].body))
             <=> \E i \in DOMAIN Q : n \in Pieces(Q[i].body)
  BY <1>1, <1>2
<1>6. \A i \in DOMAIN Q : /\ Increasing(Q[i].body) /\ Ahead(r, Q[i].body)
                          /\ Ahead(Q[i].body, s) /\ Ahead(Q[i].body, b)
  BY <1>1 DEF Line
<1>7. \A i, j \in DOMAIN Q : i < j => Ahead(Q[i].body, Q[j].body)
  BY <1>1 DEF Line
<1>8. Line(r, Q, s, b, first, last)
  BY <1>5, <1>6, <1>7 DEF Line
<1> QED BY <1>8 DEF Q

(* More data is gathered.                                                  *)
LEMMA LineMore ==
  ASSUME NEW I, NEW r, NEW q, NEW b \in Seq(I), NEW first, NEW last, NEW k \in Nat,
         Line(r, q, <<>>, b, first, last),
         NEW more \in Seq(I), Len(more) = k, \A i \in 1 .. k : more[i] = Data(last + i)
  PROVE  Line(r, q, <<>>, b \o more, first, last + k)
<1>1. first \in Nat /\ last \in Nat /\ first <= last + 1
  BY DEF Line
<1>2. \A i \in 1 .. k : IsData(more[i]) /\ more[i].n = last + i
  BY DEF IsData, Data
<1>3. Pieces(more) = last + 1 .. last + k
  <2>1. \A n \in Pieces(more) : n \in last + 1 .. last + k
    BY <1>1, <1>2 DEF Pieces
  <2>2. \A n \in last + 1 .. last + k : n \in Pieces(more)
    <3> SUFFICES ASSUME NEW n \in last + 1 .. last + k
                 PROVE  n \in Pieces(more)
      OBVIOUS
    <3>1. n - last \in DOMAIN more /\ IsData(more[n - last]) /\ more[n - last].n = n
      BY <1>1, <1>2
    <3> QED BY <3>1 DEF Pieces
  <2> QED BY <2>1, <2>2
<1>4. Increasing(more)
  BY <1>1, <1>2 DEF Increasing
<1>5. \A part : Pieces(part) \subseteq first .. last => Ahead(part, more)
  BY <1>1, <1>3 DEF Ahead
<1>6. Pieces(r) \subseteq first .. last /\ Pieces(b) \subseteq first .. last
      /\ \A i \in DOMAIN q : Pieces(q[i].body) \subseteq first .. last
  BY DEF Line
<1>7. Pieces(b \o more) = Pieces(b) \cup Pieces(more) /\ Increasing(b \o more)
  BY <1>4, <1>5, <1>6, PiecesJoin, IncreasingJoin DEF Line
<1> DEFINE new == b \o more
<1>8. \A part : Ahead(part, b) /\ Ahead(part, more) => Ahead(part, new)
  BY <1>7 DEF Ahead
<1>9. \A n : n \in first .. last + k <=> n \in first .. last \/ n \in Pieces(more)
  BY <1>1, <1>3
<1> HIDE DEF new
<1>10. Ahead(<<>>, new)
  BY NoPieces, QuietNothing, AheadNone
<1>11. Line(r, q, <<>>, new, first, last + k)
  <2>1. \A n : n \in first .. last + k <=>
          \/ n \in Pieces(r) \/ n \in Pieces(<<>>) \/ n \in Pieces(new)
          \/ \E i \in DOMAIN q : n \in Pieces(q[i].body)
    BY <1>7, <1>9 DEF Line, new
  <2>2. last + k \in Nat /\ first <= last + k + 1
    BY <1>1
  <2> QED BY <1>1, <1>5, <1>6, <1>7, <1>8, <1>10, <2>1, <2>2 DEF Line, new
<1> QED BY <1>11 DEF new

(* A line is in order, whatever parts it has.                              *)
LEMMA PartsInOrder ==
  ASSUME NEW parts, NEW k \in Nat, DOMAIN parts = 1 .. k + 3,
         NEW r, NEW q, NEW s, NEW b, DOMAIN q = 1 .. k,
         parts[1] = r, \A i \in 1 .. k : parts[i + 1] = q[i].body,
         parts[k + 2] = s, parts[k + 3] = b,
         NEW first, NEW last, Line(r, q, s, b, first, last)
  PROVE  InOrder(parts, first, last)
<1>1. \A i \in 1 .. k + 3 :
        \/ i = 1 /\ parts[i] = r
        \/ i - 1 \in DOMAIN q /\ parts[i] = q[i - 1].body
        \/ i = k + 2 /\ parts[i] = s
        \/ i = k + 3 /\ parts[i] = b
  <2> SUFFICES ASSUME NEW i \in 1 .. k + 3, i # 1, i # k + 2, i # k + 3
               PROVE  i - 1 \in DOMAIN q /\ parts[i] = q[i - 1].body
    OBVIOUS
  <2>1. i - 1 \in 1 .. k /\ (i - 1) + 1 = i
    OBVIOUS
  <2> QED BY <2>1
<1>2. \A i \in DOMAIN parts : Increasing(parts[i])
  BY <1>1 DEF Line
<1>3. \A i, j \in DOMAIN parts : i < j => Ahead(parts[i], parts[j])
  <2> SUFFICES ASSUME NEW i \in 1 .. k + 3, NEW j \in 1 .. k + 3, i < j
               PROVE  Ahead(parts[i], parts[j])
    OBVIOUS
  <2>1. CASE j - 1 \in DOMAIN q /\ parts[j] = q[j - 1].body
    <3>1. CASE i = 1
      BY <2>1, <3>1 DEF Line
    <3>2. CASE i # 1
      <4>1. i - 1 \in DOMAIN q /\ i - 1 < j - 1 /\ parts[i] = q[i - 1].body
        BY <1>1, <2>1, <3>2
      <4> QED BY <2>1, <4>1 DEF Line
    <3> QED BY <3>1, <3>2
  <2>2. CASE j = k + 2 /\ parts[j] = s
    <3>1. i = 1 \/ (i - 1 \in DOMAIN q /\ parts[i] = q[i - 1].body)
      BY <1>1, <2>2
    <3> QED BY <2>2, <3>1 DEF Line
  <2>3. CASE j = k + 3 /\ parts[j] = b
    <3>1. i = 1 \/ (i - 1 \in DOMAIN q /\ parts[i] = q[i - 1].body) \/ parts[i] = s
      BY <1>1, <2>3
    <3> QED BY <2>3, <3>1 DEF Line
  <2> QED BY <1>1, <2>1, <2>2, <2>3
<1>4. \A n : n \in UNION {Pieces(parts[i]) : i \in DOMAIN parts} <=> n \in first .. last
  <2>1. \A n : (\E i \in DOMAIN parts : n \in Pieces(parts[i])) <=>
          \/ n \in Pieces(r) \/ n \in Pieces(s) \/ n \in Pieces(b)
          \/ \E i \in DOMAIN q : n \in Pieces(q[i].body)
    <3>1. 1 \in DOMAIN parts /\ k + 2 \in DOMAIN parts /\ k + 3 \in DOMAIN parts
      OBVIOUS
    <3>2. \A i \in DOMAIN q : i + 1 \in DOMAIN parts /\ parts[i + 1] = q[i].body
      OBVIOUS
    <3> QED BY <1>1, <3>1, <3>2
  <2> QED BY <2>1 DEF Line
<1> QED BY <1>2, <1>3, <1>4 DEF InOrder

(* The same for the parts that the properties name.                        *)
LEMMA LineInOrder ==
  ASSUME NEW I, NEW R, NEW q \in Seq(R), \A i \in DOMAIN q : q[i].body \in Seq(I),
         NEW r \in Seq(I), NEW s \in Seq(I), NEW b \in Seq(I),
         NEW first, NEW last, Line(r, q, s, b, first, last)
  PROVE  InOrder(<<r>> \o Bodies(q) \o <<s, b>>, first, last)
<1> DEFINE P == Seq(I)
           bodies == Bodies(q)
           k == Len(q)
           parts == <<r>> \o bodies \o <<s, b>>
<1>1. k \in Nat /\ DOMAIN q = 1 .. k
  OBVIOUS
<1>2. r \in P /\ s \in P /\ b \in P /\ \A i \in 1 .. k : q[i].body \in P
  BY <1>1
<1> HIDE DEF P
<1>3. /\ bodies \in Seq(P) /\ Len(bodies) = k
      /\ \A i \in 1 .. k : bodies[i] = q[i].body
  BY <1>1, <1>2 DEF Bodies
<1> HIDE DEF bodies, k
<1>4. <<r>> \in Seq(P) /\ <<s, b>> \in Seq(P)
  BY <1>2
<1> DEFINE front == <<r>> \o bodies
<1>5. /\ front \in Seq(P) /\ Len(front) = k + 1 /\ front[1] = r
      /\ \A i \in 1 .. k : front[i + 1] = bodies[i]
  BY <1>1, <1>2, <1>3
<1> HIDE DEF front
<1>6. /\ DOMAIN (front \o <<s, b>>) = 1 .. k + 3
      /\ \A i \in 1 .. k + 1 : (front \o <<s, b>>)[i] = front[i]
      /\ (front \o <<s, b>>)[k + 2] = s /\ (front \o <<s, b>>)[k + 3] = b
  BY <1>1, <1>4, <1>5
<1>7. parts = front \o <<s, b>>
  BY DEF front
<1> HIDE DEF parts
<1>8. /\ DOMAIN parts = 1 .. k + 3 /\ parts[1] = r /\ parts[k + 2] = s /\ parts[k + 3] = b
      /\ \A i \in 1 .. k : parts[i + 1] = q[i].body
  <2>1. 1 \in 1 .. k + 1 /\ \A i \in 1 .. k : i + 1 \in 1 .. k + 1
    BY <1>1
  <2> QED BY <1>3, <1>5, <1>6, <1>7, <2>1
<1>9. InOrder(parts, first, last)
  BY <1>1, <1>8, PartsInOrder
<1> QED BY <1>9 DEF parts, bodies

(* Nothing is sealed or gathered on the way of the server.                 *)
LEMMA InOrderWithout ==
  ASSUME NEW P, NEW parts \in Seq(P), <<>> \in P,
         NEW first, NEW last, InOrder(parts \o <<<<>>, <<>>>>, first, last)
  PROVE  InOrder(parts, first, last)
<1> DEFINE all == parts \o <<<<>>, <<>>>>
<1>1. /\ DOMAIN parts \subseteq DOMAIN all
      /\ \A i \in DOMAIN parts : all[i] = parts[i]
      /\ \A i \in DOMAIN all : i \in DOMAIN parts \/ all[i] = <<>>
  OBVIOUS
<1> HIDE DEF all
<1>2. InOrder(all, first, last)
  BY DEF all
<1>3. Pieces(<<>>) = {}
  BY NoPieces, QuietNothing
<1>4. \A n : (\E i \in DOMAIN parts : n \in Pieces(parts[i]))
             <=> (\E i \in DOMAIN all : n \in Pieces(all[i]))
  BY <1>1, <1>3
<1> QED BY <1>1, <1>2, <1>4 DEF InOrder

-----------------------------------------------------------------------------
(* Data that is written.                                                   *)

(* What write accepted, from the first piece to the last: with the server, *)
(* on its way, in the record that leaves, in the output buffer.            *)
InWriting(rcvd, records, rec, items, last) == Line(rcvd, records, rec.body, items, 1, last)

(* The invariant of what is written, next to Held and Protected.           *)
Writes == srv.rcvd \in Seq(ClientItem) /\ InWriting(srv.rcvd, toPeer, outrec, outbuf, wrote)

(* Nothing is in line.                                                     *)
LEMMA LineNothing ==
  ASSUME NEW first \in Nat, NEW last \in Nat, first = last + 1
  PROVE  Line(<<>>, <<>>, <<>>, <<>>, first, last)
<1>1. Pieces(<<>>) = {} /\ Increasing(<<>>) /\ Ahead(<<>>, <<>>)
  BY NoPieces, QuietNothing, AheadNone
<1> QED BY <1>1 DEF Line

(* The processor leaves the output alone, or there is no data in it before *)
(* its step and after.                                                     *)
LEMMA ProcessorIsQuiet ==
  ASSUME EngineInv, OutputInv, NoData, HandshakeStep
  PROVE  \/ SameOutput
         \/ Quiet(outrec.body) /\ Quiet(outbuf) /\ Quiet(outrec'.body) /\ Quiet(outbuf')
<1>0. Quiet(outbuf) /\ Quiet(NoRecord.body) /\ Quiet(<<>>)
  BY QuietNothing DEF NoData, Quiet, NoRecord, Record
<1>1. CASE Turns \/ Begins \/ Opens
  BY <1>1 DEF Turns, Begins, Opens
<1>2. CASE Answers
  <2>1. /\ hs.can_output /\ outbuf' = <<>> /\ hs.co = "running"
        /\ \E name \in {"ClientHello", "ccs", "Finished", "no_renegotiation", "close_notify"} :
             outrec'.body = <<Msg(name)>>
    BY <1>2 DEF Answers, Emits, Record, Pcs
  <2>2. outrec = NoRecord
    BY <2>1 DEF EngineInv, Control
  <2>3. \A name \in {"ClientHello", "ccs", "Finished", "no_renegotiation", "close_notify"} :
          Quiet(<<Msg(name)>>)
    BY DEF Quiet, Msg, IsData
  <2> QED BY <1>0, <2>1, <2>2, <2>3
<1>3. CASE Gathers
  <2>1. outrec = NoRecord
    BY <1>3 DEF Gathers, EngineInv, Control
  <2>2. ~IsData(Flight[hs.pc].item)
    BY <1>3 DEF Gathers, Flight, IsData, Msg
  <2> DEFINE body == Append(outbuf, Flight[hs.pc].item)
  <2>3. Quiet(body)
    <3> HIDE DEF IsData, Flight
    <3> QED BY <1>0, <2>2 DEF Quiet, EngineInv, Items
  <2>4. \/ outbuf' = body /\ outrec' = outrec
        \/ Seal(body)
    BY <1>3 DEF Gathers
  <2> HIDE DEF body
  <2> QED BY <1>0, <2>1, <2>3, <2>4 DEF Seal, SameOutput, Record
<1>4. CASE Empties
  <2>1. Seal(outbuf)
    BY <1>4 DEF Empties
  <2> QED BY <1>0, <2>1 DEF Seal, SameOutput, Record
<1> QED BY <1>1, <1>2, <1>3, <1>4, HandshakeEffects DEF Effect, OutputInv

(* The output buffer becomes the record that leaves.                       *)
LEMMA SealWrites ==
  ASSUME NEW r, NEW q, NEW last, InWriting(r, q, outrec, outbuf, last), Seal(outbuf)
  PROVE  InWriting(r, q, outrec', outbuf', last)
<1>1. CASE outrec = NoRecord /\ outbuf # <<>>
  <2>1. outrec'.body = outbuf /\ outbuf' = <<>> /\ outrec.body = <<>>
    BY <1>1 DEF Seal, Record, NoRecord
  <2> QED BY <2>1, LineSeal DEF InWriting
<1>2. CASE ~(outrec = NoRecord /\ outbuf # <<>>)
  BY <1>2 DEF Seal
<1> QED BY <1>1, <1>2

(* br_ssl_engine_flush.                                                    *)
LEMMA FlushWrites ==
  ASSUME Writes, engine_flush, UNCHANGED <<srv, toPeer, wrote>>
  PROVE  Writes'
<1>1. CASE Seal(outbuf)
  BY <1>1, SealWrites DEF Writes
<1>2. CASE UNCHANGED <<outbuf, outrec>>
  BY <1>2 DEF Writes
<1> QED BY <1>1, <1>2 DEF engine_flush

(* The loop of br_sslio_run_until: a record leaves, or what is gathered is *)
(* sealed.                                                                 *)
LEMMA RunWrites ==
  ASSUME Protected, Writes, run_until, UNCHANGED srv
  PROVE  Writes'
<1>1. CASE LowWriteAccepts
  <2>1. toPeer' = Append(toPeer, outrec) /\ outrec' = NoRecord /\ UNCHANGED <<outbuf, wrote>>
    BY <1>1 DEF LowWriteAccepts, sendrec_ack, history
  <2>2. toPeer \in Seq(SoundRecord) /\ outrec \in SoundRecord
    BY DEF Protected
  <2>3. InWriting(srv.rcvd, Append(toPeer, outrec), NoRecord, outbuf, wrote)
    <3> HIDE DEF SoundRecord
    <3>1. Line(srv.rcvd, Append(toPeer, outrec), <<>>, outbuf, 1, wrote)
      BY <2>2, LineSend DEF Writes, InWriting
    <3> QED BY <3>1 DEF InWriting, NoRecord, Record
  <2> QED BY <2>1, <2>3 DEF Writes
<1>2. CASE RunFlush
  BY <1>2, FlushWrites DEF RunFlush, linkVars, history
<1>3. CASE UNCHANGED <<outbuf, outrec, toPeer, wrote>>
  BY <1>3 DEF Writes
<1>4. CASE LowReadDelivers
  BY <1>3, <1>4 DEF LowReadDelivers, recvrec_ack, RecvBadRecord, RecvHandshake, RecvData, Fail,
         engineVars, history
<1>5. CASE RunClosed \/ LowWriteFails \/ TargetReached \/ LowReadFails
  BY <1>3, <1>5 DEF RunClosed, LowWriteFails, TargetReached, LowReadFails, Fail, engineVars,
       linkVars, history
<1> QED BY <1>1, <1>2, <1>4, <1>5 DEF run_until

(* What a write accepts goes to the end of the line.                       *)
LEMMA FinishWrites ==
  ASSUME EngineInv, ChannelInv, Writes, FinishIo, UNCHANGED srv
  PROVE  Writes'
<1>1. UNCHANGED toPeer
  BY DEF FinishIo, FinishRead, FinishAvailable, FinishWrite, FinishFlush, CloseLoop, linkVars
<1>2. CASE UNCHANGED <<outbuf, outrec, wrote>>
  BY <1>1, <1>2 DEF Writes
<1>3. CASE FinishRead \/ FinishAvailable \/ FinishFlush \/ CloseLoop
  BY <1>2, <1>3 DEF FinishRead, FinishAvailable, FinishFlush, CloseLoop, recvapp_ack, engineVars,
       history
<1>4. CASE FinishWrite(todo) /\ run = "error"
  BY <1>2, <1>4 DEF FinishWrite, engineVars, history
<1>5. CASE FinishWrite(todo) /\ run = "done"
  <2>1. PICK k \in 1 .. todo :
              sendapp_ack([i \in 1 .. k |-> Data(wrote + i)]) /\ wrote' = wrote + k
    BY <1>5 DEF FinishWrite, Accept
  <2> DEFINE items == [i \in 1 .. k |-> Data(wrote + i)]
  <2>2. outrec = NoRecord
    BY <1>5 DEF FinishWrite, ChannelInv, InCall, SENDAPP
  <2>3. wrote \in Nat /\ todo \in Int /\ outbuf \in Seq(ClientItem)
    BY ItemsAreClientItems DEF EngineInv, Items
  <2>4. items \in Seq(ClientItem) /\ Len(items) = k /\ items # <<>>
        /\ \A i \in 1 .. k : items[i] = Data(wrote + i)
    <3>1. k \in Nat /\ k # 0 /\ \A i \in 1 .. k : Data(wrote + i) \in ClientItem
      BY <2>3 DEF Data, ClientItem
    <3> HIDE DEF ClientItem
    <3>2. items \in Seq(ClientItem) /\ Len(items) = k
      BY <3>1
    <3> QED BY <3>1, <3>2
  <2>5. sendapp_ack(items) /\ k \in Nat
    BY <2>1, <2>3
  <2> HIDE DEF items
  <2>6. Line(srv.rcvd, toPeer, <<>>, outbuf \o items, 1, wrote + k)
    <3>1. Line(srv.rcvd, toPeer, <<>>, outbuf, 1, wrote)
      BY <2>2 DEF Writes, InWriting, NoRecord, Record
    <3> HIDE DEF ClientItem
    <3> QED BY <2>3, <2>4, <2>5, <3>1, LineMore
  <2>7. CASE Len(outbuf \o items) = OutCap
    <3>1. outbuf \o items # <<>>
      BY <2>3, <2>4
    <3>2. outbuf' = <<>> /\ outrec'.body = outbuf \o items
      BY <2>2, <2>5, <2>7, <3>1 DEF sendapp_ack, Seal, Record
    <3>3. Line(srv.rcvd, toPeer, outbuf \o items, <<>>, 1, wrote + k)
      BY <2>6, LineSeal
    <3> QED BY <1>1, <2>1, <3>2, <3>3 DEF Writes, InWriting
  <2>8. CASE Len(outbuf \o items) # OutCap
    <3>1. outbuf' = outbuf \o items /\ outrec' = outrec /\ outrec.body = <<>>
      BY <2>2, <2>5, <2>8 DEF sendapp_ack, NoRecord, Record
    <3> QED BY <1>1, <2>1, <2>6, <3>1 DEF Writes, InWriting
  <2> QED BY <2>7, <2>8
<1> QED BY <1>3, <1>4, <1>5 DEF FinishIo, FinishWrite

(* The calls of the application; connect starts again.                     *)
LEMMA CallWrites ==
  ASSUME Writes, CallReturns \/ CallStarts
  PROVE  Writes'
<1>1. CASE Connect
  <2>1. /\ toPeer' = <<>> /\ outbuf' = <<>> /\ outrec'.body = <<>> /\ wrote' = 0
        /\ srv'.rcvd = <<>>
    BY <1>1 DEF Connect, client_reset, NoRecord, Record, FreshServer
  <2> QED BY <2>1, LineNothing DEF Writes, InWriting
<1>2. CASE engine_flush /\ UNCHANGED <<srv, toPeer, wrote>>
  BY <1>2, FlushWrites
<1>3. CASE UNCHANGED <<outbuf, outrec, srv, toPeer, wrote>>
  BY <1>3 DEF Writes
<1>4. CASE WriteFlush \/ Flush \/ (SslIoCall /\ BeginFlush)
  BY <1>2, <1>4 DEF WriteFlush, Flush, SslIoCall, BeginFlush, linkVars, history
<1>5. CASE \/ ConnectReturns \/ WriteLoop \/ Return \/ Stopped \/ Write \/ Read \/ Available
           \/ Stop \/ (SslIoCall /\ ~BeginFlush)
  BY <1>3, <1>5 DEF ConnectReturns, WriteLoop, Return, Stopped, Write, Read, Available, Stop,
       SslIoCall, BeginRead, BeginWrite, BeginAvailable, BeginClose, engine_close,
       engine_renegotiate, engineVars, linkVars, history
<1> QED BY <1>1, <1>4, <1>5 DEF CallReturns, CallStarts

(* The server takes records from the front of the line, and keeps the data.*)
LEMMA ServerWrites ==
  ASSUME Honest, ServerTyped, Protected, Writes, PeerStep
  PROVE  Writes'
<1>1. UNCHANGED <<outbuf, outrec, wrote>>
  BY DEF PeerStep, engineVars, history
<1>2. toPeer \in Seq(SoundRecord) /\ (toPeer # <<>> => Head(toPeer) \in SoundRecord)
  <2>1. toPeer \in Seq(SoundRecord)
    BY DEF Protected
  <2> HIDE DEF SoundRecord
  <2> QED BY <2>1
<1>3. CASE ClientData
  <2>1. /\ toPeer # <<>> /\ toPeer' = Tail(toPeer)
        /\ srv' = [srv EXCEPT !.rcvd = @ \o Head(toPeer).body]
    BY <1>3 DEF ClientData, Takes
  <2>2. srv'.rcvd = srv.rcvd \o Head(toPeer).body
    BY <2>1 DEF ServerTyped, Servers
  <2>3. Head(toPeer).body \in Seq(ClientItem) /\ srv.rcvd \in Seq(ClientItem)
    BY <1>2, <2>1 DEF SoundRecord, ClientRecord, Writes
  <2> HIDE DEF SoundRecord, ClientItem
  <2>4. Line(srv.rcvd \o Head(toPeer).body, Tail(toPeer), outrec.body, outbuf, 1, wrote)
    BY <1>2, <2>1, <2>3, LineTake DEF Writes, InWriting
  <2>5. srv.rcvd \o Head(toPeer).body \in Seq(ClientItem)
    BY <2>3
  <2> QED BY <1>1, <2>1, <2>2, <2>4, <2>5 DEF Writes, InWriting
<1>4. ASSUME srv'.rcvd = srv.rcvd, NEW type, NEW name, Takes(type, name),
             type # "application_data"
      PROVE  Writes'
  <2>1. toPeer # <<>> /\ toPeer' = Tail(toPeer) /\ Head(toPeer).type = type
    BY <1>4 DEF Takes, Carries
  <2>2. Quiet(Head(toPeer).body)
    BY <1>2, <1>4, <2>1 DEF SoundRecord, Sound, Quiet
  <2> HIDE DEF SoundRecord
  <2>3. Line(srv.rcvd, Tail(toPeer), outrec.body, outbuf, 1, wrote)
    BY <1>2, <2>1, <2>2, LineSkip DEF Writes, InWriting
  <2> QED BY <1>1, <1>4, <2>1, <2>3 DEF Writes, InWriting
<1>5. CASE srv'.rcvd = srv.rcvd /\ UNCHANGED toPeer
  BY <1>1, <1>5 DEF Writes
<1>6. CASE ServerSpeaks
  BY <1>5, <1>6 DEF ServerSpeaks, SendData, SendHelloRequest, SendWarning, SendCloseNotify,
       PeerHangsUp, LinkLost, SendAnything, ServerTyped, Servers
<1>7. CASE FullHandshake \/ AbbreviatedHandshake \/ ServerIgnores
  <2>1. srv'.rcvd = srv.rcvd /\ Takes("handshake", "ClientHello")
    BY <1>7 DEF FullHandshake, AbbreviatedHandshake, ServerIgnores, ServerTyped, Servers
  <2> QED BY <1>4, <2>1
<1>8. CASE ClientFlight
  BY <1>4, <1>8 DEF ClientFlight
<1>9. CASE ClientCCS
  <2>1. srv'.rcvd = srv.rcvd /\ Takes("change_cipher_spec", "ccs")
    BY <1>9 DEF ClientCCS, ServerTyped, Servers
  <2> QED BY <1>4, <2>1
<1>10. CASE ClientFinished
  <2>1. srv'.rcvd = srv.rcvd /\ Takes("handshake", "Finished")
    BY <1>10 DEF ClientFinished, ServerTyped, Servers
  <2> QED BY <1>4, <2>1
<1>11. CASE ClientDeclines
  BY <1>4, <1>11 DEF ClientDeclines
<1>12. CASE ClientCloses
  <2>1. srv'.rcvd = srv.rcvd /\ Takes("alert", "close_notify")
    BY <1>12 DEF ClientCloses, ServerTyped, Servers
  <2> QED BY <1>4, <2>1
<1>13. ~ReceiveAnything
  BY DEF ReceiveAnything
<1> QED BY <1>3, <1>6, <1>7, <1>8, <1>9, <1>10, <1>11, <1>12, <1>13 DEF PeerStep, ServerAnswers

(* Every step keeps what was written in line.                              *)
LEMMA NextWrites ==
  ASSUME Honest, EngineInv, ChannelInv, ServerTyped, Held, Protected, Writes, [Next]_vars
  PROVE  Writes'
<1>1. CASE EngineStep
  <2>1. HandshakeStep /\ UNCHANGED <<toPeer, srv, wrote>>
    BY <1>1 DEF EngineStep, linkVars, history
  <2>2. NoData
    BY <2>1, ProcessorRuns DEF Held, Holding, Idle
  <2>3. CASE SameOutput
    BY <2>1, <2>3 DEF SameOutput, Writes
  <2>4. CASE Quiet(outrec.body) /\ Quiet(outbuf) /\ Quiet(outrec'.body) /\ Quiet(outbuf')
    BY <2>1, <2>4, LineQuiet DEF Writes, InWriting
  <2> QED BY <2>1, <2>2, <2>3, <2>4, ProcessorIsQuiet DEF ChannelInv, OutputInv
<1>2. CASE IoStep
  BY <1>2, RunWrites, FinishWrites DEF IoStep
<1>3. CASE CallReturns \/ CallStarts
  BY <1>3, CallWrites
<1>4. CASE PeerStep
  BY <1>4, ServerWrites
<1>5. CASE UNCHANGED vars
  BY <1>5 DEF vars, engineVars, linkVars, history, Writes
<1> QED BY <1>1, <1>2, <1>3, <1>4, <1>5 DEF Next

(* WrittenInOrder for an honest server and an application that calls       *)
(* BearSSLClient: no renegotiation, closure or full pipe loses a piece of  *)
(* data that write accepted, sends it twice or out of its turn.            *)
THEOREM DataAlwaysWrittenInOrder ==
  Honest /\ ThroughBearSSLClient => (Spec => []WrittenInOrder)
<1> SUFFICES ASSUME Honest, ThroughBearSSLClient
             PROVE  Spec => []WrittenInOrder
  OBVIOUS
<1>1. Init => Writes
  <2> SUFFICES ASSUME Init
               PROVE  Writes
    OBVIOUS
  <2>1. /\ toPeer = <<>> /\ outbuf = <<>> /\ outrec.body = <<>> /\ wrote = 0 /\ srv.rcvd = <<>>
    BY DEF Init, IoInit, EngineInit, NoRecord, Record, FreshServer
  <2> QED BY <2>1, LineNothing DEF Writes, InWriting
<1>2. EngineInv /\ ChannelInv /\ ClosureInv /\ Held /\ Protected /\ Writes /\ [Next]_vars => Writes'
  BY NextWrites DEF ClosureInv
<1>3. EngineInv /\ Protected /\ Writes => WrittenInOrder
  <2> SUFFICES ASSUME EngineInv, Protected, Writes
               PROVE  WrittenInOrder
    OBVIOUS
  <2>1. /\ toPeer \in Seq(SoundRecord) /\ outrec.body \in Seq(ClientItem)
        /\ outbuf \in Seq(ClientItem) /\ srv.rcvd \in Seq(ClientItem)
    BY ItemsAreClientItems DEF Protected, SoundRecord, ClientRecord, EngineInv, Items, Writes
  <2>2. \A rec \in SoundRecord : rec.body \in Seq(ClientItem)
    BY DEF SoundRecord, ClientRecord
  <2> HIDE DEF SoundRecord, ClientItem
  <2>3. \A i \in DOMAIN toPeer : toPeer[i].body \in Seq(ClientItem)
    BY <2>1, <2>2
  <2> QED BY <2>1, <2>3, LineInOrder DEF Writes, InWriting, WrittenInOrder
<1> QED BY <1>1, <1>2, <1>3, EngineSafe, ChannelSafe, ClosureSafe, DataAlwaysHeld, PTL DEF Spec

-----------------------------------------------------------------------------
(* Data that is read.                                                      *)

(* The first of what is unread is handed out.                              *)
LEMMA LineRead ==
  ASSUME NEW I, NEW u \in Seq(I), u # <<>>, IsData(Head(u)), NEW q, NEW first, NEW last,
         Line(u, q, <<>>, <<>>, first, last)
  PROVE  Head(u).n = first /\ Line(Tail(u), q, <<>>, <<>>, first + 1, last)
<1> DEFINE t == Tail(u)
           m == Head(u).n
<1>1. /\ 1 \in DOMAIN u /\ u[1] = Head(u)
      /\ \A i \in DOMAIN t : i + 1 \in DOMAIN u /\ t[i] = u[i + 1] /\ 1 < i + 1
      /\ \A i \in DOMAIN u : i = 1 \/ (i - 1 \in DOMAIN t /\ t[i - 1] = u[i])
      /\ \A i, j \in DOMAIN t : i < j => i + 1 < j + 1
  OBVIOUS
<1> HIDE DEF t
<1>2. m \in Pieces(u)
  BY <1>1 DEF Pieces
<1>3. m \in first .. last
  BY <1>2 DEF Line
<1>4. /\ first \in Nat /\ last \in Nat
      /\ \A n \in first .. last : n \in Pieces(u) \/ \E i \in DOMAIN q : n \in Pieces(q[i].body)
      /\ \A n \in Pieces(u) : n \in first .. last
      /\ \A i \in DOMAIN q : \A n \in Pieces(q[i].body) : n \in first .. last
  BY NoPieces, QuietNothing DEF Line
<1>5. \A n \in Pieces(t) : n \in Pieces(u) /\ m < n
  BY <1>1 DEF Pieces, Line, Increasing
<1>6. \A n \in Pieces(u) : n = m \/ n \in Pieces(t)
  BY <1>1 DEF Pieces
<1>7. \A i \in DOMAIN q : \A n \in Pieces(q[i].body) : m < n
  BY <1>2 DEF Line, Ahead
<1> HIDE DEF m
<1>8. m = first
  <2>1. first \in first .. last /\ ~(m < first)
    BY <1>3, <1>4
  <2>2. first \in Pieces(u)
    BY <1>4, <1>7, <2>1
  <2> QED BY <1>5, <1>6, <2>1, <2>2
<1>9. Increasing(t)
  BY <1>1 DEF Line, Increasing
<1>10. \A others : Ahead(u, others) => Ahead(t, others)
  BY <1>5 DEF Ahead
<1>11. \A n : n \in first + 1 .. last <=>
         \/ n \in Pieces(t) \/ n \in Pieces(<<>>)
         \/ \E i \in DOMAIN q : n \in Pieces(q[i].body)
  <2>1. \A n \in first + 1 .. last : n \in first .. last /\ n # m
    BY <1>3, <1>4, <1>8
  <2>2. ASSUME NEW n, m < n, n \in first .. last
        PROVE  n \in first + 1 .. last
    BY <1>4, <1>8, <2>2
  <2> QED BY <1>4, <1>5, <1>6, <1>7, <2>1, <2>2, NoPieces, QuietNothing
<1>12. first + 1 \in Nat /\ first + 1 <= last + 1
  BY <1>3, <1>4, <1>8
<1>13. Line(t, q, <<>>, <<>>, first + 1, last)
  BY <1>9, <1>10, <1>11, <1>12 DEF Line
<1> QED BY <1>8, <1>13 DEF t, m

(* Records without data are sent behind the others.                        *)
LEMMA LineSpeaks ==
  ASSUME NEW R, NEW u, NEW q \in Seq(R), NEW more \in Seq(R),
         \A i \in DOMAIN more : Quiet(more[i].body),
         NEW first, NEW last, Line(u, q, <<>>, <<>>, first, last)
  PROVE  Line(u, q \o more, <<>>, <<>>, first, last)
<1> DEFINE Q == q \o more
<1>1. /\ \A i \in DOMAIN Q : \/ i \in DOMAIN q /\ Q[i] = q[i]
                             \/ i - Len(q) \in DOMAIN more /\ Q[i] = more[i - Len(q)]
      /\ \A i \in DOMAIN q : i \in DOMAIN Q /\ Q[i] = q[i]
  OBVIOUS
<1> HIDE DEF Q
<1>2. \A i \in DOMAIN Q : \/ i \in DOMAIN q /\ Q[i] = q[i]
                          \/ Pieces(Q[i].body) = {} /\ Increasing(Q[i].body)
  BY <1>1, NoPieces
<1>3. \A n : (\E i \in DOMAIN Q : n \in Pieces(Q[i].body))
             <=> \E i \in DOMAIN q : n \in Pieces(q[i].body)
  BY <1>1, <1>2
<1>4. \A i \in DOMAIN Q : Increasing(Q[i].body) /\ Ahead(u, Q[i].body) /\ Ahead(Q[i].body, <<>>)
  BY <1>2, AheadNone DEF Line
<1>5. \A i, j \in DOMAIN Q : i < j => Ahead(Q[i].body, Q[j].body)
  BY <1>2, AheadNone DEF Line
<1>6. Line(u, Q, <<>>, <<>>, first, last)
  BY <1>3, <1>4, <1>5 DEF Line
<1> QED BY <1>6 DEF Q

(* One more piece of data in a record of its own.                          *)
LEMMA LineTells ==
  ASSUME NEW R, NEW u, NEW q \in Seq(R), NEW rec \in R, NEW first, NEW last,
         rec.body = <<Data(last + 1)>>, Line(u, q, <<>>, <<>>, first, last)
  PROVE  Line(u, q \o <<rec>>, <<>>, <<>>, first, last + 1)
<1> DEFINE I == {Data(last + 1)}
           more == <<Data(last + 1)>>
<1>1. /\ <<>> \in Seq(I) /\ more \in Seq(I) /\ Len(more) = 1
      /\ \A i \in 1 .. 1 : more[i] = Data(last + i)
      /\ <<>> \o more = more
  <2>1. \A i \in 1 .. 1 : i = 1
    OBVIOUS
  <2> HIDE DEF IsData
  <2> QED BY <2>1
<1> HIDE DEF I
<1>2. Line(u, q, <<>>, more, first, last + 1)
  <2> HIDE DEF more
  <2>1. Line(u, q, <<>>, <<>> \o more, first, last + 1)
    BY <1>1, LineMore
  <2> QED BY <1>1, <2>1
<1>3. Line(u, q, rec.body, <<>>, first, last + 1)
  BY <1>2, LineSeal
<1>4. q \o <<rec>> = Append(q, rec)
  OBVIOUS
<1> QED BY <1>3, <1>4, LineSend

(* The session is in use.                                                  *)
InUse == link = "up" /\ ~eng.closed /\ hs.pc \notin Closing

(* An honest server sends data in records of data, and messages in others. *)
Word == {item \in SpeechItem : ~IsData(item)}
HeardRecord ==
  {rec \in [type : Types \cup {"none"}, body : Seq(SpeechItem), epoch : Nat] :
     \A i \in DOMAIN rec.body : IsData(rec.body[i]) <=> rec.type = "application_data"}
QuietHeard == {rec \in HeardRecord : Quiet(rec.body)}

Heard == inrec \in HeardRecord /\ toClient \in Seq(HeardRecord)

(* br_sslio_close has told the processor to close.                         *)
Leaves ==
  eng.closed \/ hs.pc \in Closing \cup {"close"} \/ (hs.co = "resumed" /\ hs.action = 1)

(* What the server sent and was not handed out, from the next piece to the *)
(* last: what is unread, and what is on its way.                           *)
InReading(unread, records, read, sent) == Line(unread, records, <<>>, <<>>, read + 1, sent)

(* The invariant of what is read, next to EngineInv and ChannelInv.        *)
Reads ==
  /\ Heard /\ got \in Nat
  /\ io = "close" => Leaves
  /\ InUse => InReading(Unread, toClient, got, srv.sent)

(* The processor takes its input only from records that hold no data.      *)
LEMMA StepReads ==
  ASSUME EngineInv, HandshakeStep
  PROVE  inrec' = inrec \/ HasInput
<1>1. CASE wait_co \/ wait_for_close
  BY <1>1 DEF wait_co, wait_for_close, CloseRequested, Resumed, AlertReceived, CloseAlertReceived,
       Fail
<1>2. CASE Main \/ ReadWaits \/ ReadUnexpected \/ EnterMain \/ AwaitCloseNotify \/ ReadCCS
  BY <1>2 DEF Main, ReadWaits, ReadUnexpected, EnterMain, AwaitCloseNotify, ReadCCS, Fail, Suspend
<1>3. CASE SkipHelloRequest \/ ReadServerHello \/ ReadCertificate \/ ReadServerKeyExchange
             \/ ReadCertificateRequest \/ ReadServerHelloDone \/ ReadFinished \/ ReadHelloRequest
  BY <1>3 DEF SkipHelloRequest, ReadServerHello, ReadCertificate, ReadServerKeyExchange,
       ReadCertificateRequest, ReadServerHelloDone, ReadFinished, ReadHelloRequest, Incoming
<1>4. CASE \/ WriteClientHello \/ WriteCCS \/ WriteFinished \/ WriteNoRenegotiation
           \/ WriteCloseNotify \/ WriteFlight
  BY <1>4 DEF WriteClientHello, WriteCCS, WriteFinished, WriteNoRenegotiation, WriteCloseNotify,
       WriteFlight, Suspend
<1>5. CASE StartHandshake \/ FlushFlight \/ HandshakeDone \/ Decline \/ StartClose
  BY <1>5 DEF StartHandshake, FlushFlight, HandshakeDone, Decline, StartClose
<1> QED BY <1>1, <1>2, <1>3, <1>4, <1>5 DEF HandshakeStep

(* So it leaves the data that is unread alone.                             *)
LEMMA TakesLeaveData ==
  ASSUME EngineInv, HandshakeStep, inrec \in HeardRecord
  PROVE  inrec' \in HeardRecord /\ Unread' = Unread
<1>1. inrec.body \in Seq(SpeechItem)
  BY DEF HeardRecord
<1>2. \/ inrec' = inrec
      \/ HasInput /\ \E body \in {<<>>, Tail(inrec.body)} : inrec' = [inrec EXCEPT !.body = body]
  BY StepReads, StepTakes DEF DropInput, TakeInput
<1>3. CASE inrec' = inrec
  BY <1>3 DEF Unread
<1>4. ASSUME HasInput, NEW body \in {<<>>, Tail(inrec.body)}, inrec' = [inrec EXCEPT !.body = body]
      PROVE  inrec' \in HeardRecord /\ Unread' = Unread
  <2>1. inrec.body # <<>> /\ inrec.type # "application_data"
    BY <1>4 DEF HasInput
  <2>2. /\ body \in Seq(SpeechItem)
        /\ \A i \in DOMAIN body : i + 1 \in DOMAIN inrec.body /\ body[i] = inrec.body[i + 1]
    <3> HIDE DEF SpeechItem
    <3>1. CASE body = <<>>
      BY <3>1
    <3>2. CASE body = Tail(inrec.body)
      BY <1>1, <2>1, <3>2
    <3> QED BY <3>1, <3>2
  <2>3. /\ inrec' \in [type : Types \cup {"none"}, body : Seq(SpeechItem), epoch : Nat]
        /\ inrec'.body = body /\ inrec'.type = inrec.type
    <3>1. inrec \in [type : Types \cup {"none"}, body : Seq(SpeechItem), epoch : Nat]
      BY DEF HeardRecord
    <3> HIDE DEF SpeechItem, Types
    <3> QED BY <1>4, <2>2, <3>1
  <2>4. \A i \in DOMAIN body : ~IsData(body[i])
    BY <2>1, <2>2 DEF HeardRecord
  <2> QED BY <2>1, <2>3, <2>4 DEF HeardRecord, Unread
<1> QED BY <1>2, <1>3, <1>4

(* A processor that closes does nothing else.                              *)
LEMMA StepLeaves ==
  ASSUME EngineInv, HandshakeStep
  PROVE  /\ hs.pc \in Closing => hs'.pc \in Closing
         /\ Leaves => Leaves'
<1>1. ~eng.closed /\ hs.co # "idle" /\ hs \in Coroutines /\ eng \in EngineFlags
  BY ProcessorRuns DEF EngineInv, Control, EngineTypeOK
<1>2. CASE hs.pc \in Closing
  <2>1. wait_for_close \/ WriteCloseNotify \/ AwaitCloseNotify
    BY <1>2 DEF HandshakeStep, wait_co, Main, StartHandshake, WriteClientHello, ReadWaits,
     SkipHelloRequest, ReadUnexpected, ReadServerHello, ReadCertificate, ReadServerKeyExchange,
     ReadCertificateRequest, ReadServerHelloDone, ReadCCS, ReadFinished, ReadHelloRequest,
     WriteFlight, Flight, FlushFlight, WriteCCS, WriteFinished, HandshakeDone, EnterMain, Decline,
     WriteNoRenegotiation, StartClose, Incoming, Reading, Running, Expected, Closing
  <2>2. hs'.pc \in {hs.pc, "close_wait"}
    BY <1>1, <2>1 DEF wait_for_close, CloseAlertReceived, Fail, GotoAte, Goto, WriteCloseNotify,
       AwaitCloseNotify, Suspend, Running, Coroutines
  <2> QED BY <1>2, <2>2 DEF Leaves, Closing
<1>3. CASE hs.pc = "close"
  <2>1. hs.co = "running"
    BY <1>3 DEF EngineInv, Control
  <2>2. StartClose
    BY <1>3, <2>1 DEF HandshakeStep, wait_co, wait_for_close, Main, StartHandshake,
     WriteClientHello, ReadWaits, SkipHelloRequest, ReadUnexpected, ReadServerHello,
     ReadCertificate, ReadServerKeyExchange,
     ReadCertificateRequest, ReadServerHelloDone, ReadCCS, ReadFinished, ReadHelloRequest,
     WriteFlight, Flight, FlushFlight, WriteCCS, WriteFinished, HandshakeDone, EnterMain, Decline,
     WriteNoRenegotiation, Incoming, Reading, Running, Expected, WriteCloseNotify,
     AwaitCloseNotify
  <2>3. hs'.pc = "close_out"
    BY <1>1, <2>2 DEF StartClose, Coroutines
  <2> QED BY <1>3, <2>3 DEF Leaves, Closing
<1>4. CASE hs.co = "resumed" /\ hs.action = 1 /\ hs.pc \notin Closing
  <2>1. wait_co
    BY <1>4 DEF HandshakeStep, wait_for_close, Main, StartHandshake,
     WriteClientHello, ReadWaits, SkipHelloRequest, ReadUnexpected, ReadServerHello,
     ReadCertificate, ReadServerKeyExchange,
     ReadCertificateRequest, ReadServerHelloDone, ReadCCS, ReadFinished, ReadHelloRequest,
     WriteFlight, FlushFlight, WriteCCS, WriteFinished, HandshakeDone, EnterMain, Decline,
     WriteNoRenegotiation, StartClose, Incoming, Reading, Running, WriteCloseNotify,
     AwaitCloseNotify
  <2>2. CloseRequested
    BY <1>4, <2>1 DEF wait_co, AlertReceived, Resumed
  <2>3. hs'.pc = "close"
    BY <1>1, <2>2 DEF CloseRequested, Coroutines
  <2> QED BY <1>4, <2>3 DEF Leaves
<1> QED BY <1>1, <1>2, <1>3, <1>4 DEF Leaves

(* Nothing is read, and nothing said.                                      *)
LEMMA SameReads ==
  ASSUME Reads, UNCHANGED <<inrec, toClient, got, srv>>, InUse' => InUse,
         io' = "close" => Leaves'
  PROVE  Reads'
BY DEF Reads, Heard, Unread

(* The processor keeps what was said in line.                              *)
LEMMA ProcessorReads ==
  ASSUME EngineInv, Reads, HandshakeStep, UNCHANGED <<linkVars, io, got, srv>>
  PROVE  Reads'
<1>1. inrec' \in HeardRecord /\ Unread' = Unread
  BY TakesLeaveData DEF Reads, Heard
<1>2. ~eng.closed
  BY ProcessorRuns DEF EngineInv, Control
<1>3. InUse' => InUse
  BY <1>2, StepLeaves DEF InUse, linkVars
<1>4. io' = "close" => Leaves'
  BY StepLeaves DEF Reads
<1> QED BY <1>1, <1>3, <1>4 DEF Reads, Heard, linkVars

(* The engine's interface leaves the place of the processor alone, and the *)
(* engine closed.                                                          *)
Interface ==
  \/ UNCHANGED <<eng, hs>>
  \/ UNCHANGED eng /\ \E action : Jump(action)
  \/ \E err : Fail(err)

LEMMA InterfaceStays ==
  ASSUME EngineInv, Interface
  PROVE  hs'.pc = hs.pc /\ (eng.closed => eng'.closed)
<1>1. CASE UNCHANGED eng /\ \E action : Jump(action)
  BY <1>1 DEF Jump, EngineInv, EngineTypeOK, Coroutines
<1>2. CASE \E err : Fail(err)
  BY <1>2 DEF Fail, EngineInv, EngineTypeOK, Coroutines, EngineFlags
<1>3. CASE UNCHANGED <<eng, hs>>
  BY <1>3
<1> QED BY <1>1, <1>2, <1>3 DEF Interface

LEMMA InterfaceReads ==
  ASSUME EngineInv, Idle, Reads, UNCHANGED <<link, io>>, Interface
  PROVE  (InUse' => InUse) /\ (io' = "close" => Leaves')
<1>1. hs'.pc = hs.pc /\ (eng.closed => eng'.closed)
  BY InterfaceStays
<1> QED BY <1>1 DEF Reads, Leaves, InUse, Idle

(* A record arrives in an engine that has nothing to read.                 *)
LEMMA ArrivalReads ==
  ASSUME EngineInv, Reads, LowReadDelivers, UNCHANGED srv
  PROVE  Reads'
<1>1. /\ Idle /\ inrec.body = <<>> /\ toClient # <<>> /\ toClient' = Tail(toClient)
      /\ recvrec_ack(Head(toClient)) /\ UNCHANGED <<link, io, got>>
  BY DEF LowReadDelivers, MayReceive, RECVREC, Arrived, history
<1> DEFINE rec == Head(toClient)
<1>2. toClient \in Seq(HeardRecord) /\ rec \in HeardRecord /\ toClient' \in Seq(HeardRecord)
  <2>1. toClient \in Seq(HeardRecord)
    BY DEF Reads, Heard
  <2> HIDE DEF HeardRecord
  <2> QED BY <1>1, <2>1
<1>3. /\ rec.body \in Seq(SpeechItem)
      /\ \A i \in DOMAIN rec.body : IsData(rec.body[i]) <=> rec.type = "application_data"
  BY <1>2 DEF HeardRecord
<1>4. Unread = <<>>
  BY <1>1 DEF Unread
<1>5. (InUse' => InUse) /\ (io' = "close" => Leaves')
  <2>1. Interface
    BY <1>1 DEF recvrec_ack, RecvBadRecord, RecvHandshake, RecvData, engineVars, Interface
  <2> QED BY <1>1, <2>1, InterfaceReads
<1>6. CASE \E err : Fail(err)
  <2>1. eng'.closed /\ UNCHANGED inrec
    BY <1>6 DEF Fail, EngineInv, EngineTypeOK, EngineFlags
  <2> QED BY <1>1, <1>2, <1>5, <2>1 DEF Reads, Heard, InUse
<1>7. CASE RecvHandshake(rec)
  <2>1. inrec' = rec /\ Unread' = <<>> /\ Quiet(rec.body)
    BY <1>3, <1>7 DEF RecvHandshake, Unread, Quiet
  <2> HIDE DEF HeardRecord, rec
  <2>2. InUse => Line(Unread, Tail(toClient), <<>>, <<>>, got + 1, srv.sent)
    BY <1>1, <1>2, <2>1, LineSkip DEF Reads, InReading, rec
  <2> QED BY <1>1, <1>2, <1>4, <1>5, <2>1, <2>2 DEF Reads, Heard, InReading
<1>8. CASE eng.application_data = 1 /\ inrec' = rec /\ rec.type = "application_data"
  <2>1. Unread' = rec.body
    BY <1>8 DEF Unread
  <2> HIDE DEF HeardRecord, SpeechItem
  <2>2. <<>> \in Seq(SpeechItem) /\ <<>> \o rec.body = rec.body
    BY <1>3
  <2>3. InUse => Line(<<>> \o rec.body, Tail(toClient), <<>>, <<>>, got + 1, srv.sent)
    BY <1>1, <1>2, <1>3, <1>4, <2>2, LineTake DEF Reads, InReading
  <2> QED BY <1>1, <1>2, <1>5, <1>8, <2>1, <2>2, <2>3 DEF Reads, Heard, InReading
<1>9. CASE eng.application_data = 2 /\ UNCHANGED engineVars
  <2>1. ~InUse'
    BY <1>9 DEF engineVars, EngineInv, DataOff, InUse
  <2> QED BY <1>1, <1>2, <1>5, <1>9, <2>1 DEF Reads, Heard, engineVars
<1> QED BY <1>1, <1>6, <1>7, <1>8, <1>9 DEF recvrec_ack, RecvBadRecord, RecvData

(* The loop of br_sslio_run_until.                                         *)
LEMMA RunReads ==
  ASSUME EngineInv, Reads, run_until, UNCHANGED srv
  PROVE  Reads'
<1>1. CASE LowReadDelivers
  BY <1>1, ArrivalReads
<1>2. CASE \/ RunClosed \/ LowWriteAccepts \/ LowWriteFails \/ TargetReached \/ LowReadFails
           \/ RunFlush
  <2>1. Idle /\ UNCHANGED <<inrec, toClient, got, link, io>>
    BY <1>2 DEF RunClosed, LowWriteAccepts, LowWriteFails, TargetReached, LowReadFails, RunFlush,
         InRun, Fail, sendrec_ack, engine_flush, engineVars, linkVars, history, ioVars
  <2>2. Interface
    BY <1>2 DEF RunClosed, LowWriteAccepts, LowWriteFails, TargetReached, LowReadFails, RunFlush,
         sendrec_ack, engine_flush, engineVars, Interface
  <2>3. (InUse' => InUse) /\ (io' = "close" => Leaves')
    BY <2>1, <2>2, InterfaceReads
  <2> QED BY <2>1, <2>3, SameReads
<1> QED BY <1>1, <1>2 DEF run_until

(* br_sslio_read hands out what is next, and br_sslio_close only drops     *)
(* what comes in while the connection closes.                              *)
LEMMA FinishReads ==
  ASSUME EngineInv, ChannelInv, Reads, FinishIo, UNCHANGED srv
  PROVE  Reads'
<1>1. UNCHANGED <<eng, hs, link, toClient>> /\ io' \in {io, "none"} /\ Idle
  BY DEF FinishIo, FinishRead, FinishAvailable, FinishWrite, FinishFlush, CloseLoop, linkVars,
         engineVars, recvapp_ack, Accept, sendapp_ack, Returns
<1>2. (InUse' => InUse) /\ (io' = "close" => Leaves')
  BY <1>1 DEF InUse, Leaves, Reads
<1>3. CASE UNCHANGED <<inrec, got>>
  BY <1>1, <1>2, <1>3, SameReads
<1>4. CASE FinishRead
  <2>1. CASE run = "error"
    BY <1>3, <1>4, <2>1 DEF FinishRead, engineVars, history
  <2>2. CASE run = "done" /\ got' = Head(Unread).n /\ TakeInput
    <3>1. inrec.type = "application_data" /\ inrec.body # <<>> /\ Unread = inrec.body
      BY <1>4, <2>2 DEF FinishRead, ChannelInv, InCall, RECVAPP, Unread
    <3>2. /\ inrec.body \in Seq(SpeechItem) /\ \A i \in DOMAIN inrec.body : IsData(inrec.body[i])
          /\ inrec \in [type : Types \cup {"none"}, body : Seq(SpeechItem), epoch : Nat]
      BY <3>1 DEF Reads, Heard, HeardRecord
    <3> DEFINE rest == Tail(inrec.body)
    <3>3. /\ rest \in Seq(SpeechItem) /\ Head(inrec.body) \in SpeechItem /\ IsData(Head(inrec.body))
          /\ \A i \in DOMAIN rest : IsData(rest[i])
      <4> HIDE DEF SpeechItem, IsData
      <4>1. /\ rest \in Seq(SpeechItem) /\ Head(inrec.body) = inrec.body[1]
            /\ 1 \in DOMAIN inrec.body /\ inrec.body[1] \in SpeechItem
            /\ \A i \in DOMAIN rest : i + 1 \in DOMAIN inrec.body /\ rest[i] = inrec.body[i + 1]
        BY <3>1, <3>2
      <4> HIDE DEF rest
      <4> QED BY <3>2, <4>1
    <3>4. inrec' = [inrec EXCEPT !.body = rest]
      BY <2>2 DEF TakeInput
    <3> HIDE DEF rest
    <3>5. /\ inrec' \in [type : Types \cup {"none"}, body : Seq(SpeechItem), epoch : Nat]
          /\ inrec'.type = "application_data" /\ inrec'.body = rest
      <4> HIDE DEF SpeechItem, Types
      <4> QED BY <3>1, <3>2, <3>3, <3>4
    <3>6. inrec' \in HeardRecord /\ Unread' = rest
      BY <3>3, <3>5 DEF HeardRecord, Unread
    <3>7. got' = Head(inrec.body).n /\ got' \in Nat
      BY <2>2, <3>1, <3>3 DEF SpeechItem
    <3>8. InUse => got' = got + 1 /\ Line(rest, toClient, <<>>, <<>>, got + 1 + 1, srv.sent)
      <4> HIDE DEF SpeechItem, IsData
      <4> QED BY <3>1, <3>2, <3>3, <3>7, LineRead DEF Reads, InReading, rest
    <3> QED BY <1>1, <1>2, <3>6, <3>7, <3>8 DEF Reads, Heard, InReading
  <2> QED BY <1>4, <2>1, <2>2 DEF FinishRead
<1>5. CASE FinishAvailable \/ FinishFlush
  BY <1>3, <1>5 DEF FinishAvailable, FinishFlush, engineVars, history
<1>6. CASE FinishWrite(todo)
  BY <1>3, <1>6 DEF FinishWrite, Accept, sendapp_ack, engineVars, history
<1>7. CASE CloseLoop
  <2>1. ~RECVAPP
    <3>1. eng.closed \/ hs.pc \in Closing
      BY <1>7 DEF CloseLoop, Reads, Leaves, EngineInv, Control, Idle
    <3> QED BY <3>1 DEF RECVAPP, ChannelInv, OutputType
  <2> QED BY <1>3, <1>7, <2>1 DEF CloseLoop, engineVars, history
<1> QED BY <1>4, <1>5, <1>6, <1>7 DEF FinishIo

(* The calls of the application: connect starts again, br_sslio_close      *)
(* tells the processor.                                                    *)
LEMMA CallReads ==
  ASSUME EngineInv, Reads, CallReturns \/ CallStarts
  PROVE  Reads'
<1>1. CASE Connect
  <2>1. /\ toClient' = <<>> /\ inrec' = NoRecord /\ got' = 0 /\ io' = "flush" /\ srv'.sent = 0
    BY <1>1 DEF Connect, client_reset, FreshServer
  <2>2. NoRecord \in HeardRecord /\ NoRecord.body = <<>>
    BY DEF HeardRecord, NoRecord, Record
  <2>3. <<>> \in Seq(HeardRecord)
    OBVIOUS
  <2>4. Unread' = <<>>
    BY <2>1, <2>2 DEF Unread
  <2> QED BY <2>1, <2>2, <2>3, <2>4, LineNothing DEF Reads, Heard, InReading
<1>2. CASE /\ UNCHANGED <<inrec, toClient, got, srv, link>>
           /\ \/ UNCHANGED <<eng, hs>> /\ io' # "close"
              \/ engine_renegotiate /\ io' # "close"
              \/ engine_close
  <2>1. hs'.pc = hs.pc /\ (eng.closed => eng'.closed)
    BY <1>2, InterfaceStays DEF engine_renegotiate, engine_close, Interface
  <2>2. InUse' => InUse
    BY <1>2, <2>1 DEF InUse
  <2>3. engine_close => Leaves'
    BY DEF engine_close, Leaves, Jump, EngineInv, EngineTypeOK, Coroutines
  <2> QED BY <1>2, <2>2, <2>3, SameReads
<1>3. CASE UNCHANGED <<inrec, toClient, got, srv, link, eng, hs, io>>
  <2>1. (InUse' => InUse) /\ (io' = "close" => Leaves')
    BY <1>3 DEF InUse, Leaves, Reads
  <2> QED BY <1>3, <2>1, SameReads
<1>4. CASE Stopped
  <2>1. UNCHANGED <<inrec, got, srv, io, eng, hs>> /\ toClient' = <<>> /\ link' = "down"
    BY <1>4 DEF Stopped, engineVars, ioVars, history
  <2>2. <<>> \in Seq(HeardRecord)
    OBVIOUS
  <2> QED BY <2>1, <2>2 DEF Reads, Heard, InUse, Leaves
<1>5. CASE \/ ConnectReturns \/ Return
           \/ WriteLoop \/ WriteFlush \/ Write \/ Read \/ Available \/ Flush \/ Stop \/ SslIoCall
  <2>1. UNCHANGED <<inrec, toClient, got, srv, link>>
    BY <1>5 DEF ConnectReturns, Return, WriteLoop, WriteFlush, Write, Read, Available, Flush, Stop,
         SslIoCall, BeginRead, BeginWrite, BeginFlush, BeginAvailable, BeginClose, engine_flush,
         engine_close, engine_renegotiate, engineVars, linkVars, history
  <2>2. CASE BeginClose
    BY <1>2, <2>1, <2>2 DEF BeginClose
  <2>3. CASE BeginRead \/ BeginWrite \/ BeginFlush \/ BeginAvailable
    BY <1>2, <2>1, <2>3 DEF BeginRead, BeginWrite, BeginFlush, BeginAvailable, Enter, engine_flush,
         engineVars
  <2>4. CASE UNCHANGED engineVars /\ UNCHANGED ioVars
    BY <1>3, <2>1, <2>4 DEF engineVars, ioVars
  <2>5. CASE engine_renegotiate /\ UNCHANGED ioVars /\ io = "none"
    BY <1>2, <2>1, <2>5 DEF ioVars
  <2> QED BY <1>5, <2>2, <2>3, <2>4, <2>5 DEF ConnectReturns, Return, WriteLoop, WriteFlush, Write,
          Read, Available, Flush, Stop, SslIoCall, Free
<1> QED BY <1>1, <1>4, <1>5 DEF CallReturns, CallStarts

(* The words of the server, and the records of words.                      *)
LEMMA Words ==
  /\ \A name \in {"HelloRequest", "Certificate", "ServerKeyExchange", "CertificateRequest",
                  "ServerHelloDone", "ccs", "Finished", "warning", "close_notify"} :
       Msg(name) \in Word
  /\ \A name \in Hellos : \A ri \in BOOLEAN : Hello(name, ri) \in Word
BY DEF Word, SpeechItem, IsData, Msg, Hello, Hellos

LEMMA WordsHeard ==
  ASSUME NEW type \in Types \ {"application_data"}, NEW body \in Seq(Word), NEW epoch \in Nat
  PROVE  Record(type, body, epoch) \in QuietHeard
<1>1. body \in Seq(SpeechItem) /\ \A i \in DOMAIN body : ~IsData(body[i])
  <2>1. \A item \in Word : item \in SpeechItem /\ ~IsData(item)
    BY DEF Word
  <2> HIDE DEF Word, SpeechItem, IsData
  <2> QED BY <2>1
<1> HIDE DEF SpeechItem
<1> QED BY <1>1 DEF Record, QuietHeard, HeardRecord, Quiet

LEMMA OneHeard ==
  ASSUME NEW type \in Types \ {"application_data"}, NEW item \in Word, NEW epoch \in Nat
  PROVE  Record(type, <<item>>, epoch) \in QuietHeard
<1>1. <<item>> \in Seq(Word)
  OBVIOUS
<1> QED BY <1>1, WordsHeard

(* The flight of the server is words.                                      *)
LEMMA FlightWords ==
  ASSUME srv.ri \in BOOLEAN
  PROVE  ServerFlight \in Seq(Word)
<1> DEFINE a == <<Hello("ServerHello", srv.ri), Msg("Certificate")>>
           b == IF Ephemeral THEN <<Msg("ServerKeyExchange")>> ELSE <<>>
           c == IF RequestsCert THEN <<Msg("CertificateRequest")>> ELSE <<>>
           d == <<Msg("ServerHelloDone")>>
<1>0. "ServerHello" \in Hellos
  BY DEF Hellos
<1> USE Words
<1> HIDE DEF Word
<1>1. a \in Seq(Word)
  BY <1>0
<1>2. b \in Seq(Word)
  OBVIOUS
<1>3. c \in Seq(Word)
  OBVIOUS
<1>4. d \in Seq(Word)
  OBVIOUS
<1>5. ServerFlight = a \o b \o c \o d
  BY DEF ServerFlight
<1> HIDE DEF a, b, c, d
<1> QED BY <1>1, <1>2, <1>3, <1>4, <1>5

(* What the server says, quietly and not.                                  *)
LEMMA QuietlySaid ==
  ASSUME Reads, UNCHANGED <<link, eng, hs, inrec, io, got>>, srv'.sent = srv.sent,
         NEW records \in Seq(QuietHeard), Send(records)
  PROVE  Reads'
<1>1. /\ toClient \in Seq(HeardRecord) /\ records \in Seq(HeardRecord)
      /\ \A i \in DOMAIN records : Quiet(records[i].body)
  <2>1. \A rec \in QuietHeard : rec \in HeardRecord /\ Quiet(rec.body)
    BY DEF QuietHeard
  <2>2. toClient \in Seq(HeardRecord)
    BY DEF Reads, Heard
  <2> HIDE DEF QuietHeard, HeardRecord, Quiet
  <2> QED BY <2>1, <2>2
<1> HIDE DEF HeardRecord
<1>2. toClient' = toClient \o records /\ toClient' \in Seq(HeardRecord)
  BY <1>1 DEF Send
<1>3. InUse => Line(Unread, toClient \o records, <<>>, <<>>, got + 1, srv.sent)
  BY <1>1, LineSpeaks DEF Reads, InReading
<1> QED BY <1>2, <1>3 DEF Reads, Heard, InReading, InUse, Leaves, Unread

LEMMA OneSaid ==
  ASSUME Reads, UNCHANGED <<link, eng, hs, inrec, io, got>>, srv'.sent = srv.sent,
         NEW rec \in QuietHeard, Send(<<rec>>)
  PROVE  Reads'
<1>1. <<rec>> \in Seq(QuietHeard)
  OBVIOUS
<1> QED BY <1>1, QuietlySaid

(* One more piece of data is sent.                                         *)
LEMMA DataSaid ==
  ASSUME Reads, UNCHANGED <<link, eng, hs, inrec, io, got>>, srv.sent \in Nat,
         srv'.sent = srv.sent + 1, srv.out_epoch \in Nat,
         Send(<<Reply("application_data", <<Data(srv.sent + 1)>>)>>)
  PROVE  Reads'
<1> DEFINE rec == Reply("application_data", <<Data(srv.sent + 1)>>)
<1>1. Data(srv.sent + 1) \in SpeechItem /\ IsData(Data(srv.sent + 1))
  BY DEF Data, SpeechItem, IsData
<1>2. <<Data(srv.sent + 1)>> \in Seq(SpeechItem)
  <2> HIDE DEF SpeechItem
  <2> QED BY <1>1
<1>3. rec \in HeardRecord /\ rec.body = <<Data(srv.sent + 1)>>
  <2> HIDE DEF SpeechItem, Data, IsData
  <2>1. \A i \in DOMAIN <<Data(srv.sent + 1)>> : IsData(<<Data(srv.sent + 1)>>[i])
    BY <1>1
  <2> QED BY <1>2, <2>1 DEF Reply, Record, HeardRecord, Types
<1> HIDE DEF rec, HeardRecord
<1>4. toClient' = toClient \o <<rec>> /\ toClient \in Seq(HeardRecord)
  BY DEF Send, Reads, Heard, rec
<1>5. toClient' \in Seq(HeardRecord)
  BY <1>3, <1>4
<1>6. InUse => Line(Unread, toClient \o <<rec>>, <<>>, <<>>, got + 1, srv.sent + 1)
  BY <1>3, <1>4, LineTells DEF Reads, InReading
<1> QED BY <1>4, <1>5, <1>6 DEF Reads, Heard, InReading, InUse, Leaves, Unread

(* Nothing is said, or the connection is lost.                             *)
LEMMA NothingSaid ==
  ASSUME Reads, UNCHANGED <<eng, hs, inrec, io, got>>, srv'.sent = srv.sent,
         \/ UNCHANGED <<link, toClient>>
         \/ UNCHANGED toClient /\ link' # "up"
         \/ toClient' = <<>> /\ link' # "up"
  PROVE  Reads'
<1>1. toClient' \in Seq(HeardRecord)
  <2>1. <<>> \in Seq(HeardRecord)
    OBVIOUS
  <2> QED BY <2>1 DEF Reads, Heard
<1> QED BY <1>1 DEF Reads, Heard, InReading, InUse, Leaves, Unread

(* The server keeps in line what it says.                                  *)
LEMMA ServerReads ==
  ASSUME Honest, ServerTyped, Reads, PeerStep
  PROVE  Reads'
<1>1. UNCHANGED <<eng, hs, inrec, io, got>>
  BY DEF PeerStep, engineVars, ioVars, history
<1>2. /\ srv.out_epoch \in Nat /\ srv.out_epoch + 1 \in Nat /\ srv.ri \in BOOLEAN
      /\ srv.sent \in Nat
  BY DEF ServerTyped, Servers
<1>3. {"handshake", "change_cipher_spec", "alert"} \subseteq Types \ {"application_data"}
      /\ Hellos = {"ServerHello", "ServerHelloResumed"}
  BY DEF Types, Hellos
<1>4. ChangeKeys \in Seq(QuietHeard)
  <2>1. /\ Reply("change_cipher_spec", <<Msg("ccs")>>) \in QuietHeard
        /\ Record("handshake", <<Msg("Finished")>>, srv.out_epoch + 1) \in QuietHeard
    BY <1>2, <1>3, Words, OneHeard DEF Reply
  <2> HIDE DEF QuietHeard
  <2> QED BY <2>1 DEF ChangeKeys
<1>5. CASE FullHandshake
  <2>1. srv'.sent = srv.sent /\ UNCHANGED link
    BY <1>5 DEF FullHandshake, Takes, ServerTyped, Servers
  <2> DEFINE flight == ServerFlight
             parts == [i \in DOMAIN flight |-> Reply("handshake", <<flight[i]>>)]
  <2>2. flight \in Seq(Word)
    BY <1>2, FlightWords
  <2> HIDE DEF flight
  <2>3. Reply("handshake", flight) \in QuietHeard
    BY <1>2, <1>3, <2>2, WordsHeard DEF Reply
  <2>4. \A i \in DOMAIN flight : Reply("handshake", <<flight[i]>>) \in QuietHeard
    <3>1. \A i \in DOMAIN flight : flight[i] \in Word
      <4> HIDE DEF Word
      <4> QED BY <2>2
    <3> QED BY <1>2, <1>3, <3>1, OneHeard DEF Reply
  <2>5. parts \in Seq(QuietHeard)
    <3> HIDE DEF QuietHeard, Word
    <3>1. DOMAIN flight = 1 .. Len(flight) /\ Len(flight) \in Nat
      BY <2>2
    <3> QED BY <2>4, <3>1
  <2>6. Send(<<Reply("handshake", flight)>>) \/ Send(parts)
    BY <1>5 DEF FullHandshake, flight
  <2> HIDE DEF parts
  <2> QED BY <1>1, <2>1, <2>3, <2>5, <2>6, OneSaid, QuietlySaid
<1>6. CASE AbbreviatedHandshake
  <2>1. /\ srv'.sent = srv.sent /\ UNCHANGED link
        /\ Send(<<Reply("handshake", <<Hello("ServerHelloResumed", srv.ri)>>)>> \o ChangeKeys)
    BY <1>6 DEF AbbreviatedHandshake, Takes, ServerTyped, Servers
  <2>2. Reply("handshake", <<Hello("ServerHelloResumed", srv.ri)>>) \in QuietHeard
    BY <1>2, <1>3, Words, OneHeard DEF Reply
  <2>3. <<Reply("handshake", <<Hello("ServerHelloResumed", srv.ri)>>)>> \o ChangeKeys
          \in Seq(QuietHeard)
    <3> HIDE DEF QuietHeard
    <3> QED BY <1>4, <2>2
  <2> QED BY <1>1, <2>1, <2>3, QuietlySaid
<1>7. CASE ClientFinished
  <2>1. srv'.sent = srv.sent /\ UNCHANGED link /\ (Send(ChangeKeys) \/ UNCHANGED toClient)
    BY <1>7 DEF ClientFinished, Takes, ServerTyped, Servers
  <2> QED BY <1>1, <1>4, <2>1, QuietlySaid, NothingSaid
<1>8. CASE ClientCloses
  <2>1. /\ srv'.sent = srv.sent /\ UNCHANGED link
        /\ Send(<<Reply("alert", <<Msg("close_notify")>>)>>) \/ UNCHANGED toClient
    BY <1>8 DEF ClientCloses, Takes, ServerTyped, Servers
  <2>2. Reply("alert", <<Msg("close_notify")>>) \in QuietHeard
    BY <1>2, <1>3, Words, OneHeard DEF Reply
  <2> QED BY <1>1, <2>1, <2>2, OneSaid, NothingSaid
<1>9. CASE ClientFlight \/ ClientCCS \/ ClientDeclines \/ ClientData \/ ServerIgnores
  <2>1. srv'.sent = srv.sent /\ UNCHANGED <<link, toClient>>
    BY <1>9 DEF ClientFlight, ClientCCS, ClientDeclines, ClientData, ServerIgnores, Takes,
         ServerTyped, Servers
  <2> QED BY <1>1, <2>1, NothingSaid
<1>10. CASE SendData
  <2>1. srv'.sent = srv.sent + 1 /\ UNCHANGED link
        /\ Send(<<Reply("application_data", <<Data(srv.sent + 1)>>)>>)
    BY <1>10 DEF SendData, ServerTyped, Servers
  <2> QED BY <1>1, <1>2, <2>1, DataSaid
<1>11. CASE SendHelloRequest \/ SendWarning \/ SendCloseNotify
  <2>1. /\ srv'.sent = srv.sent /\ UNCHANGED link
        /\ \/ Send(<<Reply("handshake", <<Msg("HelloRequest")>>)>>)
           \/ Send(<<Reply("alert", <<Msg("warning")>>)>>)
           \/ Send(<<Reply("alert", <<Msg("close_notify")>>)>>)
    BY <1>11 DEF SendHelloRequest, SendWarning, SendCloseNotify, ServerTyped, Servers
  <2>2. /\ Reply("handshake", <<Msg("HelloRequest")>>) \in QuietHeard
        /\ Reply("alert", <<Msg("warning")>>) \in QuietHeard
        /\ Reply("alert", <<Msg("close_notify")>>) \in QuietHeard
    BY <1>2, <1>3, Words, OneHeard DEF Reply
  <2> QED BY <1>1, <2>1, <2>2, OneSaid
<1>12. CASE PeerHangsUp \/ LinkLost
  <2>1. srv'.sent = srv.sent /\ link' # "up" /\ (UNCHANGED toClient \/ toClient' = <<>>)
    BY <1>12 DEF PeerHangsUp, LinkLost
  <2> QED BY <1>1, <2>1, NothingSaid
<1>13. ~ReceiveAnything /\ ~SendAnything
  BY DEF ReceiveAnything, SendAnything
<1> QED BY <1>5, <1>6, <1>7, <1>8, <1>9, <1>10, <1>11, <1>12, <1>13
        DEF PeerStep, ServerAnswers, ServerSpeaks

(* Every step keeps what was said in line.                                 *)
LEMMA NextReads ==
  ASSUME Honest, EngineInv, ChannelInv, ServerTyped, Reads, [Next]_vars
  PROVE  Reads'
<1>1. CASE EngineStep
  BY <1>1, ProcessorReads DEF EngineStep, ioVars, history
<1>2. CASE IoStep
  BY <1>2, RunReads, FinishReads DEF IoStep
<1>3. CASE CallReturns \/ CallStarts
  BY <1>3, CallReads
<1>4. CASE PeerStep
  BY <1>4, ServerReads
<1>5. CASE UNCHANGED vars
  <2>1. UNCHANGED <<inrec, toClient, got, srv, link, eng, hs, io>>
    BY <1>5 DEF vars, engineVars, linkVars, ioVars, history
  <2>2. (InUse' => InUse) /\ (io' = "close" => Leaves')
    BY <2>1 DEF InUse, Leaves, Reads
  <2> QED BY <2>1, <2>2, SameReads
<1> QED BY <1>1, <1>2, <1>3, <1>4, <1>5 DEF Next

(* DeliveredInOrder for an honest server and any calls: as long as the     *)
(* session is in use, what the server sent is handed out piece by piece,   *)
(* through renegotiations, alerts and full buffers.  The loop that         *)
(* br_sslio_close runs discards nothing before the processor closes.       *)
THEOREM DataAlwaysDeliveredInOrder == Honest => (Spec => []DeliveredInOrder)
<1> SUFFICES ASSUME Honest
             PROVE  Spec => []DeliveredInOrder
  OBVIOUS
<1>1. Init => Reads
  <2> SUFFICES ASSUME Init
               PROVE  Reads
    OBVIOUS
  <2>1. inrec = NoRecord /\ toClient = <<>> /\ got = 0 /\ io = "none" /\ link = "down"
    BY DEF Init, IoInit, EngineInit
  <2>2. NoRecord \in HeardRecord
    BY DEF HeardRecord, NoRecord, Record
  <2>3. <<>> \in Seq(HeardRecord)
    OBVIOUS
  <2> QED BY <2>1, <2>2, <2>3 DEF Reads, Heard, InUse
<1>2. EngineInv /\ ChannelInv /\ ClosureInv /\ Reads /\ [Next]_vars => Reads'
  BY NextReads DEF ClosureInv
<1>3. Reads => DeliveredInOrder
  <2> SUFFICES ASSUME Reads, InUse
               PROVE  InOrder(<<Unread>> \o Bodies(toClient), got + 1, srv.sent)
    BY DEF DeliveredInOrder, InUse
  <2>1. toClient \in Seq(HeardRecord) /\ Unread \in Seq(SpeechItem) /\ <<>> \in Seq(SpeechItem)
    BY DEF Reads, Heard, HeardRecord, Unread
  <2>2. \A rec \in HeardRecord : rec.body \in Seq(SpeechItem)
    BY DEF HeardRecord
  <2> HIDE DEF HeardRecord, SpeechItem
  <2>3. \A i \in DOMAIN toClient : toClient[i].body \in Seq(SpeechItem)
    BY <2>1, <2>2
  <2> DEFINE P == Seq(SpeechItem)
             parts == <<Unread>> \o Bodies(toClient)
  <2>4. InOrder(parts \o <<<<>>, <<>>>>, got + 1, srv.sent)
    BY <2>1, <2>3, LineInOrder DEF Reads, InReading
  <2>5. parts \in Seq(P)
    <3>1. Unread \in P /\ \A i \in DOMAIN toClient : toClient[i].body \in P
      BY <2>1, <2>3
    <3>2. DOMAIN toClient = 1 .. Len(toClient) /\ Len(toClient) \in Nat
      BY <2>1
    <3> HIDE DEF P
    <3>3. Bodies(toClient) \in Seq(P)
      BY <3>1, <3>2 DEF Bodies
    <3> QED BY <3>1, <3>3
  <2>6. <<>> \in P
    BY <2>1
  <2> HIDE DEF P, parts
  <2>7. InOrder(parts, got + 1, srv.sent)
    BY <2>4, <2>5, <2>6, InOrderWithout
  <2> QED BY <2>7 DEF parts
<1> QED BY <1>1, <1>2, <1>3, EngineSafe, ChannelSafe, ClosureSafe, PTL DEF Spec

=============================================================================

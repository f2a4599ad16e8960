------------------------- MODULE NegotiationProofs -------------------------
(***************************************************************************)
(* Both ends of a handshake agree on the session, proved for every set of  *)
(* configurations and any number of handshakes, wherever they break off    *)
(* and whatever the cache forgets.                                         *)
(*                                                                         *)
(* The invariant follows the identifier of a session: the server gives     *)
(* each new session the next number, nothing under that number is in the   *)
(* cache before both ends have its secret, and a client that names a       *)
(* cached session holds the secret of that session.                        *)
(***************************************************************************)
EXTENDS Negotiation, FiniteSetTheorems, WellFoundedInduction, TLAPS

IsSession(s) ==
  /\ s = [id |-> s.id, version |-> s.version, suite |-> s.suite, secret |-> s.secret]
  /\ s.id \in Nat

(* The fields of the records: hello and answer are there from their stage. *)
NegoShape ==
  /\ cl = [cfg |-> cl.cfg, session |-> cl.session, name |-> cl.name]
  /\ sv = [cfg |-> sv.cfg, session |-> sv.session, cache |-> sv.cache, next |-> sv.next,
           name |-> sv.name]
  /\ IsSession(cl.session) /\ IsSession(sv.session) /\ \A s \in sv.cache : IsSession(s)
  /\ sv.next \in Nat /\ nego.count \in Nat
  /\ nego.stage \in {"answered", "accepted", "keyed", "finishing", "done"} =>
       nego = [stage |-> nego.stage, count |-> nego.count, hello |-> nego.hello,
               answer |-> nego.answer]

(* Numbers that were given are below the next one, and a cached session    *)
(* has a number and a secret.                                              *)
Numbered ==
  /\ cl.session.id < sv.next
  /\ \A s \in sv.cache : s.id \in 1 .. sv.next - 1 /\ s.secret # 0

(* The client has the secret of the cached session it has the number of.   *)
Known == \A s \in sv.cache : s.id = cl.session.id => s.secret = cl.session.secret

(* Before both have the secret of a new session, its number is not in the  *)
(* cache.                                                                  *)
Unsaved ==
  nego.stage \in {"answered", "accepted", "keyed"} /\ ~nego.answer.resumed =>
    /\ sv.session.id = sv.next - 1 /\ sv.session.id > 0
    /\ \A s \in sv.cache : s.id # sv.session.id

(* What the two have of a handshake at each stage.                         *)
Agreed ==
  /\ nego.stage # "idle" => nego.count > 0
  /\ nego.stage = "hello" => nego.hello.id = cl.session.id
  /\ nego.stage = "answered" =>
       /\ nego.answer.session = sv.session
       /\ IF nego.answer.resumed THEN sv.session \in sv.cache /\ sv.session.id = cl.session.id
          ELSE cl.session.id # sv.session.id
  /\ nego.stage \in {"accepted", "keyed"} =>
       /\ ~nego.answer.resumed
       /\ cl.session.id = sv.session.id /\ cl.session.version = sv.session.version
       /\ cl.session.suite = sv.session.suite
  /\ nego.stage = "keyed" => cl.session.secret = nego.count
  /\ nego.stage \in {"accepted", "keyed", "finishing", "done"} =>
       /\ nego.answer.session.id = cl.session.id /\ cl.session.id # 0
       /\ cl.name = NameSent(sv.cfg, nego.answer)
  /\ nego.stage \in {"finishing", "done"} => cl.session = sv.session /\ cl.session.secret # 0

NegoInv == NegoShape /\ Numbered /\ Known /\ Unsaved /\ Agreed

-----------------------------------------------------------------------------
(* A session that is found under an identifier is one of the cache.        *)
LEMMA Found ==
  ASSUME NEW session, NEW cache, NEW id,
         \E s \in cache : s.id = id
  PROVE  /\ check_resume(session, cache, id) \in cache
         /\ check_resume(session, cache, id).id = id
BY DEF check_resume

LEMMA NotFound ==
  ASSUME NEW session, NEW cache, NEW id \in Nat, IsSession(session),
         ~\E s \in cache : s.id = id
  PROVE  /\ check_resume(session, cache, id) = [session EXCEPT !.id = id]
         /\ IsSession(check_resume(session, cache, id))
         /\ check_resume(session, cache, id) \notin cache
<1>1. check_resume(session, cache, id) = [session EXCEPT !.id = id]
  BY DEF check_resume
<1>2. [session EXCEPT !.id = id].id = id /\ IsSession([session EXCEPT !.id = id])
  BY DEF IsSession
<1> QED BY <1>1, <1>2

(* A session with the number id in the place of s.                         *)
Renews(new, s, id) ==
  \E version, suite : new = [s EXCEPT !.id = id, !.version = version, !.suite = suite]

LEMMA RenewedIsSession ==
  ASSUME NEW s, IsSession(s), NEW id \in Nat, NEW new, Renews(new, s, id)
  PROVE  IsSession(new) /\ new.id = id
<1>0. PICK version, suite : new = [s EXCEPT !.id = id, !.version = version, !.suite = suite]
  BY DEF Renews
<1>1. s = [id |-> s.id, version |-> s.version, suite |-> s.suite, secret |-> s.secret]
  BY DEF IsSession
<1>2. new = [id |-> id, version |-> version, suite |-> suite, secret |-> s.secret]
  BY <1>0, <1>1
<1>3. new.id = id /\ new.version = version /\ new.suite = suite /\ new.secret = s.secret
  BY <1>2
<1> QED BY <1>2, <1>3 DEF IsSession

LEMMA CheckedIsSession ==
  ASSUME NEW session, NEW cache, NEW id \in Nat, IsSession(session), \A s \in cache : IsSession(s)
  PROVE  IsSession(check_resume(session, cache, id))
BY Found, NotFound

(* An answer that is not a refusal resumes the session that was found, or  *)
(* makes a new one of the next number.                                     *)
LEMMA AnswerIs ==
  ASSUME NEW s, NEW session, NEW cache, NEW hello, NEW fresh, NEW answer,
         answer = ServerAnswer(s, session, cache, hello, fresh), answer.ok
  PROVE  \/ /\ answer.resumed /\ answer.session = check_resume(session, cache, hello.id)
            /\ check_resume(session, cache, hello.id) \in cache
         \/ ~answer.resumed /\ Renews(answer.session, check_resume(session, cache, hello.id), fresh)
<1> DEFINE found == check_resume(session, cache, hello.id)
           resumed == Resumes(found, cache, hello)
           version == IF resumed THEN found.version ELSE Lower(s.max, hello.version)
           chosen == choose(s, hello, version)
           name == SelectedProtocol(s.names, hello.names)
           ephemeral == chosen.kx \in {"ECDHE_RSA", "ECDHE_ECDSA"}
           hash == SignatureHash(s, version, CommonHashes(s, hello))
           renewed == [found EXCEPT !.id = fresh, !.version = version, !.suite = chosen]
           many == ~s.prefers /\ Cardinality(CommonSuites(s, hello)) > MaxClientSuites
           fallback == InappropriateFallback(s, hello)
           can == Choices(s, hello, version) # {}
           signs == (IF hash = 0 THEN {MD5, SHA1} ELSE {hash}) \subseteq s.hashes
           newName == IF name = NoCommonName THEN 0 ELSE name
           curve == IF ephemeral THEN ExchangeCurve(hello.curves \cap s.curves) ELSE 0
           newHash == IF ephemeral THEN hash ELSE 0
<1>1. answer =
        IF many THEN Refused("too many suites")
        ELSE IF fallback THEN Refused("fallback")
        ELSE IF hello.version < s.min THEN Refused("version")
        ELSE IF resumed
        THEN [ok |-> TRUE, resumed |-> TRUE, session |-> found, name |-> name, exchange |-> FALSE]
        ELSE IF name = NoCommonName /\ s.names_must_match THEN Refused("protocol")
        ELSE IF ~can THEN Refused("suites")
        ELSE IF ephemeral /\ ~signs THEN Refused("hash")
        ELSE [ok |-> TRUE, resumed |-> FALSE, name |-> newName, session |-> renewed,
              exchange |-> ephemeral, curve |-> curve, hash |-> newHash]
  BY Zenon DEF ServerAnswer
<1>2. Renews(renewed, found, fresh)
  BY Zenon DEF Renews
<1>3. resumed => found \in cache
  BY Zenon DEF Resumes
<1> HIDE DEF found, resumed, version, chosen, name, ephemeral, hash, renewed, many, fallback, can,
             signs, newName, curve, newHash
<1>4. \/ answer.resumed /\ resumed /\ answer.session = found
      \/ ~answer.resumed /\ ~resumed /\ answer.session = renewed
  <2> DEFINE old == [ok |-> TRUE, resumed |-> TRUE, session |-> found, name |-> name,
                     exchange |-> FALSE]
             new == [ok |-> TRUE, resumed |-> FALSE, name |-> newName, session |-> renewed,
                     exchange |-> ephemeral, curve |-> curve, hash |-> newHash]
  <2>1. \A reason : ~Refused(reason).ok
    BY DEF Refused
  <2>2. old.resumed /\ old.session = found
    OBVIOUS
  <2>3. ~new.resumed /\ new.session = renewed
    OBVIOUS
  <2>4. \/ \E reason : answer = Refused(reason)
        \/ resumed /\ answer = old
        \/ ~resumed /\ answer = new
    <3> HIDE DEF Refused
    <3> QED BY Zenon, <1>1
  <2> HIDE DEF old, new, Refused
  <2> QED BY <2>1, <2>2, <2>3, <2>4
<1> QED BY Zenon, <1>2, <1>3, <1>4 DEF found

-----------------------------------------------------------------------------
LEMMA HelloKeeps ==
  ASSUME NegoInv, SendClientHello
  PROVE  NegoInv'
<1>1. /\ nego'.stage = "hello" /\ nego'.count = nego.count + 1
      /\ nego'.hello.id = cl.session.id
  BY DEF SendClientHello, write_ClientHello
<1> QED BY <1>1 DEF SendClientHello, NegoInv, NegoShape, Numbered, Known, Unsaved, Agreed, IsSession

LEMMA AnswerKeeps ==
  ASSUME NegoInv, AnswerClientHello
  PROVE  NegoInv'
<1> DEFINE answer == ServerAnswer(sv.cfg, sv.session, sv.cache, nego.hello, sv.next)
           found == check_resume(sv.session, sv.cache, nego.hello.id)
<1>1. /\ nego.stage = "hello" /\ nego.hello.id = cl.session.id /\ cl.session.id \in Nat
      /\ IsSession(sv.session) /\ \A s \in sv.cache : IsSession(s)
      /\ sv.next \in Nat /\ nego.count \in Nat /\ nego.count > 0
  BY DEF AnswerClientHello, NegoInv, NegoShape, Agreed, IsSession
<1>2. IsSession(found)
  BY <1>1, CheckedIsSession
<1>3. cl' = cl
  BY DEF AnswerClientHello
<1>4. CASE answer.ok /\ sv' = [sv EXCEPT !.session = answer.session, !.name = answer.name,
                          !.next = IF answer.resumed THEN @ ELSE @ + 1]
           /\ nego' = [stage |-> "answered", count |-> nego.count, hello |-> nego.hello, answer |-> answer]
  <2> HIDE DEF answer, found
  <2>1. \/ answer.resumed /\ found \in sv.cache /\ answer.session = found
        \/ ~answer.resumed /\ Renews(answer.session, found, sv.next)
    BY <1>4, AnswerIs DEF answer, found
  <2>2. CASE answer.resumed /\ found \in sv.cache /\ answer.session = found
    <3>1. found.id = cl.session.id
      BY <1>1, <2>2, Found, NotFound DEF found
    <3> QED BY <1>1, <1>2, <1>3, <1>4, <2>2, <3>1
            DEF NegoInv, NegoShape, Numbered, Known, Unsaved, Agreed
  <2>3. CASE ~answer.resumed /\ Renews(answer.session, found, sv.next)
    <3>1. IsSession(answer.session) /\ answer.session.id = sv.next
      BY <1>1, <1>2, <2>3, RenewedIsSession
    <3>2. /\ sv' = [cfg |-> sv.cfg, session |-> answer.session, cache |-> sv.cache,
                    next |-> sv.next + 1, name |-> answer.name]
          /\ nego'.stage = "answered" /\ nego'.answer = answer /\ nego'.count = nego.count
      BY <1>4, <2>3 DEF NegoInv, NegoShape
    <3>3. NegoShape'
      <4>1. nego' = [stage |-> nego'.stage, count |-> nego'.count, hello |-> nego'.hello,
                     answer |-> nego'.answer]
        BY <1>4
      <4> QED BY <1>1, <1>3, <3>1, <3>2, <4>1 DEF NegoInv, NegoShape
    <3>5. Numbered' /\ Known'
      BY <1>1, <1>3, <3>2 DEF NegoInv, NegoShape, Numbered, Known
    <3>4. Unsaved' /\ Agreed'
      BY <1>1, <1>3, <2>3, <3>1, <3>2 DEF NegoInv, Numbered, Unsaved, Agreed
    <3> QED BY <3>3, <3>4, <3>5 DEF NegoInv
  <2> QED BY <2>1, <2>2, <2>3
<1>5. CASE /\ sv' = [sv EXCEPT !.session = found, !.name = 0]
           /\ nego' = [stage |-> "refused", count |-> nego.count, hello |-> nego.hello, answer |-> answer]
  <2> HIDE DEF answer, found
  <2> QED BY <1>1, <1>2, <1>3, <1>5 DEF NegoInv, NegoShape, Numbered, Known, Unsaved, Agreed
<1> QED BY <1>4, <1>5 DEF AnswerClientHello

LEMMA AcceptKeeps ==
  ASSUME NegoInv, AcceptServerHello
  PROVE  NegoInv'
<1> DEFINE answer == nego.answer
<1>1. /\ nego.stage = "answered" /\ answer.session = sv.session /\ sv' = sv
      /\ IsSession(sv.session) /\ IsSession(cl.session) /\ sv.next \in Nat
  BY DEF AcceptServerHello, NegoInv, NegoShape, Agreed
<1>2. CASE nego' = [nego EXCEPT !.stage = "refused"] /\ cl' = cl
  <2>1. nego'.stage = "refused" /\ nego'.count = nego.count
    BY <1>1, <1>2 DEF NegoInv, NegoShape
  <2> QED BY <1>1, <1>2, <2>1 DEF NegoInv, NegoShape, Numbered, Known, Unsaved, Agreed
<1>3. CASE /\ cl' = [cl EXCEPT !.session = [answer.session EXCEPT !.secret = cl.session.secret],
                               !.name = NameSent(sv.cfg, answer)]
           /\ nego' = [nego EXCEPT !.stage = IF Echoed(cl.session, answer) THEN "finishing"
                                             ELSE "accepted"]
  <2> DEFINE name == NameSent(sv.cfg, answer)
             session == [sv.session EXCEPT !.secret = cl.session.secret]
  <2>1. /\ cl' = [cl EXCEPT !.session = session, !.name = name] /\ IsSession(session)
        /\ session.id = sv.session.id /\ session.version = sv.session.version
        /\ session.suite = sv.session.suite /\ session.secret = cl.session.secret
    BY <1>1, <1>3 DEF IsSession
  <2>2. nego'.count = nego.count /\ nego'.answer = answer /\ nego' = [stage |-> nego'.stage, count |-> nego'.count, hello |-> nego'.hello, answer |-> nego'.answer]
    BY <1>1, <1>3 DEF NegoInv, NegoShape
  <2>3. NameSent(sv.cfg, nego.answer)' = name
    BY <1>1, <2>2 DEF NameSent
  <2>4. cl' = [cfg |-> cl.cfg, session |-> session, name |-> name]
    BY <2>1 DEF NegoInv, NegoShape
  <2>5. CASE answer.resumed
    <3>1. sv.session \in sv.cache /\ sv.session.id = cl.session.id
      BY <1>1, <2>5 DEF NegoInv, Agreed
    <3>2. sv.session.secret = cl.session.secret /\ sv.session.secret # 0 /\ sv.session.id # 0
      BY <3>1 DEF NegoInv, Known, Numbered
    <3>3. session = sv.session
      BY <1>1, <3>2 DEF IsSession
    <3>4. nego'.stage = "finishing"
      BY <1>1, <1>3, <3>1, <3>2 DEF Echoed, NegoInv, NegoShape
    <3> HIDE DEF session, name, answer
    <3> QED BY <1>1, <2>2, <2>3, <2>4, <3>1, <3>2, <3>3, <3>4
            DEF NegoInv, NegoShape, Numbered, Known, Unsaved, Agreed, answer
  <2>6. CASE ~answer.resumed
    <3>1. /\ cl.session.id # sv.session.id /\ sv.session.id = sv.next - 1 /\ sv.session.id > 0
          /\ \A s \in sv.cache : s.id # sv.session.id
      BY <1>1, <2>6 DEF NegoInv, Agreed, Unsaved
    <3>2. nego'.stage = "accepted"
      BY <1>1, <1>3, <3>1 DEF Echoed, NegoInv, NegoShape
    <3> HIDE DEF session, name
    <3>3. NegoShape'
      BY <1>1, <2>1, <2>2, <2>4 DEF NegoInv, NegoShape
    <3>4. Numbered' /\ Known'
      BY <1>1, <2>1, <2>4, <3>1 DEF NegoInv, NegoShape, IsSession, Numbered, Known
    <3>5. Unsaved'
      BY <1>1, <3>1 DEF Unsaved
    <3>6. Agreed'
      BY <1>1, <2>1, <2>2, <2>3, <2>4, <2>6, <3>1, <3>2 DEF NegoInv, Agreed
    <3> QED BY <3>3, <3>4, <3>5, <3>6 DEF NegoInv
  <2> QED BY <2>5, <2>6
<1> QED BY <1>2, <1>3 DEF AcceptServerHello

LEMMA KeyKeeps ==
  ASSUME NegoInv, SendKeyExchange \/ ReadKeyExchange
  PROVE  NegoInv'
<1>1. CASE SendKeyExchange
  <2> DEFINE session == [cl.session EXCEPT !.secret = nego.count]
  <2>1. /\ cl' = [cfg |-> cl.cfg, session |-> session, name |-> cl.name] /\ sv' = sv
        /\ nego' = [stage |-> "keyed", count |-> nego.count, hello |-> nego.hello, answer |-> nego.answer]
        /\ nego.stage = "accepted"
    BY <1>1 DEF SendKeyExchange, NegoInv, NegoShape
  <2>2. /\ IsSession(session) /\ session.id = cl.session.id /\ session.version = cl.session.version
        /\ session.suite = cl.session.suite /\ session.secret = nego.count
    BY DEF NegoInv, NegoShape, IsSession
  <2> HIDE DEF session
  <2> QED BY <2>1, <2>2 DEF NegoInv, NegoShape, Numbered, Known, Unsaved, Agreed, NameSent
<1>2. CASE ReadKeyExchange
  <2> DEFINE session == [sv.session EXCEPT !.secret = nego.count]
  <2>1. /\ sv' = [cfg |-> sv.cfg, session |-> session, cache |-> sv.cache, next |-> sv.next,
                  name |-> sv.name]
        /\ nego' = [stage |-> "finishing", count |-> nego.count, hello |-> nego.hello, answer |-> nego.answer]
        /\ cl' = cl /\ nego.stage = "keyed"
    BY <1>2 DEF ReadKeyExchange, NegoInv, NegoShape
  <2>2. IsSession(session) /\ cl.session = session
    BY <2>1 DEF NegoInv, NegoShape, IsSession, Agreed
  <2>3. nego.count # 0
    BY <2>1 DEF NegoInv, NegoShape, Agreed
  <2> HIDE DEF session
  <2> QED BY <2>1, <2>2, <2>3 DEF NegoInv, NegoShape, Numbered, Known, Unsaved, Agreed, NameSent
<1> QED BY <1>1, <1>2

LEMMA FinishKeeps ==
  ASSUME NegoInv, Finish
  PROVE  NegoInv'
<1>1. /\ nego' = [stage |-> "done", count |-> nego.count, hello |-> nego.hello, answer |-> nego.answer]
      /\ cl' = cl /\ nego.stage = "finishing"
  BY DEF Finish, NegoInv, NegoShape
<1>2. /\ cl.session = sv.session /\ cl.session.secret # 0 /\ cl.session.id \in Nat
      /\ cl.session.id # 0 /\ cl.session.id < sv.next
  BY <1>1 DEF NegoInv, Agreed, Numbered, NegoShape, IsSession
<1>3. CASE sv' = sv
  BY <1>1, <1>3 DEF NegoInv, NegoShape, Numbered, Known, Unsaved, Agreed, NameSent
<1>4. CASE sv' = [sv EXCEPT !.cache = @ \cup {sv.session}]
  <2>1. sv' = [cfg |-> sv.cfg, session |-> sv.session, cache |-> sv.cache \cup {sv.session},
               next |-> sv.next, name |-> sv.name]
    BY <1>4 DEF NegoInv, NegoShape
  <2> QED BY <1>1, <1>2, <2>1 DEF NegoInv, NegoShape, Numbered, Known, Unsaved, Agreed, NameSent
<1> QED BY <1>3, <1>4 DEF Finish

LEMMA AgainKeeps ==
  ASSUME NegoInv, Again \/ Evict
  PROVE  NegoInv'
<1>1. CASE Again
  <2>1. nego'.stage = "idle" /\ nego'.count = nego.count /\ sv' = sv
    BY <1>1 DEF Again
  <2>2. CASE cl' = cl
    BY <2>1, <2>2 DEF NegoInv, NegoShape, Numbered, Known, Unsaved, Agreed
  <2>3. CASE cl' = [cl EXCEPT !.session.id = 0, !.name = "none"]
    <3> DEFINE session == [cl.session EXCEPT !.id = 0]
    <3>1. cl' = [cfg |-> cl.cfg, session |-> session, name |-> "none"]
      BY <2>3 DEF NegoInv, NegoShape
    <3>2. IsSession(session) /\ session.id = 0
      BY DEF NegoInv, NegoShape, IsSession
    <3> HIDE DEF session
    <3> QED BY <2>1, <3>1, <3>2 DEF NegoInv, NegoShape, Numbered, Known, Unsaved, Agreed, IsSession
  <2> QED BY <1>1, <2>2, <2>3 DEF Again
<1>2. CASE Evict
  <2>1. PICK s \in sv.cache : sv' = [sv EXCEPT !.cache = @ \ {s}]
    BY <1>2 DEF Evict
  <2>2. sv' = [cfg |-> sv.cfg, session |-> sv.session, cache |-> sv.cache \ {s}, next |-> sv.next,
               name |-> sv.name]
    BY <2>1 DEF NegoInv, NegoShape
  <2>3. nego.stage = "idle" /\ UNCHANGED <<cl, nego>>
    BY <1>2 DEF Evict
  <2> QED BY <2>2, <2>3 DEF NegoInv, NegoShape, Numbered, Known, Unsaved, Agreed
<1> QED BY <1>1, <1>2

(* The invariant of the negotiation, for every set of configurations:      *)
(* whatever broke off before, a session is saved only with its secret, and *)
(* a client never names a cached session with another secret.              *)
THEOREM NegotiationSafe == NegoSpec => []NegoInv
<1>1. NegoInit => NegoInv
  <2> SUFFICES ASSUME NegoInit
               PROVE  NegoInv
    OBVIOUS
  <2>1. /\ cl = [cfg |-> cl.cfg, session |-> EmptySession, name |-> "none"]
        /\ sv = [cfg |-> sv.cfg, session |-> EmptySession, cache |-> {}, next |-> 1, name |-> 0]
        /\ nego.stage = "idle" /\ nego.count = 0
    BY DEF NegoInit
  <2>2. IsSession(EmptySession) /\ EmptySession.id = 0
    BY DEF IsSession, EmptySession
  <2> HIDE DEF EmptySession
  <2> QED BY <2>1, <2>2 DEF NegoInv, NegoShape, Numbered, Known, Unsaved, Agreed
<1>2. NegoInv /\ [NegoNext]_negoVars => NegoInv'
  <2>1. NegoInv /\ UNCHANGED negoVars => NegoInv'
    BY DEF negoVars, NegoInv, NegoShape, Numbered, Known, Unsaved, Agreed, NameSent
  <2> QED BY <2>1, HelloKeeps, AnswerKeeps, AcceptKeeps, KeyKeeps, FinishKeeps, AgainKeeps DEF NegoNext
<1> QED BY <1>1, <1>2, PTL DEF NegoSpec

(* SameSession: when a handshake is done both ends have the same           *)
(* parameters, secret and protocol name, and the cache holds sessions of   *)
(* completed handshakes only (read-ClientHello, check-resume,              *)
(* read-ServerHello and save-session change the parameters in place).      *)
THEOREM SessionAlwaysShared == NegoSpec => []SameSession
<1>1. NegoInv => SameSession
  BY DEF NegoInv, NegoShape, Numbered, Agreed, SameSession, Echoed
<1> QED BY <1>1, NegotiationSafe, PTL
-----------------------------------------------------------------------------
(* The best suite.  A set of numbers that is not empty has a least one:    *)
(* the order of the natural numbers is well-founded.                       *)
LEMMA LeastIs ==
  ASSUME NEW T, T \subseteq Nat, T # {}
  PROVE  Least(T) \in T /\ \A n \in T : Least(T) <= n
<1> DEFINE R == OpToRel(<, Nat)
<1>1. IsWellFoundedOn(R, Nat)
  BY NatLessThanWellFounded
<1>2. \A m, n \in Nat : <<m, n>> \in R <=> m < n
  BY DEF OpToRel
<1> HIDE DEF R
<1>3. PICK m \in T : \A n \in T : ~(<<n, m>> \in R)
  BY <1>1, WFMin, Zenon
<1>4. \A n \in T : n \in Nat /\ m \in Nat /\ ~(n < m)
  BY <1>2, <1>3
<1>5. \A n \in T : m <= n
  BY <1>4
<1> QED BY <1>3, <1>5, Zenon DEF Least

LEMMA HashChosen ==
  ASSUME NEW hashes, hashes \subseteq 2 .. 6, hashes # {}
  PROVE  choose_hash(hashes) \in hashes
<1> DEFINE T == {i \in 1 .. 5 : Preferred[i] \in hashes}
<1>1. T \subseteq Nat
  OBVIOUS
<1>2. T # {}
  <2>1. PICK h \in hashes : h \in 2 .. 6
    OBVIOUS
  <2>2. Preferred[1] = 4 /\ Preferred[2] = 5 /\ Preferred[3] = 6 /\ Preferred[4] = 3 /\ Preferred[5] = 2
    BY DEF Preferred
  <2>3. h = 2 \/ h = 3 \/ h = 4 \/ h = 5 \/ h = 6
    BY <2>1
  <2> HIDE DEF T
  <2>4. \E i \in 1 .. 5 : Preferred[i] \in hashes
    BY <2>1, <2>2, <2>3
  <2> QED BY <2>4 DEF T
<1> HIDE DEF T
<1>3. Least(T) \in T
  BY <1>1, <1>2, LeastIs
<1> QED BY <1>3 DEF T, choose_hash

LEMMA CurveChosen ==
  ASSUME NEW curves, curves \subseteq Nat, curves # {}
  PROVE  ExchangeCurve(curves) \in curves
<1> DEFINE masked == curves \cap 27 .. 29
<1>1. masked # {} => Least(masked) \in masked
  BY LeastIs
<1>2. Least(curves) \in curves
  BY LeastIs
<1> QED BY <1>1, <1>2 DEF ExchangeCurve

LEMMA NameChosen ==
  ASSUME NEW names, NEW offered, DOMAIN names = 1 .. Len(names), Len(names) \in Nat
  PROVE  \/ SelectedProtocol(names, offered) \in {0, NoCommonName}
         \/ Has(offered, names[SelectedProtocol(names, offered)])
<1> DEFINE T == {i \in DOMAIN names : Has(offered, names[i])}
<1>1. CASE T = {}
  BY <1>1 DEF SelectedProtocol
<1>2. CASE T # {}
  <2>1. T \subseteq Nat
    OBVIOUS
  <2> HIDE DEF T
  <2>2. Least(T) \in T
    BY <1>2, <2>1, LeastIs
  <2>3. Has(offered, names[Least(T)])
    BY <2>2 DEF T
  <2> QED BY <2>3 DEF SelectedProtocol, T
<1> QED BY <1>1, <1>2

(* A client that offers an exchange of ephemeral keys has what it takes: a *)
(* hash function for the signature, an algorithm to check it, a curve.     *)
IsEphemeral(suite) == suite.kx \in {"ECDHE_RSA", "ECDHE_ECDSA"}
Equipped(c) ==
  (\E i \in DOMAIN c.suites : IsEphemeral(c.suites[i])) =>
     c.hashes \ {MD5} # {} /\ c.signs # {} /\ c.curves # {}

(* The suites that the server can choose for a client are those both can   *)
(* run.                                                                    *)
LEMMA ChoicesAreWorkable ==
  ASSUME NEW c \in ClientConfigs, NEW s \in ServerConfigs, Equipped(c), NEW session,
         NEW hello, hello = write_ClientHello(c, session)
  PROVE  Choices(s, hello, Lower(s.max, hello.version))
           = {i \in DOMAIN Ordered(s, c.suites) : Workable(c, s, Ordered(s, c.suites)[i])}
<1> DEFINE suites == Ordered(s, c.suites)
           version == Lower(c.max, s.max)
           common == CommonHashes(s, hello)
           curves == hello.curves \cap s.curves
<1>1. /\ hello.version = c.max /\ hello.suites = c.suites
      /\ hello.curves = IF c.curves = {} THEN {23} ELSE c.curves
      /\ hello.hashes = IF c.hashes \ {MD5} = {} \/ c.signs = {} THEN [rsa |-> {SHA1}, ecdsa |-> {SHA1}]
              ELSE [rsa |-> IF "rsa" \in c.signs THEN c.hashes \ {MD5} ELSE {},
                    ecdsa |-> IF "ecdsa" \in c.signs THEN c.hashes \ {MD5} ELSE {}]
  BY DEF write_ClientHello
<1>2. Lower(s.max, hello.version) = version
  BY <1>1, ConfigAssumption DEF Lower
<1>3. Choices(s, hello, version) =
        {i \in DOMAIN suites :
           /\ Has(s.suites, suites[i]) /\ Has(c.suites, suites[i])
           /\ Usable(suites[i], version, common, curves) /\ Chosen(s, suites[i], version, common)}
  BY <1>1 DEF Choices, UsableSuites, CommonSuites
<1> SUFFICES ASSUME NEW i \in DOMAIN suites, Has(s.suites, suites[i]), Has(c.suites, suites[i])
             PROVE  Usable(suites[i], version, common, curves) /\ Chosen(s, suites[i], version, common)
                      <=> Workable(c, s, suites[i])
  <2>1. \A i \in DOMAIN suites : Workable(c, s, suites[i]) => Has(s.suites, suites[i]) /\ Has(c.suites, suites[i])
    BY DEF Workable
  <2> HIDE DEF suites, version, common, curves
  <2> QED BY <1>2, <1>3, <2>1 DEF suites
<1> DEFINE suite == suites[i]
           shared == (c.hashes \cap s.hashes) \ {MD5}
<1>4. IsEphemeral(suite) =>
        /\ curves = c.curves \cap s.curves
        /\ common.rsa = IF "rsa" \in c.signs THEN shared ELSE {}
        /\ common.ecdsa = IF "ecdsa" \in c.signs THEN shared ELSE {}
  <2> SUFFICES ASSUME IsEphemeral(suite)
               PROVE  /\ curves = c.curves \cap s.curves
                      /\ common.rsa = IF "rsa" \in c.signs THEN shared ELSE {}
                      /\ common.ecdsa = IF "ecdsa" \in c.signs THEN shared ELSE {}
    OBVIOUS
  <2>1. c.hashes \ {MD5} # {} /\ c.signs # {} /\ c.curves # {}
    BY DEF Equipped, Has
  <2>2. /\ hello.hashes.rsa = IF "rsa" \in c.signs THEN c.hashes \ {MD5} ELSE {}
        /\ hello.hashes.ecdsa = IF "ecdsa" \in c.signs THEN c.hashes \ {MD5} ELSE {}
    BY <1>1, <2>1
  <2>3. common.rsa = hello.hashes.rsa \cap s.hashes /\ common.ecdsa = hello.hashes.ecdsa \cap s.hashes
    BY DEF CommonHashes
  <2> HIDE DEF common
  <2> QED BY <1>1, <2>1, <2>2, <2>3
<1>5. Workable(c, s, suite) <=>
        /\ suite.tls12 => version = TLS12
        /\ \/ s.key = "rsa" /\ suite.kx = "RSA" /\ "keyx" \in s.usages
           \/ s.key = "ec" /\ suite.kx = (IF s.issuer = "rsa" THEN "ECDH_RSA" ELSE "ECDH_ECDSA") /\ "keyx" \in s.usages
           \/ /\ suite.kx = (IF s.key = "rsa" THEN "ECDHE_RSA" ELSE "ECDHE_ECDSA") /\ "sign" \in s.usages
              /\ (IF s.key = "rsa" THEN "rsa" ELSE "ecdsa") \in c.signs
              /\ shared # {} /\ c.curves \cap s.curves # {}
  BY DEF Workable
<1> HIDE DEF suite, suites, version, common, curves, shared
<1>6. s.key \in {"rsa", "ec"} /\ s.issuer \in {"rsa", "ec"}
  BY ConfigAssumption
<1>7. CASE IsEphemeral(suite)
  BY <1>4, <1>5, <1>6, <1>7 DEF Usable, Chosen, IsEphemeral, suite
<1>8. CASE ~IsEphemeral(suite)
  BY <1>5, <1>6, <1>8 DEF Usable, Chosen, IsEphemeral, suite
<1> QED BY <1>7, <1>8 DEF suite

(* What the server answers to a hello of a client, new session or old, and *)
(* why it refuses one.                                                     *)
WorkablePlaces(c, s) == {i \in DOMAIN Ordered(s, c.suites) : Workable(c, s, Ordered(s, c.suites)[i])}

HashesOf(hash) == IF hash = 0 THEN {MD5, SHA1} ELSE {hash}

NewFits(c, s, answer) ==
  LET suite == answer.session.suite IN
  /\ answer.session.version = Lower(c.max, s.max)
  /\ WorkablePlaces(c, s) # {}
  /\ suite = Ordered(s, c.suites)[Least(WorkablePlaces(c, s))]
  /\ answer.exchange =>
       /\ IsEphemeral(suite) /\ answer.curve \in c.curves
       /\ c.min <= answer.session.version => HashesOf(answer.hash) \subseteq c.hashes

NameFits(c, s, answer) ==
  answer.name \in {0, NoCommonName} \/ Has(c.names, s.names[answer.name])

OldFits(c, s, cache, answer) ==
  /\ ~answer.exchange /\ answer.session \in cache
  /\ Has(c.suites, answer.session.suite) /\ answer.session.version <= c.max

RefusalFits(c, s, answer) ==
  \/ c.max < s.min \/ s.max < c.min \/ WorkablePlaces(c, s) = {}
  \/ answer.ok = FALSE /\ answer.reason \in {"fallback", "protocol"}

LEMMA NotTooMany ==
  ASSUME NEW c \in ClientConfigs, NEW s \in ServerConfigs, NEW hello, hello.suites = c.suites
  PROVE  ~(Cardinality(CommonSuites(s, hello)) > MaxClientSuites)
<1> DEFINE suites == Ordered(s, c.suites)
<1>1. Len(suites) \in 0 .. MaxClientSuites /\ DOMAIN suites = 1 .. Len(suites) /\ MaxClientSuites \in Nat
  BY ConfigAssumption DEF Ordered
<1>2. CommonSuites(s, hello) \subseteq 1 .. Len(suites)
  BY <1>1 DEF CommonSuites
<1> HIDE DEF suites
<1>3. IsFiniteSet(1 .. Len(suites)) /\ Cardinality(1 .. Len(suites)) = Len(suites)
  <2> DEFINE n == Len(suites)
  <2>1. n \in Nat
    BY <1>1
  <2> HIDE DEF n
  <2>2. IsFiniteSet(1 .. n) /\ Cardinality(1 .. n) = IF 1 > n THEN 0 ELSE n - 1 + 1
    BY <2>1, FS_Interval
  <2>3. IsFiniteSet(1 .. n) /\ Cardinality(1 .. n) = n
    BY <2>1, <2>2
  <2> QED BY <2>3 DEF n
<1>4. /\ Cardinality(CommonSuites(s, hello)) <= Cardinality(1 .. Len(suites))
      /\ Cardinality(CommonSuites(s, hello)) \in Nat
  BY <1>2, <1>3, FS_Subset, FS_CardinalityType
<1> QED BY <1>1, <1>3, <1>4

(* The exchange of keys for the chosen suite: the server has the hash      *)
(* function, and the client has hash function and curve.                   *)
LEMMA ExchangeFits ==
  ASSUME NEW c \in ClientConfigs, NEW s \in ServerConfigs, Equipped(c), NEW session,
         NEW hello, hello = write_ClientHello(c, session),
         NEW suite, Workable(c, s, suite), IsEphemeral(suite), ~(hello.version < s.min)
  PROVE  LET version == Lower(s.max, hello.version)
             hash == SignatureHash(s, version, CommonHashes(s, hello))
         IN  /\ HashesOf(hash) \subseteq s.hashes
             /\ c.min <= version => HashesOf(hash) \subseteq c.hashes
             /\ ExchangeCurve(hello.curves \cap s.curves) \in c.curves
<1> DEFINE version == Lower(s.max, hello.version)
           common == CommonHashes(s, hello)
           curves == hello.curves \cap s.curves
           shared == (c.hashes \cap s.hashes) \ {MD5}
           hash == SignatureHash(s, version, common)
<1>1. c.hashes \ {MD5} # {} /\ c.signs # {} /\ c.curves # {}
  BY DEF Equipped, Workable, Has
<1>2. /\ hello.version = c.max /\ hello.curves = c.curves
      /\ hello.hashes = [rsa |-> IF "rsa" \in c.signs THEN c.hashes \ {MD5} ELSE {},
                         ecdsa |-> IF "ecdsa" \in c.signs THEN c.hashes \ {MD5} ELSE {}]
  BY <1>1 DEF write_ClientHello
<1>3. /\ common.rsa = IF "rsa" \in c.signs THEN shared ELSE {}
      /\ common.ecdsa = IF "ecdsa" \in c.signs THEN shared ELSE {}
  BY <1>2 DEF CommonHashes
<1>4. /\ s.min \in 1 .. 3 /\ c.min \in 1 .. 3 /\ s.min <= s.max /\ c.max \in 1 .. 3 /\ s.max \in 1 .. 3
      /\ c.hashes \subseteq 1 .. 6 /\ c.curves \subseteq Nat /\ s.key \in {"rsa", "ec"}
      /\ s.min < 3 => {1, 2} \subseteq s.hashes
      /\ c.min < 3 => {1, 2} \subseteq c.hashes
  BY ConfigAssumption, HashAssumption
<1>5. version \in 1 .. 3 /\ s.min <= version
  BY <1>2, <1>4 DEF Lower
<1>6. /\ shared # {} /\ c.curves \cap s.curves # {}
      /\ IF s.key = "rsa" THEN "rsa" \in c.signs ELSE "ecdsa" \in c.signs
  BY <1>4 DEF Workable, IsEphemeral
<1>7. curves \subseteq Nat /\ curves # {} /\ curves \subseteq c.curves
  BY <1>2, <1>4, <1>6
<1>8. shared \subseteq 2 .. 6 /\ shared \subseteq c.hashes /\ shared \subseteq s.hashes
  BY <1>4 DEF MD5
<1>9. choose_hash(shared) \in shared
  BY <1>6, <1>8, HashChosen
<1>10. IF s.key = "rsa" THEN common.rsa = shared ELSE common.ecdsa = shared
  BY <1>3, <1>6
<1> HIDE DEF version, common, curves, shared
<1>11. hash = IF version < 3 THEN IF s.key = "rsa" THEN 0 ELSE 2 ELSE choose_hash(shared)
  BY <1>4, <1>10 DEF SignatureHash, TLS12, SHA1
<1>12. /\ HashesOf(hash) \subseteq s.hashes
       /\ c.min <= version => HashesOf(hash) \subseteq c.hashes
  <2>1. CASE version < 3
    BY <1>4, <1>5, <1>11, <2>1 DEF HashesOf, MD5, SHA1
  <2>2. CASE ~(version < 3)
    <3>1. hash \in shared /\ hash # 0
      BY <1>8, <1>9, <1>11, <2>2
    <3> HIDE DEF hash
    <3> QED BY <1>8, <3>1 DEF HashesOf
  <2> QED BY <2>1, <2>2
<1>13. ExchangeCurve(curves) \in c.curves
  BY <1>7, CurveChosen
<1> HIDE DEF hash
<1> QED BY <1>12, <1>13, Zenon DEF hash, version, common, curves

LEMMA AnswerFits ==
  ASSUME NEW c \in ClientConfigs, NEW s \in ServerConfigs, Equipped(c), NEW session,
         NEW hello, hello = write_ClientHello(c, session),
         NEW old, NEW cache, NEW fresh, NEW answer, hello.id \in Nat,
         IsSession(old), \A found \in cache : IsSession(found),
         answer = ServerAnswer(s, old, cache, hello, fresh)
  PROVE  /\ answer.ok /\ ~answer.resumed => NewFits(c, s, answer)
         /\ answer.ok => NameFits(c, s, answer)
         /\ answer.ok /\ answer.resumed => OldFits(c, s, cache, answer)
         /\ ~answer.ok => RefusalFits(c, s, answer)
<1> DEFINE found == check_resume(old, cache, hello.id)
           resumed == Resumes(found, cache, hello)
           version == IF resumed THEN found.version ELSE Lower(s.max, hello.version)
           chosen == choose(s, hello, version)
           name == SelectedProtocol(s.names, hello.names)
           ephemeral == chosen.kx \in {"ECDHE_RSA", "ECDHE_ECDSA"}
           hash == SignatureHash(s, version, CommonHashes(s, hello))
           renewed == [found EXCEPT !.id = fresh, !.version = version, !.suite = chosen]
           many == ~s.prefers /\ Cardinality(CommonSuites(s, hello)) > MaxClientSuites
           fallback == InappropriateFallback(s, hello)
           can == Choices(s, hello, version) # {}
           signs == (IF hash = 0 THEN {MD5, SHA1} ELSE {hash}) \subseteq s.hashes
           newName == IF name = NoCommonName THEN 0 ELSE name
           curve == IF ephemeral THEN ExchangeCurve(hello.curves \cap s.curves) ELSE 0
           newHash == IF ephemeral THEN hash ELSE 0
<1>1. answer =
        IF many THEN Refused("too many suites")
        ELSE IF fallback THEN Refused("fallback")
        ELSE IF hello.version < s.min THEN Refused("version")
        ELSE IF resumed
        THEN [ok |-> TRUE, resumed |-> TRUE, session |-> found, name |-> name, exchange |-> FALSE]
        ELSE IF name = NoCommonName /\ s.names_must_match THEN Refused("protocol")
        ELSE IF ~can THEN Refused("suites")
        ELSE IF ephemeral /\ ~signs THEN Refused("hash")
        ELSE [ok |-> TRUE, resumed |-> FALSE, name |-> newName, session |-> renewed,
              exchange |-> ephemeral, curve |-> curve, hash |-> newHash]
  BY Zenon DEF ServerAnswer
<1>2. hello.version = c.max /\ hello.suites = c.suites /\ hello.names = c.names
  BY DEF write_ClientHello
<1>3. ~many
  BY <1>2, NotTooMany
<1>4. hello.version < s.min => c.max < s.min
  BY <1>2
<1>5. /\ s.min \in 1 .. 3 /\ c.max \in 1 .. 3 /\ s.max \in 1 .. 3
      /\ DOMAIN s.names = 1 .. Len(s.names) /\ Len(s.names) \in Nat
  BY ConfigAssumption
<1>6. resumed => found \in cache /\ Has(c.suites, found.suite) /\ found.version <= c.max
  BY <1>2 DEF Resumes
<1>7. /\ name \in {0, NoCommonName} \/ Has(c.names, s.names[name])
      /\ newName \in {0, NoCommonName} \/ Has(c.names, s.names[newName])
  BY <1>2, <1>5, NameChosen
<1>8. ASSUME ~resumed
      PROVE  /\ version = Lower(s.max, hello.version) /\ version = Lower(c.max, s.max)
             /\ can <=> WorkablePlaces(c, s) # {}
             /\ can => /\ chosen = Ordered(s, c.suites)[Least(WorkablePlaces(c, s))]
                       /\ Workable(c, s, chosen)
  <2>1. version = Lower(s.max, hello.version) /\ Lower(s.max, hello.version) = Lower(c.max, s.max)
    BY <1>2, <1>5, <1>8 DEF Lower
  <2>2. Choices(s, hello, version) = WorkablePlaces(c, s)
    BY <2>1, ChoicesAreWorkable DEF WorkablePlaces
  <2>3. chosen = Ordered(s, c.suites)[Least(WorkablePlaces(c, s))]
    BY <1>2, <2>2 DEF choose
  <2>4. ASSUME WorkablePlaces(c, s) # {}
        PROVE  Workable(c, s, chosen)
    <3>1. DOMAIN Ordered(s, c.suites) \subseteq Nat
      BY ConfigAssumption DEF Ordered
    <3>2. WorkablePlaces(c, s) \subseteq Nat
      BY <3>1 DEF WorkablePlaces
    <3>3. Least(WorkablePlaces(c, s)) \in WorkablePlaces(c, s)
      BY <2>4, <3>2, LeastIs
    <3> HIDE DEF chosen
    <3> QED BY <2>3, <3>3 DEF WorkablePlaces
  <2> HIDE DEF version, chosen
  <2> QED BY <2>1, <2>2, <2>3, <2>4
<1>9. ASSUME ~resumed, can, ephemeral, ~(hello.version < s.min)
      PROVE  /\ signs
             /\ IsEphemeral(chosen) /\ curve \in c.curves
             /\ c.min <= version => HashesOf(hash) \subseteq c.hashes
  <2>1. version = Lower(s.max, hello.version) /\ Workable(c, s, chosen)
    BY <1>8, <1>9
  <2>2. IsEphemeral(chosen) /\ curve = ExchangeCurve(hello.curves \cap s.curves)
    BY <1>9 DEF IsEphemeral
  <2>3. signs <=> HashesOf(hash) \subseteq s.hashes
    BY DEF HashesOf
  <2> HIDE DEF signs, curve, chosen
  <2> QED BY <1>9, <2>1, <2>2, <2>3, ExchangeFits
<1>10. ~resumed => renewed.version = version /\ renewed.suite = chosen
  <2>1. found = [id |-> found.id, version |-> found.version, suite |-> found.suite, secret |-> found.secret]
    BY CheckedIsSession DEF IsSession
  <2> HIDE DEF found, version, chosen
  <2> QED BY <2>1
<1> HIDE DEF found, resumed, version, chosen, name, ephemeral, hash, renewed, many, fallback, can,
             signs, newName, curve, newHash
<1> DEFINE known == [ok |-> TRUE, resumed |-> TRUE, session |-> found, name |-> name,
                     exchange |-> FALSE]
           new == [ok |-> TRUE, resumed |-> FALSE, name |-> newName, session |-> renewed,
                   exchange |-> ephemeral, curve |-> curve, hash |-> newHash]
<1>11. \A reason : ~Refused(reason).ok /\ Refused(reason).ok = FALSE /\ Refused(reason).reason = reason
  BY DEF Refused
<1>12. known.ok /\ known.resumed /\ known.session = found /\ known.name = name /\ ~known.exchange
  OBVIOUS
<1>13. /\ new.ok /\ ~new.resumed /\ new.session = renewed /\ new.name = newName
       /\ new.exchange = ephemeral /\ new.curve = curve /\ new.hash = newHash
  OBVIOUS
<1> HIDE DEF known, new
<1> DEFINE early == hello.version < s.min
           noName == name = NoCommonName /\ s.names_must_match
           refusal == answer \in {Refused("fallback"), Refused("protocol")}
<1>14. \/ refusal
       \/ early /\ answer = Refused("version")
       \/ resumed /\ answer = known
       \/ ~early /\ ~resumed /\ ~can /\ answer = Refused("suites")
       \/ ~early /\ ~resumed /\ can /\ ephemeral /\ ~signs /\ answer = Refused("hash")
       \/ ~early /\ ~resumed /\ can /\ answer = new
  <2>1. answer = IF fallback THEN Refused("fallback")
                 ELSE IF early THEN Refused("version")
                 ELSE IF resumed THEN known
                 ELSE IF noName THEN Refused("protocol")
                 ELSE IF ~can THEN Refused("suites")
                 ELSE IF ephemeral /\ ~signs THEN Refused("hash")
                 ELSE new
    BY Zenon, <1>1, <1>3 DEF known, new
  <2> HIDE DEF early, noName, Refused
  <2>2. CASE fallback
    BY <2>1, <2>2
  <2>3. CASE ~fallback /\ ~early /\ ~resumed
    <3>1. CASE noName
      BY <2>1, <2>3, <3>1
    <3>2. CASE ~noName /\ ~can
      BY <2>1, <2>3, <3>2
    <3>3. CASE ~noName /\ can
      BY <2>1, <2>3, <3>3
    <3> QED BY <3>1, <3>2, <3>3
  <2> HIDE DEF refusal
  <2> QED BY <2>1, <2>2, <2>3
<1>15. CASE resumed /\ answer = known
  BY <1>6, <1>7, <1>12, <1>15 DEF OldFits, NameFits
<1>16. CASE ~(hello.version < s.min) /\ ~resumed /\ can /\ answer = new
  <2>1. NameFits(c, s, answer)
    BY <1>7, <1>13, <1>16 DEF NameFits
  <2>2. NewFits(c, s, answer)
    <3>1. /\ version = Lower(c.max, s.max) /\ WorkablePlaces(c, s) # {}
          /\ chosen = Ordered(s, c.suites)[Least(WorkablePlaces(c, s))]
          /\ answer.session.version = version /\ answer.session.suite = chosen
      BY <1>8, <1>10, <1>13, <1>16
    <3>2. ASSUME answer.exchange
          PROVE  /\ IsEphemeral(chosen) /\ answer.curve \in c.curves
                 /\ c.min <= version => HashesOf(answer.hash) \subseteq c.hashes
      <4>1. ephemeral
        BY <1>13, <1>16, <3>2
      <4>2. answer.curve = curve /\ answer.hash = hash
        BY <1>13, <1>16, <4>1 DEF newHash
      <4> QED BY <1>9, <1>16, <4>1, <4>2
    <3> QED BY <3>1, <3>2 DEF NewFits
  <2> QED BY <1>13, <1>16, <2>1, <2>2
<1>17. CASE refusal
  BY <1>11, <1>17 DEF RefusalFits
<1>18. CASE hello.version < s.min /\ answer = Refused("version")
  BY <1>4, <1>11, <1>18 DEF RefusalFits
<1>19. CASE ~resumed /\ ~can /\ answer = Refused("suites")
  BY <1>8, <1>11, <1>19 DEF RefusalFits
<1> HIDE DEF Refused
<1> QED BY <1>9, <1>14, <1>15, <1>16, <1>17, <1>18, <1>19

(* The invariant: what the client keeps of an earlier session fits its     *)
(* configuration, and is what the cache has under that number.             *)
SessionFits(c, session) ==
  session.id # 0 =>
    session.version \in c.min .. c.max /\ (session.suite.tls12 => session.version = TLS12)

BestInv ==
  /\ cl.cfg \in ClientConfigs /\ sv.cfg \in ServerConfigs
  /\ SessionFits(cl.cfg, cl.session)
  /\ \A s \in sv.cache : s.id = cl.session.id => s = cl.session
  /\ nego.stage = "hello" => nego.hello = write_ClientHello(cl.cfg, cl.session)
  /\ nego.stage = "answered" =>
       /\ NameFits(cl.cfg, sv.cfg, nego.answer)
       /\ IF nego.answer.resumed THEN OldFits(cl.cfg, sv.cfg, sv.cache, nego.answer)
          ELSE NewFits(cl.cfg, sv.cfg, nego.answer)
  /\ nego.stage = "refused" => RefusalFits(cl.cfg, sv.cfg, nego.answer)

(* The client accepts every answer, unless the version is too low for it.  *)
LEMMA NameAccepted ==
  ASSUME NEW c, NEW s, NEW answer, NameFits(c, s, answer), answer.name # NoCommonName,
         NameSent(s, answer) # "none"
  PROVE  Has(c.names, NameSent(s, answer)) /\ c.names # <<>>
<1>1. answer.name # 0 /\ Has(c.names, s.names[answer.name])
  BY DEF NameFits, NameSent
<1> QED BY <1>1 DEF NameSent, Has

LEMMA NewAccepted ==
  ASSUME NEW c \in ClientConfigs, NEW s \in ServerConfigs, NEW session, NEW answer,
         NewFits(c, s, answer), NameFits(c, s, answer), answer.name # NoCommonName,
         ~Echoed(session, answer), ~ClientAccepts(c, session, s, answer)
  PROVE  s.max < c.min
<1> DEFINE suite == answer.session.suite
           version == answer.session.version
<1>1. /\ version = Lower(c.max, s.max) /\ WorkablePlaces(c, s) # {}
      /\ suite = Ordered(s, c.suites)[Least(WorkablePlaces(c, s))]
      /\ answer.exchange =>
           /\ IsEphemeral(suite) /\ answer.curve \in c.curves
           /\ c.min <= version => HashesOf(answer.hash) \subseteq c.hashes
  BY DEF NewFits
<1>2. Workable(c, s, suite)
  <2>1. WorkablePlaces(c, s) \subseteq Nat
    BY ConfigAssumption DEF WorkablePlaces, Ordered
  <2>2. Least(WorkablePlaces(c, s)) \in WorkablePlaces(c, s)
    BY <1>1, <2>1, LeastIs
  <2> HIDE DEF suite
  <2> QED BY <1>1, <2>2 DEF WorkablePlaces
<1> HIDE DEF suite, version
<1>3. /\ c.min \in 1 .. 3 /\ c.max \in 1 .. 3 /\ s.max \in 1 .. 3 /\ c.min <= c.max
      /\ s.key \in {"rsa", "ec"} /\ s.issuer \in {"rsa", "ec"}
  BY ConfigAssumption, HashAssumption
<1>4. version <= c.max /\ (version < c.min => s.max < c.min)
  BY <1>1, <1>3 DEF Lower
<1> SUFFICES ASSUME c.min <= version
             PROVE  ClientAccepts(c, session, s, answer)
  BY <1>1, <1>3, <1>4 DEF Lower
<1>5. version \in 1 .. 3 /\ ~(version < c.min) /\ ~(version > c.max)
  BY <1>1, <1>3, <1>4 DEF Lower
<1>6. Has(c.suites, suite) /\ ~(suite.tls12 /\ version < TLS12)
  BY <1>1, <1>2, <1>3 DEF Workable, TLS12
<1>7. ~HelloFault(c, session, s, answer)
  BY <1>5, <1>6, NameAccepted DEF HelloFault, suite, version
<1>8. answer.exchange /\ suite.kx = "ECDHE_RSA" => "rsa" \in c.signs
  BY <1>2, <1>3 DEF Workable
<1>9. answer.exchange /\ suite.kx = "ECDHE_ECDSA" => "ecdsa" \in c.signs
  BY <1>2, <1>3 DEF Workable
<1>10. ~ExchangeFault(c, answer)
  BY <1>1, <1>8, <1>9 DEF ExchangeFault, HashesOf, suite
<1> QED BY <1>7, <1>10 DEF ClientAccepts

LEMMA OldAccepted ==
  ASSUME NEW c \in ClientConfigs, NEW s \in ServerConfigs, NEW session, NEW cache, NEW answer,
         OldFits(c, s, cache, answer), NameFits(c, s, answer), answer.name # NoCommonName,
         answer.session = session, session.id # 0, SessionFits(c, session)
  PROVE  ClientAccepts(c, session, s, answer)
<1>1. ~ExchangeFault(c, answer)
  BY DEF OldFits, ExchangeFault
<1>2. ~(answer.session.suite.tls12 /\ answer.session.version < TLS12)
  BY DEF SessionFits, TLS12
<1>3. /\ ~(answer.session.version < c.min) /\ ~(answer.session.version > c.max)
      /\ Has(c.suites, answer.session.suite)
  BY ConfigAssumption DEF SessionFits, OldFits
<1> QED BY <1>1, <1>2, <1>3, NameAccepted DEF ClientAccepts, HelloFault

LEMMA AnswerKeepsBest ==
  ASSUME NegoInv, BestInv, Equipped(cl.cfg), AnswerClientHello
  PROVE  BestInv'
<1> DEFINE answer == ServerAnswer(sv.cfg, sv.session, sv.cache, nego.hello, sv.next)
<1>1. /\ cl.cfg \in ClientConfigs /\ sv.cfg \in ServerConfigs
      /\ nego.hello = write_ClientHello(cl.cfg, cl.session)
      /\ nego.hello.id \in Nat /\ IsSession(sv.session) /\ \A s \in sv.cache : IsSession(s)
  BY DEF AnswerClientHello, BestInv, NegoInv, NegoShape, Agreed, IsSession
<1>2. /\ answer.ok /\ ~answer.resumed => NewFits(cl.cfg, sv.cfg, answer)
      /\ answer.ok => NameFits(cl.cfg, sv.cfg, answer)
      /\ answer.ok /\ answer.resumed => OldFits(cl.cfg, sv.cfg, sv.cache, answer)
      /\ ~answer.ok => RefusalFits(cl.cfg, sv.cfg, answer)
  BY <1>1, AnswerFits
<1>3. /\ cl' = cl /\ sv'.cfg = sv.cfg /\ sv'.cache = sv.cache /\ nego'.answer = answer
      /\ \/ nego'.stage = "answered" /\ answer.ok
         \/ nego'.stage = "refused" /\ ~answer.ok
  <2>1. sv = [cfg |-> sv.cfg, session |-> sv.session, cache |-> sv.cache, next |-> sv.next,
              name |-> sv.name]
    BY DEF NegoInv, NegoShape
  <2>2. CASE answer.ok /\ sv' = [sv EXCEPT !.session = answer.session, !.name = answer.name,
                          !.next = IF answer.resumed THEN @ ELSE @ + 1]
           /\ nego' = [stage |-> "answered", count |-> nego.count, hello |-> nego.hello, answer |-> answer]
    <3> HIDE DEF answer
    <3> QED BY <2>1, <2>2 DEF AnswerClientHello
  <2>3. CASE ~answer.ok /\ sv' = [sv EXCEPT !.session = check_resume(@, sv.cache, nego.hello.id), !.name = 0]
           /\ nego' = [stage |-> "refused", count |-> nego.count, hello |-> nego.hello, answer |-> answer]
    <3> HIDE DEF answer
    <3> QED BY <2>1, <2>3 DEF AnswerClientHello
  <2> QED BY <2>2, <2>3 DEF AnswerClientHello
<1> HIDE DEF answer
<1> QED BY <1>2, <1>3 DEF BestInv

LEMMA AcceptKeepsBest ==
  ASSUME NegoInv, BestInv, AcceptServerHello
  PROVE  BestInv'
<1> DEFINE answer == nego.answer
           session == [answer.session EXCEPT !.secret = cl.session.secret]
<1>1. /\ nego.stage = "answered" /\ answer.session = sv.session /\ sv' = sv
      /\ IsSession(sv.session) /\ IsSession(cl.session) /\ answer.name # NoCommonName
      /\ cl.cfg \in ClientConfigs /\ sv.cfg \in ServerConfigs
      /\ NameFits(cl.cfg, sv.cfg, answer) /\ SessionFits(cl.cfg, cl.session)
      /\ \A s \in sv.cache : s.id = cl.session.id => s = cl.session
  BY DEF AcceptServerHello, NegoInv, NegoShape, Agreed, BestInv
<1>2. CASE answer.resumed
  <2>1. /\ OldFits(cl.cfg, sv.cfg, sv.cache, answer) /\ answer.session = cl.session
        /\ cl.session.id # 0
    BY <1>1, <1>2 DEF BestInv, NegoInv, Agreed, Numbered
  <2>2. ClientAccepts(cl.cfg, cl.session, sv.cfg, answer)
    BY <1>1, <2>1, OldAccepted
  <2>3. /\ cl' = [cl EXCEPT !.session = session, !.name = NameSent(sv.cfg, answer)]
        /\ nego' = [nego EXCEPT !.stage = IF Echoed(cl.session, answer) THEN "finishing" ELSE "accepted"]
    BY <2>2 DEF AcceptServerHello
  <2>4. session = cl.session
    BY <1>1, <2>1 DEF IsSession
  <2> HIDE DEF session
  <2>5. cl'.session = cl.session /\ cl'.cfg = cl.cfg
    BY <2>3, <2>4 DEF NegoInv, NegoShape
  <2>6. nego'.stage \in {"finishing", "accepted"}
    BY <1>1, <2>3 DEF NegoInv, NegoShape
  <2> QED BY <1>1, <2>5, <2>6 DEF BestInv
<1>3. CASE ~answer.resumed
  <2>1. /\ NewFits(cl.cfg, sv.cfg, answer) /\ ~Echoed(cl.session, answer)
        /\ \A s \in sv.cache : s.id # sv.session.id
    BY <1>1, <1>3 DEF BestInv, NegoInv, Agreed, Unsaved, Echoed
  <2>2. CASE ClientAccepts(cl.cfg, cl.session, sv.cfg, answer)
    <3>1. /\ cl' = [cl EXCEPT !.session = session, !.name = NameSent(sv.cfg, answer)]
          /\ nego' = [nego EXCEPT !.stage = "accepted"]
      BY <2>1, <2>2 DEF AcceptServerHello
    <3>2. /\ session.id = sv.session.id /\ session.version = answer.session.version
          /\ session.suite = answer.session.suite
      BY <1>1 DEF IsSession
    <3> HIDE DEF session
    <3>3. cl'.session = session /\ cl'.cfg = cl.cfg /\ nego'.stage = "accepted"
      BY <1>1, <3>1 DEF NegoInv, NegoShape
    <3>4. SessionFits(cl.cfg, session)
      <4>1. /\ ~(answer.session.version < cl.cfg.min)
            /\ ~(answer.session.suite.tls12 /\ answer.session.version < TLS12)
        BY <2>2 DEF ClientAccepts, HelloFault
      <4>2. /\ answer.session.version = Lower(cl.cfg.max, sv.cfg.max)
            /\ {cl.cfg.min, cl.cfg.max, sv.cfg.max} \subseteq 1 .. 3
        BY <1>1, <2>1, ConfigAssumption DEF NewFits
      <4> QED BY <3>2, <4>1, <4>2 DEF SessionFits, Lower, TLS12
    <3> QED BY <1>1, <2>1, <3>2, <3>3, <3>4 DEF BestInv
  <2>3. CASE ~ClientAccepts(cl.cfg, cl.session, sv.cfg, answer)
    <3>1. cl' = cl /\ nego'.stage = "refused" /\ nego'.answer = answer
      BY <1>1, <2>3 DEF AcceptServerHello, NegoInv, NegoShape
    <3>2. RefusalFits(cl.cfg, sv.cfg, answer)
      BY <1>1, <2>1, <2>3, NewAccepted DEF RefusalFits
    <3> QED BY <1>1, <3>1, <3>2 DEF BestInv
  <2> QED BY <2>2, <2>3
<1> QED BY <1>2, <1>3

LEMMA RestKeepsBest ==
  ASSUME NegoInv, BestInv,
         SendClientHello \/ SendKeyExchange \/ ReadKeyExchange \/ Finish \/ Again \/ Evict
  PROVE  BestInv'
<1>1. CASE SendClientHello
  <2>1. nego'.stage = "hello" /\ nego'.hello = write_ClientHello(cl.cfg, cl.session)
    BY <1>1 DEF SendClientHello
  <2> QED BY <1>1, <2>1 DEF SendClientHello, BestInv
<1>2. CASE SendKeyExchange
  <2> DEFINE session == [cl.session EXCEPT !.secret = nego.count]
  <2>1. /\ cl' = [cfg |-> cl.cfg, session |-> session, name |-> cl.name] /\ sv' = sv
        /\ nego'.stage = "keyed" /\ nego.stage = "accepted"
    BY <1>2 DEF SendKeyExchange, NegoInv, NegoShape
  <2>2. /\ session.id = cl.session.id /\ session.version = cl.session.version
        /\ session.suite = cl.session.suite
    BY DEF NegoInv, NegoShape, IsSession
  <2>3. \A s \in sv.cache : s.id # cl.session.id
    BY <2>1 DEF NegoInv, Agreed, Unsaved
  <2> HIDE DEF session
  <2> QED BY <2>1, <2>2, <2>3 DEF BestInv, SessionFits
<1>3. CASE ReadKeyExchange
  <2>1. sv'.cfg = sv.cfg /\ sv'.cache = sv.cache /\ cl' = cl /\ nego'.stage = "finishing"
    BY <1>3 DEF ReadKeyExchange, NegoInv, NegoShape
  <2> QED BY <2>1 DEF BestInv
<1>4. CASE Finish
  <2>1. /\ cl' = cl /\ nego'.stage = "done" /\ sv'.cfg = sv.cfg /\ cl.session = sv.session
        /\ sv'.cache \subseteq sv.cache \cup {sv.session}
    BY <1>4 DEF Finish, NegoInv, NegoShape, Agreed
  <2> QED BY <2>1 DEF BestInv
<1>5. CASE Again
  <2>1. nego'.stage = "idle" /\ sv' = sv
    BY <1>5 DEF Again
  <2>2. CASE cl' = cl
    BY <2>1, <2>2 DEF BestInv
  <2>3. CASE cl' = [cl EXCEPT !.session.id = 0, !.name = "none"]
    <3>1. cl'.cfg = cl.cfg /\ cl'.session.id = 0
      BY <2>3 DEF NegoInv, NegoShape, IsSession
    <3> QED BY <2>1, <3>1 DEF BestInv, SessionFits, NegoInv, Numbered
  <2> QED BY <1>5, <2>2, <2>3 DEF Again
<1>6. CASE Evict
  <2>1. PICK s \in sv.cache : sv' = [sv EXCEPT !.cache = @ \ {s}]
    BY <1>6 DEF Evict
  <2>2. sv'.cfg = sv.cfg /\ sv'.cache \subseteq sv.cache
    BY <2>1 DEF NegoInv, NegoShape
  <2>3. nego.stage = "idle" /\ UNCHANGED <<cl, nego>>
    BY <1>6 DEF Evict
  <2> QED BY <2>2, <2>3 DEF BestInv
<1> QED BY <1>1, <1>2, <1>3, <1>4, <1>5, <1>6

(* AgreesOnBest: a server that answers a client takes the highest common   *)
(* version and the first suite, in the order of the end that decides, that *)
(* both can run; the client accepts it; and a handshake is only refused    *)
(* without such a version or suite, or for a fallback or a protocol name   *)
(* (read-ClientHello, choose, read-ServerHello, read-ServerKeyExchange).   *)
THEOREM BestAlwaysAgreed ==
  (\A c \in ClientConfigs : Equipped(c)) => (NegoSpec => []AgreesOnBest)
<1> SUFFICES ASSUME \A c \in ClientConfigs : Equipped(c)
             PROVE  NegoSpec => []AgreesOnBest
  OBVIOUS
<1>1. NegoInit => BestInv
  <2> SUFFICES ASSUME NegoInit
               PROVE  BestInv
    OBVIOUS
  <2>1. /\ cl.cfg \in ClientConfigs /\ cl.session = EmptySession
        /\ sv.cfg \in ServerConfigs /\ sv.cache = {} /\ nego.stage = "idle"
    BY DEF NegoInit
  <2>2. EmptySession.id = 0
    BY DEF EmptySession
  <2> QED BY <2>1, <2>2 DEF BestInv, SessionFits
<1>2. NegoInv /\ BestInv /\ [NegoNext]_negoVars => BestInv'
  <2>1. BestInv /\ UNCHANGED negoVars => BestInv'
    BY DEF negoVars, BestInv
  <2>2. BestInv => Equipped(cl.cfg)
    BY DEF BestInv
  <2> QED BY <2>1, <2>2, AnswerKeepsBest, AcceptKeepsBest, RestKeepsBest DEF NegoNext
<1>3. BestInv => AgreesOnBest
  BY DEF BestInv, AgreesOnBest, NewFits, RefusalFits, WorkablePlaces
<1> QED BY <1>1, <1>2, <1>3, NegotiationSafe, PTL DEF NegoSpec
=============================================================================

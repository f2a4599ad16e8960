---------------------------- MODULE Negotiation ----------------------------
(***************************************************************************)
(* What a client and a server of the library agree on: version, cipher     *)
(* suite, curve, hash function, protocol name, and the session, new or     *)
(* resumed.  Client hello and server hello are ssl_hs_client.c and         *)
(* ssl_hs_server.c, the choice of the suite is the policy of               *)
(* ssl_scert_single_rsa.c or ssl_scert_single_ec.c.                        *)
(*                                                                         *)
(* One connection after another, or one handshake after another on the     *)
(* same connection; any of them may break off in the middle.  The server   *)
(* keeps its sessions in a cache that may lose them.  Versions are numbers *)
(* (1, 2, 3 for TLS 1.0 to 1.2), hashes and curves have their identifiers, *)
(* a session identifier is the number of the session, 0 when it is empty.  *)
(***************************************************************************)
EXTENDS Naturals, Sequences, FiniteSets

CONSTANTS ClientConfigs, ServerConfigs,
          MaxClientSuites,   \* BR_MAX_CIPHER_SUITES
          MaxHandshakes      \* bound: handshakes of a behaviour

(* Versions, identifiers of hash functions and of curves, lists of suites  *)
(* and of names; br_ssl_engine_set_suites limits the number of suites.     *)
ASSUME ConfigAssumption ==
  /\ \A c \in ClientConfigs \cup ServerConfigs :
       /\ {c.min, c.max} \subseteq 1 .. 3 /\ c.hashes \subseteq 1 .. 6 /\ c.curves \subseteq Nat
       /\ Len(c.suites) \in 0 .. MaxClientSuites /\ DOMAIN c.suites = 1 .. Len(c.suites)
       /\ Len(c.names) \in Nat /\ DOMAIN c.names = 1 .. Len(c.names)
  /\ \A s \in ServerConfigs : s.key \in {"rsa", "ec"} /\ s.issuer \in {"rsa", "ec"}
  /\ MaxClientSuites \in Nat

(* Below TLS 1.2, the protocol itself needs MD5 and SHA-1.                 *)
ASSUME HashAssumption ==
  \A c \in ClientConfigs \cup ServerConfigs :
    c.min <= c.max /\ (c.min < 3 => {1, 2} \subseteq c.hashes)

VARIABLES cl,    \* the client: configuration and session parameters
          sv,    \* the server: configuration, session parameters, cache, choices
          nego   \* stage of the handshake, hellos under way

negoVars == <<cl, sv, nego>>

TLS12 == 3
MD5 == 1
SHA1 == 2
EmptySession == [id |-> 0, version |-> 0, suite |-> [kx |-> "none", tls12 |-> FALSE], secret |-> 0]

Has(seq, x) == \E i \in DOMAIN seq : seq[i] = x
Least(S) == CHOOSE x \in S : \A y \in S : x <= y
Lower(a, b) == IF a < b THEN a ELSE b

-----------------------------------------------------------------------------
(* The client hello.  The extensions for hash functions and for curves are *)
(* left out when the client has none.                                      *)
write_ClientHello(c, session) ==
  [version |-> c.max, id |-> session.id, suites |-> c.suites, fallback |-> c.fallback,
   hashes |-> IF c.hashes \ {MD5} = {} \/ c.signs = {} THEN [rsa |-> {SHA1}, ecdsa |-> {SHA1}]
              ELSE [rsa |-> IF "rsa" \in c.signs THEN c.hashes \ {MD5} ELSE {},
                    ecdsa |-> IF "ecdsa" \in c.signs THEN c.hashes \ {MD5} ELSE {}],
   curves |-> IF c.curves = {} THEN {23} ELSE c.curves,
   names |-> c.names]

-----------------------------------------------------------------------------
(* read-ClientHello.  The identifier of the client is copied into the      *)
(* session parameters, and the session of that number, if it is cached,    *)
(* over them.  It is resumed if the client also offers its suite and at    *)
(* least its version.                                                      *)
check_resume(session, cache, id) ==
  IF \E s \in cache : s.id = id THEN CHOOSE s \in cache : s.id = id
  ELSE [session EXCEPT !.id = id]

Resumes(found, cache, hello) ==
  /\ found \in cache
  /\ Has(hello.suites, found.suite)
  /\ found.version <= hello.version

(* The suites in the order of the server or of the client; those that both *)
(* know, by their places in it.                                            *)
Ordered(s, suites) == IF s.prefers THEN s.suites ELSE suites
CommonSuites(s, hello) ==
  LET suites == Ordered(s, hello.suites)
  IN  {i \in DOMAIN suites : Has(s.suites, suites[i]) /\ Has(hello.suites, suites[i])}

InappropriateFallback(s, hello) ==
  hello.fallback /\ s.min <= hello.version /\ hello.version < s.max

CommonHashes(s, hello) ==
  [rsa |-> hello.hashes.rsa \cap s.hashes, ecdsa |-> hello.hashes.ecdsa \cap s.hashes]

(* Mutant: the MAC of a suite is not looked at.                            *)
UsableAnyVersion(suite, version, hashes, curves) ==
  /\ suite.kx = "ECDHE_RSA" => hashes.rsa # {} /\ curves # {}
  /\ suite.kx = "ECDHE_ECDSA" => hashes.ecdsa # {} /\ curves # {}

(* ECDHE needs a hash function and a curve; a MAC other than SHA-1 needs   *)
(* TLS 1.2.                                                                *)
Usable(suite, version, hashes, curves) ==
  /\ suite.kx = "ECDHE_RSA" => hashes.rsa # {} /\ curves # {}
  /\ suite.kx = "ECDHE_ECDSA" => hashes.ecdsa # {} /\ curves # {}
  /\ suite.tls12 => version = TLS12

(* The first name of the server's list that the client has; 0 without      *)
(* lists, and a mark of its own without a common name.                     *)
NoCommonName == 65535
SelectedProtocol(names, offered) ==
  IF names = <<>> \/ offered = <<>> THEN 0
  ELSE IF \E i \in DOMAIN names : Has(offered, names[i])
  THEN Least({i \in DOMAIN names : Has(offered, names[i])})
  ELSE NoCommonName

-----------------------------------------------------------------------------
(* The policies for one certificate.  br_ssl_choose_hash has its own order *)
(* of preference: 4, 5, 6, 3, 2.                                           *)
Preferred == <<4, 5, 6, 3, 2>>
choose_hash(hashes) == Preferred[Least({i \in 1 .. 5 : Preferred[i] \in hashes})]

Chosen(s, suite, version, hashes) ==
  IF s.key = "rsa"
  THEN \/ suite.kx = "RSA" /\ "keyx" \in s.usages
       \/ suite.kx = "ECDHE_RSA" /\ "sign" \in s.usages /\ (version < TLS12 \/ hashes.rsa # {})
  ELSE \/ suite.kx = "ECDH_RSA" /\ "keyx" \in s.usages /\ s.issuer = "rsa"
       \/ suite.kx = "ECDH_ECDSA" /\ "keyx" \in s.usages /\ s.issuer = "ec"
       \/ suite.kx = "ECDHE_ECDSA" /\ "sign" \in s.usages /\ (version < TLS12 \/ hashes.ecdsa # {})

(* Under TLS 1.2 the signature has a hash function the client asked for;   *)
(* before, RSA has MD5 with SHA-1 (0), ECDSA has SHA-1.                    *)
SignatureHash(s, version, hashes) ==
  IF s.key = "rsa" THEN IF version < TLS12 THEN 0 ELSE choose_hash(hashes.rsa)
  ELSE IF version < TLS12 THEN SHA1 ELSE choose_hash(hashes.ecdsa)

(* Curve25519, or the curve with the lowest identifier, of those in the    *)
(* mask 0x38000000 if there are any.                                       *)
ExchangeCurve(curves) ==
  LET masked == curves \cap 27 .. 29
  IN  IF 29 \in curves THEN 29 ELSE Least(IF masked # {} THEN masked ELSE curves)

-----------------------------------------------------------------------------
(* The suites that are left, in order, and the one that the policy takes.  *)
UsableSuites(s, hello, version) ==
  {i \in CommonSuites(s, hello) :
     Usable(Ordered(s, hello.suites)[i], version, CommonHashes(s, hello), hello.curves \cap s.curves)}

Choices(s, hello, version) ==
  {i \in UsableSuites(s, hello, version) :
     Chosen(s, Ordered(s, hello.suites)[i], version, CommonHashes(s, hello))}

choose(s, hello, version) == Ordered(s, hello.suites)[Least(Choices(s, hello, version))]

(* The server's answer, as read-ClientHello, the policy and write-         *)
(* ServerHello come to it one after the other.  A session that is resumed  *)
(* brings its version and suite and skips the rest of the choices.         *)
Refused(reason) == [ok |-> FALSE, reason |-> reason]

ServerAnswer(s, session, cache, hello, fresh) ==
  LET found == check_resume(session, cache, hello.id)
      resumed == Resumes(found, cache, hello)
      version == IF resumed THEN found.version ELSE Lower(s.max, hello.version)
      chosen == choose(s, hello, version)
      name == SelectedProtocol(s.names, hello.names)
      ephemeral == chosen.kx \in {"ECDHE_RSA", "ECDHE_ECDSA"}
      hash == SignatureHash(s, version, CommonHashes(s, hello))
  IN  IF ~s.prefers /\ Cardinality(CommonSuites(s, hello)) > MaxClientSuites THEN Refused("too many suites")
      ELSE IF InappropriateFallback(s, hello) THEN Refused("fallback")
      ELSE IF hello.version < s.min THEN Refused("version")
      ELSE IF resumed
      THEN [ok |-> TRUE, resumed |-> TRUE, session |-> found, name |-> name,
            exchange |-> FALSE]
      ELSE IF name = NoCommonName /\ s.names_must_match THEN Refused("protocol")
      ELSE IF Choices(s, hello, version) = {} THEN Refused("suites")
      ELSE IF ephemeral /\ ~((IF hash = 0 THEN {MD5, SHA1} ELSE {hash}) \subseteq s.hashes)
      THEN Refused("hash")
      ELSE [ok |-> TRUE, resumed |-> FALSE, name |-> IF name = NoCommonName THEN 0 ELSE name,
            session |-> [found EXCEPT !.id = fresh, !.version = version, !.suite = chosen],
            exchange |-> ephemeral,
            curve |-> IF ephemeral THEN ExchangeCurve(hello.curves \cap s.curves) ELSE 0,
            hash |-> IF ephemeral THEN hash ELSE 0]

(* The name as the client gets it.                                         *)
NameSent(s, answer) == IF answer.name = 0 THEN "none" ELSE s.names[answer.name]

-----------------------------------------------------------------------------
(* read-ServerHello and read-ServerKeyExchange of the client.  An echo of  *)
(* its identifier resumes the session, whose version and suite must not    *)
(* have changed.                                                           *)
Echoed(session, answer) == session.id # 0 /\ answer.session.id = session.id

HelloFault(c, session, s, answer) ==
  \/ answer.session.version < c.min \/ answer.session.version > c.max
  \/ Echoed(session, answer) /\ <<answer.session.version, answer.session.suite>> # <<session.version, session.suite>>
  \/ ~Has(c.suites, answer.session.suite)
  \/ answer.session.suite.tls12 /\ answer.session.version < TLS12
  \/ NameSent(s, answer) # "none" /\ c.names_must_match /\ ~Has(c.names, NameSent(s, answer))
  \/ NameSent(s, answer) # "none" /\ c.names = <<>>

ExchangeFault(c, answer) ==
  answer.exchange /\
  \/ answer.curve \notin c.curves
  \/ ~((IF answer.hash = 0 THEN {MD5, SHA1} ELSE {answer.hash}) \subseteq c.hashes)
  \/ answer.session.suite.kx = "ECDHE_RSA" /\ "rsa" \notin c.signs
  \/ answer.session.suite.kx = "ECDHE_ECDSA" /\ "ecdsa" \notin c.signs

ClientAccepts(c, session, s, answer) ==
  ~HelloFault(c, session, s, answer) /\ ~ExchangeFault(c, answer)

-----------------------------------------------------------------------------
(* The handshake.  Secrets have numbers too, and the ones of a session are *)
(* computed by each end when it handles the ClientKeyExchange.             *)

NegoInit ==
  /\ cl \in [cfg : ClientConfigs, session : {EmptySession}, name : {"none"}]
  /\ sv \in [cfg : ServerConfigs, session : {EmptySession}, cache : {{}}, next : {1}, name : {0}]
  /\ nego = [stage |-> "idle", count |-> 0]

SendClientHello ==
  /\ nego.stage = "idle" /\ nego.count < MaxHandshakes
  /\ nego' = [stage |-> "hello", count |-> nego.count + 1,
              hello |-> write_ClientHello(cl.cfg, cl.session)]
  /\ UNCHANGED <<cl, sv>>

(* Mutant: the session is in the cache when its identifier is chosen.      *)
AnswerClientHelloSaves ==
  /\ nego.stage = "hello"
  /\ LET hello == nego.hello
         answer == ServerAnswer(sv.cfg, sv.session, sv.cache, hello, sv.next)
     IN  \/ /\ answer.ok
            /\ sv' = [sv EXCEPT !.session = answer.session, !.name = answer.name,
                        !.next = IF answer.resumed THEN @ ELSE @ + 1,
                        !.cache = @ \cup {answer.session}]
            /\ nego' = [stage |-> "answered", count |-> nego.count, hello |-> hello, answer |-> answer]
         \/ /\ ~answer.ok
            /\ UNCHANGED sv
            /\ nego' = [stage |-> "refused", count |-> nego.count, hello |-> hello, answer |-> answer]
  /\ UNCHANGED cl

(* A refusal leaves what check-resume put into the session parameters.     *)
AnswerClientHello ==
  /\ nego.stage = "hello"
  /\ LET hello == nego.hello
         answer == ServerAnswer(sv.cfg, sv.session, sv.cache, hello, sv.next)
     IN  \/ /\ answer.ok
            /\ sv' = [sv EXCEPT !.session = answer.session, !.name = answer.name,
                        !.next = IF answer.resumed THEN @ ELSE @ + 1]
            /\ nego' = [stage |-> "answered", count |-> nego.count, hello |-> hello, answer |-> answer]
         \/ /\ ~answer.ok
            /\ sv' = [sv EXCEPT !.session = check_resume(@, sv.cache, hello.id), !.name = 0]
            /\ nego' = [stage |-> "refused", count |-> nego.count, hello |-> hello, answer |-> answer]
  /\ UNCHANGED cl

(* The client takes over what is new.  A name without place in the list of *)
(* the server (NoCommonName) cannot be sent.  What a client refuses of such*)
(* a server is the version (NewAccepted, NegotiationProofs), which it reads*)
(* before it changes its session.                                          *)
AcceptServerHello ==
  /\ nego.stage = "answered" /\ nego.answer.name # NoCommonName
  /\ LET answer == nego.answer IN
     \/ /\ ClientAccepts(cl.cfg, cl.session, sv.cfg, answer)
        /\ cl' = [cl EXCEPT !.session = [answer.session EXCEPT !.secret = cl.session.secret],
                            !.name = NameSent(sv.cfg, answer)]
        /\ nego' = [nego EXCEPT !.stage = IF Echoed(cl.session, answer) THEN "finishing" ELSE "accepted"]
     \/ /\ ~ClientAccepts(cl.cfg, cl.session, sv.cfg, answer)
        /\ nego' = [nego EXCEPT !.stage = "refused"] /\ UNCHANGED cl
  /\ UNCHANGED sv

(* Each end has its secret, the client first.                              *)
SendKeyExchange ==
  /\ nego.stage = "accepted"
  /\ cl' = [cl EXCEPT !.session.secret = nego.count]
  /\ nego' = [nego EXCEPT !.stage = "keyed"]
  /\ UNCHANGED sv

ReadKeyExchange ==
  /\ nego.stage = "keyed"
  /\ sv' = [sv EXCEPT !.session.secret = nego.count]
  /\ nego' = [nego EXCEPT !.stage = "finishing"]
  /\ UNCHANGED cl

(* Both Finished messages went through; a new session is saved, unless the *)
(* cache holds its identifier already.                                     *)
Finish ==
  /\ nego.stage = "finishing"
  /\ nego' = [nego EXCEPT !.stage = "done"]
  /\ IF nego.answer.resumed \/ \E s \in sv.cache : s.id = sv.session.id THEN UNCHANGED sv
     ELSE sv' = [sv EXCEPT !.cache = @ \cup {sv.session}]
  /\ UNCHANGED cl

(* The next handshake: on the same connection, or on a new one, of which   *)
(* the client keeps its session or not (br_ssl_client_reset).              *)
Again ==
  /\ nego.stage # "idle"
  /\ nego' = [stage |-> "idle", count |-> nego.count]
  /\ \/ UNCHANGED cl
     \/ cl' = [cl EXCEPT !.session.id = 0, !.name = "none"]
  /\ UNCHANGED sv

(* Other sessions take the place of this one in the cache.                 *)
Evict ==
  /\ nego.stage = "idle" /\ sv.cache # {}
  /\ \E s \in sv.cache : sv' = [sv EXCEPT !.cache = @ \ {s}]
  /\ UNCHANGED <<cl, nego>>

NegoNext ==
  \/ SendClientHello \/ AnswerClientHello \/ AcceptServerHello \/ SendKeyExchange
  \/ ReadKeyExchange \/ Finish \/ Again \/ Evict

NegoSpec == NegoInit /\ [][NegoNext]_negoVars

-----------------------------------------------------------------------------
(* The reference: which suites both ends can run with each other.          *)
Workable(c, s, suite) ==
  LET version == Lower(c.max, s.max)
      shared == (c.hashes \cap s.hashes) \ {MD5}
  IN  /\ Has(c.suites, suite) /\ Has(s.suites, suite)
      /\ suite.tls12 => version = TLS12
      /\ \/ s.key = "rsa" /\ suite.kx = "RSA" /\ "keyx" \in s.usages
         \/ s.key = "ec" /\ suite.kx = (IF s.issuer = "rsa" THEN "ECDH_RSA" ELSE "ECDH_ECDSA") /\ "keyx" \in s.usages
         \/ /\ suite.kx = (IF s.key = "rsa" THEN "ECDHE_RSA" ELSE "ECDHE_ECDSA") /\ "sign" \in s.usages
            /\ (IF s.key = "rsa" THEN "rsa" ELSE "ecdsa") \in c.signs
            /\ shared # {} /\ c.curves \cap s.curves # {}

(* A server answers if there is a version and a suite that both ends have  *)
(* and can run, with the highest such version and the suite that comes     *)
(* first for the end whose order counts, and its client accepts that, in   *)
(* every handshake of every connection (read-ClientHello, read-ServerHello *)
(* and read-ServerKeyExchange, choose).                                    *)
AgreesOnBest ==
  LET c == cl.cfg
      s == sv.cfg
      suites == Ordered(s, c.suites)
      workable == {i \in DOMAIN suites : Workable(c, s, suites[i])}
      can == workable # {}
  IN  /\ nego.stage = "answered" /\ ~nego.answer.resumed =>
           /\ nego.answer.session.version = Lower(c.max, s.max)
           /\ can /\ nego.answer.session.suite = suites[Least(workable)]
      /\ nego.stage = "refused" =>
           \/ c.max < s.min \/ s.max < c.min \/ ~can
           \/ nego.answer.ok = FALSE /\ nego.answer.reason \in {"fallback", "protocol"}

(* Both ends end a handshake with the same session and protocol name, and  *)
(* the cache holds sessions of completed handshakes only, whatever broke   *)
(* off before (the parameters are changed in place by read-ClientHello,    *)
(* check-resume and read-ServerHello; save-session).                       *)
SameSession ==
  /\ nego.stage = "done" => cl.session = sv.session /\ sv.session.secret # 0
  /\ nego.stage = "done" => cl.name = NameSent(sv.cfg, nego.answer)
  /\ nego.stage \in {"finishing", "done"} => (Echoed(cl.session, nego.answer) /\ cl.session.secret = sv.session.secret)
  /\ \A s \in sv.cache : s.secret # 0 /\ s.id < sv.next

(* "the value is 0 if no match was performed", otherwise "1+n if the       *)
(* matching name has index n in the list" (bearssl_ssl.h:1082).            *)
SelectedProtocolIsOfList == sv.name \in 0 .. Len(sv.cfg.names)
=============================================================================

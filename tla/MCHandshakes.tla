---------------------------- MODULE MCHandshakes ----------------------------
(* Client and server side by side: a behaviour is either that of two       *)
(* engines with pipes between them, or of one server with any peer, or     *)
(* what the hellos of a client and a server negotiate.                     *)
EXTENDS TlsPair, Negotiation

(* Servers that ask for a certificate, insist on it, tolerate its lack,    *)
(* refuse renegotiations.                                                  *)
Option(kx, asks, tolerant, noreneg) ==
  [kx |-> kx, asks |-> asks, tolerant |-> tolerant, noreneg |-> noreneg]
FourOptions ==
  {Option("ECDHE", FALSE, FALSE, FALSE), Option("ECDHE", TRUE, FALSE, FALSE),
   Option("ECDHE", TRUE, TRUE, TRUE), Option("ECDH", TRUE, FALSE, FALSE)}

(* Two connections and a renegotiation; data, a renegotiation and a        *)
(* closure; closures from both sides.                                      *)
May(connections, writes, requests, closes, records) ==
  [connections |-> connections, writes |-> writes, requests |-> requests,
   closes |-> closes, records |-> records]
LimitsOf ==
  [client |-> {May(2, 0, 1, 0, 0), May(1, 1, 1, 1, 0), May(1, 1, 0, 2, 0)},
   anything |-> {May(1, 0, 0, 0, 5)},
   nobody |-> {May(0, 0, 0, 0, 0)}]

(* Configurations: suites in several orders, hash functions that are all   *)
(* there or all but one missing, curves in common or not, keys of both     *)
(* kinds; and protocol names and fallbacks.                                *)
Suite(kx, tls12) == [kx |-> kx, tls12 |-> tls12]
Ordinary == <<Suite("ECDHE_RSA", TRUE), Suite("RSA", FALSE)>>
Lists ==
  {<<Suite("RSA", FALSE)>>, Ordinary,
   <<Suite("RSA", FALSE), Suite("ECDHE_RSA", TRUE), Suite("ECDHE_ECDSA", FALSE)>>,
   <<Suite("ECDHE_ECDSA", TRUE), Suite("ECDHE_RSA", FALSE), Suite("ECDH_ECDSA", FALSE)>>}
Sane(c) == c.min <= c.max /\ (c.min < TLS12 <=> {MD5, SHA1} \subseteq c.hashes)

Clients ==
  {c \in [min : {1, 3}, max : {2, 3}, suites : Lists, fallback : {FALSE}, hashes : {{1, 2, 4}, {4}},
          signs : {{"rsa", "ecdsa"}, {"rsa"}}, curves : {{23, 29}, {24}},
          names : {<<"b", "a">>}, names_must_match : {FALSE}] :
     Sane(c) /\ ~(c.curves = {24} /\ c.signs = {"rsa"})}
  \cup [min : {1}, max : {2, 3}, suites : {Ordinary}, fallback : BOOLEAN, hashes : {{1, 2, 4}},
        signs : {{"rsa"}}, curves : {{23}},
        names : {<<>>, <<"c">>, <<"b", "a">>}, names_must_match : BOOLEAN]
Servers ==
  {s \in [min : {1, 3}, max : {2, 3}, suites : Lists, prefers : BOOLEAN, hashes : {{1, 2, 4}, {4}},
          curves : {{23, 29}}, names : {<<"a", "b">>}, names_must_match : BOOLEAN,
          key : {"rsa", "ec"}, usages : {{"sign", "keyx"}}, issuer : {"ec"}] :
     /\ Sane(s) /\ (s.hashes = {4} => ~s.prefers)
     /\ (s.names_must_match => s.suites = Ordinary /\ s.key = "rsa")}

-----------------------------------------------------------------------------
allVars == <<pairVars, negoVars>>

NoNegotiation ==
  /\ cl = [cfg |-> CHOOSE c \in ClientConfigs : TRUE, session |-> EmptySession, name |-> "none"]
  /\ sv = [cfg |-> CHOOSE c \in ServerConfigs : TRUE, session |-> EmptySession, cache |-> {},
           next |-> 1, name |-> 0]
  /\ nego = [stage |-> "off", count |-> 0]

Init ==
  \/ PairInit /\ NoNegotiation
  \/ NegoInit /\ Begin("nobody") /\ opts = Option("ECDHE", FALSE, FALSE, FALSE)

Next ==
  \/ PairNext /\ UNCHANGED negoVars
  \/ nego.stage # "off" /\ NegoNext /\ UNCHANGED pairVars

Spec == Init /\ [][Next]_allVars /\ PairFairness
=============================================================================

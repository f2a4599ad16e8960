--------------------------- MODULE PathValidation ---------------------------
(***************************************************************************)
(* What a trusted chain of certificates is, stated over the whole chain    *)
(* and without any order of evaluation.  X509Minimal decides the same      *)
(* question one piece of one certificate at a time.                        *)
(*                                                                         *)
(* Names, keys and signatures are abstract: a distinguished name stands    *)
(* for its hash, a key for its type and its numbers, and a signature for   *)
(* the key that made it.  A server name is the sequence of its labels, in  *)
(* lower case.                                                             *)
(***************************************************************************)
EXTENDS Integers, Sequences

CONSTANTS
    Dns,            \* the distinguished names
    Keys,           \* the public keys
    KeyType,        \* the type of each key
    WeakKeys,       \* the RSA keys shorter than min_rsa_size asks for
    Verifiers,      \* the key types whose verification was installed
    Anchors,        \* the trust anchors: records of dn, key and ca
    Now,            \* the date of the validation
    Certificates    \* the certificates that a server may send

(* A certificate is read in this order; a fault is at one of these places, *)
(* Length being the announced length itself.                               *)
Length     == 0
Issuer     == 1
Validity   == 2
Subject    == 3
PublicKey  == 4
Extensions == 5
Signature  == 6
Parts      == Length .. Signature
NoFault    == 7

NoLimit == -1     \* basic constraints without a path length
Usages  == {"keyx", "sign"}

Before(t, u) == IF t[1] = u[1] THEN t[2] < u[2] ELSE t[1] < u[1]

(* A name covers a host when it is the host, or when it is a wildcard over *)
(* all of the host but its first label.                                    *)
Covers(name, host) ==
    \/ name = host
    \/ /\ Len(name) >= 2 /\ name[1] = "*"
       /\ Len(host) >= 2 /\ Tail(name) = Tail(host)

Indices(c) == DOMAIN c.exts
Of(c, kind) == {j \in Indices(c) : c.exts[j].kind = kind}

Readable(c, part) == c.fault > part

InForce(c) == ~Before(Now, c.notBefore) /\ ~Before(c.notAfter, Now)

Signed(c, key) ==
    /\ Readable(c, Signature)
    /\ c.sigType \in Verifiers
    /\ c.sigType = KeyType[key]
    /\ c.signer = key

(* The names of the last alternative name extension, if there is one,      *)
(* replace the common names.                                               *)
NamedFor(c, host) ==
    \/ host = << >>
    \/ /\ Of(c, "names") = {}
       /\ \E name \in c.cn : Covers(name, host)
    \/ \E j \in Of(c, "names") :
          /\ \A i \in Of(c, "names") : i <= j
          /\ \E name \in c.exts[j].names : Covers(name, host)

(* No critical extension is beyond what the validator understands.         *)
Understood(c) ==
    \A j \in Indices(c) :
        LET x == c.exts[j]
        IN  x.critical => /\ x.kind # "other"
                          /\ x.kind = "policies" => x.plain

(* A certificate that may issue others, with so many issuers below it.     *)
MayIssue(c, below) ==
    /\ Of(c, "basic") # {}
    /\ \A j \in Of(c, "basic") :
          /\ c.exts[j].ca
          /\ c.exts[j].limit = NoLimit \/ c.exts[j].limit >= below
    /\ \A j \in Of(c, "usage") : "certSign" \in c.exts[j].bits

(* All that is asked of a certificate before its own signature.            *)
Sound(chain, i, host) ==
    LET c == chain[i]
    IN  /\ Readable(c, Extensions)
        /\ InForce(c)
        /\ c.key \notin WeakKeys
        /\ Understood(c)
        /\ IF i = 1
           THEN NamedFor(c, host)
           ELSE /\ c.subject = chain[i - 1].issuer
                /\ Signed(chain[i - 1], c.key)
                /\ MayIssue(c, i - 2)

Pinned(c)   == \E ta \in Anchors : ~ta.ca /\ ta.dn = c.subject /\ ta.key = c.key
Anchored(c) == \E ta \in Anchors : ta.ca /\ ta.dn = c.issuer /\ Signed(c, ta.key)

(* A chain is trusted when some beginning of it is sound and ends at a     *)
(* trust anchor: at once, for a server whose own key is one, or through    *)
(* the issuer of its last certificate.                                     *)
TrustedUpTo(chain, k, host) ==
    /\ \A i \in 1 .. k : Sound(chain, i, host)
    /\ (k = 1 /\ Pinned(chain[k])) \/ Anchored(chain[k])

Trusted(chain, host) == \E k \in DOMAIN chain : TrustedUpTo(chain, k, host)

(* What the key of a server may be used for: the last key usage extension  *)
(* says it, and without one it is everything.                              *)
UsagesOf(c) ==
    {u \in Usages : \A j \in Of(c, "usage") :
        (\A i \in Of(c, "usage") : i <= j) => u \in c.exts[j].bits}

Extension ==
    [kind : {"basic", "usage", "names", "policies", "ignored", "other"},
     critical : BOOLEAN, plain : BOOLEAN, ca : BOOLEAN,
     limit : Nat \cup {NoLimit},
     bits : SUBSET (Usages \cup {"certSign"}), names : SUBSET Seq(STRING)]

Date == Nat \X Nat

Certificate ==
    [issuer : Dns, subject : Dns, notBefore : Date, notAfter : Date,
     cn : SUBSET Seq(STRING), key : Keys, exts : Seq(Extension),
     sigType : {"rsa", "ec"}, signer : Keys,
     fault : Parts \cup {NoFault}, cut : BOOLEAN]

ASSUME KeysAssumption ==
    /\ KeyType \in [Keys -> {"rsa", "ec"}]
    /\ \A key \in WeakKeys : key \in Keys /\ KeyType[key] = "rsa"
    /\ Verifiers \subseteq {"rsa", "ec"}
    /\ Now \in Date

ASSUME CertificatesAssumption ==
    /\ \A c \in Certificates : c \in Certificate
    /\ \A ta \in Anchors : ta \in [dn : Dns, key : Keys, ca : BOOLEAN]
=============================================================================

-------------------------- MODULE X509MinimalProofs --------------------------
(***************************************************************************)
(* For every set of certificates, anchors and host names, the verdict of   *)
(* the engine is path validation, and the key that it hands out is that of *)
(* the server.  The engine keeps three hashes, one signature and one key;  *)
(* the invariant says of what certificate each of them is at every place   *)
(* of the decoder, what that certificate has passed so far, and, once an   *)
(* error is set, at which certificate the chain was lost.                  *)
(*                                                                         *)
(* The last section is about the dates in the certificates.                *)
(***************************************************************************)
EXTENDS X509Minimal, CertificateDates, TLAPS, SequenceTheorems

(* The certificates of the chain that were decoded to their end.           *)
Done == IF stage = "cert" /\ undecoded THEN Len(offered) - 1 ELSE Len(offered)

Counting ==
    /\ stage = "idle" => offered = << >> /\ err = "none" /\ num_certs = 0
    /\ stage \in {"chain", "ended"} => num_certs = Len(offered)
    /\ stage = "cert" => Len(offered) >= 1 /\ num_certs = Len(offered) - 1
    /\ stage = "ended" => err # "none"
    /\ stage # "ended" => err # "not_trusted"

(* What the decoder keeps of a certificate it has left.                    *)
Passed(chain, i, h) ==
    /\ Sound(chain, i, h)
    /\ Readable(chain[i], Signature)
    /\ ~Anchored(chain[i])

SignatureOf(c) == [type |-> c.sigType, by |-> c.signer]

Proceeding == err = "none" /\ stage \in {"chain", "cert"}

Behind ==
    Proceeding =>
        /\ ee <=> Done = 0
        /\ \A i \in 1 .. Done : Passed(offered, i, host)
        /\ Done >= 1 =>
              /\ ~Pinned(offered[1])
              /\ cert_sig = SignatureOf(offered[Done])
              /\ part <= Subject => saved_dn = offered[Done].issuer
              /\ pkey = offered[1].key
              /\ key_usages = UsagesOf(offered[1])
        /\ Done = Len(offered) => part = Issuer

(* The extensions read so far.                                             *)
OfUpTo(c, kind, e) == {j \in 1 .. e : c.exts[j].kind = kind}

NamedUpTo(c, h, e) ==
    \/ /\ OfUpTo(c, "names", e) = {}
       /\ \E name \in c.cn : Covers(name, h)
    \/ \E j \in OfUpTo(c, "names", e) :
          /\ \A i \in OfUpTo(c, "names", e) : i <= j
          /\ \E name \in c.exts[j].names : Covers(name, h)

UsagesUpTo(c, e) ==
    {u \in Usages : \A j \in OfUpTo(c, "usage", e) :
        (\A i \in OfUpTo(c, "usage", e) : i <= j) => u \in c.exts[j].bits}

ExtensionPassed(x, below) ==
    /\ x.critical => x.kind # "other" /\ (x.kind = "policies" => x.plain)
    /\ below >= 0 =>
          /\ x.kind = "basic" => x.ca /\ (x.limit = NoLimit \/ x.limit >= below)
          /\ x.kind = "usage" => "certSign" \in x.bits

ExtensionsRead(c) ==
    /\ ext <= Len(c.exts)
    /\ \A j \in 1 .. ext : ExtensionPassed(c.exts[j], Len(offered) - 2)
    /\ ~ee => (basic <=> OfUpTo(c, "basic", ext) # {})
    /\ ee => /\ named <=> NamedUpTo(c, host, ext)
             /\ key_usages = UsagesUpTo(c, ext)

Current ==
    (Proceeding /\ Done < Len(offered)) =>
        LET c == Cert
        IN  /\ c.fault >= part
            /\ part > Issuer =>
                  /\ part <= Subject => next_dn = c.issuer
                  /\ ee /\ part < Extensions => key_usages = Usages
            /\ part > Validity => InForce(c)
            /\ part > Subject =>
                  /\ saved_dn = c.issuer
                  /\ current_dn = c.subject
                  /\ ~ee => c.subject = offered[Len(offered) - 1].issuer
            /\ ee /\ part = PublicKey =>
                  (named <=> \E name \in c.cn : Covers(name, host))
            /\ part > PublicKey =>
                  /\ c.key \notin WeakKeys
                  /\ ee => pkey = c.key
                  /\ ~ee => Signed(offered[Len(offered) - 1], c.key)
            /\ part = Extensions => ExtensionsRead(c)
            /\ part = Signature =>
                  /\ Sound(offered, Len(offered), host)
                  /\ ee => ~Pinned(c) /\ key_usages = UsagesOf(c)

(* Where a chain is lost: nothing up to this certificate is trusted, and   *)
(* nothing after it can be.                                                *)
LostAt(chain, i, h) ==
    /\ \A k \in 1 .. i : ~TrustedUpTo(chain, k, h)
    /\ ~Sound(chain, i, h) \/ ~Readable(chain[i], Signature)

Concluded ==
    /\ err = "ok" =>
          /\ Trusted(offered, host)
          /\ pkey = offered[1].key
          /\ key_usages = UsagesOf(offered[1])
    /\ err = "not_trusted" /\ num_certs > 0 =>
          /\ pkey = offered[1].key
          /\ key_usages = UsagesOf(offered[1])
    /\ err = "not_trusted" => num_certs > 0
    /\ err \notin {"none", "ok"} =>
          IF stage = "ended" THEN ~Trusted(offered, host)
          ELSE \E i \in DOMAIN offered : LostAt(offered, i, host)

IInv == TypeOK /\ Counting /\ Behind /\ Current /\ Concluded

-----------------------------------------------------------------------------

(* Sequences of certificates.                                              *)
LEMMA ElementTypes ==
    ASSUME NEW chain \in Seq(Certificates), NEW i \in DOMAIN chain
    PROVE  /\ Len(chain) \in Nat /\ i \in Nat /\ 1 <= i /\ i <= Len(chain)
           /\ chain[i] \in Certificates
           /\ chain[i] \in Certificate
BY CertificatesAssumption

LEMMA CertificateFields ==
    ASSUME NEW c \in Certificate
    PROVE  /\ c.fault \in Nat /\ c.fault <= NoFault
           /\ c.issuer \in Dns /\ c.subject \in Dns /\ c.key \in Keys
           /\ c.sigType \in {"rsa", "ec"} /\ c.signer \in Keys
           /\ Len(c.exts) \in Nat
           /\ Indices(c) = 1 .. Len(c.exts)
           /\ \A j \in 1 .. Len(c.exts) : c.exts[j] \in Extension
BY DEF Certificate, Parts, NoFault, Length, Signature, Indices

(* What is said of a certificate in its chain is not changed by the        *)
(* certificates that follow it.                                            *)
LEMMA PrefixStays ==
    ASSUME NEW chain \in Seq(Certificates), NEW c \in Certificates, NEW h,
           NEW i \in 1 .. Len(chain)
    PROVE  /\ Append(chain, c)[i] = chain[i]
           /\ Sound(Append(chain, c), i, h) <=> Sound(chain, i, h)
<1>1. \A j \in 1 .. Len(chain) : Append(chain, c)[j] = chain[j]
    OBVIOUS
<1>2. Append(chain, c)[i] = chain[i]
    BY <1>1
<1>3. i # 1 => Append(chain, c)[i - 1] = chain[i - 1]
    BY <1>1
<1>4. QED
    BY <1>2, <1>3 DEF Sound

LEMMA TrustStays ==
    ASSUME NEW chain \in Seq(Certificates), NEW c \in Certificates, NEW h,
           NEW k \in 1 .. Len(chain)
    PROVE  TrustedUpTo(Append(chain, c), k, h) <=> TrustedUpTo(chain, k, h)
<1>1. \A i \in 1 .. k : i \in 1 .. Len(chain)
    OBVIOUS
<1>2. \A i \in 1 .. k :
         Sound(Append(chain, c), i, h) <=> Sound(chain, i, h)
    BY <1>1, PrefixStays
<1>3. Append(chain, c)[k] = chain[k]
    BY PrefixStays
<1>4. QED
    BY <1>2, <1>3 DEF TrustedUpTo

LEMMA TrustedStays ==
    ASSUME NEW chain \in Seq(Certificates), NEW c \in Certificates, NEW h,
           Trusted(chain, h)
    PROVE  Trusted(Append(chain, c), h)
<1>1. PICK k \in DOMAIN chain : TrustedUpTo(chain, k, h)
    BY DEF Trusted
<1>2. k \in 1 .. Len(chain) /\ k \in DOMAIN Append(chain, c)
    OBVIOUS
<1>3. TrustedUpTo(Append(chain, c), k, h)
    BY <1>1, <1>2, TrustStays
<1>4. QED
    BY <1>2, <1>3 DEF Trusted

LEMMA LostStays ==
    ASSUME NEW chain \in Seq(Certificates), NEW c \in Certificates, NEW h,
           NEW i \in DOMAIN chain, LostAt(chain, i, h)
    PROVE  i \in DOMAIN Append(chain, c) /\ LostAt(Append(chain, c), i, h)
<1>1. i \in 1 .. Len(chain) /\ i \in DOMAIN Append(chain, c)
    OBVIOUS
<1>2. Append(chain, c)[i] = chain[i]
    BY <1>1, PrefixStays
<1>3. Sound(Append(chain, c), i, h) <=> Sound(chain, i, h)
    BY <1>1, PrefixStays
<1>4. \A k \in 1 .. i : ~TrustedUpTo(Append(chain, c), k, h)
    <2> SUFFICES ASSUME NEW k \in 1 .. i
                 PROVE  ~TrustedUpTo(Append(chain, c), k, h)
        OBVIOUS
    <2>1. k \in 1 .. Len(chain)
        BY <1>1
    <2>2. ~TrustedUpTo(chain, k, h)
        BY DEF LostAt
    <2>3. QED
        BY <2>1, <2>2, TrustStays
<1>5. QED
    BY <1>1, <1>2, <1>3, <1>4 DEF LostAt

(* A certificate that is not sound, or whose signature cannot be read,     *)
(* ends every path through it.                                             *)
LEMMA LostIsNotTrusted ==
    ASSUME NEW chain \in Seq(Certificates), NEW h,
           NEW i \in DOMAIN chain, LostAt(chain, i, h)
    PROVE  ~Trusted(chain, h)
<1> SUFFICES ASSUME NEW k \in DOMAIN chain, TrustedUpTo(chain, k, h)
             PROVE  FALSE
    BY DEF Trusted
<1>1. k \in Nat /\ i \in Nat /\ 1 <= i /\ 1 <= k
    OBVIOUS
<1>2. i < k
    BY <1>1 DEF LostAt
<1>3. Sound(chain, i, h)
    BY <1>1, <1>2 DEF TrustedUpTo
<1>4. Sound(chain, i + 1, h)
    BY <1>1, <1>2 DEF TrustedUpTo
<1>5. Signed(chain[i], chain[i + 1].key)
    <2>1. i + 1 # 1 /\ (i + 1) - 1 = i
        BY <1>1
    <2>2. QED
        BY <1>4, <2>1 DEF Sound
<1>6. Readable(chain[i], Signature)
    BY <1>5 DEF Signed
<1>7. QED
    BY <1>3, <1>6 DEF LostAt

-----------------------------------------------------------------------------

(* One signature under one key.                                            *)
LEMMA VerifyIsSigned ==
    ASSUME NEW c \in Certificate, NEW key \in Keys, Readable(c, Signature)
    PROVE  (verify_signature(SignatureOf(c), key) = "none") <=> Signed(c, key)
BY DEF verify_signature, SignatureOf, Signed

(* One more extension.                                                     *)
LEMMA OneMore ==
    ASSUME NEW c, NEW e \in Nat, NEW kind
    PROVE  OfUpTo(c, kind, e + 1) =
              IF c.exts[e + 1].kind = kind
              THEN OfUpTo(c, kind, e) \cup {e + 1} ELSE OfUpTo(c, kind, e)
BY DEF OfUpTo

LEMMA NamedOneMore ==
    ASSUME NEW c, NEW h, NEW e \in Nat
    PROVE  NamedUpTo(c, h, e + 1) <=>
              IF c.exts[e + 1].kind = "names"
              THEN \E name \in c.exts[e + 1].names : Covers(name, h)
              ELSE NamedUpTo(c, h, e)
<1>1. CASE c.exts[e + 1].kind = "names"
    <2>1. OfUpTo(c, "names", e + 1) = OfUpTo(c, "names", e) \cup {e + 1}
        BY <1>1, OneMore
    <2>2. \A i \in OfUpTo(c, "names", e) : i \in Nat /\ i <= e
        BY DEF OfUpTo
    <2>3. \A j \in OfUpTo(c, "names", e + 1) :
             (\A i \in OfUpTo(c, "names", e + 1) : i <= j) <=> j = e + 1
        BY <2>1, <2>2
    <2>4. QED
        BY <1>1, <2>1, <2>3 DEF NamedUpTo
<1>2. CASE c.exts[e + 1].kind # "names"
    <2>1. OfUpTo(c, "names", e + 1) = OfUpTo(c, "names", e)
        BY <1>2, OneMore
    <2>2. QED
        BY <1>2, <2>1 DEF NamedUpTo
<1>3. QED
    BY <1>1, <1>2

LEMMA UsagesOneMore ==
    ASSUME NEW c, NEW e \in Nat
    PROVE  UsagesUpTo(c, e + 1) =
              IF c.exts[e + 1].kind = "usage"
              THEN c.exts[e + 1].bits \cap Usages ELSE UsagesUpTo(c, e)
<1>1. CASE c.exts[e + 1].kind = "usage"
    <2>1. OfUpTo(c, "usage", e + 1) = OfUpTo(c, "usage", e) \cup {e + 1}
        BY <1>1, OneMore
    <2>2. \A i \in OfUpTo(c, "usage", e) : i \in Nat /\ i <= e
        BY DEF OfUpTo
    <2>3. \A j \in OfUpTo(c, "usage", e + 1) :
             (\A i \in OfUpTo(c, "usage", e + 1) : i <= j) <=> j = e + 1
        BY <2>1, <2>2
    <2>4. e + 1 \in OfUpTo(c, "usage", e + 1)
        BY <2>1
    <2>5. QED
        BY <1>1, <2>3, <2>4 DEF UsagesUpTo
<1>2. CASE c.exts[e + 1].kind # "usage"
    <2>1. OfUpTo(c, "usage", e + 1) = OfUpTo(c, "usage", e)
        BY <1>2, OneMore
    <2>2. QED
        BY <1>2, <2>1 DEF UsagesUpTo
<1>3. QED
    BY <1>1, <1>2

(* None and all of the extensions.                                         *)
LEMMA NoneYet ==
    ASSUME NEW c, NEW h
    PROVE  /\ \A kind : OfUpTo(c, kind, 0) = {}
           /\ NamedUpTo(c, h, 0) <=> \E name \in c.cn : Covers(name, h)
           /\ UsagesUpTo(c, 0) = Usages
<1>1. \A kind : OfUpTo(c, kind, 0) = {}
    BY DEF OfUpTo
<1>2. QED
    BY <1>1 DEF NamedUpTo, UsagesUpTo

LEMMA AllRead ==
    ASSUME NEW c \in Certificate, NEW h
    PROVE  /\ \A kind : OfUpTo(c, kind, Len(c.exts)) = Of(c, kind)
           /\ NamedFor(c, h) <=> h = << >> \/ NamedUpTo(c, h, Len(c.exts))
           /\ UsagesUpTo(c, Len(c.exts)) = UsagesOf(c)
<1>1. \A kind : OfUpTo(c, kind, Len(c.exts)) = Of(c, kind)
    BY CertificateFields DEF OfUpTo, Of
<1>2. NamedFor(c, h) <=> h = << >> \/ NamedUpTo(c, h, Len(c.exts))
    BY <1>1 DEF NamedFor, NamedUpTo
<1>3. UsagesUpTo(c, Len(c.exts)) = UsagesOf(c)
    BY <1>1 DEF UsagesUpTo, UsagesOf
<1>4. QED
    BY <1>1, <1>2, <1>3

(* When every extension was passed, a certificate is understood and, below *)
(* the first, may issue the one before it.                                 *)
LEMMA AllPassed ==
    ASSUME NEW c \in Certificate, NEW below \in Int,
           \A j \in 1 .. Len(c.exts) : ExtensionPassed(c.exts[j], below)
    PROVE  /\ Understood(c)
           /\ below >= 0 /\ Of(c, "basic") # {} => MayIssue(c, below)
BY CertificateFields DEF ExtensionPassed, Understood, MayIssue, Of

LEMMA NotPassed ==
    ASSUME NEW c \in Certificate, NEW below \in Int, NEW j \in 1 .. Len(c.exts),
           ~ExtensionPassed(c.exts[j], below)
    PROVE  ~Understood(c) \/ (below >= 0 /\ ~MayIssue(c, below))
BY CertificateFields DEF ExtensionPassed, Understood, MayIssue, Of

-----------------------------------------------------------------------------

USE DEF Issuer, Validity, Subject, PublicKey, Extensions, Signature, Length,
        NoFault, NoLimit

(* The type invariant in two parts: what is not Boolean, and what is.      *)
DataOK ==
    /\ stage \in {"idle", "chain", "cert", "ended"}
    /\ offered \in Seq(Certificates)
    /\ err \in Errors \cup {"none", "ok"}
    /\ num_certs \in Nat
    /\ {current_dn, next_dn, saved_dn} \subseteq Dns \cup {NoDn}
    /\ pkey \in Keys \cup {NoKey}
    /\ key_usages \subseteq Usages
    /\ cert_sig \in [type : {"rsa", "ec", "none"}, by : Keys \cup {NoKey}]
    /\ part \in Issuer .. Signature /\ ext \in Nat

FlagsOK ==
    undecoded \in BOOLEAN /\ ee \in BOOLEAN /\ named \in BOOLEAN /\ basic \in BOOLEAN

LEMMA TypeParts == TypeOK <=> DataOK /\ FlagsOK
BY Zenon DEF TypeOK, DataOK, FlagsOK

LEMMA TypeInit == Init => TypeOK
<1> SUFFICES ASSUME Init PROVE DataOK /\ FlagsOK
    BY TypeParts
<1>1. DataOK
    BY DEF Init, DataOK, NoSig
<1>2. FlagsOK
    BY DEF Init, FlagsOK
<1>3. QED
    BY <1>1, <1>2

(* The current certificate, while there is one.                            *)
LEMMA CurrentType ==
    ASSUME TypeOK, Counting, stage = "cert"
    PROVE  /\ Len(offered) \in Nat /\ Len(offered) >= 1
           /\ Len(offered) \in DOMAIN offered
           /\ Cert \in Certificates /\ Cert \in Certificate
<1>1. offered \in Seq(Certificates) /\ Len(offered) >= 1
    BY TypeParts DEF DataOK, Counting
<1>2. Len(offered) \in DOMAIN offered
    BY <1>1
<1>3. QED
    BY <1>1, <1>2, ElementTypes DEF Cert

LEMMA DataStep ==
    ASSUME DataOK, FlagsOK, Counting, [Next]_vars
    PROVE  DataOK'
<1>1. CASE StartChain
    BY <1>1 DEF StartChain, DataOK, hashes
<1>2. CASE StartCert
    <2>1. PICK c \in Certificates : offered' = Append(offered, c)
        BY <1>2 DEF StartCert
    <2>2. offered' \in Seq(Certificates)
        BY <2>1 DEF DataOK
    <2>3. err' \in Errors \cup {"none", "ok"}
        BY <1>2 DEF StartCert, DataOK, Errors
    <2>4. QED
        BY <1>2, <2>2, <2>3 DEF StartCert, DataOK, hashes, locals
<1>3. CASE EndCert
    <2>1. err' \in Errors \cup {"none", "ok"}
        BY <1>3 DEF EndCert, DataOK, Errors
    <2>2. QED
        BY <1>3, <2>1 DEF EndCert, DataOK, hashes, locals
<1>4. CASE EndChain
    <2>1. err' \in Errors \cup {"none", "ok"}
        BY <1>4 DEF EndChain, DataOK, Errors
    <2>2. QED
        BY <1>4, <2>1 DEF EndChain, DataOK, hashes, locals
<1>5. CASE xm_append
    <2>1. stage = "cert" /\ outer' = outer /\ num_certs' = num_certs
        BY <1>5 DEF xm_append, BadEncoding, ReadIssuer, ReadValidity,
            ReadSubject, ReadPublicKey, BasicConstraints, KeyUsage,
            SubjectAltName, OtherExtension, EndExtensions, ReadSignature,
            Reading, Reading1
    <2>2. /\ Cert.issuer \in Dns /\ Cert.subject \in Dns /\ Cert.key \in Keys
          /\ Cert.sigType \in {"rsa", "ec"} /\ Cert.signer \in Keys
        BY <2>1, TypeParts, CurrentType, CertificateFields
    <2>3. CASE BadEncoding
        BY <2>3 DEF BadEncoding, DataOK, Errors, outer, hashes, locals
    <2>4. CASE ReadIssuer
        BY <2>2, <2>4 DEF ReadIssuer, DataOK, outer
    <2>5. CASE ReadValidity
        BY <2>5 DEF ReadValidity, DataOK, Errors, outer, hashes
    <2>6. CASE ReadSubject
        BY <2>2, <2>6 DEF ReadSubject, DataOK, Errors, outer
    <2>7. CASE ReadPublicKey
        <3>1. err' \in Errors \cup {"none"}
            BY <2>7 DEF ReadPublicKey, verify_signature, Errors
        <3>2. pkey' \in Keys \cup {NoKey}
            BY <2>2, <2>7 DEF ReadPublicKey, DataOK
        <3>3. part' \in Issuer .. Signature /\ ext' \in Nat
            BY <2>7 DEF ReadPublicKey, DataOK
        <3>4. QED
            BY <2>7, <3>1, <3>2, <3>3 DEF ReadPublicKey, DataOK, outer, hashes
    <2>8. CASE BasicConstraints
        BY <2>8 DEF BasicConstraints, PassUnless, DataOK, Errors, outer, hashes
    <2>9. CASE KeyUsage
        BY <2>9 DEF KeyUsage, PassUnless, DataOK, Errors, outer, hashes
    <2>10. CASE SubjectAltName
        BY <2>10 DEF SubjectAltName, DataOK, outer, hashes
    <2>11. CASE OtherExtension
        <3>1. err' \in Errors \cup {"none", "ok"} /\ ext' \in Nat
            BY <2>11 DEF OtherExtension, PassUnless, DataOK, Errors
        <3>2. QED
            BY <2>11, <3>1 DEF OtherExtension, DataOK, outer, hashes
    <2>12. CASE EndExtensions
        <3>1. err' \in Errors \cup {"none", "ok"} /\ part' \in Issuer .. Signature
            BY <2>12 DEF EndExtensions, DataOK, Errors
        <3>2. QED
            BY <2>12, <3>1 DEF EndExtensions, DataOK, outer, hashes
    <2>13. CASE ReadSignature
        BY <2>2, <2>13 DEF ReadSignature, DataOK, outer, hashes
    <2>14. QED
        BY <1>5, <2>3, <2>4, <2>5, <2>6, <2>7, <2>8, <2>9, <2>10, <2>11,
           <2>12, <2>13 DEF xm_append
<1>6. CASE UNCHANGED vars
    BY <1>6 DEF vars, DataOK, hashes, locals
<1>7. QED
    BY <1>1, <1>2, <1>3, <1>4, <1>5, <1>6 DEF Next

LEMMA FlagsStep ==
    ASSUME FlagsOK, [Next]_vars
    PROVE  FlagsOK'
<1>1. CASE StartChain
    BY <1>1 DEF StartChain, FlagsOK
<1>2. CASE StartCert
    BY <1>2 DEF StartCert, FlagsOK, locals
<1>3. CASE EndCert
    BY <1>3 DEF EndCert, FlagsOK, locals
<1>4. CASE EndChain
    BY <1>4 DEF EndChain, FlagsOK, locals
<1>5. CASE xm_append
    BY <1>5 DEF xm_append, BadEncoding, ReadIssuer, ReadValidity,
        ReadSubject, ReadPublicKey, BasicConstraints, KeyUsage,
        SubjectAltName, OtherExtension, EndExtensions, ReadSignature,
        FlagsOK, locals
<1>6. CASE UNCHANGED vars
    BY <1>6 DEF vars, FlagsOK, locals
<1>7. QED
    BY <1>1, <1>2, <1>3, <1>4, <1>5, <1>6 DEF Next

-----------------------------------------------------------------------------

(* The decoder is inside a certificate.                                    *)
Inside == stage = "cert" /\ err = "none" /\ undecoded

LEMMA InsideFacts ==
    ASSUME IInv, Inside
    PROVE  /\ Proceeding /\ Done = Len(offered) - 1 /\ Done < Len(offered)
           /\ Len(offered) \in Nat /\ Len(offered) >= 1
           /\ Len(offered) \in DOMAIN offered
           /\ Cert = offered[Len(offered)]
           /\ Cert \in Certificates /\ Cert \in Certificate
           /\ num_certs = Len(offered) - 1
           /\ ee <=> Len(offered) = 1
<1>1. /\ Proceeding /\ Done = Len(offered) - 1
      /\ num_certs = Len(offered) - 1
    BY DEF IInv, Inside, Proceeding, Done, Counting
<1>2. /\ Len(offered) \in Nat /\ Len(offered) >= 1
      /\ Len(offered) \in DOMAIN offered
      /\ Cert \in Certificates /\ Cert \in Certificate
    BY CurrentType DEF IInv, Inside
<1>3. ee <=> Done = 0
    BY <1>1 DEF IInv, Behind
<1>4. QED
    BY <1>1, <1>2, <1>3 DEF Cert

LEMMA NotFirst ==
    ASSUME IInv, Inside, ~ee
    PROVE  Proceeding /\ Done = Len(offered) - 1 /\ Done >= 1
<1>1. Len(offered) # 1
    BY InsideFacts
<1>2. Proceeding /\ Done = Len(offered) - 1 /\ Len(offered) \in Nat
      /\ Len(offered) >= 1
    BY InsideFacts
<1>3. QED
    BY <1>1, <1>2

(* What it takes for the current certificate to be sound.                  *)
LEMMA SoundHere ==
    ASSUME IInv, Inside
    PROVE  Sound(offered, Len(offered), host) <=>
              /\ Readable(Cert, Extensions) /\ InForce(Cert)
              /\ Cert.key \notin WeakKeys /\ Understood(Cert)
              /\ ee => NamedFor(Cert, host)
              /\ ~ee => /\ Cert.subject = offered[Len(offered) - 1].issuer
                        /\ Signed(offered[Len(offered) - 1], Cert.key)
                        /\ MayIssue(Cert, Len(offered) - 2)
<1>1. /\ Cert = offered[Len(offered)]
      /\ ee <=> Len(offered) = 1
    BY InsideFacts
<1>2. CASE ee
    BY <1>1, <1>2 DEF Sound
<1>3. CASE ~ee
    BY <1>1, <1>3 DEF Sound
<1>4. QED
    BY <1>2, <1>3

(* Nothing before the current certificate was trusted.                     *)
LEMMA NotTrustedBefore ==
    ASSUME IInv, Inside, NEW k \in 1 .. (Len(offered) - 1)
    PROVE  ~TrustedUpTo(offered, k, host)
<1>1. /\ Done = Len(offered) - 1 /\ Len(offered) \in Nat /\ Done >= 1
      /\ Proceeding
    BY InsideFacts
<1>2. Passed(offered, k, host) /\ ~Pinned(offered[1])
    BY <1>1 DEF IInv, Behind
<1>3. QED
    BY <1>2 DEF Passed, TrustedUpTo

LEMMA LostHere ==
    ASSUME IInv, Inside, ~Sound(offered, Len(offered), host)
    PROVE  LostAt(offered, Len(offered), host)
<1>1. Len(offered) \in Nat /\ Len(offered) >= 1
    BY InsideFacts
<1>2. ~TrustedUpTo(offered, Len(offered), host)
    BY <1>1 DEF TrustedUpTo
<1>3. \A k \in 1 .. Len(offered) : ~TrustedUpTo(offered, k, host)
    <2> SUFFICES ASSUME NEW k \in 1 .. Len(offered)
                 PROVE  ~TrustedUpTo(offered, k, host)
        OBVIOUS
    <2>1. k = Len(offered) \/ k \in 1 .. (Len(offered) - 1)
        BY <1>1
    <2>2. QED
        BY <1>2, <2>1, NotTrustedBefore
<1>4. QED
    BY <1>3 DEF LostAt

LEMMA LostAtSignature ==
    ASSUME IInv, Inside, ~Readable(Cert, Signature), ee => ~Pinned(Cert)
    PROVE  LostAt(offered, Len(offered), host)
<1>1. /\ Len(offered) \in Nat /\ Len(offered) >= 1
      /\ Cert = offered[Len(offered)]
      /\ ee <=> Len(offered) = 1
    BY InsideFacts
<1>2. ~Anchored(Cert)
    BY DEF Anchored, Signed
<1>3. ~TrustedUpTo(offered, Len(offered), host)
    BY <1>1, <1>2 DEF TrustedUpTo
<1>4. \A k \in 1 .. Len(offered) : ~TrustedUpTo(offered, k, host)
    <2> SUFFICES ASSUME NEW k \in 1 .. Len(offered)
                 PROVE  ~TrustedUpTo(offered, k, host)
        OBVIOUS
    <2>1. k = Len(offered) \/ k \in 1 .. (Len(offered) - 1)
        BY <1>1
    <2>2. QED
        BY <1>3, <2>1, NotTrustedBefore
<1>5. QED
    BY <1>1, <1>4 DEF LostAt

(* A step that ends the chain in the current certificate.                  *)
LEMMA FailStep ==
    ASSUME IInv, Inside, UNCHANGED <<outer, num_certs>>,
           err' \notin {"none", "ok", "not_trusted"},
           LostAt(offered, Len(offered), host)
    PROVE  Counting' /\ Behind' /\ Current' /\ Concluded'
<1>1. stage' = "cert" /\ offered' = offered /\ host' = host
      /\ num_certs' = num_certs
    BY DEF outer, Inside
<1>2. Len(offered) \in DOMAIN offered
    BY InsideFacts
<1>3. Counting'
    BY <1>1 DEF Counting, IInv, Inside
<1>4. ~Proceeding'
    BY DEF Proceeding
<1>5. Concluded'
    BY <1>1, <1>2 DEF Concluded
<1>6. QED
    BY <1>3, <1>4, <1>5 DEF Behind, Current

(* A step further inside the certificate keeps what was left behind.       *)
LEMMA AdvanceStep ==
    ASSUME IInv, Inside, UNCHANGED <<outer, num_certs, undecoded, cert_sig>>,
           ee' <=> ee, err' = "none",
           part' \in Nat, part <= part',
           part' <= Subject => saved_dn' = saved_dn,
           ~ee => UNCHANGED <<pkey, key_usages>>
    PROVE  Counting' /\ Behind' /\ Concluded' /\ Proceeding' /\ Done' = Done
<1>1. /\ stage' = stage /\ offered' = offered /\ host' = host
      /\ num_certs' = num_certs /\ undecoded' = undecoded
    BY DEF outer
<1>2. Counting'
    BY <1>1 DEF Counting, IInv, Inside
<1>3. Done' = Done /\ Proceeding'
    BY <1>1 DEF Done, Proceeding, Inside
<1>4. Behind'
    <2>1. /\ ee <=> Done = 0
          /\ \A i \in 1 .. Done : Passed(offered, i, host)
          /\ Done >= 1 =>
                /\ ~Pinned(offered[1])
                /\ cert_sig = SignatureOf(offered[Done])
                /\ part <= Subject => saved_dn = offered[Done].issuer
                /\ pkey = offered[1].key
                /\ key_usages = UsagesOf(offered[1])
        BY InsideFacts DEF IInv, Behind
    <2>2. /\ Done < Len(offered) /\ Done \in Nat /\ Len(offered) \in Nat
        BY InsideFacts
    <2>3. part \in Nat
        BY TypeParts DEF IInv, DataOK
    <2>4. Done >= 1 => ~ee
        BY <2>1, <2>2
    <2>5. part' <= Subject => part <= Subject
        BY <2>3
    <2>6. QED
        BY <1>1, <1>3, <2>1, <2>2, <2>4, <2>5 DEF Behind
<1>5. Concluded'
    BY DEF Concluded
<1>6. QED
    BY <1>2, <1>3, <1>4, <1>5

-----------------------------------------------------------------------------

Kept == Counting' /\ Behind' /\ Current' /\ Concluded'

(* What the invariant says at the place that an action reads.              *)
LEMMA CurrentHere ==
    ASSUME IInv, Inside
    PROVE  /\ Cert.fault >= part
           /\ part > Issuer =>
                 /\ part <= Subject => next_dn = Cert.issuer
                 /\ ee /\ part < Extensions => key_usages = Usages
           /\ part > Validity => InForce(Cert)
           /\ part > Subject =>
                 /\ saved_dn = Cert.issuer
                 /\ current_dn = Cert.subject
                 /\ ~ee => Cert.subject = offered[Len(offered) - 1].issuer
           /\ ee /\ part = PublicKey =>
                 (named <=> \E name \in Cert.cn : Covers(name, host))
           /\ part > PublicKey =>
                 /\ Cert.key \notin WeakKeys
                 /\ ee => pkey = Cert.key
                 /\ ~ee => Signed(offered[Len(offered) - 1], Cert.key)
           /\ part = Extensions => ExtensionsRead(Cert)
           /\ part = Signature =>
                 /\ Sound(offered, Len(offered), host)
                 /\ ee => ~Pinned(Cert) /\ key_usages = UsagesOf(Cert)
BY InsideFacts DEF IInv, Current

LEMMA HereTypes ==
    ASSUME IInv, Inside
    PROVE  /\ part \in Nat /\ 1 <= part /\ part <= 6 /\ ext \in Nat
           /\ Cert.fault \in Nat /\ Cert.fault <= NoFault
           /\ Len(Cert.exts) \in Nat
           /\ \A j \in 1 .. Len(Cert.exts) : Cert.exts[j] \in Extension
BY InsideFacts, CertificateFields, TypeParts DEF IInv, DataOK

(* Bytes that cannot be read end the chain in the current certificate.     *)
LEMMA FaultHere ==
    ASSUME IInv, Inside, Cert.fault = part
    PROVE  LostAt(offered, Len(offered), host)
<1>1. CASE part = Signature
    <2>1. ee => ~Pinned(Cert)
        BY <1>1, CurrentHere
    <2>2. ~Readable(Cert, Signature)
        BY <1>1 DEF Readable
    <2>3. QED
        BY <2>1, <2>2, LostAtSignature
<1>2. CASE part # Signature
    <2>1. ~Readable(Cert, Extensions)
        BY <1>2, HereTypes DEF Readable
    <2>2. QED
        BY <2>1, SoundHere, LostHere
<1>3. QED
    BY <1>1, <1>2

LEMMA BadEncodingStep == IInv /\ BadEncoding => Kept
<1> SUFFICES ASSUME IInv, BadEncoding PROVE Kept
    OBVIOUS
<1>1. Inside /\ Cert.fault = part /\ err' = "bad_encoding"
      /\ UNCHANGED <<outer, num_certs>>
    BY DEF BadEncoding, Inside
<1>2. LostAt(offered, Len(offered), host)
    BY <1>1, FaultHere
<1>3. QED
    BY <1>1, <1>2, FailStep DEF Kept

LEMMA ReadIssuerStep == IInv /\ ReadIssuer => Kept
<1> SUFFICES ASSUME IInv, ReadIssuer PROVE Kept
    OBVIOUS
<1>1. Inside /\ part = 1 /\ Cert.fault # 1
    BY DEF ReadIssuer, Reading, Inside
<1>2. /\ UNCHANGED <<outer, num_certs, undecoded, cert_sig, saved_dn, pkey>>
      /\ ee' = ee /\ err' = "none" /\ part' = 2 /\ next_dn' = Cert.issuer
      /\ key_usages' = IF ee THEN Usages ELSE key_usages
    BY <1>1 DEF ReadIssuer, Inside
<1>3. Counting' /\ Behind' /\ Concluded' /\ Proceeding' /\ Done' = Done
    BY <1>1, <1>2, AdvanceStep
<1>4. Cert' = Cert /\ Cert.fault >= 2
    BY <1>1, <1>2, CurrentHere, HereTypes DEF Cert, outer
<1>5. Current'
    BY <1>2, <1>4 DEF Current
<1>6. QED
    BY <1>3, <1>5 DEF Kept

LEMMA ReadValidityStep == IInv /\ ReadValidity => Kept
<1> SUFFICES ASSUME IInv, ReadValidity PROVE Kept
    OBVIOUS
<1>1. Inside /\ part = 2 /\ Cert.fault # 2 /\ UNCHANGED <<outer, num_certs>>
    BY DEF ReadValidity, Reading, Inside
<1>2. CASE ~InForce(Cert)
    <2>1. err' = "expired"
        BY <1>2 DEF ReadValidity, InForce
    <2>2. LostAt(offered, Len(offered), host)
        BY <1>1, <1>2, SoundHere, LostHere
    <2>3. QED
        BY <1>1, <2>1, <2>2, FailStep DEF Kept
<1>3. CASE InForce(Cert)
    <2>1. /\ UNCHANGED <<outer, num_certs, undecoded, cert_sig, pkey,
                         key_usages, next_dn, saved_dn>>
          /\ ee' = ee /\ err' = "none" /\ part' = 3
        BY <1>1, <1>3 DEF ReadValidity, InForce, Inside, hashes
    <2>2. Counting' /\ Behind' /\ Concluded' /\ Proceeding' /\ Done' = Done
        BY <1>1, <2>1, AdvanceStep
    <2>3. Cert' = Cert /\ Cert.fault >= 3
        BY <1>1, <2>1, CurrentHere, HereTypes DEF Cert, outer
    <2>4. next_dn = Cert.issuer /\ (ee => key_usages = Usages)
        BY <1>1, CurrentHere
    <2>5. Current'
        BY <1>3, <2>1, <2>3, <2>4 DEF Current
    <2>6. QED
        BY <2>2, <2>5 DEF Kept
<1>4. QED
    BY <1>2, <1>3

LEMMA ReadSubjectStep == IInv /\ ReadSubject => Kept
<1> SUFFICES ASSUME IInv, ReadSubject PROVE Kept
    OBVIOUS
<1>1. Inside /\ part = 3 /\ Cert.fault # 3 /\ UNCHANGED <<outer, num_certs>>
    BY DEF ReadSubject, Reading, Inside
<1>2. ~ee => saved_dn = offered[Len(offered) - 1].issuer
    <2> SUFFICES ASSUME ~ee
                 PROVE  saved_dn = offered[Len(offered) - 1].issuer
        OBVIOUS
    <2>1. Proceeding /\ Done = Len(offered) - 1 /\ Done >= 1
        BY <1>1, NotFirst
    <2>2. QED
        BY <1>1, <2>1 DEF IInv, Behind
<1>3. CASE ~ee /\ Cert.subject # saved_dn
    <2>1. err' = "dn_mismatch"
        BY <1>3 DEF ReadSubject
    <2>2. LostAt(offered, Len(offered), host)
        BY <1>1, <1>2, <1>3, SoundHere, LostHere
    <2>3. QED
        BY <1>1, <2>1, <2>2, FailStep DEF Kept
<1>4. CASE ee \/ Cert.subject = saved_dn
    <2>1. /\ UNCHANGED <<outer, num_certs, undecoded, cert_sig, pkey,
                         key_usages>>
          /\ ee' = ee /\ err' = "none" /\ part' = 4
          /\ saved_dn' = next_dn /\ current_dn' = Cert.subject
        BY <1>1, <1>4 DEF ReadSubject, Inside
    <2>2. ee => (named' <=> \E name \in Cert.cn : Covers(name, host))
        BY DEF ReadSubject
    <2>3. Counting' /\ Behind' /\ Concluded' /\ Proceeding' /\ Done' = Done
        BY <1>1, <2>1, AdvanceStep
    <2>4. Cert' = Cert /\ Cert.fault >= 4 /\ host' = host /\ offered' = offered
        BY <1>1, <2>1, CurrentHere, HereTypes DEF Cert, outer
    <2>5. next_dn = Cert.issuer /\ (ee => key_usages = Usages) /\ InForce(Cert)
        BY <1>1, CurrentHere
    <2>6. Current'
        BY <1>2, <1>4, <2>1, <2>2, <2>4, <2>5 DEF Current
    <2>7. QED
        BY <2>3, <2>6 DEF Kept
<1>5. QED
    BY <1>3, <1>4

LEMMA ReadPublicKeyStep == IInv /\ ReadPublicKey => Kept
<1> SUFFICES ASSUME IInv, ReadPublicKey PROVE Kept
    OBVIOUS
<1> DEFINE n == Len(offered)
           verdict == IF Cert.key \in WeakKeys THEN "weak_public_key"
                      ELSE IF ee THEN "none"
                      ELSE verify_signature(cert_sig, Cert.key)
<1>1. Inside /\ part = 4 /\ Cert.fault # 4 /\ UNCHANGED <<outer, num_certs>>
    BY DEF ReadPublicKey, Reading, Inside
<1>2. ~ee => (verify_signature(cert_sig, Cert.key) = "none"
                 <=> Signed(offered[n - 1], Cert.key))
    <2> SUFFICES ASSUME ~ee
                 PROVE  verify_signature(cert_sig, Cert.key) = "none"
                           <=> Signed(offered[n - 1], Cert.key)
        OBVIOUS
    <2>1. /\ Proceeding /\ Done = n - 1 /\ Done >= 1 /\ n \in Nat
          /\ Cert \in Certificate
        BY <1>1, InsideFacts, NotFirst
    <2>2. cert_sig = SignatureOf(offered[n - 1])
        BY <2>1 DEF IInv, Behind
    <2>3. Passed(offered, n - 1, host)
        BY <2>1 DEF IInv, Behind
    <2>4. offered[n - 1] \in Certificate
        BY <2>1, ElementTypes, TypeParts DEF IInv, DataOK
    <2>5. Cert.key \in Keys
        BY <2>1, CertificateFields
    <2>6. QED
        BY <2>2, <2>3, <2>4, <2>5, VerifyIsSigned DEF Passed
<1>3. err' = verdict
    BY DEF ReadPublicKey
<1>4. verdict \in {"none", "weak_public_key", "wrong_key_type", "unsupported",
                   "bad_signature"}
    BY DEF verify_signature
<1>5. CASE verdict # "none"
    <2>1. Cert.key \in WeakKeys \/ (~ee /\ ~Signed(offered[n - 1], Cert.key))
        BY <1>2, <1>5
    <2>2. LostAt(offered, Len(offered), host)
        BY <1>1, <2>1, SoundHere, LostHere
    <2>3. err' \notin {"none", "ok", "not_trusted"}
        BY <1>3, <1>4, <1>5
    <2>4. QED
        BY <1>1, <2>2, <2>3, FailStep DEF Kept
<1>6. CASE verdict = "none"
    <2>1. /\ UNCHANGED <<outer, num_certs, undecoded, cert_sig, key_usages,
                         saved_dn, current_dn>>
          /\ ee' = ee /\ named' = named /\ err' = "none" /\ part' = 5
          /\ ext' = 0 /\ basic' = FALSE
          /\ pkey' = IF ee THEN Cert.key ELSE pkey
        BY <1>6 DEF ReadPublicKey, hashes
    <2>2. Cert.key \notin WeakKeys /\ (~ee => Signed(offered[n - 1], Cert.key))
        BY <1>2, <1>6
    <2>3. Counting' /\ Behind' /\ Concluded' /\ Proceeding' /\ Done' = Done
        BY <1>1, <2>1, AdvanceStep
    <2>4. Cert' = Cert /\ Cert.fault >= 5 /\ host' = host /\ offered' = offered
        BY <1>1, <2>1, CurrentHere, HereTypes DEF Cert, outer
    <2>5. /\ InForce(Cert) /\ (ee => key_usages = Usages)
          /\ saved_dn = Cert.issuer /\ current_dn = Cert.subject
          /\ ~ee => Cert.subject = offered[n - 1].issuer
          /\ ee => (named <=> \E name \in Cert.cn : Covers(name, host))
        BY <1>1, CurrentHere
    <2>6. ExtensionsRead(Cert)'
        <3>1. 0 <= Len(Cert.exts)
            BY <1>1, HereTypes
        <3>2. /\ OfUpTo(Cert, "basic", 0) = {}
              /\ NamedUpTo(Cert, host, 0)
                    <=> \E name \in Cert.cn : Covers(name, host)
              /\ UsagesUpTo(Cert, 0) = Usages
            BY NoneYet
        <3>3. QED
            BY <2>1, <2>4, <2>5, <3>1, <3>2 DEF ExtensionsRead
    <2>7. Current'
        BY <2>1, <2>2, <2>4, <2>5, <2>6 DEF Current
    <2>8. QED
        BY <2>3, <2>7 DEF Kept
<1>7. QED
    BY <1>5, <1>6

-----------------------------------------------------------------------------

(* An extension is passed, or it ends the chain.                           *)
LEMMA ExtensionStep ==
    ASSUME IInv, Inside, part = Extensions, Cert.fault # Extensions,
           ext < Len(Cert.exts),
           UNCHANGED <<outer, num_certs, undecoded, cert_sig, hashes, pkey, part>>,
           ee' <=> ee, err' = "none", ext' = ext + 1,
           ~ee => key_usages' = key_usages,
           ExtensionPassed(Extension1, Len(offered) - 2),
           ~ee => (basic' <=> basic \/ Extension1.kind = "basic"),
           ee => (named' <=> IF Extension1.kind = "names"
                             THEN \E name \in Extension1.names : Covers(name, host)
                             ELSE named),
           ee => key_usages' = IF Extension1.kind = "usage"
                               THEN Extension1.bits \cap Usages ELSE key_usages
    PROVE  Kept
<1>1. Counting' /\ Behind' /\ Concluded' /\ Proceeding' /\ Done' = Done
    <2>1. part' \in Nat /\ part <= part' /\ (~ee => UNCHANGED <<pkey, key_usages>>)
        OBVIOUS
    <2>2. part' <= Subject => saved_dn' = saved_dn
        OBVIOUS
    <2>3. QED
        BY <2>1, <2>2, AdvanceStep
<1>2. Cert' = Cert /\ host' = host /\ offered' = offered
    BY DEF Cert, outer
<1>3. Extension1 = Cert.exts[ext + 1] /\ ext \in Nat /\ Len(Cert.exts) \in Nat
    BY HereTypes DEF Extension1
<1>4. /\ ext <= Len(Cert.exts)
      /\ \A j \in 1 .. ext : ExtensionPassed(Cert.exts[j], Len(offered) - 2)
      /\ ~ee => (basic <=> OfUpTo(Cert, "basic", ext) # {})
      /\ ee => (named <=> NamedUpTo(Cert, host, ext))
      /\ ee => key_usages = UsagesUpTo(Cert, ext)
    BY CurrentHere DEF ExtensionsRead
<1>5. \A j \in 1 .. ext' : ExtensionPassed(Cert.exts[j], Len(offered) - 2)
    BY <1>3, <1>4
<1>6. ~ee => (basic' <=> OfUpTo(Cert, "basic", ext') # {})
    BY <1>3, <1>4, OneMore
<1>7. ee => (named' <=> NamedUpTo(Cert, host, ext'))
    <2>1. NamedUpTo(Cert, host, ext + 1) <=>
              IF Cert.exts[ext + 1].kind = "names"
              THEN \E name \in Cert.exts[ext + 1].names : Covers(name, host)
              ELSE NamedUpTo(Cert, host, ext)
        BY <1>3, NamedOneMore
    <2>2. QED
        BY <1>3, <1>4, <2>1
<1>8. ee => key_usages' = UsagesUpTo(Cert, ext')
    BY <1>3, <1>4, UsagesOneMore
<1>9. ExtensionsRead(Cert)'
    BY <1>2, <1>3, <1>5, <1>6, <1>7, <1>8 DEF ExtensionsRead
<1>10. Current'
    <2>1. /\ InForce(Cert) /\ saved_dn = Cert.issuer /\ current_dn = Cert.subject
          /\ ~ee => Cert.subject = offered[Len(offered) - 1].issuer
          /\ Cert.key \notin WeakKeys
          /\ ee => pkey = Cert.key
          /\ ~ee => Signed(offered[Len(offered) - 1], Cert.key)
          /\ Cert.fault >= part
        BY CurrentHere
    <2>2. saved_dn' = saved_dn /\ current_dn' = current_dn /\ pkey' = pkey
          /\ part' = 5
        BY DEF hashes
    <2>3. QED
        BY <1>2, <1>9, <2>1, <2>2 DEF Current
<1>11. QED
    BY <1>1, <1>10 DEF Kept

LEMMA ExtensionFails ==
    ASSUME IInv, Inside, part = Extensions, ext < Len(Cert.exts),
           UNCHANGED <<outer, num_certs>>,
           err' \notin {"none", "ok", "not_trusted"},
           ~ExtensionPassed(Extension1, Len(offered) - 2)
    PROVE  Kept
<1>1. /\ Extension1 = Cert.exts[ext + 1] /\ ext + 1 \in 1 .. Len(Cert.exts)
      /\ Cert \in Certificate /\ Len(offered) - 2 \in Int
    BY HereTypes, InsideFacts DEF Extension1
<1>2. ~Understood(Cert) \/ (Len(offered) - 2 >= 0 /\ ~MayIssue(Cert, Len(offered) - 2))
    BY <1>1, NotPassed
<1>3. Len(offered) - 2 >= 0 => ~ee
    BY InsideFacts
<1>4. ~Sound(offered, Len(offered), host)
    BY <1>2, <1>3, SoundHere
<1>5. QED
    BY <1>4, LostHere, FailStep DEF Kept

(* Where an extension is read.                                             *)
LEMMA Reading1Facts ==
    ASSUME NEW kind, IInv, Reading1(kind)
    PROVE  /\ Inside /\ part = Extensions /\ Cert.fault # Extensions
           /\ ext < Len(Cert.exts) /\ Extension1.kind = kind
           /\ Extension1 \in Extension
           /\ num_certs - 1 = Len(offered) - 2
           /\ Len(offered) - 2 \in Int
           /\ Len(offered) - 2 >= 0 <=> ~ee
<1>1. /\ Inside /\ part = Extensions /\ Cert.fault # Extensions
      /\ ext < Len(Cert.exts) /\ Extension1.kind = kind
    BY DEF Reading1, Reading, Inside, Extension1
<1>2. Extension1 \in Extension
    BY <1>1, HereTypes DEF Extension1
<1>3. /\ num_certs = Len(offered) - 1 /\ Len(offered) \in Nat
      /\ Len(offered) >= 1
    BY <1>1, InsideFacts
<1>4. ee <=> Len(offered) = 1
    BY <1>1, InsideFacts
<1>5. QED
    BY <1>1, <1>2, <1>3, <1>4

LEMMA BasicConstraintsStep == IInv /\ BasicConstraints => Kept
<1> SUFFICES ASSUME IInv, BasicConstraints PROVE Kept
    OBVIOUS
<1> DEFINE refused == ~ee /\ \/ ~Extension1.ca
                             \/ /\ Extension1.limit # NoLimit
                                /\ Extension1.limit < Len(offered) - 2
<1>1. /\ Inside /\ part = Extensions /\ Cert.fault # Extensions
      /\ ext < Len(Cert.exts) /\ Extension1.kind = "basic"
      /\ Extension1 \in Extension
      /\ num_certs - 1 = Len(offered) - 2 /\ Len(offered) - 2 \in Int
      /\ Len(offered) - 2 >= 0 <=> ~ee
    BY Reading1Facts DEF BasicConstraints
<1>2. PassUnless(refused, "not_ca")
    BY <1>1 DEF BasicConstraints
<1>3. Extension1.limit \in Nat \/ Extension1.limit = -1
    BY <1>1 DEF Extension
<1>4. ExtensionPassed(Extension1, Len(offered) - 2) <=> ~refused
    BY <1>1, <1>3 DEF ExtensionPassed
<1>5. UNCHANGED <<outer, num_certs, undecoded, hashes, pkey, key_usages,
                  cert_sig, part, ee, named>>
    BY DEF BasicConstraints
<1>6. CASE refused
    <2>1. err' = "not_ca"
        BY <1>2, <1>6 DEF PassUnless
    <2>2. ~ExtensionPassed(Extension1, Len(offered) - 2)
        BY <1>4, <1>6
    <2>3. QED
        BY <1>1, <1>5, <2>1, <2>2, ExtensionFails
<1>7. CASE ~refused
    <2>1. err' = "none" /\ ext' = ext + 1
        BY <1>1, <1>2, <1>7 DEF PassUnless, Inside
    <2>2. ~ee => (basic' <=> basic \/ Extension1.kind = "basic")
        BY <1>1, <2>1 DEF BasicConstraints
    <2>3. ExtensionPassed(Extension1, Len(offered) - 2)
        BY <1>4, <1>7
    <2>4. ee => (named' <=> IF Extension1.kind = "names"
                            THEN \E name \in Extension1.names : Covers(name, host)
                            ELSE named)
        BY <1>1, <1>5
    <2>5. ee => key_usages' = IF Extension1.kind = "usage"
                              THEN Extension1.bits \cap Usages ELSE key_usages
        BY <1>1, <1>5
    <2>6. (ee' <=> ee) /\ (~ee => key_usages' = key_usages)
        BY <1>5
    <2> HIDE DEF refused
    <2>7. QED
        BY <1>1, <1>5, <2>1, <2>2, <2>3, <2>4, <2>5, <2>6, ExtensionStep
<1>8. QED
    BY <1>6, <1>7


LEMMA KeyUsageStep == IInv /\ KeyUsage => Kept
<1> SUFFICES ASSUME IInv, KeyUsage PROVE Kept
    OBVIOUS
<1> DEFINE refused == ~ee /\ "certSign" \notin Extension1.bits
<1>1. /\ Inside /\ part = Extensions /\ Cert.fault # Extensions
      /\ ext < Len(Cert.exts) /\ Extension1.kind = "usage"
      /\ Extension1 \in Extension
      /\ Len(offered) - 2 \in Int
      /\ Len(offered) - 2 >= 0 <=> ~ee
    BY Reading1Facts DEF KeyUsage
<1>2. PassUnless(refused, "forbidden_key_usage")
    BY DEF KeyUsage
<1>3. ExtensionPassed(Extension1, Len(offered) - 2) <=> ~refused
    BY <1>1 DEF ExtensionPassed
<1>4. /\ UNCHANGED <<outer, num_certs, undecoded, hashes, pkey, cert_sig, part,
                     ee, named, basic>>
      /\ key_usages' = IF ee THEN Extension1.bits \cap Usages ELSE key_usages
    BY DEF KeyUsage
<1>5. CASE refused
    <2>1. err' = "forbidden_key_usage"
        BY <1>2, <1>5 DEF PassUnless
    <2>2. ~ExtensionPassed(Extension1, Len(offered) - 2)
        BY <1>3, <1>5
    <2>3. QED
        BY <1>1, <1>4, <2>1, <2>2, ExtensionFails
<1>6. CASE ~refused
    <2>1. err' = "none" /\ ext' = ext + 1
        BY <1>1, <1>2, <1>6 DEF PassUnless, Inside
    <2>2. ~ee => (basic' <=> basic \/ Extension1.kind = "basic")
        BY <1>1, <1>4
    <2>3. ExtensionPassed(Extension1, Len(offered) - 2)
        BY <1>3, <1>6
    <2>4. ee => (named' <=> IF Extension1.kind = "names"
                            THEN \E name \in Extension1.names : Covers(name, host)
                            ELSE named)
        BY <1>1, <1>4
    <2>5. ee => key_usages' = IF Extension1.kind = "usage"
                              THEN Extension1.bits \cap Usages ELSE key_usages
        BY <1>1, <1>4
    <2>6. (ee' <=> ee) /\ (~ee => key_usages' = key_usages)
        BY <1>4
    <2> HIDE DEF refused
    <2>7. QED
        BY <1>1, <1>4, <2>1, <2>2, <2>3, <2>4, <2>5, <2>6, ExtensionStep
<1>7. QED
    BY <1>5, <1>6

LEMMA SubjectAltNameStep == IInv /\ SubjectAltName => Kept
<1> SUFFICES ASSUME IInv, SubjectAltName PROVE Kept
    OBVIOUS
<1>1. /\ Inside /\ part = Extensions /\ Cert.fault # Extensions
      /\ ext < Len(Cert.exts) /\ Extension1.kind = "names"
      /\ Extension1 \in Extension
      /\ Len(offered) - 2 \in Int
    BY Reading1Facts DEF SubjectAltName
<1>2. /\ UNCHANGED <<outer, err, num_certs, undecoded, hashes, pkey, key_usages,
                     cert_sig, part, ee, basic>>
      /\ ext' = ext + 1
    BY DEF SubjectAltName
<1>3. ee => (named' <=> IF Extension1.kind = "names"
                        THEN \E name \in Extension1.names : Covers(name, host)
                        ELSE named)
    BY <1>1 DEF SubjectAltName
<1>4. err' = "none"
    BY <1>1, <1>2 DEF Inside
<1>5. ~ee => (basic' <=> basic \/ Extension1.kind = "basic")
    BY <1>1, <1>2
<1>6. ee => key_usages' = IF Extension1.kind = "usage"
                          THEN Extension1.bits \cap Usages ELSE key_usages
    BY <1>1, <1>2
<1>7. (ee' <=> ee) /\ (~ee => key_usages' = key_usages)
    BY <1>2
<1>8. Reading1("names")
    BY DEF SubjectAltName
<1>9. CASE ExtensionPassed(Extension1, Len(offered) - 2)
    BY <1>1, <1>2, <1>3, <1>4, <1>5, <1>6, <1>7, <1>9, ExtensionStep
<1>10. ExtensionPassed(Extension1, Len(offered) - 2)
    BY <1>1 DEF ExtensionPassed
<1>11. QED
    BY <1>9, <1>10

LEMMA OtherExtensionStep == IInv /\ OtherExtension => Kept
<1> SUFFICES ASSUME IInv, OtherExtension PROVE Kept
    OBVIOUS
<1>1. PICK kind \in {"policies", "other", "ignored"} : Reading1(kind)
    BY DEF OtherExtension
<1>2. /\ Inside /\ part = Extensions /\ Cert.fault # Extensions
      /\ ext < Len(Cert.exts) /\ Extension1.kind = kind
      /\ Extension1 \in Extension
      /\ Len(offered) - 2 \in Int
    BY <1>1, Reading1Facts
<1>3. UNCHANGED <<outer, num_certs, undecoded, hashes, pkey, key_usages,
                  cert_sig, part, ee, named, basic>>
    BY DEF OtherExtension
<1>4. \/ err' = "none" /\ ext' = ext + 1
         /\ ExtensionPassed(Extension1, Len(offered) - 2)
      \/ err' \in {"critical_extension"}
         /\ ~ExtensionPassed(Extension1, Len(offered) - 2)
    <2>1. err = "none"
        BY <1>2 DEF Inside
    <2>2. CASE Reading1("policies") /\ PassUnless(Extension1.critical
                                        /\ ~Extension1.plain, "critical_extension")
        <3>1. Extension1.kind = "policies"
            BY <2>2 DEF Reading1, Extension1
        <3>2. QED
            BY <2>1, <2>2, <3>1 DEF PassUnless, ExtensionPassed
    <2>3. CASE Reading1("other") /\ PassUnless(Extension1.critical,
                                               "critical_extension")
        <3>1. Extension1.kind = "other"
            BY <2>3 DEF Reading1, Extension1
        <3>2. QED
            BY <2>1, <2>3, <3>1 DEF PassUnless, ExtensionPassed
    <2>4. CASE Reading1("ignored") /\ PassUnless(FALSE, "none")
        <3>1. Extension1.kind = "ignored"
            BY <2>4 DEF Reading1, Extension1
        <3>2. QED
            BY <2>1, <2>4, <3>1 DEF PassUnless, ExtensionPassed
    <2>5. QED
        BY <2>2, <2>3, <2>4 DEF OtherExtension
<1>5. ~ee => (basic' <=> basic \/ Extension1.kind = "basic")
    BY <1>2, <1>3
<1>6. ee => (named' <=> IF Extension1.kind = "names"
                        THEN \E name \in Extension1.names : Covers(name, host)
                        ELSE named)
    BY <1>2, <1>3
<1>7. ee => key_usages' = IF Extension1.kind = "usage"
                          THEN Extension1.bits \cap Usages ELSE key_usages
    BY <1>2, <1>3
<1>8. (ee' <=> ee) /\ (~ee => key_usages' = key_usages)
    BY <1>3
<1>9. CASE err' = "none" /\ ext' = ext + 1
           /\ ExtensionPassed(Extension1, Len(offered) - 2)
    BY <1>2, <1>3, <1>5, <1>6, <1>7, <1>8, <1>9, ExtensionStep
<1>10. CASE err' \in {"critical_extension"}
            /\ ~ExtensionPassed(Extension1, Len(offered) - 2)
    BY <1>2, <1>3, <1>10, ExtensionFails
<1>11. QED
    BY <1>4, <1>9, <1>10

(* The end of the extensions: the server must be the one that was asked    *)
(* for, an issuer must be one, and the key of the server may be known.     *)
LEMMA EndExtensionsStep == IInv /\ EndExtensions => Kept
<1> SUFFICES ASSUME IInv, EndExtensions PROVE Kept
    OBVIOUS
<1> DEFINE n == Len(offered)
<1>1. /\ Inside /\ part = 5 /\ Cert.fault # 5 /\ ext = Len(Cert.exts)
      /\ UNCHANGED <<outer, num_certs, undecoded, hashes, pkey, key_usages,
                     cert_sig, ext, ee, named, basic>>
    BY DEF EndExtensions, Reading, Inside
<1>2. /\ n \in Nat /\ n >= 1 /\ Cert \in Certificate /\ Cert = offered[n]
      /\ n - 2 \in Int /\ n \in DOMAIN offered
      /\ ee <=> n = 1
    BY <1>1, InsideFacts
<1>3. /\ InForce(Cert) /\ saved_dn = Cert.issuer /\ current_dn = Cert.subject
      /\ ~ee => Cert.subject = offered[n - 1].issuer
      /\ Cert.key \notin WeakKeys
      /\ ee => pkey = Cert.key
      /\ ~ee => Signed(offered[n - 1], Cert.key)
      /\ Cert.fault >= 6
    BY <1>1, CurrentHere, HereTypes
<1>4. /\ \A j \in 1 .. Len(Cert.exts) : ExtensionPassed(Cert.exts[j], n - 2)
      /\ ~ee => (basic <=> Of(Cert, "basic") # {})
      /\ ee => (NamedFor(Cert, host) <=> host = << >> \/ named)
      /\ ee => key_usages = UsagesOf(Cert)
    BY <1>1, <1>2, CurrentHere, AllRead DEF ExtensionsRead
<1>5. Understood(Cert) /\ (n - 2 >= 0 /\ Of(Cert, "basic") # {} => MayIssue(Cert, n - 2))
    BY <1>2, <1>4, AllPassed
<1>6. Readable(Cert, Extensions)
    BY <1>3, <1>1, HereTypes DEF Readable
<1>7. CASE ee /\ ~named /\ host # << >>
    <2>1. err' = "bad_server_name"
        BY <1>7 DEF EndExtensions
    <2>2. ~Sound(offered, n, host)
        BY <1>1, <1>4, <1>7, SoundHere
    <2>3. QED
        BY <1>1, <2>1, <2>2, LostHere, FailStep DEF Kept
<1>8. CASE ee /\ (named \/ host = << >>)
    <2>1. Sound(offered, n, host)
        BY <1>1, <1>3, <1>4, <1>5, <1>6, <1>8, SoundHere
    <2>2. DirectTrust <=> Pinned(Cert)
        BY <1>3, <1>8 DEF DirectTrust, Pinned
    <2>3. CASE DirectTrust
        <3>1. err' = "ok"
            BY <1>8, <2>3 DEF EndExtensions
        <3>2. n = 1
            BY <1>2, <1>8
        <3>3. TrustedUpTo(offered, 1, host)
            BY <1>2, <2>1, <2>2, <2>3, <3>2 DEF TrustedUpTo
        <3>4. Trusted(offered, host)
            BY <1>2, <3>2, <3>3 DEF Trusted
        <3>5. stage' = "cert" /\ offered' = offered /\ host' = host
              /\ num_certs' = num_certs /\ pkey' = pkey
              /\ key_usages' = key_usages
            BY <1>1 DEF outer, Inside
        <3>6. pkey = offered[1].key /\ key_usages = UsagesOf(offered[1])
            BY <1>2, <1>3, <1>4, <1>8, <3>2
        <3>7. Concluded'
            BY <3>1, <3>4, <3>5, <3>6 DEF Concluded
        <3>8. Counting'
            BY <1>1, <3>1, <3>5 DEF IInv, Counting, Inside
        <3>9. Behind' /\ Current'
            BY <3>1 DEF Behind, Current, Proceeding
        <3>10. QED
            BY <3>7, <3>8, <3>9 DEF Kept
    <2>4. CASE ~DirectTrust
        <3>1. err' = "none" /\ part' = 6
            BY <1>8, <2>4 DEF EndExtensions
        <3>2. Counting' /\ Behind' /\ Concluded' /\ Proceeding' /\ Done' = Done
            BY <1>1, <3>1, AdvanceStep DEF hashes
        <3>3. Cert' = Cert /\ host' = host /\ offered' = offered
            BY <1>1 DEF Cert, outer
        <3>4. Current'
            BY <1>1, <1>3, <1>4, <1>8, <2>1, <2>2, <2>4, <3>1, <3>3
               DEF Current, hashes
        <3>5. QED
            BY <3>2, <3>4 DEF Kept
    <2>5. QED
        BY <2>3, <2>4
<1>9. CASE ~ee /\ ~basic
    <2>1. err' = "not_ca"
        BY <1>9 DEF EndExtensions
    <2>2. ~MayIssue(Cert, n - 2)
        BY <1>4, <1>9 DEF MayIssue
    <2>3. ~Sound(offered, n, host)
        BY <1>1, <1>9, <2>2, SoundHere
    <2>4. QED
        BY <1>1, <2>1, <2>3, LostHere, FailStep DEF Kept
<1>10. CASE ~ee /\ basic
    <2>1. err' = "none" /\ part' = 6
        BY <1>10 DEF EndExtensions
    <2>2. n - 2 >= 0
        <3>1. n # 1
            BY <1>2, <1>10
        <3>2. n \in Nat /\ n >= 1
            BY <1>2
        <3> HIDE DEF n
        <3>3. QED
            BY <3>1, <3>2
    <2>3. Sound(offered, n, host)
        BY <1>1, <1>3, <1>4, <1>5, <1>6, <1>10, <2>2, SoundHere
    <2>4. Counting' /\ Behind' /\ Concluded' /\ Proceeding' /\ Done' = Done
        BY <1>1, <2>1, AdvanceStep DEF hashes
    <2>5. Cert' = Cert /\ host' = host /\ offered' = offered
        BY <1>1 DEF Cert, outer
    <2>6. Current'
        BY <1>1, <1>3, <1>10, <2>1, <2>3, <2>5 DEF Current, hashes
    <2>7. QED
        BY <2>4, <2>6 DEF Kept
<1>11. QED
    BY <1>7, <1>8, <1>9, <1>10


-----------------------------------------------------------------------------

(* The signature ends the certificate: the chain is trusted, or the        *)
(* certificate goes to those left behind.                                  *)
LEMMA ReadSignatureStep == IInv /\ ReadSignature => Kept
<1> SUFFICES ASSUME IInv, ReadSignature PROVE Kept
    OBVIOUS
<1> DEFINE n == Len(offered)
<1>1. /\ Inside /\ part = 6 /\ Cert.fault # 6
      /\ UNCHANGED <<outer, num_certs, hashes, pkey, key_usages>>
    BY DEF ReadSignature, Reading, Inside
<1>2. /\ cert_sig' = SignatureOf(Cert) /\ undecoded' = FALSE /\ part' = 1
      /\ err' = IF TrustedIssuer(SignatureOf(Cert)) THEN "ok" ELSE "none"
    BY DEF ReadSignature, SignatureOf
<1>3. ~ee'
    BY DEF ReadSignature
<1>4. /\ stage' = "cert" /\ offered' = offered /\ host' = host
      /\ num_certs' = num_certs /\ pkey' = pkey /\ key_usages' = key_usages
      /\ saved_dn' = saved_dn
    BY <1>1 DEF outer, Inside, hashes
<1>5. /\ n \in Nat /\ n >= 1 /\ Cert \in Certificate /\ Cert = offered[n]
      /\ n \in DOMAIN offered /\ Done = n - 1 /\ Proceeding
      /\ num_certs = n - 1
    BY <1>1, InsideFacts
<1>6. ee <=> n = 1
    BY <1>1, InsideFacts
<1>7. Sound(offered, n, host) /\ saved_dn = Cert.issuer
    BY <1>1, CurrentHere
<1>8. ee => ~Pinned(Cert)
    BY <1>1, CurrentHere
<1>9. ee => pkey = Cert.key /\ key_usages = UsagesOf(Cert)
    BY <1>1, CurrentHere
<1>10. Readable(Cert, Signature)
    BY <1>1, CurrentHere, HereTypes DEF Readable
<1>11. TrustedIssuer(SignatureOf(Cert)) <=> Anchored(Cert)
    <2>1. \A ta \in Anchors : ta.key \in Keys
        BY CertificatesAssumption
    <2>2. \A ta \in Anchors :
             (verify_signature(SignatureOf(Cert), ta.key) = "none")
                <=> Signed(Cert, ta.key)
        BY <1>5, <1>10, <2>1, VerifyIsSigned
    <2>3. QED
        BY <1>7, <2>2 DEF TrustedIssuer, Anchored
<1>12. /\ ee <=> Done = 0
       /\ \A i \in 1 .. Done : Passed(offered, i, host)
       /\ Done >= 1 =>
             ~Pinned(offered[1]) /\ pkey = offered[1].key
             /\ key_usages = UsagesOf(offered[1])
    BY <1>5 DEF IInv, Behind
<1>13. pkey = offered[1].key /\ key_usages = UsagesOf(offered[1])
       /\ ~Pinned(offered[1])
    <2>1. CASE n = 1
        BY <1>5, <1>6, <1>8, <1>9, <2>1
    <2>2. CASE n # 1
        BY <1>5, <1>12, <2>2
    <2>3. QED
        BY <2>1, <2>2
<1>14. \A i \in 1 .. (n - 1) : Passed(offered, i, host)
    BY <1>5, <1>12
<1>15. Counting'
    BY <1>1, <1>2, <1>4, <1>5 DEF Counting
<1>16. ~(Done' < Len(offered'))
    BY <1>2, <1>4, <1>5 DEF Done
<1>17. Current'
    BY <1>16 DEF Current
<1>18. CASE Anchored(Cert)
    <2>1. err' = "ok"
        BY <1>2, <1>11, <1>18
    <2>2. \A i \in 1 .. n : Sound(offered, i, host)
        BY <1>5, <1>7, <1>14 DEF Passed
    <2>3. Trusted(offered, host)
        BY <1>5, <1>18, <2>2 DEF Trusted, TrustedUpTo
    <2>4. Concluded'
        BY <1>4, <1>13, <2>1, <2>3 DEF Concluded
    <2>5. Behind'
        BY <2>1 DEF Behind, Proceeding
    <2>6. QED
        BY <1>15, <1>17, <2>4, <2>5 DEF Kept
<1>19. CASE ~Anchored(Cert)
    <2>1. err' = "none"
        BY <1>2, <1>11, <1>19
    <2>2. Concluded'
        BY <2>1 DEF Concluded
    <2>3. Done' = n
        BY <1>2, <1>4 DEF Done
    <2>4. Passed(offered, n, host)
        BY <1>5, <1>7, <1>10, <1>19 DEF Passed
    <2>5. \A i \in 1 .. n : Passed(offered, i, host)
        BY <1>5, <1>14, <2>4
    <2>6. ee' <=> Done' = 0
        BY <1>3, <1>5, <2>3
    <2>7. cert_sig' = SignatureOf(offered[n]) /\ saved_dn' = offered[n].issuer
        BY <1>2, <1>4, <1>5, <1>7
    <2>8. part' = 1
        BY <1>2
    <2> HIDE DEF n
    <2>9. Behind'
        BY <1>4, <1>13, <2>3, <2>5, <2>6, <2>7, <2>8 DEF Behind
    <2>10. QED
        BY <1>15, <1>17, <2>2, <2>9 DEF Kept
<1>20. QED
    BY <1>18, <1>19

-----------------------------------------------------------------------------

(* A new chain: nothing of the earlier one is spoken of any more.          *)
LEMMA StartChainStep == IInv /\ StartChain => Kept
<1> SUFFICES ASSUME IInv, StartChain PROVE Kept
    OBVIOUS
<1>1. /\ stage' = "chain" /\ offered' = << >> /\ err' = "none"
      /\ num_certs' = 0 /\ part' = 1
    BY DEF StartChain
<1>2. ee'
    BY DEF StartChain
<1>3. Done' = 0 /\ Len(offered') = 0
    BY <1>1 DEF Done
<1>4. Counting'
    BY <1>1, <1>3 DEF Counting
<1>5. Behind'
    BY <1>1, <1>2, <1>3 DEF Behind
<1>6. Current'
    BY <1>3 DEF Current
<1>7. Concluded'
    BY <1>1 DEF Concluded
<1>8. QED
    BY <1>4, <1>5, <1>6, <1>7 DEF Kept

(* Between two certificates every one of the chain is behind.              *)
LEMMA ChainFacts ==
    ASSUME IInv, stage = "chain"
    PROVE  /\ offered \in Seq(Certificates) /\ Len(offered) \in Nat
           /\ num_certs = Len(offered) /\ Done = Len(offered)
           /\ err # "not_trusted"
           /\ err = "none" => Proceeding /\ part = Issuer
BY TypeParts DEF IInv, DataOK, Counting, Behind, Done, Proceeding

LEMMA StartCertStep == IInv /\ StartCert => Kept
<1> SUFFICES ASSUME IInv, StartCert PROVE Kept
    OBVIOUS
<1>1. stage = "chain"
    BY DEF StartCert
<1> DEFINE n == Len(offered)
<1>2. /\ offered \in Seq(Certificates) /\ n \in Nat
      /\ num_certs = n /\ Done = n
      /\ err # "not_trusted"
      /\ err = "none" => Proceeding /\ part = Issuer
    BY <1>1, ChainFacts
<1>3. PICK c \in Certificates :
         /\ offered' = Append(offered, c)
         /\ IF err # "none" THEN err' = err /\ undecoded' = undecoded
            ELSE IF c.fault = Length
            THEN err' = "truncated" /\ undecoded' = undecoded
            ELSE undecoded' = TRUE /\ err' = err
    BY DEF StartCert
<1>4. /\ stage' = "cert" /\ host' = host /\ num_certs' = num_certs
      /\ pkey' = pkey /\ key_usages' = key_usages /\ cert_sig' = cert_sig
      /\ saved_dn' = saved_dn /\ part' = part
    BY DEF StartCert, hashes, locals
<1>5. ee' = ee
    BY DEF StartCert, locals
<1>6. /\ Len(offered') = n + 1 /\ n + 1 \in DOMAIN offered'
      /\ offered'[n + 1] = c /\ offered' \in Seq(Certificates)
      /\ \A i \in 1 .. n : offered'[i] = offered[i]
    BY <1>2, <1>3
<1>7. Counting'
    BY <1>2, <1>3, <1>4, <1>6 DEF Counting
<1>8. CASE err \notin {"none", "ok"}
    <2>1. err' = err
        BY <1>3, <1>8
    <2>2. PICK i \in DOMAIN offered : LostAt(offered, i, host)
        BY <1>1, <1>8 DEF IInv, Concluded
    <2>3. i \in DOMAIN offered' /\ LostAt(offered', i, host)
        BY <1>2, <1>3, <2>2, LostStays
    <2>4. Concluded'
        BY <1>2, <1>4, <1>8, <2>1, <2>3 DEF Concluded
    <2>5. Behind' /\ Current'
        BY <1>8, <2>1 DEF Behind, Current, Proceeding
    <2>6. QED
        BY <1>7, <2>4, <2>5 DEF Kept
<1>9. CASE err = "ok"
    <2>1. err' = "ok"
        BY <1>3, <1>9
    <2>2. /\ Trusted(offered, host) /\ pkey = offered[1].key
          /\ key_usages = UsagesOf(offered[1])
        BY <1>9 DEF IInv, Concluded
    <2>3. Trusted(offered', host)
        BY <1>2, <1>3, <2>2, TrustedStays
    <2>4. offered'[1] = offered[1]
        <3>1. 1 \in 1 .. n
            <4>1. PICK k \in DOMAIN offered : TrustedUpTo(offered, k, host)
                BY <2>2 DEF Trusted
            <4>2. QED
                BY <1>2, <4>1
        <3>2. QED
            BY <1>6, <3>1
    <2>5. Concluded'
        BY <1>4, <2>1, <2>2, <2>3, <2>4 DEF Concluded
    <2>6. Behind' /\ Current'
        BY <2>1 DEF Behind, Current, Proceeding
    <2>7. QED
        BY <1>7, <2>5, <2>6 DEF Kept
<1>10. CASE err = "none"
    <2>1. /\ ee <=> n = 0
          /\ \A i \in 1 .. n : Passed(offered, i, host)
          /\ n >= 1 =>
                /\ ~Pinned(offered[1])
                /\ cert_sig = SignatureOf(offered[n])
                /\ saved_dn = offered[n].issuer
                /\ pkey = offered[1].key
                /\ key_usages = UsagesOf(offered[1])
        BY <1>2, <1>10 DEF IInv, Behind
    <2>2. part = 1
        BY <1>2, <1>10
    <2>3. CASE c.fault = Length
        <3>1. err' = "truncated"
            BY <1>3, <1>10, <2>3
        <3>2. ~Sound(offered', n + 1, host) /\ ~Anchored(offered'[n + 1])
            BY <1>6, <2>3 DEF Sound, Readable, Anchored, Signed
        <3>3. \A k \in 1 .. n : ~TrustedUpTo(offered', k, host)
            <4> SUFFICES ASSUME NEW k \in 1 .. n
                         PROVE  ~TrustedUpTo(offered', k, host)
                OBVIOUS
            <4>1. ~TrustedUpTo(offered, k, host)
                BY <1>2, <2>1 DEF Passed, TrustedUpTo
            <4>2. QED
                BY <1>2, <1>3, <4>1, TrustStays
        <3>4. ~TrustedUpTo(offered', n + 1, host)
            BY <1>2, <3>2 DEF TrustedUpTo
        <3>5. LostAt(offered', n + 1, host)
            BY <1>2, <3>2, <3>3, <3>4 DEF LostAt
        <3>6. Concluded'
            BY <1>4, <1>6, <3>1, <3>5 DEF Concluded
        <3>7. Behind' /\ Current'
            BY <3>1 DEF Behind, Current, Proceeding
        <3>8. QED
            BY <1>7, <3>6, <3>7 DEF Kept
    <2>4. CASE c.fault # Length
        <3>1. err' = "none" /\ undecoded' = TRUE
            BY <1>3, <1>10, <2>4
        <3>2. Concluded'
            BY <3>1 DEF Concluded
        <3>3. Done' = n
            BY <1>2, <1>4, <1>6, <3>1 DEF Done
        <3>4. \A i \in 1 .. n : Passed(offered', i, host)
            <4> SUFFICES ASSUME NEW i \in 1 .. n
                         PROVE  Passed(offered', i, host)
                OBVIOUS
            <4>1. Passed(offered, i, host)
                BY <2>1
            <4>2. offered'[i] = offered[i]
                BY <1>6
            <4>3. Sound(offered', i, host) <=> Sound(offered, i, host)
                BY <1>2, <1>3, PrefixStays
            <4>4. QED
                BY <4>1, <4>2, <4>3 DEF Passed
        <3>5. n >= 1 => offered'[1] = offered[1] /\ offered'[n] = offered[n]
            BY <1>2, <1>6
        <3>6. ee' <=> Done' = 0
            BY <1>5, <2>1, <3>3
        <3>7. Behind'
            BY <1>2, <1>4, <1>6, <2>1, <2>2, <3>3, <3>4, <3>5, <3>6 DEF Behind
        <3>8. Cert'.fault >= 1
            <4>1. Cert' = c
                BY <1>6 DEF Cert
            <4>2. c.fault \in Nat
                BY CertificatesAssumption, CertificateFields
            <4>3. QED
                BY <2>4, <4>1, <4>2
        <3>9. part' = 1
            BY <1>4, <2>2
        <3>10. Current'
            BY <3>8, <3>9 DEF Current
        <3>11. QED
            BY <1>7, <3>2, <3>7, <3>10 DEF Kept
    <2>5. QED
        BY <2>3, <2>4
<1>11. QED
    BY <1>8, <1>9, <1>10


LEMMA EndCertStep == IInv /\ EndCert => Kept
<1> SUFFICES ASSUME IInv, EndCert PROVE Kept
    OBVIOUS
<1> DEFINE n == Len(offered)
<1>1. /\ stage = "cert" /\ stage' = "chain" /\ offered' = offered
      /\ host' = host /\ num_certs' = num_certs + 1
      /\ pkey' = pkey /\ key_usages' = key_usages /\ cert_sig' = cert_sig
      /\ saved_dn' = saved_dn /\ part' = part
      /\ err' = IF err = "none" /\ undecoded THEN "truncated" ELSE err
    BY DEF EndCert, hashes, locals
<1>2. (ee' <=> ee) /\ (undecoded' <=> undecoded)
    BY DEF EndCert, locals
<1>3. /\ n \in Nat /\ n >= 1 /\ n \in DOMAIN offered
      /\ num_certs = n - 1 /\ err # "not_trusted"
    BY <1>1, CurrentType DEF IInv, Counting
<1>4. Counting'
    BY <1>1, <1>3 DEF Counting
<1>5. ~(Done' < Len(offered'))
    BY <1>1, <1>3 DEF Done
<1>6. Current'
    BY <1>5 DEF Current
<1>7. CASE err # "none"
    <2>1. err' = err
        BY <1>1, <1>7
    <2>2. Concluded'
        BY <1>1, <1>3, <2>1 DEF IInv, Concluded
    <2>3. Behind'
        BY <1>7, <2>1 DEF Behind, Proceeding
    <2>4. QED
        BY <1>4, <1>6, <2>2, <2>3 DEF Kept
<1>8. CASE err = "none" /\ undecoded
    <2>1. Inside
        BY <1>1, <1>8 DEF Inside
    <2>2. Cert.fault = part
        BY <1>8 DEF EndCert
    <2>3. LostAt(offered, n, host)
        BY <2>1, <2>2, FaultHere
    <2>4. err' = "truncated"
        BY <1>1, <1>8
    <2>5. Concluded'
        BY <1>1, <1>3, <2>3, <2>4 DEF Concluded
    <2>6. Behind'
        BY <2>4 DEF Behind, Proceeding
    <2>7. QED
        BY <1>4, <1>6, <2>5, <2>6 DEF Kept
<1>9. CASE err = "none" /\ ~undecoded
    <2>1. err' = "none"
        BY <1>1, <1>9
    <2>2. Concluded'
        BY <2>1 DEF Concluded
    <2>3. Done = n /\ Done' = n /\ Proceeding
        BY <1>1, <1>9 DEF Done, Proceeding
    <2>4. /\ ee <=> n = 0
          /\ \A i \in 1 .. n : Passed(offered, i, host)
          /\ n >= 1 =>
                /\ ~Pinned(offered[1])
                /\ cert_sig = SignatureOf(offered[n])
                /\ part <= Subject => saved_dn = offered[n].issuer
                /\ pkey = offered[1].key
                /\ key_usages = UsagesOf(offered[1])
          /\ part = Issuer
        BY <2>3 DEF IInv, Behind
    <2>5. ee' <=> Done' = 0
        BY <1>2, <2>3, <2>4
    <2>6. Behind'
        BY <1>1, <2>3, <2>4, <2>5 DEF Behind
    <2>7. QED
        BY <1>4, <1>6, <2>2, <2>6 DEF Kept
<1>10. QED
    BY <1>7, <1>8, <1>9

(* The end of the chain without a verdict: no certificate was trusted.     *)
LEMMA EndChainStep == IInv /\ EndChain => Kept
<1> SUFFICES ASSUME IInv, EndChain PROVE Kept
    OBVIOUS
<1> DEFINE n == Len(offered)
<1>1. /\ stage = "chain" /\ stage' = "ended" /\ offered' = offered
      /\ host' = host /\ num_certs' = num_certs
      /\ pkey' = pkey /\ key_usages' = key_usages
      /\ err' = IF err # "none" THEN err
                ELSE IF num_certs = 0 THEN "empty_chain" ELSE "not_trusted"
    BY DEF EndChain
<1>2. /\ offered \in Seq(Certificates) /\ n \in Nat
      /\ num_certs = n /\ Done = n /\ err # "not_trusted"
      /\ err = "none" => Proceeding /\ part = Issuer
    BY <1>1, ChainFacts
<1>3. err' # "none"
    BY <1>1
<1>4. Counting' /\ Behind' /\ Current'
    BY <1>1, <1>2, <1>3 DEF Counting, Behind, Current, Proceeding
<1>5. CASE err = "ok"
    <2>1. err' = "ok"
        BY <1>1, <1>5
    <2>2. QED
        BY <1>1, <1>4, <1>5, <2>1 DEF IInv, Concluded, Kept
<1>6. CASE err \notin {"none", "ok"}
    <2>1. err' = err
        BY <1>1, <1>6
    <2>2. PICK i \in DOMAIN offered : LostAt(offered, i, host)
        BY <1>1, <1>6 DEF IInv, Concluded
    <2>3. ~Trusted(offered, host)
        BY <1>2, <2>2, LostIsNotTrusted
    <2>4. Concluded'
        BY <1>1, <1>2, <1>6, <2>1, <2>3 DEF Concluded
    <2>5. QED
        BY <1>4, <2>4 DEF Kept
<1>7. CASE err = "none"
    <2>1. /\ \A i \in 1 .. n : Passed(offered, i, host)
          /\ n >= 1 =>
                /\ ~Pinned(offered[1])
                /\ pkey = offered[1].key
                /\ key_usages = UsagesOf(offered[1])
        BY <1>2, <1>7 DEF IInv, Behind
    <2>2. ~Trusted(offered, host)
        <3> SUFFICES ASSUME NEW k \in DOMAIN offered,
                            TrustedUpTo(offered, k, host)
                     PROVE  FALSE
            BY DEF Trusted
        <3>1. k \in 1 .. n /\ n >= 1
            BY <1>2
        <3>2. Passed(offered, k, host) /\ ~Pinned(offered[1])
            BY <2>1, <3>1
        <3>3. QED
            BY <3>2 DEF Passed, TrustedUpTo
    <2>3. err' = IF n = 0 THEN "empty_chain" ELSE "not_trusted"
        BY <1>1, <1>2, <1>7
    <2>4. Concluded'
        BY <1>1, <1>2, <2>1, <2>2, <2>3 DEF Concluded
    <2>5. QED
        BY <1>4, <2>4 DEF Kept
<1>8. QED
    BY <1>5, <1>6, <1>7

LEMMA StutterStep == IInv /\ UNCHANGED vars => Kept
<1> SUFFICES ASSUME IInv, UNCHANGED vars PROVE Kept
    OBVIOUS
<1>1. /\ stage' = stage /\ offered' = offered /\ host' = host /\ err' = err
      /\ num_certs' = num_certs /\ pkey' = pkey /\ key_usages' = key_usages
      /\ cert_sig' = cert_sig /\ part' = part /\ ext' = ext
      /\ current_dn' = current_dn /\ next_dn' = next_dn
      /\ saved_dn' = saved_dn
    BY DEF vars, hashes, locals
<1>2. undecoded' = undecoded /\ ee' = ee /\ named' = named /\ basic' = basic
    BY DEF vars, locals
<1>3. Done' = Done
    BY <1>1, <1>2 DEF Done
<1>4. Proceeding' <=> Proceeding
    BY <1>1 DEF Proceeding
<1>5. Counting'
    BY <1>1 DEF IInv, Counting
<1>6. Behind'
    BY <1>1, <1>2, <1>3, <1>4 DEF IInv, Behind
<1>7. Cert' = Cert /\ (ExtensionsRead(Cert)' <=> ExtensionsRead(Cert))
    BY <1>1, <1>2 DEF Cert, ExtensionsRead
<1>8. Current'
    BY <1>1, <1>2, <1>3, <1>4, <1>7 DEF IInv, Current
<1>9. Concluded'
    BY <1>1 DEF IInv, Concluded
<1>10. QED
    BY <1>5, <1>6, <1>8, <1>9 DEF Kept

-----------------------------------------------------------------------------

LEMMA Initially == Init => IInv
<1> SUFFICES ASSUME Init PROVE IInv
    OBVIOUS
<1>1. stage = "idle" /\ offered = << >> /\ err = "none" /\ num_certs = 0
    BY DEF Init
<1>2. Counting /\ Concluded
    BY <1>1 DEF Counting, Concluded
<1>3. ~Proceeding
    BY <1>1 DEF Proceeding
<1>4. QED
    BY <1>2, <1>3, TypeInit DEF IInv, Behind, Current

LEMMA Inductive == IInv /\ [Next]_vars => IInv'
<1> SUFFICES ASSUME IInv, [Next]_vars PROVE IInv'
    OBVIOUS
<1>1. DataOK /\ FlagsOK /\ Counting
    BY TypeParts DEF IInv
<1>2. DataOK' /\ FlagsOK'
    BY <1>1, DataStep, FlagsStep
<1>3. TypeOK'
    BY <1>2 DEF TypeOK, DataOK, FlagsOK
<1>4. Kept
    BY BadEncodingStep, ReadIssuerStep, ReadValidityStep, ReadSubjectStep,
       ReadPublicKeyStep, BasicConstraintsStep, KeyUsageStep,
       SubjectAltNameStep, OtherExtensionStep, EndExtensionsStep,
       ReadSignatureStep, StartChainStep, StartCertStep, EndCertStep,
       EndChainStep, StutterStep
       DEF Next, xm_append
<1>5. QED
    BY <1>3, <1>4 DEF IInv, Kept

(* A verdict in the sense of the two properties follows from the           *)
(* invariant.                                                              *)
LEMMA VerdictInvariant == IInv => VerdictIsPathValidation
<1> SUFFICES ASSUME IInv PROVE VerdictIsPathValidation
    OBVIOUS
<1>1. err = "ok" => Trusted(offered, host)
    BY DEF IInv, Concluded
<1>2. stage = "ended" /\ Trusted(offered, host) => err = "ok"
    BY DEF IInv, Counting, Concluded
<1>3. QED
    BY <1>1, <1>2 DEF VerdictIsPathValidation

LEMMA KeyInvariant == IInv => KeyOfEndEntity
<1> SUFFICES ASSUME IInv, stage = "ended", get_pkey # NoKey
             PROVE  pkey = offered[1].key /\ key_usages = UsagesOf(offered[1])
    BY DEF KeyOfEndEntity
<1>1. err \in {"ok", "not_trusted"}
    BY DEF get_pkey
<1>2. QED
    BY <1>1 DEF IInv, Concluded

(* The variables of the validator keep their types.                        *)
THEOREM TypeCorrect == Spec => []TypeOK
<1>1. IInv => TypeOK
    BY DEF IInv
<1>2. QED
    BY Initially, Inductive, <1>1, PTL DEF Spec

(* Whatever certificates are sent, in whatever order, and whatever earlier *)
(* chains were given up where: the validator accepts only a chain with a   *)
(* sound path to an anchor, and a chain that has one it accepts.           *)
THEOREM VerdictCorrect == Spec => []VerdictIsPathValidation
<1>1. QED
    BY Initially, Inductive, VerdictInvariant, PTL DEF Spec

(* The key that the handshake processor is given, and what it may be used  *)
(* for, are those of the first certificate of the chain.                   *)
THEOREM KeyCorrect == Spec => []KeyOfEndEntity
<1>1. QED
    BY Initially, Inductive, KeyInvariant, PTL DEF Spec

-----------------------------------------------------------------------------
(* The number of a day follows from its date: the day of the year by the   *)
(* table, after the days of the years before.                              *)
CalendarDate ==
    /\ calendar = [stage |-> "day", year |-> calendar.year, month |-> calendar.month,
                   day |-> calendar.day, number |-> calendar.number,
                   last |-> calendar.last]
    /\ calendar.year \in Nat
    /\ calendar.month \in 1 .. 12
    /\ calendar.day \in 1 .. LengthOf(calendar.year, calendar.month)

CalendarInv ==
    /\ CalendarDate
    /\ calendar.number = DaysBeforeYear(calendar.year)
            + (MonthEntry(calendar.year, calendar.month) \div 32) + calendar.day - 1

LEMMA YearLength ==
    ASSUME NEW year \in Nat
    PROVE  DaysBeforeYear(year + 1)
              = DaysBeforeYear(year) + IF LeapYear(year) THEN 366 ELSE 365
  BY SMTT(60) DEF DaysBeforeYear, LeapYear

LEMMA TableRows ==
    /\ MonthTable[1] = 31 /\ MonthTable[2] = 1020 /\ MonthTable[3] = 1919
    /\ MonthTable[4] = 2910 /\ MonthTable[5] = 3871 /\ MonthTable[6] = 4862
    /\ MonthTable[7] = 5823 /\ MonthTable[8] = 6815 /\ MonthTable[9] = 7806
    /\ MonthTable[10] = 8767 /\ MonthTable[11] = 9758 /\ MonthTable[12] = 10719
    /\ MonthTable[13] = 31 /\ MonthTable[14] = 1021 /\ MonthTable[15] = 1951
    /\ MonthTable[16] = 2942 /\ MonthTable[17] = 3903 /\ MonthTable[18] = 4894
    /\ MonthTable[19] = 5855 /\ MonthTable[20] = 6847 /\ MonthTable[21] = 7838
    /\ MonthTable[22] = 8799 /\ MonthTable[23] = 9790 /\ MonthTable[24] = 10751
  BY DEF MonthTable

LEMMA TableEntries ==
    ASSUME NEW year \in Nat, NEW month \in 1 .. 12
    PROVE  MonthEntry(year, month)
              = IF LeapYear(year) THEN MonthTable[month + 12] ELSE MonthTable[month]
<1>1. CASE LeapYear(year)
  BY <1>1 DEF MonthEntry
<1>2. CASE ~LeapYear(year)
  <2>1. month + 0 = month
    OBVIOUS
  <2> QED
    BY <1>2, <2>1 DEF MonthEntry
<1> QED
  BY <1>1, <1>2

LEMMA Lengths ==
    ASSUME NEW year \in Nat, NEW month \in 1 .. 12
    PROVE  LengthOf(year, month)
              = IF month \in {4, 6, 9, 11} THEN 30
                ELSE IF month # 2 THEN 31
                ELSE IF LeapYear(year) THEN 29 ELSE 28
  BY DEF LengthOf, LeapYear

LEMMA TableLengths ==
    ASSUME NEW year \in Nat, NEW month \in 1 .. 12
    PROVE  /\ LengthOf(year, month) \in 28 .. 31
           /\ MonthEntry(year, month) % 32 = LengthOf(year, month)
           /\ MonthEntry(year, month) \div 32 \in Nat
<1>1. CASE LeapYear(year)
  BY <1>1, TableEntries, TableRows, Lengths
<1>2. CASE ~LeapYear(year)
  BY <1>2, TableEntries, TableRows, Lengths
<1> QED
  BY <1>1, <1>2

LEMMA MonthsHaveDays ==
    ASSUME NEW year \in Nat, NEW month \in 1 .. 12
    PROVE  1 \in 1 .. LengthOf(year, month)
  BY Lengths

LEMMA TableDays ==
    ASSUME NEW year \in Nat
    PROVE  /\ \A month \in 1 .. 11 :
                 MonthEntry(year, month + 1) \div 32
                    = (MonthEntry(year, month) \div 32) + LengthOf(year, month)
           /\ MonthEntry(year, 1) \div 32 = 0
           /\ (MonthEntry(year, 12) \div 32) + LengthOf(year, 12)
                = IF LeapYear(year) THEN 366 ELSE 365
<1>1. CASE LeapYear(year)
  BY <1>1, TableEntries, TableRows, Lengths
<1>2. CASE ~LeapYear(year)
  BY <1>2, TableEntries, TableRows, Lengths
<1> QED
  BY <1>1, <1>2

LEMMA FirstNumbers ==
    DaysBeforeYear(0) = 0 /\ DaysBeforeYear(1601) = 584754
    /\ DaysBeforeYear(1970) = 719528
  BY SMT DEF DaysBeforeYear

LEMMA CalendarStarts == CalendarInit => CalendarInv
<1> SUFFICES ASSUME NEW start \in Starts,
                    calendar = [stage |-> "day", year |-> start.year, month |-> 1,
                                day |-> 1, number |-> start.number,
                                last |-> start.last]
             PROVE  CalendarInv
  BY DEF CalendarInit
<1>1. start.year \in Nat /\ start.number = DaysBeforeYear(start.year)
  BY SMT, CalendarAssumption, FirstNumbers
<1>2. 1 \in 1 .. LengthOf(start.year, 1)
  BY SMT, <1>1, MonthsHaveDays
<1>4. MonthEntry(start.year, 1) \div 32 = 0
  BY SMT, <1>1, TableDays
<1>3. DaysBeforeYear(start.year) \in Int
  BY <1>1 DEF DaysBeforeYear
<1> QED
  BY SMT, <1>1, <1>2, <1>3, <1>4 DEF CalendarInv, CalendarDate

LEMMA CalendarGoesOn == CalendarInv /\ [NextDay]_calendar => CalendarInv'
<1> SUFFICES ASSUME CalendarInv, [NextDay]_calendar
             PROVE  CalendarInv'
  OBVIOUS
<1> DEFINE y == calendar.year  m == calendar.month  d == calendar.day
           Number(year, month, day) ==
              DaysBeforeYear(year) + (MonthEntry(year, month) \div 32) + day - 1
<1>1. CASE UNCHANGED calendar
  BY <1>1 DEF CalendarInv, CalendarDate
<1>2. ASSUME NextDay
      PROVE  CalendarInv'
  <2>1. /\ y \in Nat /\ m \in 1 .. 12 /\ d \in 1 .. LengthOf(y, m)
        /\ calendar.number = Number(y, m, d)
        /\ LengthOf(y, m) \in 28 .. 31
        /\ MonthEntry(y, m) \div 32 \in Nat
        /\ DaysBeforeYear(y) \in Int /\ DaysBeforeYear(y + 1) \in Int
    BY TableLengths DEF CalendarInv, CalendarDate, DaysBeforeYear
  <2>2. ASSUME NEW y2 \in Nat, NEW m2 \in 1 .. 12, NEW d2 \in 1 .. LengthOf(y2, m2),
               Number(y2, m2, d2) = Number(y, m, d) + 1,
               calendar' = [stage |-> "day", year |-> y2, month |-> m2,
                            day |-> d2, number |-> calendar.number + 1,
                            last |-> calendar.last]
        PROVE  CalendarInv'
    <3>1. /\ calendar'.year = y2 /\ calendar'.month = m2 /\ calendar'.day = d2
          /\ calendar'.stage = "day" /\ calendar'.last = calendar.last
          /\ calendar'.number = calendar.number + 1
      BY <2>2
    <3>2. CalendarDate'
      BY <2>2, <3>1 DEF CalendarDate
    <3>3. calendar'.number = Number(y2, m2, d2)
      BY <2>1, <2>2, <3>1
    <3> QED
      BY <3>1, <3>2, <3>3 DEF CalendarInv
  <2>3. CASE d < LengthOf(y, m)
    <3>1. calendar' = [stage |-> "day", year |-> y, month |-> m,
                       day |-> d + 1, number |-> calendar.number + 1,
                       last |-> calendar.last]
      BY <1>2, <2>3 DEF NextDay, TheDay
    <3>2. d + 1 \in 1 .. LengthOf(y, m) /\ Number(y, m, d + 1) = Number(y, m, d) + 1
      BY <2>1, <2>3
    <3> QED
      BY <2>1, <2>2, <3>1, <3>2
  <2>4. CASE d = LengthOf(y, m) /\ m < 12
    <3>1. calendar' = [stage |-> "day", year |-> y, month |-> m + 1,
                       day |-> 1, number |-> calendar.number + 1,
                       last |-> calendar.last]
      <4>1. ~(d < LengthOf(y, m))
        BY <2>1, <2>4
      <4> QED
        BY <1>2, <2>4, <4>1, Zenon DEF NextDay, TheDay
    <3>2. m + 1 \in 1 .. 12 /\ 1 \in 1 .. LengthOf(y, m + 1)
      <4>1. m + 1 \in 1 .. 12
        BY <2>1, <2>4
      <4> QED
        BY <2>1, <4>1, MonthsHaveDays
    <3>3. Number(y, m + 1, 1) = Number(y, m, d) + 1
      <4>1. MonthEntry(y, m + 1) \div 32 = (MonthEntry(y, m) \div 32) + LengthOf(y, m)
        BY <2>1, <2>4, TableDays
      <4> QED
        BY <2>1, <2>4, <4>1
    <3> QED
      BY <2>1, <2>2, <3>1, <3>2, <3>3
  <2>5. CASE d = LengthOf(y, m) /\ m = 12
    <3>1. calendar' = [stage |-> "day", year |-> y + 1, month |-> 1,
                       day |-> 1, number |-> calendar.number + 1,
                       last |-> calendar.last]
      <4>1. ~(d < LengthOf(y, m)) /\ ~(m < 12)
        BY <2>1, <2>5
      <4> QED
        BY <1>2, <4>1, Zenon DEF NextDay, TheDay
    <3>2. y + 1 \in Nat /\ 1 \in 1 .. 12 /\ 1 \in 1 .. LengthOf(y + 1, 1)
      <4>1. y + 1 \in Nat /\ 1 \in 1 .. 12
        BY <2>1
      <4> QED
        BY <4>1, MonthsHaveDays
    <3>3. Number(y + 1, 1, 1) = Number(y, 12, d) + 1
      <4>1. MonthEntry(y + 1, 1) \div 32 = 0
        BY <2>1, TableDays
      <4>2. (MonthEntry(y, 12) \div 32) + d = IF LeapYear(y) THEN 366 ELSE 365
        BY <2>1, <2>5, TableDays
      <4>3. DaysBeforeYear(y + 1) = DaysBeforeYear(y) + IF LeapYear(y) THEN 366 ELSE 365
        BY <2>1, YearLength
      <4> HIDE DEF y, d
      <4> QED
        BY <2>1, <2>5, <4>1, <4>2, <4>3
    <3> QED
      BY <2>1, <2>2, <2>5, <3>1, <3>2, <3>3
  <2> QED
    BY <2>1, <2>3, <2>4, <2>5
<1> QED
  BY <1>1, <1>2

(* The two encodings of a date, and the two clocks.                        *)
LEMMA TwoDigits ==
    ASSUME NEW year \in 1950 .. 2049
    PROVE  FullYear(year % 100) = year
  BY DEF FullYear

LEMMA DayAndSecond ==
    ASSUME NEW days \in Nat, NEW second \in Nat, second < 86400
    PROVE  SystemDate(days * 86400 + second) = <<days + 719528, second>>
<1>1. (days * 86400 + second) \div 86400 = days
  BY SMT
<1>2. (days * 86400 + second) % 86400 = second
  BY SMT
<1> QED
  BY SMT, <1>1, <1>2 DEF SystemDate

LEMMA SameInstant ==
    ASSUME NEW number \in UnixDays, NEW second \in Nat, second < 86400
    PROVE  SystemDate((number - 719528) * 86400 + second) = <<number, second>>
<1>1. number \in Int /\ number >= 719528
  BY SMT DEF UnixDays
<1>2. number - 719528 \in Nat /\ (number - 719528) + 719528 = number
  BY SMT, <1>1
<1> QED
  BY SMT, <1>2, DayAndSecond

LEMMA SecondOfDay ==
    ASSUME NEW clock \in Clocks
    PROVE  /\ clock[1] \in Nat /\ clock[2] \in Nat /\ clock[3] \in Nat
           /\ clock[1] * 3600 + clock[2] * 60 + clock[3] < 86400
<1>1. clock \in (0 .. 23) \X (0 .. 59) \X (0 .. 59)
  BY SMT, CalendarAssumption
<1>2. clock[1] \in 0 .. 23 /\ clock[2] \in 0 .. 59 /\ clock[3] \in 0 .. 59
  BY SMT, <1>1
<1>3. /\ clock[1] \in Nat /\ clock[2] \in Nat /\ clock[3] \in Nat
      /\ clock[1] <= 23 /\ clock[2] <= 59 /\ clock[3] <= 59
  BY SMT, <1>2
<1> QED
  BY SMT, <1>3

LEMMA UnixNumbers ==
    ASSUME NEW number \in UnixDays
    PROVE  number \in Int
  BY SMT DEF UnixDays

LEMMA CalendarReads == CalendarInv => DatesAreTheirDays
<1> SUFFICES ASSUME CalendarInv PROVE DatesAreTheirDays
  BY SMT
<1> DEFINE y == calendar.year  m == calendar.month  d == calendar.day
           Second(clock) == clock[1] * 3600 + clock[2] * 60 + clock[3]
<1>1. /\ y \in Nat /\ m \in 1 .. 12 /\ d \in 1 .. LengthOf(y, m)
      /\ calendar.number
            = DaysBeforeYear(y) + (MonthEntry(y, m) \div 32) + d - 1
  BY SMT DEF CalendarInv, CalendarDate
<1>2. \A clock \in Clocks :
         LET read == ReadDate(y, m, d, clock)
         IN  /\ read[1] = calendar.number
             /\ calendar.number \in UnixDays =>
                   read = SystemDate((calendar.number - 719528) * 86400 +
                                     clock[1] * 3600 + clock[2] * 60 + clock[3])
             /\ y \in 1950 .. 2049 => read = ReadDate(FullYear(y % 100), m, d, clock)
  <2> SUFFICES ASSUME NEW clock \in Clocks
               PROVE  /\ ReadDate(y, m, d, clock)[1] = calendar.number
                      /\ calendar.number \in UnixDays =>
                            ReadDate(y, m, d, clock)
                               = SystemDate((calendar.number - 719528) * 86400 +
                                            clock[1] * 3600 + clock[2] * 60 + clock[3])
                      /\ y \in 1950 .. 2049 =>
                            ReadDate(y, m, d, clock)
                               = ReadDate(FullYear(y % 100), m, d, clock)
    BY SMT
  <2>1. clock[1] \in Nat /\ clock[2] \in Nat /\ clock[3] \in Nat
    BY SMT, SecondOfDay
  <2>2. Second(clock) \in Nat /\ Second(clock) < 86400
    BY SMT, <2>1, SecondOfDay
  <2>3. ReadDate(y, m, d, clock) = <<calendar.number, Second(clock)>>
    BY SMT, <1>1 DEF ReadDate
  <2>4. ASSUME calendar.number \in UnixDays
        PROVE  ReadDate(y, m, d, clock)
                  = SystemDate((calendar.number - 719528) * 86400 +
                               clock[1] * 3600 + clock[2] * 60 + clock[3])
    <3>1. (calendar.number - 719528) * 86400 + Second(clock)
             = (calendar.number - 719528) * 86400 +
                  clock[1] * 3600 + clock[2] * 60 + clock[3]
      <4>1. calendar.number \in Int
        BY SMT, <2>4, UnixNumbers
      <4> QED
        BY SMT, <2>1, <4>1
    <3>2. SystemDate((calendar.number - 719528) * 86400 + Second(clock))
             = <<calendar.number, Second(clock)>>
      BY SMT, <2>2, <2>4, SameInstant
    <3> HIDE DEF Second
    <3> QED
      BY SMT, <2>3, <3>1, <3>2
  <2>5. y \in 1950 .. 2049 => FullYear(y % 100) = y
    BY SMT, TwoDigits
  <2> QED
    BY SMT, <2>3, <2>4, <2>5
<1>3. \A day \in 0 .. 32 : DateReadable(y, m, day) <=> day \in 1 .. LengthOf(y, m)
  <2>1. MonthEntry(y, m) % 32 = LengthOf(y, m) /\ LengthOf(y, m) \in 28 .. 31
    BY Zenon, <1>1, TableLengths
  <2> QED
    BY SMT, <1>1, <2>1 DEF DateReadable
<1> QED
  BY SMT, <1>2, <1>3 DEF DatesAreTheirDays

(* Every date of the calendar is read as its day, and compares with the    *)
(* clock of the client, in any year (read-date of x509_minimal.c).         *)
THEOREM DatesAlwaysTheirDays == CalendarSpec => []DatesAreTheirDays
<1>1. CalendarInit => CalendarInv
  BY SMT, CalendarStarts
<1>2. CalendarInv /\ [NextDay]_calendar => CalendarInv'
  BY SMT, CalendarGoesOn
<1>3. CalendarInv => DatesAreTheirDays
  BY SMT, CalendarReads
<1> QED
  BY <1>1, <1>2, <1>3, PTL DEF CalendarSpec
=============================================================================

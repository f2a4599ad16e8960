----------------------------- MODULE X509Minimal -----------------------------
(***************************************************************************)
(* The X.509 engine of BearSSL (x509_minimal.c): certificates arrive one   *)
(* by one, each in pieces, and are decoded by a T0 coroutine that keeps    *)
(* only a few hashes and keys between them.  One action here is one call   *)
(* of the engine, xm_append being one action for every place where a piece *)
(* may end: the decoder has no other driver, so longer pieces are several  *)
(* of these actions in a row.                                              *)
(***************************************************************************)
EXTENDS PathValidation

CONSTANTS
    Hosts,          \* the server names asked for; << >> asks for none
    MaxChain        \* bound: the certificates of a chain

VARIABLES
    stage,          \* what the caller may do next
    host,           \* server_name
    offered,        \* the certificates of this chain, the current one last
    err,            \* the verdict, "none" while there is none
    num_certs,
    undecoded,      \* cert_length is not zero
    current_dn, next_dn, saved_dn,
    pkey,           \* the key of the end-entity certificate
    key_usages,
    cert_sig,       \* key type and signer of the last signature read
    part, ext,      \* where the coroutine is in the certificate
    ee, named, basic   \* its locals: first certificate, name seen, CA seen

outer  == <<stage, host, offered>>
hashes == <<current_dn, next_dn, saved_dn>>
locals == <<part, ext, ee, named, basic>>
vars   == <<stage, host, offered, err, num_certs, undecoded, hashes, pkey,
            key_usages, cert_sig, locals>>

NoDn  == "no dn"
NoKey == "no key"
NoSig == [type |-> "none", by |-> NoKey]

Errors == {"truncated", "empty_chain", "not_trusted", "bad_encoding",
           "expired", "dn_mismatch", "weak_public_key", "wrong_key_type",
           "unsupported", "bad_signature", "not_ca", "forbidden_key_usage",
           "critical_extension", "bad_server_name"}

Cert == offered[Len(offered)]

Init ==
    /\ stage = "idle"
    /\ host = << >>
    /\ offered = << >>
    /\ err = "none"
    /\ num_certs = 0
    /\ undecoded = FALSE
    /\ current_dn = NoDn /\ next_dn = NoDn /\ saved_dn = NoDn
    /\ pkey = NoKey
    /\ key_usages = {}
    /\ cert_sig = NoSig
    /\ part = Issuer /\ ext = 0
    /\ ee = TRUE /\ named = FALSE /\ basic = FALSE

(***************************************************************************)
(* The calls of the handshake processor.  A handshake may be given up at   *)
(* any place, and the next one starts with a new chain.                    *)
(***************************************************************************)
StartChain ==
    /\ host' \in Hosts
    /\ stage' = "chain"
    /\ offered' = << >>
    /\ err' = "none"
    /\ num_certs' = 0
    /\ pkey' = NoKey
    /\ part' = Issuer /\ ext' = 0
    /\ ee' = TRUE /\ named' = FALSE /\ basic' = FALSE
    /\ UNCHANGED <<undecoded, hashes, key_usages, cert_sig>>

StartCert ==
    /\ stage = "chain" /\ Len(offered) < MaxChain
    /\ \E c \in Certificates :
          /\ offered' = Append(offered, c)
          /\ IF err # "none"
             THEN UNCHANGED <<err, undecoded>>
             ELSE IF c.fault = Length
             THEN err' = "truncated" /\ UNCHANGED undecoded
             ELSE undecoded' = TRUE /\ UNCHANGED err
    /\ stage' = "cert"
    /\ UNCHANGED <<host, num_certs, hashes, pkey, key_usages, cert_sig, locals>>

EndCert_overriding ==
    /\ stage = "cert"
    /\ err # "none" \/ ~undecoded \/ (Cert.fault = part /\ Cert.cut)
    /\ err' = IF undecoded THEN "truncated" ELSE err
    /\ num_certs' = num_certs + 1
    /\ stage' = "chain"
    /\ UNCHANGED <<host, offered, undecoded, hashes, pkey, key_usages,
                   cert_sig, locals>>

(* The caller has no more bytes of this certificate.                       *)
EndCert ==
    /\ stage = "cert"
    /\ err # "none" \/ ~undecoded \/ (Cert.fault = part /\ Cert.cut)
    /\ err' = IF err = "none" /\ undecoded THEN "truncated" ELSE err
    /\ num_certs' = num_certs + 1
    /\ stage' = "chain"
    /\ UNCHANGED <<host, offered, undecoded, hashes, pkey, key_usages,
                   cert_sig, locals>>

EndChain ==
    /\ stage = "chain"
    /\ err' = IF err # "none" THEN err
              ELSE IF num_certs = 0 THEN "empty_chain" ELSE "not_trusted"
    /\ stage' = "ended"
    /\ UNCHANGED <<host, offered, num_certs, undecoded, hashes, pkey,
                   key_usages, cert_sig, locals>>

get_pkey == IF err \in {"ok", "not_trusted"} THEN pkey ELSE NoKey

(***************************************************************************)
(* The decoder, one part of the certificate after the other.  Once there   *)
(* is a verdict the remaining bytes are ignored.                           *)
(***************************************************************************)
Reading(p) ==
    /\ stage = "cert" /\ err = "none" /\ undecoded
    /\ part = p /\ Cert.fault # p

BadEncoding ==
    /\ stage = "cert" /\ err = "none" /\ undecoded
    /\ Cert.fault = part /\ ~Cert.cut
    /\ err' = "bad_encoding"
    /\ UNCHANGED <<outer, num_certs, undecoded, hashes, pkey, key_usages,
                   cert_sig, locals>>

(* The first run of the coroutine allows every usage; the name is hashed   *)
(* and kept for the next certificate.                                      *)
ReadIssuer ==
    /\ Reading(Issuer)
    /\ key_usages' = IF ee THEN Usages ELSE key_usages
    /\ current_dn' = Cert.issuer
    /\ next_dn' = Cert.issuer
    /\ part' = Validity
    /\ UNCHANGED <<outer, err, num_certs, undecoded, saved_dn, pkey, cert_sig,
                   ext, ee, named, basic>>

ReadValidity ==
    /\ Reading(Validity)
    /\ IF Before(Now, Cert.notBefore) \/ Before(Cert.notAfter, Now)
       THEN err' = "expired" /\ UNCHANGED part
       ELSE part' = Subject /\ UNCHANGED err
    /\ UNCHANGED <<outer, num_certs, undecoded, hashes, pkey, key_usages,
                   cert_sig, ext, ee, named, basic>>

ReadSubject ==
    /\ Reading(Subject)
    /\ current_dn' = Cert.subject
    /\ named' = IF ee THEN \E name \in Cert.cn : Covers(name, host) ELSE named
    /\ IF ~ee /\ Cert.subject # saved_dn
       THEN err' = "dn_mismatch" /\ UNCHANGED <<part, saved_dn>>
       ELSE part' = PublicKey /\ saved_dn' = next_dn /\ UNCHANGED err
    /\ UNCHANGED <<outer, num_certs, undecoded, next_dn, pkey, key_usages,
                   cert_sig, ext, ee, basic>>

(* verify_signature, on the signature sig.                                 *)
verify_signature(sig, key) ==
    IF KeyType[key] # sig.type THEN "wrong_key_type"
    ELSE IF sig.type \notin Verifiers THEN "unsupported"
    ELSE IF sig.by # key THEN "bad_signature"
    ELSE "none"

ReadPublicKey_everyKept ==
    /\ Reading(PublicKey)
    /\ LET verdict == IF Cert.key \in WeakKeys THEN "weak_public_key"
                      ELSE IF ee THEN "none"
                      ELSE verify_signature(cert_sig, Cert.key)
       IN  /\ err' = verdict
           /\ IF verdict = "none"
              THEN part' = Extensions /\ ext' = 0 /\ basic' = FALSE
              ELSE UNCHANGED <<part, ext, basic>>
           /\ pkey' = IF verdict = "none" THEN Cert.key ELSE pkey
    /\ UNCHANGED <<outer, num_certs, undecoded, hashes, key_usages, cert_sig,
                   ee, named>>

(* The key of the server is kept; that of an issuer must verify the        *)
(* signature of the certificate before it.                                 *)
ReadPublicKey ==
    /\ Reading(PublicKey)
    /\ LET verdict == IF Cert.key \in WeakKeys THEN "weak_public_key"
                      ELSE IF ee THEN "none"
                      ELSE verify_signature(cert_sig, Cert.key)
       IN  /\ err' = verdict
           /\ IF verdict = "none"
              THEN part' = Extensions /\ ext' = 0 /\ basic' = FALSE
              ELSE UNCHANGED <<part, ext, basic>>
           /\ pkey' = IF ee /\ verdict = "none" THEN Cert.key ELSE pkey
    /\ UNCHANGED <<outer, num_certs, undecoded, hashes, key_usages, cert_sig,
                   ee, named>>

(* One extension of the certificate; what it does depends on its kind and  *)
(* on whether the certificate is that of the server.                       *)
Reading1(kind) ==
    /\ Reading(Extensions)
    /\ ext < Len(Cert.exts) /\ Cert.exts[ext + 1].kind = kind

Extension1 == Cert.exts[ext + 1]

PassUnless(refused, verdict) ==
    IF refused THEN err' = verdict /\ UNCHANGED ext
               ELSE ext' = ext + 1 /\ UNCHANGED err

BasicConstraints ==
    /\ Reading1("basic")
    /\ PassUnless(~ee /\ \/ ~Extension1.ca
                         \/ /\ Extension1.limit # NoLimit
                            /\ Extension1.limit < num_certs - 1,
                  "not_ca")
    /\ basic' = (basic \/ (~ee /\ err' = "none"))
    /\ UNCHANGED <<outer, num_certs, undecoded, hashes, pkey, key_usages,
                   cert_sig, part, ee, named>>

KeyUsage ==
    /\ Reading1("usage")
    /\ PassUnless(~ee /\ "certSign" \notin Extension1.bits,
                  "forbidden_key_usage")
    /\ key_usages' = IF ee THEN Extension1.bits \cap Usages ELSE key_usages
    /\ UNCHANGED <<outer, num_certs, undecoded, hashes, pkey, cert_sig,
                   part, ee, named, basic>>

SubjectAltName ==
    /\ Reading1("names")
    /\ named' = IF ee THEN \E name \in Extension1.names : Covers(name, host)
                      ELSE named
    /\ ext' = ext + 1
    /\ UNCHANGED <<outer, err, num_certs, undecoded, hashes, pkey, key_usages,
                   cert_sig, part, ee, basic>>

OtherExtension ==
    /\ \/ Reading1("policies") /\ PassUnless(Extension1.critical
                                                /\ ~Extension1.plain,
                                             "critical_extension")
       \/ Reading1("other") /\ PassUnless(Extension1.critical,
                                          "critical_extension")
       \/ Reading1("ignored") /\ PassUnless(FALSE, "none")
    /\ UNCHANGED <<outer, num_certs, undecoded, hashes, pkey, key_usages,
                   cert_sig, part, ee, named, basic>>

DirectTrust ==
    \E ta \in Anchors : ~ta.ca /\ ta.dn = current_dn /\ ta.key = pkey

EndExtensions ==
    /\ Reading(Extensions) /\ ext = Len(Cert.exts)
    /\ LET verdict == IF ee /\ ~named /\ host # << >> THEN "bad_server_name"
                      ELSE IF ee /\ DirectTrust THEN "ok"
                      ELSE IF ~ee /\ ~basic THEN "not_ca"
                      ELSE "none"
       IN  /\ err' = verdict
           /\ part' = IF verdict = "none" THEN Signature ELSE part
    /\ UNCHANGED <<outer, num_certs, undecoded, hashes, pkey, key_usages,
                   cert_sig, ext, ee, named, basic>>

TrustedIssuer(sig) ==
    \E ta \in Anchors : /\ ta.ca /\ ta.dn = saved_dn
                        /\ verify_signature(sig, ta.key) = "none"

(* The signature closes the certificate; its issuer may be an anchor.  The *)
(* coroutine then waits for the next certificate.                          *)
ReadSignature ==
    /\ Reading(Signature)
    /\ cert_sig' = [type |-> Cert.sigType, by |-> Cert.signer]
    /\ undecoded' = FALSE
    /\ err' = IF TrustedIssuer(cert_sig') THEN "ok" ELSE "none"
    /\ part' = Issuer
    /\ ee' = FALSE
    /\ UNCHANGED <<outer, num_certs, hashes, pkey, key_usages, ext, named,
                   basic>>

xm_append ==
    \/ ReadIssuer \/ ReadValidity \/ ReadSubject \/ ReadPublicKey
    \/ BasicConstraints \/ KeyUsage \/ SubjectAltName \/ OtherExtension
    \/ EndExtensions \/ ReadSignature \/ BadEncoding

Next == StartChain \/ StartCert \/ EndCert \/ EndChain \/ xm_append

Spec == Init /\ [][Next]_vars

(***************************************************************************)
(* Properties                                                              *)
(***************************************************************************)

(* The validator says that a chain is trusted exactly when it is: at no    *)
(* time does it accept without a sound path to an anchor, whatever an      *)
(* earlier chain left in its hashes, and at the end it has refused nothing *)
(* that the chain itself justifies.                                        *)
VerdictIsPathValidation ==
    /\ err = "ok" => Trusted(offered, host)
    /\ stage = "ended" /\ Trusted(offered, host) => err = "ok"

(* The key handed out, with the usages that go with it, is that of the     *)
(* first certificate of this chain, however many certificates were decoded *)
(* through the same buffers since.                                         *)
KeyOfEndEntity ==
    stage = "ended" /\ get_pkey # NoKey =>
        /\ pkey = offered[1].key
        /\ key_usages = UsagesOf(offered[1])

TypeOK ==
    /\ stage \in {"idle", "chain", "cert", "ended"}
    /\ offered \in Seq(Certificates)
    /\ err \in Errors \cup {"none", "ok"}
    /\ num_certs \in Nat
    /\ undecoded \in BOOLEAN
    /\ {current_dn, next_dn, saved_dn} \subseteq Dns \cup {NoDn}
    /\ pkey \in Keys \cup {NoKey}
    /\ key_usages \subseteq Usages
    /\ cert_sig \in [type : {"rsa", "ec", "none"}, by : Keys \cup {NoKey}]
    /\ part \in Issuer .. Signature /\ ext \in Nat
    /\ ee \in BOOLEAN /\ named \in BOOLEAN /\ basic \in BOOLEAN
=============================================================================

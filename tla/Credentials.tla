---------------------------- MODULE Credentials ----------------------------
(***************************************************************************)
(* The client certificate and key of a BearSSLClient: who allocates the    *)
(* certificate buffers, who frees them, and what connect offers to the     *)
(* server (src/src/BearSSLClient.cpp).  A text is in PEM form; decoding it *)
(* may end with an object, with an error, or with the text cut off.        *)
(***************************************************************************)
EXTENDS Naturals, FiniteSets

CONSTANTS Devices,    \* identities, each with a key and a certificate
          Blocks,     \* what malloc can return
          ChainSize,  \* BEAR_SSL_CLIENT_CHAIN_SIZE
          Null,       \* no address, no device
          AppMemory   \* addresses of certificates that the application holds

ASSUME CredentialsAssumption ==
  /\ IsFiniteSet(Blocks)
  /\ ChainSize \in Nat \ {0, 1}
  /\ Null \notin Devices \cup Blocks /\ AppMemory \notin Blocks \cup {Null}

VARIABLES ecCert,        \* _ecCert: per place, address, length, and whose it is
          ecChainLen, ecCertDynamic,
          ecKey,         \* _ecKey: the device in whose slot the key is
          skeyDecoder,   \* whether it exists, the type and the device of its key
          live,          \* the blocks that are allocated
          offer,       \* what the last connect gave the handshake processor
          destroyed,
          misfreed,      \* history: what was freed without being a live block
          used           \* history: what the application did

credVars == <<ecCert, ecChainLen, ecCertDynamic, ecKey, skeyDecoder, live, offer,
          destroyed, misfreed, used>>

Places == 0 .. ChainSize - 1
None == 0
Part == 1   \* data_len of a certificate cut off
Whole == 2

NoCert == [data |-> Null, len |-> None, of |-> Null]
AppCert(device) == [data |-> AppMemory, len |-> Whole, of |-> device]
NoKeyYet == [type |-> "none", of |-> Null]
NoOffer == [chain |-> {}, first |-> NoCert, key |-> NoKeyYet]

-----------------------------------------------------------------------------
(* free(address) has gone wrong if address is neither NULL nor live.       *)
Misfree(address) == {address} \ (live \cup {Null})

(* malloc returns any block that is not in use.                            *)
Allocates(block, inUse) == block \in Blocks \ inUse

(* How decoding a text ends, and how much it has written until then.       *)
Decodings ==
  {[end |-> "whole", len |-> Whole]} \cup [end : {"error", "cut"}, len : {None, Part}]

Does(what) == used' = used \cup what
DoesDecode(what, decoding) ==
  used' = used \cup what \cup (IF decoding.end = "whole" THEN {} ELSE {"undecoded"})

-----------------------------------------------------------------------------
setEccCert(device) ==
  /\ ecCert' = [ecCert EXCEPT ![0] = AppCert(device)]
  /\ ecChainLen' = 1
  /\ Does({"address"})
  /\ UNCHANGED <<ecCertDynamic, ecKey, skeyDecoder, live, misfreed>>

(* A chain that is too long is ignored.                                    *)
setEccChain(device, chainLen) ==
  /\ IF chainLen > ChainSize
     THEN UNCHANGED <<ecCert, ecChainLen, used>>
     ELSE /\ ecCert' = [i \in Places |-> IF i < chainLen THEN AppCert(device) ELSE ecCert[i]]
          /\ ecChainLen' = chainLen
          /\ Does({"address"})
  /\ UNCHANGED <<ecCertDynamic, ecKey, skeyDecoder, live, misfreed>>

(* setEccSlot with the address of a certificate.                           *)
setEccSlotBytes(device) ==
  /\ ecKey' = device
  /\ ecCert' = [ecCert EXCEPT ![0] = AppCert(device)]
  /\ ecChainLen' = 1 /\ ecCertDynamic' = FALSE
  /\ Does({"address", "slot"})
  /\ UNCHANGED <<skeyDecoder, live, misfreed>>

OldCertForgotten(i) == Null  \* mutant: the old buffer stays allocated

(* What is freed before a new buffer is allocated.                         *)
OldCert(i) == IF ecCertDynamic THEN ecCert[i].data ELSE Null

(* setEccSlot with a text.                                                 *)
setEccSlotText(device) ==
  \E block \in Blocks, d \in Decodings :
    LET kept == live \ {OldCert(0)}
    IN  /\ Allocates(block, kept)
        /\ live' = IF d.end = "error" THEN kept ELSE kept \cup {block}
        /\ misfreed' = misfreed \cup Misfree(OldCert(0))
        /\ ecChainLen' = 1
        /\ \/ /\ d.end = "whole"
              /\ ecKey' = device /\ ecCertDynamic' = TRUE
              /\ ecCert' = [ecCert EXCEPT ![0] = [data |-> block, len |-> Whole, of |-> device]]
           \/ /\ d.end = "error"
              /\ ecKey' = device /\ ecCertDynamic' = FALSE
              /\ ecCert' = [ecCert EXCEPT ![0] = NoCert]
           \/ /\ d.end = "cut"
              /\ ecCert' = [ecCert EXCEPT ![0] = [data |-> block, len |-> d.len, of |-> device]]
              /\ UNCHANGED <<ecKey, ecCertDynamic>>
        /\ DoesDecode({"slot"}, d)
        /\ UNCHANGED skeyDecoder

(* The key comes first: when its text has an error, which may come after   *)
(* the key is complete, the certificate stays.                             *)
setKeyFails(device, type) ==
  /\ skeyDecoder' = [there |-> TRUE, type |-> type,
                     of |-> IF type = "none" THEN Null ELSE device]
  /\ Does({"decoder", "undecoded"})
  /\ UNCHANGED <<ecCert, ecChainLen, ecCertDynamic, ecKey, live, misfreed>>

setKey(device, type) ==
  \E block \in Blocks, d \in Decodings :
    /\ Allocates(block, live)
    /\ live' = IF d.end = "error" THEN live ELSE live \cup {block}
    /\ skeyDecoder' = [there |-> TRUE, type |-> type,
                       of |-> IF type = "none" THEN Null ELSE device]
    /\ ecChainLen' = 1
    /\ \/ /\ d.end = "whole"
          /\ ecCertDynamic' = TRUE
          /\ ecCert' = [ecCert EXCEPT ![0] = [data |-> block, len |-> Whole, of |-> device]]
       \/ /\ d.end = "error"
          /\ ecCert' = [ecCert EXCEPT ![0] = [data |-> Null, len |-> d.len, of |-> device]]
          /\ UNCHANGED ecCertDynamic
       \/ /\ d.end = "cut"
          /\ ecCert' = [ecCert EXCEPT ![0] = [data |-> block, len |-> d.len, of |-> device]]
          /\ UNCHANGED ecCertDynamic
    /\ DoesDecode({"decoder"}, d)
    /\ UNCHANGED <<ecKey, misfreed>>

setEccCertParent(device) ==
  \E block \in Blocks, d \in Decodings :
    LET kept == live \ {OldCert(1)}
    IN  /\ Allocates(block, kept)
        /\ live' = IF d.end = "error" THEN kept ELSE kept \cup {block}
        /\ misfreed' = misfreed \cup Misfree(OldCert(1))
        /\ ecChainLen' = 2
        /\ ecCert' = [ecCert EXCEPT ![1] = [data |-> block, len |-> d.len, of |-> device]]
        /\ ecCertDynamic' = IF d.end = "whole" THEN TRUE ELSE ecCertDynamic
        /\ DoesDecode({"parent"} \cup (IF d.end = "error" THEN {"parent lost"} ELSE {}), d)
        /\ UNCHANGED <<ecKey, skeyDecoder>>

OffersWhatItHas == ecCert[0].len # None  \* mutant: whatever the decoder found

(* A decoder without a key offers nothing.                                 *)
Offers == ecCert[0].len # None /\ ~(skeyDecoder.there /\ skeyDecoder.type = "none")

(* connectSSL, as far as it reads the credentials.                         *)
connectSSL ==
  /\ offer' = IF Offers
                THEN [chain |-> {ecCert[i] : i \in 0 .. ecChainLen - 1}, first |-> ecCert[0],
                      key |-> IF skeyDecoder.there
                              THEN [type |-> skeyDecoder.type, of |-> skeyDecoder.of]
                              ELSE [type |-> "slot", of |-> ecKey]]
                ELSE NoOffer
  /\ UNCHANGED <<ecCert, ecChainLen, ecCertDynamic, ecKey, skeyDecoder, live, misfreed, used>>

Destroy ==
  /\ live' = live \ {OldCert(0)}
  /\ misfreed' = misfreed \cup Misfree(OldCert(0))
  /\ ecCert' = IF ecCertDynamic THEN [ecCert EXCEPT ![0].data = Null] ELSE ecCert
  /\ destroyed' = TRUE /\ offer' = NoOffer
  /\ UNCHANGED <<ecChainLen, ecCertDynamic, ecKey, skeyDecoder, used>>

-----------------------------------------------------------------------------
CredInit ==
  /\ ecCert = [i \in Places |-> NoCert]
  /\ ecChainLen = 0 /\ ecCertDynamic = FALSE
  /\ ecKey = Null
  /\ skeyDecoder = [there |-> FALSE, type |-> "none", of |-> Null]
  /\ live = {} /\ offer = NoOffer
  /\ destroyed = FALSE /\ misfreed = {} /\ used = {}

Set(device) ==
  /\ \/ setEccCert(device)
     \/ \E chainLen \in 0 .. ChainSize + 1 : setEccChain(device, chainLen)
     \/ setEccSlotBytes(device)
     \/ setEccSlotText(device)
     \/ \E type \in {"ec", "rsa", "none"} : setKeyFails(device, type) \/ setKey(device, type)
     \/ setEccCertParent(device)
  /\ offer' = NoOffer
  /\ UNCHANGED destroyed

(* After a wrong free the behaviour is undefined: there is no next step.   *)
CredNext ==
  /\ ~destroyed /\ misfreed = {}
  /\ \/ \E device \in Devices : Set(device)
     \/ connectSSL /\ UNCHANGED destroyed
     \/ Destroy

CredSpec == CredInit /\ [][CredNext]_credVars

-----------------------------------------------------------------------------
CredTypeOK ==
  /\ ecCert \in [Places -> [data : Blocks \cup {Null, AppMemory}, len : {None, Part, Whole},
                           of : Devices \cup {Null}]]
  /\ ecChainLen \in 0 .. ChainSize
  /\ ecKey \in Devices \cup {Null}
  /\ live \subseteq Blocks
  /\ ecCertDynamic \in BOOLEAN /\ destroyed \in BOOLEAN
  /\ misfreed \subseteq Blocks \cup {AppMemory}

(* An application that gives every certificate as a text, and whose parent *)
(* certificates decode, makes the class free only blocks that it has       *)
(* allocated and not freed yet, whatever else fails and in whatever order  *)
(* setEccSlot, setKey, setEccCertParent and the destructor are called.     *)
(* One that only uses setEccSlot leaks nothing either ("free old data",    *)
(* BearSSLClient.cpp).                                                     *)
BuffersFreedOnce ==
  /\ used \cap {"address", "parent lost"} = {} => misfreed = {}
  /\ used = {"slot"} => live = {ecCert[0].data} \ {Null}

(* As long as every text decodes, connect offers whole certificates in     *)
(* memory that is still there, and the first one is that of the key, if    *)
(* the application does not use both setEccSlot and setKey, and gives no   *)
(* certificate without a key.                                              *)
OfferedCredentialsMatch ==
  offer # NoOffer /\ "undecoded" \notin used =>
    /\ \A c \in offer.chain : c.len = Whole /\ c.data \in live \cup {AppMemory}
    /\ "address" \notin used /\ ~({"slot", "decoder"} \subseteq used)
         => offer.first.of = offer.key.of

=============================================================================

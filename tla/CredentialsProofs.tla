------------------------- MODULE CredentialsProofs -------------------------
(***************************************************************************)
(* For any number of devices, any heap and any chain size: the class frees *)
(* what it allocated, once, and offers certificates that are there and     *)
(* match the key.                                                          *)
(***************************************************************************)
EXTENDS Credentials, TLAPS

OnlyTexts == used \cap {"address", "parent lost"} = {}

(* Every certificate in a block is there, and no two are in the same one.  *)
Separate ==
  /\ \A i \in Places : ecCert[i].data \in live \cup {Null, AppMemory}
  /\ \A i, j \in Places : i # j /\ ecCert[i].data \in Blocks => ecCert[i].data # ecCert[j].data

Certificates ==
  [data : Blocks \cup {Null, AppMemory}, len : {None, Part, Whole}, of : Devices \cup {Null}]

NothingByAddress == \A i \in Places : ecCert[i].data # AppMemory

OwnInv ==
  /\ CredTypeOK
  /\ OnlyTexts => misfreed = {} /\ Separate /\ NothingByAddress
  /\ used \subseteq {"slot"} =>
       live = {ecCert[0].data} \ {Null} /\ (ecCert[0].data # Null => ecCertDynamic)

(* Of the certificates that connect reads, only the first may be missing.  *)
ChainComplete ==
  /\ \A i \in Places \ {0} : i < ecChainLen => ecCert[i].len = Whole /\ ecCert[i].data # Null
  /\ ecCert[0].len # None => ecCert[0].len = Whole /\ ecCert[0].data # Null

(* The first certificate and the key come from the same call.              *)
KeyAndCert ==
  /\ skeyDecoder.there <=> "decoder" \in used
  /\ used \cap {"slot", "decoder"} = {} => ecCert[0].len = None
  /\ ~({"slot", "decoder"} \subseteq used) /\ ecCert[0].len # None =>
       IF skeyDecoder.there
       THEN skeyDecoder.type # "none" => skeyDecoder.of = ecCert[0].of
       ELSE ecKey = ecCert[0].of

OfferInv ==
  /\ OwnInv
  /\ "undecoded" \notin used /\ ~destroyed => Separate /\ ChainComplete
  /\ used \cap {"address", "undecoded"} = {} /\ ~destroyed => KeyAndCert
  /\ OfferedCredentialsMatch

-----------------------------------------------------------------------------
USE DEF Places, None, Part, Whole

LEMMA InitOwn == ASSUME CredentialsAssumption, CredInit PROVE OwnInv
  <1>1. ecCertDynamic \in BOOLEAN /\ destroyed \in BOOLEAN
    BY DEF CredInit
  <1>2. /\ ecCert \in [Places -> Certificates]
        /\ \A i \in Places : ecCert[i].data = Null
    BY DEF CredInit, NoCert, Certificates
  <1>3. 0 \in Places /\ live = {} /\ misfreed = {} /\ ecChainLen = 0 /\ ecKey = Null
    BY DEF CredInit, CredentialsAssumption
  <1>4. CredTypeOK
    BY <1>1, <1>2, <1>3 DEF CredentialsAssumption, CredTypeOK, Certificates
  <1> QED
    BY <1>2, <1>3, <1>4 DEF CredentialsAssumption, OwnInv, OnlyTexts, Separate, NothingByAddress

LEMMA SameOwn ==
  ASSUME OwnInv, UNCHANGED <<ecCert, ecChainLen, ecCertDynamic, ecKey, live, misfreed, used>>,
         destroyed' \in BOOLEAN
  PROVE  OwnInv'
  <1>1. CredTypeOK'
    BY DEF OwnInv, CredTypeOK
  <1>2. OnlyTexts' => misfreed' = {} /\ Separate' /\ NothingByAddress'
    BY DEF OwnInv, OnlyTexts, Separate, NothingByAddress
  <1>3. used' \subseteq {"slot"} =>
          live' = {ecCert'[0].data} \ {Null} /\ (ecCert'[0].data # Null => ecCertDynamic')
    BY DEF OwnInv
  <1> QED
    BY <1>1, <1>2, <1>3 DEF OwnInv

LEMMA EccCertOwn ==
  ASSUME CredentialsAssumption, OwnInv, NEW device \in Devices, setEccCert(device), UNCHANGED destroyed
  PROVE  OwnInv'
  <1>1. CredTypeOK'
    BY DEF CredentialsAssumption, OwnInv, CredTypeOK, setEccCert, AppCert
  <1>2. ~OnlyTexts' /\ ~(used' \subseteq {"slot"})
    BY DEF OnlyTexts, setEccCert, Does
  <1> QED
    BY <1>1, <1>2 DEF OwnInv

LEMMA EccSlotBytesOwn ==
  ASSUME CredentialsAssumption, OwnInv, NEW device \in Devices, setEccSlotBytes(device),
         UNCHANGED destroyed
  PROVE  OwnInv'
  <1>0. ecCertDynamic' \in BOOLEAN
    BY DEF setEccSlotBytes
  <1>1. CredTypeOK'
    BY <1>0 DEF CredentialsAssumption, OwnInv, CredTypeOK, setEccSlotBytes, AppCert
  <1>2. ~OnlyTexts' /\ ~(used' \subseteq {"slot"})
    BY DEF OnlyTexts, setEccSlotBytes, Does
  <1> QED
    BY <1>1, <1>2 DEF OwnInv

LEMMA EccChainOwn ==
  ASSUME CredentialsAssumption, OwnInv, NEW device \in Devices, NEW n \in 0 .. ChainSize + 1,
         setEccChain(device, n), UNCHANGED destroyed
  PROVE  OwnInv'
  <1>1. CASE n > ChainSize
    BY <1>1, SameOwn DEF setEccChain, OwnInv, CredTypeOK
  <1>2. CASE n <= ChainSize
    <2>1. CredTypeOK'
      BY <1>2 DEF CredentialsAssumption, OwnInv, CredTypeOK, setEccChain, AppCert
    <2>0. used' = used \cup {"address"}
      BY <1>2 DEF CredentialsAssumption, setEccChain, Does
    <2>2. ~OnlyTexts' /\ ~(used' \subseteq {"slot"})
      BY <2>0 DEF OnlyTexts
    <2> QED
      BY <2>1, <2>2 DEF OwnInv
  <1> QED
    BY <1>1, <1>2 DEF CredentialsAssumption

LEMMA SlotOwn ==
  ASSUME CredentialsAssumption, OwnInv, NEW device \in Devices, setEccSlotText(device),
         UNCHANGED destroyed
  PROVE  OwnInv'
  <1>1. PICK block \in Blocks, d \in Decodings :
          LET kept == live \ {OldCert(0)}
          IN  /\ Allocates(block, kept)
              /\ live' = IF d.end = "error" THEN kept ELSE kept \cup {block}
              /\ misfreed' = misfreed \cup Misfree(OldCert(0))
              /\ ecChainLen' = 1
              /\ \/ /\ d.end = "whole"
                    /\ ecKey' = device /\ ecCertDynamic' = TRUE
                    /\ ecCert' = [ecCert EXCEPT ![0] = [data |-> block, len |-> Whole, of |-> device]]
                 \/ /\ d.end = "error"
                    /\ ecKey' = device /\ ecCertDynamic' = FALSE
                    /\ ecCert' = [ecCert EXCEPT ![0] = NoCert]
                 \/ /\ d.end = "cut"
                    /\ ecCert' = [ecCert EXCEPT ![0] = [data |-> block, len |-> d.len, of |-> device]]
                    /\ UNCHANGED <<ecKey, ecCertDynamic>>
              /\ DoesDecode({"slot"}, d)
              /\ UNCHANGED skeyDecoder
    BY DEF setEccSlotText
  <1> DEFINE kept == live \ {OldCert(0)}
  <1>a. 0 \in Places /\ 1 \in Places
    BY DEF CredentialsAssumption
  <1>b. d.len \in {None, Part, Whole}
    BY DEF Decodings
  <1>2. CredTypeOK'
    <2>1. ecCertDynamic' \in BOOLEAN
      BY <1>1 DEF OwnInv, CredTypeOK
    <2>2. OldCert(0) \in Blocks \cup {Null, AppMemory}
      BY <1>a DEF OwnInv, CredTypeOK, OldCert
    <2>3. live' \subseteq Blocks /\ misfreed' \subseteq Blocks \cup {AppMemory}
      BY <1>1, <2>2 DEF OwnInv, CredTypeOK, Misfree
    <2>4. ecCert' \in [Places -> Certificates]
      <3>1. PICK r \in Certificates : ecCert' = [ecCert EXCEPT ![0] = r]
        BY <1>1, <1>b DEF NoCert, Certificates
      <3> QED
        BY <3>1 DEF OwnInv, CredTypeOK, Certificates
    <2> QED
      BY <1>1, <2>1, <2>3, <2>4 DEF OwnInv, CredTypeOK, CredentialsAssumption, Certificates
  <1>3. OnlyTexts' => misfreed' = {} /\ Separate' /\ NothingByAddress'
    <2> SUFFICES ASSUME OnlyTexts'
                 PROVE  misfreed' = {} /\ Separate' /\ NothingByAddress'
      OBVIOUS
    <2>1. misfreed = {} /\ Separate /\ NothingByAddress
      BY <1>1 DEF OnlyTexts, DoesDecode, OwnInv
    <2>2. OldCert(0) \in live \cup {Null}
      BY <2>1, <1>a DEF OldCert, Separate, NothingByAddress, OwnInv, CredTypeOK
    <2>3. misfreed' = {}
      BY <1>1, <2>1, <2>2 DEF Misfree
    <2>4. NothingByAddress'
      BY <1>1, <2>1 DEF NothingByAddress, NoCert, CredentialsAssumption, OwnInv, CredTypeOK
    <2>5. \A i \in Places \ {0} : ecCert[i].data \in kept \cup {Null}
      BY <2>1, <1>a DEF OldCert, Separate, NothingByAddress, OwnInv, CredTypeOK
    <2>a. block \notin kept \cup {Null}
      BY <1>1 DEF Allocates, CredentialsAssumption
    <2>b. \A i \in Places \ {0} : ecCert'[i] = ecCert[i]
      BY <1>1 DEF OwnInv, CredTypeOK
    <2>6. \A i \in Places \ {0} : ecCert'[i] = ecCert[i] /\ ecCert'[i].data # block
      BY <2>5, <2>a, <2>b
    <2>7. ecCert'[0].data \in {block, Null} /\ (d.end # "error" => ecCert'[0].data = block)
      BY <1>1, <1>a DEF NoCert, OwnInv, CredTypeOK
    <2>8. d.end = "error" => ecCert'[0].data = Null
      BY <1>1, <1>a DEF NoCert, OwnInv, CredTypeOK
    <2>9. Separate'
      BY <1>1, <2>1, <2>5, <2>6, <2>7, <2>8 DEF Separate, CredentialsAssumption
    <2> QED
      BY <2>3, <2>4, <2>9
  <1>4. used' \subseteq {"slot"} =>
          live' = {ecCert'[0].data} \ {Null} /\ (ecCert'[0].data # Null => ecCertDynamic')
    <2> SUFFICES ASSUME used' \subseteq {"slot"}
                 PROVE  live' = {ecCert'[0].data} \ {Null} /\ (ecCert'[0].data # Null => ecCertDynamic')
      OBVIOUS
    <2>1. d.end = "whole" /\ used \subseteq {"slot"}
      BY <1>1 DEF DoesDecode
    <2>2. kept = {}
      BY <2>1, <1>a DEF OwnInv, OldCert
    <2>3. live' = {block} /\ ecCert'[0].data = block /\ ecCertDynamic'
      BY <1>1, <1>a, <2>1, <2>2 DEF OwnInv, CredTypeOK
    <2> QED
      BY <2>3 DEF CredentialsAssumption
  <1> QED
    BY <1>2, <1>3, <1>4 DEF OwnInv

LEMMA SetKeyOwn ==
  ASSUME CredentialsAssumption, OwnInv, NEW device \in Devices,
         NEW type \in {"ec", "rsa", "none"}, setKey(device, type), UNCHANGED destroyed
  PROVE  OwnInv'
  <1>1. PICK block \in Blocks, d \in Decodings :
          /\ Allocates(block, live)
          /\ live' = IF d.end = "error" THEN live ELSE live \cup {block}
          /\ ecChainLen' = 1
          /\ \/ /\ d.end = "whole"
                /\ ecCertDynamic' = TRUE
                /\ ecCert' = [ecCert EXCEPT ![0] = [data |-> block, len |-> Whole, of |-> device]]
             \/ /\ d.end = "error"
                /\ ecCert' = [ecCert EXCEPT ![0] = [data |-> Null, len |-> d.len, of |-> device]]
                /\ UNCHANGED ecCertDynamic
             \/ /\ d.end = "cut"
                /\ ecCert' = [ecCert EXCEPT ![0] = [data |-> block, len |-> d.len, of |-> device]]
                /\ UNCHANGED ecCertDynamic
          /\ DoesDecode({"decoder"}, d)
          /\ UNCHANGED <<ecKey, misfreed>>
    BY DEF setKey
  <1>a. 0 \in Places
    BY DEF CredentialsAssumption
  <1>b. d.len \in {None, Part, Whole} /\ block \notin live \cup {Null, AppMemory}
    <2>1. d.len \in {None, Part, Whole}
      BY DEF Decodings
    <2>2. block \notin live \cup {Null, AppMemory}
      BY <1>1 DEF Allocates, CredentialsAssumption
    <2> QED
      BY <2>1, <2>2
  <1> DEFINE r == [data |-> IF d.end = "error" THEN Null ELSE block, len |-> d.len, of |-> device]
  <1>c. d.end = "whole" => d.len = Whole
    BY DEF Decodings
  <1>2. /\ r \in Certificates /\ ecCert' = [ecCert EXCEPT ![0] = r]
        /\ \/ d.end # "error" /\ r.data = block
           \/ d.end = "error" /\ r.data = Null
    <2>1. r \in Certificates
      BY <1>b DEF Certificates
    <2>2. ecCert' = [ecCert EXCEPT ![0] = r]
      <3>1. CASE d.end = "whole"
        BY <3>1, <1>1, <1>c
      <3>2. CASE d.end = "error"
        BY <3>2, <1>1
      <3>3. CASE d.end = "cut"
        BY <3>3, <1>1
      <3> QED
        BY <3>1, <3>2, <3>3, <1>1
    <2> QED
      BY <2>1, <2>2
  <1> HIDE DEF r
  <1>3. CredTypeOK'
    <2>1. ecCertDynamic' \in BOOLEAN
      BY <1>1 DEF OwnInv, CredTypeOK
    <2>2. ecCert' \in [Places -> Certificates]
      BY <1>2 DEF OwnInv, CredTypeOK, Certificates
    <2> QED
      BY <1>1, <2>1, <2>2 DEF OwnInv, CredTypeOK, CredentialsAssumption, Certificates
  <1>4. OnlyTexts' => misfreed' = {} /\ Separate' /\ NothingByAddress'
    <2> SUFFICES ASSUME OnlyTexts'
                 PROVE  misfreed' = {} /\ Separate' /\ NothingByAddress'
      OBVIOUS
    <2>1. misfreed = {} /\ Separate /\ NothingByAddress
      BY <1>1 DEF OnlyTexts, DoesDecode, OwnInv
    <2>2. ecCert'[0] = r /\ \A i \in Places \ {0} : ecCert'[i] = ecCert[i]
      BY <1>2, <1>a DEF OwnInv, CredTypeOK
    <2>3. \A i \in Places \ {0} : ecCert[i].data \in live \cup {Null}
      BY <2>1 DEF Separate, NothingByAddress
    <2>4. Separate'
      BY <1>1, <1>2, <1>b, <2>1, <2>2, <2>3 DEF Separate, CredentialsAssumption
    <2>5. NothingByAddress'
      BY <1>2, <1>b, <2>1, <2>2 DEF NothingByAddress, CredentialsAssumption
    <2> QED
      BY <1>1, <2>1, <2>4, <2>5
  <1>5. ~(used' \subseteq {"slot"})
    BY <1>1 DEF DoesDecode
  <1> QED
    BY <1>3, <1>4, <1>5 DEF OwnInv

LEMMA SetKeyFailsOwn ==
  ASSUME CredentialsAssumption, OwnInv, NEW device \in Devices,
         NEW type \in {"ec", "rsa", "none"}, setKeyFails(device, type), UNCHANGED destroyed
  PROVE  OwnInv'
  <1>1. CredTypeOK'
    BY DEF OwnInv, CredTypeOK, setKeyFails
  <1>2. OnlyTexts' => misfreed' = {} /\ Separate' /\ NothingByAddress'
    BY DEF OwnInv, OnlyTexts, Separate, NothingByAddress, setKeyFails, Does
  <1>3. ~(used' \subseteq {"slot"})
    BY DEF setKeyFails, Does
  <1> QED
    BY <1>1, <1>2, <1>3 DEF OwnInv

LEMMA ParentOwn ==
  ASSUME CredentialsAssumption, OwnInv, NEW device \in Devices, setEccCertParent(device),
         UNCHANGED destroyed
  PROVE  OwnInv'
  <1>1. PICK block \in Blocks, d \in Decodings :
          LET kept == live \ {OldCert(1)}
          IN  /\ Allocates(block, kept)
              /\ live' = IF d.end = "error" THEN kept ELSE kept \cup {block}
              /\ misfreed' = misfreed \cup Misfree(OldCert(1))
              /\ ecChainLen' = 2
              /\ ecCert' = [ecCert EXCEPT ![1] = [data |-> block, len |-> d.len, of |-> device]]
              /\ ecCertDynamic' = IF d.end = "whole" THEN TRUE ELSE ecCertDynamic
              /\ used' = used \cup ({"parent"} \cup (IF d.end = "error" THEN {"parent lost"} ELSE {}))
                             \cup (IF d.end = "whole" THEN {} ELSE {"undecoded"})
              /\ UNCHANGED <<ecKey, skeyDecoder>>
    BY DEF setEccCertParent, DoesDecode
  <1> DEFINE kept == live \ {OldCert(1)}
  <1>a. 1 \in Places /\ 2 \in 0 .. ChainSize
    BY DEF CredentialsAssumption
  <1>b. d.len \in {None, Part, Whole} /\ block \notin kept \cup {Null, AppMemory}
    <2>1. d.len \in {None, Part, Whole}
      BY DEF Decodings
    <2>2. block \notin kept \cup {Null, AppMemory}
      BY <1>1 DEF Allocates, CredentialsAssumption
    <2> QED
      BY <2>1, <2>2
  <1> DEFINE r == [data |-> block, len |-> d.len, of |-> device]
  <1>2. r \in Certificates /\ ecCert' = [ecCert EXCEPT ![1] = r] /\ r.data = block
    <2>1. r \in Certificates
      BY <1>b DEF Certificates
    <2> QED
      BY <1>1, <2>1
  <1> HIDE DEF r
  <1>3. CredTypeOK'
    <2>1. ecCertDynamic' \in BOOLEAN
      BY <1>1 DEF OwnInv, CredTypeOK
    <2>2. OldCert(1) \in Blocks \cup {Null, AppMemory}
      BY <1>a DEF OwnInv, CredTypeOK, OldCert
    <2>3. live' \subseteq Blocks /\ misfreed' \subseteq Blocks \cup {AppMemory}
      BY <1>1, <2>2 DEF OwnInv, CredTypeOK, Misfree
    <2>4. ecCert' \in [Places -> Certificates]
      BY <1>2 DEF OwnInv, CredTypeOK, Certificates
    <2> QED
      BY <1>1, <1>a, <2>1, <2>3, <2>4 DEF OwnInv, CredTypeOK, Certificates
  <1>4. OnlyTexts' => misfreed' = {} /\ Separate' /\ NothingByAddress'
    <2> SUFFICES ASSUME OnlyTexts'
                 PROVE  misfreed' = {} /\ Separate' /\ NothingByAddress'
      OBVIOUS
    <2>1. misfreed = {} /\ Separate /\ NothingByAddress /\ d.end # "error"
      BY <1>1 DEF OnlyTexts, OwnInv
    <2>2. ecCert'[1] = r /\ \A i \in Places \ {1} : ecCert'[i] = ecCert[i]
      BY <1>2, <1>a DEF OwnInv, CredTypeOK
    <2>3. OldCert(1) \in live \cup {Null}
      BY <2>1, <1>a DEF OldCert, Separate, NothingByAddress
    <2>4. misfreed' = {}
      BY <1>1, <2>1, <2>3 DEF Misfree
    <2>5. \A i \in Places \ {1} : ecCert[i].data \in kept \cup {Null}
      BY <2>1, <1>a DEF OldCert, Separate, NothingByAddress, OwnInv, CredTypeOK
    <2>6. live' = kept \cup {block}
      BY <1>1, <2>1
    <2>7. Separate'
      BY <1>2, <1>b, <2>1, <2>2, <2>5, <2>6 DEF Separate, CredentialsAssumption
    <2>8. NothingByAddress'
      BY <1>2, <1>b, <2>1, <2>2 DEF NothingByAddress, CredentialsAssumption
    <2> QED
      BY <2>4, <2>7, <2>8
  <1>5. ~(used' \subseteq {"slot"})
    BY <1>1
  <1> QED
    BY <1>3, <1>4, <1>5 DEF OwnInv

LEMMA DestroyOwn ==
  ASSUME CredentialsAssumption, OwnInv, Destroy PROVE OwnInv'
  <1>a. 0 \in Places
    BY DEF CredentialsAssumption
  <1>1. CASE ~ecCertDynamic
    <2>1. /\ UNCHANGED <<ecCert, ecChainLen, ecCertDynamic, ecKey, used>>
          /\ live' = live \ {Null} /\ misfreed' = misfreed \cup Misfree(Null) /\ destroyed' = TRUE
      BY <1>1 DEF Destroy, OldCert
    <2>2. live' = live /\ misfreed' = misfreed
      BY <2>1 DEF Misfree, OwnInv, CredTypeOK, CredentialsAssumption
    <2> QED
      BY <2>1, <2>2, SameOwn
  <1>2. CASE ecCertDynamic
    <2>1. /\ ecCert' = [ecCert EXCEPT ![0].data = Null]
          /\ live' = live \ {ecCert[0].data} /\ misfreed' = misfreed \cup Misfree(ecCert[0].data)
          /\ UNCHANGED <<ecChainLen, ecCertDynamic, ecKey, used>> /\ destroyed' = TRUE
      BY <1>2 DEF Destroy, OldCert
    <2>2. ecCert'[0].data = Null /\ \A i \in Places \ {0} : ecCert'[i] = ecCert[i]
      BY <2>1, <1>a DEF OwnInv, CredTypeOK
    <2>3. ecCert' \in [Places -> Certificates]
      <3>1. ecCert[0] \in Certificates /\ ecCert \in [Places -> Certificates]
        BY <1>a DEF OwnInv, CredTypeOK, Certificates
      <3>2. [ecCert[0] EXCEPT !.data = Null] \in Certificates
        BY <3>1 DEF Certificates
      <3> QED
        BY <2>1, <3>1, <3>2
    <2>4. CredTypeOK'
      BY <2>1, <2>3, <1>a DEF OwnInv, CredTypeOK, Misfree, Certificates
    <2>5. OnlyTexts' => misfreed' = {} /\ Separate' /\ NothingByAddress'
      <3> SUFFICES ASSUME OnlyTexts'
                   PROVE  misfreed' = {} /\ Separate' /\ NothingByAddress'
        OBVIOUS
      <3>1. misfreed = {} /\ Separate /\ NothingByAddress
        BY <2>1 DEF OnlyTexts, OwnInv
      <3>2. ecCert[0].data \in live \cup {Null} /\ misfreed' = {}
        BY <3>1, <2>1, <1>a DEF Separate, NothingByAddress, Misfree
      <3>3. \A i \in Places \ {0} : ecCert[i].data \in live' \cup {Null}
        BY <3>1, <2>1, <1>a DEF Separate, NothingByAddress, OwnInv, CredTypeOK
      <3>4. Separate' /\ NothingByAddress'
        BY <3>1, <3>3, <2>2 DEF Separate, NothingByAddress, CredentialsAssumption
      <3> QED
        BY <3>2, <3>4
    <2>6. used' \subseteq {"slot"} =>
            live' = {ecCert'[0].data} \ {Null} /\ (ecCert'[0].data # Null => ecCertDynamic')
      BY <2>1, <2>2 DEF OwnInv
    <2> QED
      BY <2>4, <2>5, <2>6 DEF OwnInv
  <1> QED
    BY <1>1, <1>2

LEMMA NextOwn == ASSUME CredentialsAssumption, OwnInv, [CredNext]_credVars PROVE OwnInv'
  <1>1. ASSUME NEW device \in Devices, Set(device) PROVE OwnInv'
    BY <1>1, EccCertOwn, EccChainOwn, EccSlotBytesOwn, SlotOwn, SetKeyFailsOwn, SetKeyOwn, ParentOwn
       DEF Set
  <1>2. CASE connectSSL /\ UNCHANGED destroyed
    BY <1>2, SameOwn DEF connectSSL, OwnInv, CredTypeOK
  <1>3. CASE UNCHANGED credVars
    BY <1>3, SameOwn DEF credVars, OwnInv, CredTypeOK
  <1> QED
    BY <1>1, <1>2, <1>3, DestroyOwn DEF CredNext

(* Buffers are freed once, and setEccSlot alone leaks none, for every      *)
(* sequence of calls of setEccCert, setEccChain, setEccSlot, setKey,       *)
(* setEccCertParent, connect and the destructor, and every allocator.      *)
THEOREM BuffersFreedOnceSafety ==
  ASSUME CredentialsAssumption PROVE CredSpec => [](CredTypeOK /\ BuffersFreedOnce)
  <1>1. CredInit => OwnInv
    BY InitOwn
  <1>2. OwnInv /\ [CredNext]_credVars => OwnInv'
    BY NextOwn
  <1>3. OwnInv => CredTypeOK /\ BuffersFreedOnce
    BY DEF OwnInv, OnlyTexts, BuffersFreedOnce
  <1> QED
    BY <1>1, <1>2, <1>3, PTL DEF CredSpec

-----------------------------------------------------------------------------
(* The second invariant.  A new certificate at a place, in a block that    *)
(* nothing else is in, or in the memory of the application.                *)
LEMMA PutSeparate ==
  ASSUME CredentialsAssumption, OwnInv, Separate, NEW i \in Places, NEW c,
         ecCert' = [ecCert EXCEPT ![i] = c],
         c.data = AppMemory \/ c.data \in live' \ (live \ {ecCert[i].data}),
         live \ {ecCert[i].data} \subseteq live'
  PROVE  Separate'
  <1>1. ecCert'[i] = c /\ \A j \in Places \ {i} : ecCert'[j] = ecCert[j]
    BY DEF OwnInv, CredTypeOK
  <1>2. \A j \in Places \ {i} :
          /\ ecCert[j].data \in live' \cup {Null, AppMemory}
          /\ ecCert[j].data \in Blocks => ecCert[j].data \in live \ {ecCert[i].data}
    BY DEF Separate, OwnInv, CredTypeOK, CredentialsAssumption
  <1>3. c.data \in live' \cup {Null, AppMemory}
    OBVIOUS
  <1>4. \A j \in Places \ {i} : ecCert[j].data \in Blocks => ecCert[j].data # c.data
    BY <1>2 DEF CredentialsAssumption
  <1> QED
    BY <1>1, <1>2, <1>3, <1>4 DEF Separate

LEMMA PutComplete ==
  ASSUME OwnInv, ChainComplete, 0 \in Places, NEW i \in Places, NEW c,
         ecCert' = [ecCert EXCEPT ![i] = c], c.len = Whole, c.data # Null,
         ecChainLen' = 1 \/ (i = 1 /\ ecChainLen' = 2)
  PROVE  ChainComplete'
  <1>1. ecCert'[i] = c /\ \A j \in Places \ {i} : ecCert'[j] = ecCert[j]
    BY DEF OwnInv, CredTypeOK
  <1>2. \A j \in Places \ {0} : j < ecChainLen' => j = i
    OBVIOUS
  <1> QED
    BY <1>1, <1>2 DEF ChainComplete

(* What holds after a call when all texts have decoded.                    *)
Ready == Separate /\ ChainComplete /\ ("address" \notin used => KeyAndCert)

LEMMA EccCertReady ==
  ASSUME CredentialsAssumption, OwnInv, Ready, NEW device \in Devices, setEccCert(device)
  PROVE  Ready'
  <1> DEFINE c == AppCert(device)
  <1>1. ecCert' = [ecCert EXCEPT ![0] = c] /\ 0 \in Places /\ live' = live /\ ecChainLen' = 1
    BY DEF setEccCert, CredentialsAssumption
  <1>2. c.data = AppMemory /\ c.len = Whole /\ c.data # Null
    BY DEF AppCert, CredentialsAssumption
  <1> HIDE DEF c
  <1>3. Separate'
    BY <1>1, <1>2, PutSeparate DEF Ready
  <1>4. ChainComplete'
    BY <1>1, <1>2, PutComplete DEF Ready
  <1> QED
    BY <1>3, <1>4 DEF Ready, setEccCert, Does

LEMMA EccSlotBytesReady ==
  ASSUME CredentialsAssumption, OwnInv, Ready, NEW device \in Devices, setEccSlotBytes(device)
  PROVE  Ready'
  <1> DEFINE c == AppCert(device)
  <1>1. ecCert' = [ecCert EXCEPT ![0] = c] /\ 0 \in Places /\ live' = live /\ ecChainLen' = 1
    BY DEF setEccSlotBytes, CredentialsAssumption
  <1>2. c.data = AppMemory /\ c.len = Whole /\ c.data # Null
    BY DEF AppCert, CredentialsAssumption
  <1> HIDE DEF c
  <1>3. Separate'
    BY <1>1, <1>2, PutSeparate DEF Ready
  <1>4. ChainComplete'
    BY <1>1, <1>2, PutComplete DEF Ready
  <1> QED
    BY <1>3, <1>4 DEF Ready, setEccSlotBytes, Does

LEMMA EccChainReady ==
  ASSUME CredentialsAssumption, OwnInv, Ready, NEW device \in Devices, NEW n \in 0 .. ChainSize + 1,
         setEccChain(device, n)
  PROVE  Ready'
  <1>1. CASE n > ChainSize
    BY <1>1 DEF setEccChain, Ready, Separate, ChainComplete, KeyAndCert
  <1>2. CASE n <= ChainSize
    <2> DEFINE c == AppCert(device)
    <2>1. /\ ecCert' = [i \in Places |-> IF i < n THEN c ELSE ecCert[i]]
          /\ ecChainLen' = n /\ live' = live /\ used' = used \cup {"address"}
      BY <1>2 DEF setEccChain, Does, CredentialsAssumption
    <2>2. c.data = AppMemory /\ c.len = Whole /\ c.data # Null /\ c.data \notin Blocks
      BY DEF AppCert, CredentialsAssumption
    <2> HIDE DEF c
    <2>3. \A i \in Places : ecCert'[i] = c \/ ecCert'[i] = ecCert[i]
      BY <2>1
    <2>4. Separate'
      BY <2>1, <2>2, <2>3 DEF Ready, Separate
    <2>5. \A i \in Places : i < n => ecCert'[i] = c
      BY <2>1
    <2>6. 0 \in Places
      BY DEF CredentialsAssumption
    <2>7. ChainComplete'
      BY <2>1, <2>2, <2>3, <2>5, <2>6 DEF Ready, ChainComplete
    <2> QED
      BY <2>1, <2>4, <2>7 DEF Ready
  <1> QED
    BY <1>1, <1>2 DEF CredentialsAssumption

LEMMA SlotReady ==
  ASSUME CredentialsAssumption, OwnInv, Ready, NEW device \in Devices, setEccSlotText(device),
         "undecoded" \notin used'
  PROVE  Ready'
  <1>1. PICK block \in Blocks :
          /\ block \notin live \ {OldCert(0)}
          /\ live' = (live \ {OldCert(0)}) \cup {block}
          /\ ecCert' = [ecCert EXCEPT ![0] = [data |-> block, len |-> Whole, of |-> device]]
          /\ ecChainLen' = 1 /\ ecKey' = device
          /\ used' = used \cup {"slot"} /\ UNCHANGED skeyDecoder
    BY DEF setEccSlotText, Allocates, DoesDecode
  <1> DEFINE c == [data |-> block, len |-> Whole, of |-> device]
  <1>2. ecCert' = [ecCert EXCEPT ![0] = c]
    BY <1>1
  <1>3. c.data = block /\ c.len = Whole /\ c.of = device
    OBVIOUS
  <1>a. block # Null /\ 0 \in Places
    BY DEF CredentialsAssumption
  <1> HIDE DEF c
  <1>4. ecCert'[0] = c
    BY <1>2, <1>a DEF OwnInv, CredTypeOK
  <1>5. Separate'
    <2>1. block \notin live \ {ecCert[0].data} /\ live \ {ecCert[0].data} \subseteq live'
      BY <1>1, <1>a DEF OldCert, OwnInv, CredTypeOK, CredentialsAssumption
    <2> QED
      BY <2>1, <1>1, <1>2, <1>3, <1>a, PutSeparate DEF Ready
  <1>6. ChainComplete'
    BY <1>1, <1>2, <1>3, <1>a, PutComplete DEF Ready
  <1>7. "address" \notin used' => KeyAndCert'
    BY <1>1, <1>3, <1>4 DEF Ready, KeyAndCert
  <1> QED
    BY <1>5, <1>6, <1>7 DEF Ready

LEMMA SetKeyReady ==
  ASSUME CredentialsAssumption, OwnInv, Ready, NEW device \in Devices,
         NEW type \in {"ec", "rsa", "none"}, setKey(device, type), "undecoded" \notin used'
  PROVE  Ready'
  <1>1. PICK block \in Blocks :
          /\ block \notin live
          /\ live' = live \cup {block}
          /\ ecCert' = [ecCert EXCEPT ![0] = [data |-> block, len |-> Whole, of |-> device]]
          /\ ecChainLen' = 1
          /\ used' = used \cup {"decoder"}
          /\ skeyDecoder' = [there |-> TRUE, type |-> type,
                             of |-> IF type = "none" THEN Null ELSE device]
    BY DEF setKey, Allocates, DoesDecode
  <1> DEFINE c == [data |-> block, len |-> Whole, of |-> device]
  <1>2. ecCert' = [ecCert EXCEPT ![0] = c]
    BY <1>1
  <1>3. c.data = block /\ c.len = Whole /\ c.of = device
    OBVIOUS
  <1>a. block # Null /\ 0 \in Places
    BY DEF CredentialsAssumption
  <1> HIDE DEF c
  <1>4. ecCert'[0] = c
    BY <1>2, <1>a DEF OwnInv, CredTypeOK
  <1>5. Separate'
    BY <1>1, <1>2, <1>3, <1>a, PutSeparate DEF Ready
  <1>6. ChainComplete'
    BY <1>1, <1>2, <1>3, <1>a, PutComplete DEF Ready
  <1>b. /\ skeyDecoder'.there /\ skeyDecoder'.type = type
        /\ type # "none" => skeyDecoder'.of = device
    BY <1>1
  <1>7. "address" \notin used' => KeyAndCert'
    BY <1>1, <1>b, <1>3, <1>4 DEF Ready, KeyAndCert
  <1> QED
    BY <1>5, <1>6, <1>7 DEF Ready

LEMMA ParentReady ==
  ASSUME CredentialsAssumption, OwnInv, Ready, NEW device \in Devices, setEccCertParent(device),
         "undecoded" \notin used'
  PROVE  Ready'
  <1>1. PICK block \in Blocks :
          /\ block \notin live \ {OldCert(1)}
          /\ live' = (live \ {OldCert(1)}) \cup {block}
          /\ ecCert' = [ecCert EXCEPT ![1] = [data |-> block, len |-> Whole, of |-> device]]
          /\ ecChainLen' = 2
          /\ used' = used \cup {"parent"} /\ UNCHANGED <<ecKey, skeyDecoder>>
    <2>1. PICK block \in Blocks, d \in Decodings :
            /\ Allocates(block, live \ {OldCert(1)})
            /\ live' = IF d.end = "error" THEN live \ {OldCert(1)}
                       ELSE (live \ {OldCert(1)}) \cup {block}
            /\ ecCert' = [ecCert EXCEPT ![1] = [data |-> block, len |-> d.len, of |-> device]]
            /\ ecChainLen' = 2
            /\ used' = used \cup ({"parent"} \cup (IF d.end = "error" THEN {"parent lost"} ELSE {}))
                           \cup (IF d.end = "whole" THEN {} ELSE {"undecoded"})
            /\ UNCHANGED <<ecKey, skeyDecoder>>
      BY DEF setEccCertParent, DoesDecode
    <2>2. d.end = "whole"
      BY <2>1
    <2>3. d.len = Whole
      BY <2>2 DEF Decodings
    <2> QED
      BY <2>1, <2>2, <2>3 DEF Allocates
  <1> DEFINE c == [data |-> block, len |-> Whole, of |-> device]
  <1>2. ecCert' = [ecCert EXCEPT ![1] = c]
    BY <1>1
  <1>3. c.data = block /\ c.len = Whole
    OBVIOUS
  <1>a. block # Null /\ 0 \in Places /\ 1 \in Places
    BY DEF CredentialsAssumption
  <1> HIDE DEF c
  <1>4. ecCert'[0] = ecCert[0]
    BY <1>2, <1>a DEF OwnInv, CredTypeOK
  <1>5. Separate'
    <2>1. block \notin live \ {ecCert[1].data} /\ live \ {ecCert[1].data} \subseteq live'
      BY <1>1, <1>a DEF OldCert, OwnInv, CredTypeOK, CredentialsAssumption
    <2> QED
      BY <2>1, <1>1, <1>2, <1>3, <1>a, PutSeparate DEF Ready
  <1>6. ChainComplete'
    BY <1>1, <1>2, <1>3, <1>a, PutComplete DEF Ready
  <1>7. "address" \notin used' => KeyAndCert'
    BY <1>1, <1>4 DEF Ready, KeyAndCert
  <1> QED
    BY <1>5, <1>6, <1>7 DEF Ready

LEMMA InitOffer == ASSUME CredentialsAssumption, CredInit PROVE OfferInv
  <1>1. 0 \in Places /\ \A i \in Places : ecCert[i] = NoCert
    BY DEF CredInit, CredentialsAssumption
  <1>2. Separate
    BY <1>1 DEF CredInit, Separate, NoCert, CredentialsAssumption
  <1>3. ChainComplete
    BY <1>1 DEF CredInit, ChainComplete, NoCert
  <1>4. KeyAndCert
    BY <1>1 DEF CredInit, KeyAndCert, NoCert
  <1>5. OfferedCredentialsMatch
    BY DEF CredInit, OfferedCredentialsMatch
  <1> QED
    BY <1>2, <1>3, <1>4, <1>5, InitOwn DEF OfferInv

LEMMA SetOffer ==
  ASSUME CredentialsAssumption, OfferInv, ~destroyed, NEW device \in Devices, Set(device)
  PROVE  OfferInv'
  <1>1. OwnInv'
    BY EccCertOwn, EccChainOwn, EccSlotBytesOwn, SlotOwn, SetKeyFailsOwn, SetKeyOwn, ParentOwn
       DEF Set, OfferInv
  <1>2. used \subseteq used'
    BY DEF Set, setEccCert, setEccChain, setEccSlotBytes, setEccSlotText, setKeyFails, setKey,
           setEccCertParent, Does, DoesDecode
  <1>3. ASSUME "undecoded" \notin used' PROVE Ready'
    <2>1. "undecoded" \notin used /\ Ready /\ OwnInv
      BY <1>2, <1>3 DEF OfferInv, Ready
    <2>2. ~ \E type \in {"ec", "rsa", "none"} : setKeyFails(device, type)
      BY <1>3 DEF setKeyFails, Does
    <2> QED
      BY <1>3, <2>1, <2>2, EccCertReady, EccChainReady, EccSlotBytesReady, SlotReady, SetKeyReady,
         ParentReady DEF Set
  <1>4. OfferedCredentialsMatch'
    BY DEF Set, OfferedCredentialsMatch
  <1> QED
    BY <1>1, <1>3, <1>4 DEF OfferInv, Ready

LEMMA ConnectOffer ==
  ASSUME CredentialsAssumption, OfferInv, ~destroyed, connectSSL, UNCHANGED destroyed
  PROVE  OfferInv'
  <1>1. OwnInv'
    BY NextOwn, SameOwn DEF connectSSL, OfferInv, OwnInv, CredTypeOK
  <1>2. UNCHANGED <<ecCert, ecChainLen, skeyDecoder, ecKey, live, used>>
    BY DEF connectSSL
  <1>3. "undecoded" \notin used' => Separate' /\ ChainComplete'
    BY <1>2 DEF OfferInv, Separate, ChainComplete
  <1>4. used' \cap {"address", "undecoded"} = {} => KeyAndCert'
    BY <1>2 DEF OfferInv, KeyAndCert
  <1>5. OfferedCredentialsMatch'
    <2> SUFFICES ASSUME offer' # NoOffer, "undecoded" \notin used
                 PROVE  /\ \A c \in offer'.chain : c.len = Whole /\ c.data \in live \cup {AppMemory}
                        /\ "address" \notin used /\ ~({"slot", "decoder"} \subseteq used)
                             => offer'.first.of = offer'.key.of
      BY <1>2 DEF OfferedCredentialsMatch
    <2>1. Separate /\ ChainComplete /\ ("address" \notin used => KeyAndCert)
      BY DEF OfferInv
    <2>2. Offers
      BY DEF connectSSL
    <2> DEFINE chain == {ecCert[i] : i \in 0 .. ecChainLen - 1}
               key == IF skeyDecoder.there THEN [type |-> skeyDecoder.type, of |-> skeyDecoder.of]
                      ELSE [type |-> "slot", of |-> ecKey]
    <2>3. offer' = [chain |-> chain, first |-> ecCert[0], key |-> key]
      BY <2>2 DEF connectSSL
    <2>4. key.of = IF skeyDecoder.there THEN skeyDecoder.of ELSE ecKey
      OBVIOUS
    <2> HIDE DEF key
    <2>5. ASSUME NEW c \in chain PROVE c.len = Whole /\ c.data \in live \cup {AppMemory}
      <3>1. PICK i \in 0 .. ecChainLen - 1 : c = ecCert[i]
        OBVIOUS
      <3>2. i \in Places /\ i < ecChainLen
        BY DEF OfferInv, OwnInv, CredTypeOK, CredentialsAssumption
      <3>3. ecCert[i].len = Whole /\ ecCert[i].data # Null
        BY <2>1, <2>2, <3>2 DEF ChainComplete, Offers
      <3> QED
        BY <3>1, <3>2, <3>3, <2>1 DEF Separate
    <2> HIDE DEF chain
    <2>6. offer'.chain = chain /\ offer'.first = ecCert[0] /\ offer'.key = key
      BY <2>3
    <2>7. "address" \notin used /\ ~({"slot", "decoder"} \subseteq used) => ecCert[0].of = key.of
      BY <2>1, <2>2, <2>4 DEF KeyAndCert, Offers
    <2> QED
      BY <2>5, <2>6, <2>7
  <1> QED
    BY <1>1, <1>3, <1>4, <1>5 DEF OfferInv

LEMMA NextOffer == ASSUME CredentialsAssumption, OfferInv, [CredNext]_credVars PROVE OfferInv'
  <1>1. CASE Destroy
    <2>1. OwnInv'
      BY <1>1, DestroyOwn DEF OfferInv
    <2>2. destroyed' /\ offer' = NoOffer
      BY <1>1 DEF Destroy
    <2> QED
      BY <2>1, <2>2 DEF OfferInv, OfferedCredentialsMatch
  <1>2. CASE UNCHANGED credVars
    BY <1>2, SameOwn DEF credVars, OfferInv, OwnInv, CredTypeOK, Separate, ChainComplete, KeyAndCert,
                         OfferedCredentialsMatch
  <1> QED
    BY <1>1, <1>2, SetOffer, ConnectOffer DEF CredNext

(* Whatever the calls and their order, connect offers whole certificates   *)
(* that are in memory, and the certificate of the key it offers, under the *)
(* conditions that OfferedCredentialsMatch names.                          *)
THEOREM OfferedCredentialsMatchSafety ==
  ASSUME CredentialsAssumption PROVE CredSpec => []OfferedCredentialsMatch
  <1>1. CredInit => OfferInv
    BY InitOffer
  <1>2. OfferInv /\ [CredNext]_credVars => OfferInv'
    BY NextOffer
  <1>3. OfferInv => OfferedCredentialsMatch
    BY DEF OfferInv
  <1> QED
    BY <1>1, <1>2, <1>3, PTL DEF CredSpec

=============================================================================

------------------------------ MODULE CbcRecord ------------------------------
(***************************************************************************)
(* The bytes of a CBC record between MAC and encryption                    *)
(* (src/src/bearssl/ssl_rec_cbc.c): how the MAC and the padding are added, *)
(* and how they are checked without the steps of the check depending on    *)
(* what is found.  The block cipher itself is left out: a record is its    *)
(* plaintext, explicit IV included.                                        *)
(***************************************************************************)
EXTENDS Hmac, SequencesExt

CONSTANTS BlockSize,  \* of the cipher
          MacLen,
          PadValues,  \* the values that a padding byte may have (256)
          MaxPayload, \* longest payload (16384)
          Changes,    \* what the network may add to a byte
          MacKeys, CbcPayloads, ContentTypes,
          FirstNumbers  \* of the records

ASSUME CbcAssumption ==
  /\ PadValues \in 1 .. 256 /\ BlockSize \in 1 .. PadValues /\ BlockSize <= DigestLen
  /\ MaxPayload \in Nat /\ MacLen \in 1 .. DigestLen /\ MacLen <= 64
  /\ Changes \subseteq 1 .. 255
  /\ MacKeys \subseteq Seq(Octets) /\ CbcPayloads \subseteq Seq(Octets)
  /\ ContentTypes \subseteq Octets /\ FirstNumbers \subseteq Nat

AppData == 23
Version == 771

Header(seq, type, version, len) == Bytes(seq, 8) \o <<type>> \o Bytes(version, 2) \o Bytes(len, 2)

Mac(kc, seq, type, version, data) ==
  HmacOut(HmacUpdate(HmacUpdate(HmacInit(kc, MacLen), Header(seq, type, version, Len(data))), data))

(* cbc_encrypt, one record: explicit IV, payload, MAC, padding.            *)
Sealed(kc, explicit, seq, type, version, data) ==
  LET iv == IF explicit THEN HmacOut(HmacUpdate(HmacInit(kc, BlockSize), Bytes(seq, 8))) ELSE <<>>
      len == Len(data) + MacLen
      plen == BlockSize - (len % BlockSize)
  IN  iv \o data \o Mac(kc, seq, type, version, data) \o [i \in 1 .. plen |-> plen - 1]

(* The records made of one payload: under TLS 1.0, application data is     *)
(* split after its first byte.                                             *)
Records(kc, explicit, seq, type, version, data) ==
  IF ~explicit /\ Len(data) > 1 /\ type = AppData
  THEN <<Sealed(kc, explicit, seq, type, version, SubSeq(data, 1, 1)),
         Sealed(kc, explicit, seq + 1, type, version, Tail(data))>>
  ELSE <<Sealed(kc, explicit, seq, type, version, data)>>

-----------------------------------------------------------------------------
(* cond_rotate: to the left by num, if ctl is 1; num may exceed the length *)
(* only when it is 0.                                                      *)
CondRotate(ctl, buf, num) ==
  [i \in DOMAIN buf |-> IF ctl = 1 THEN buf[((i - 1 + num) % Len(buf)) + 1] ELSE buf[i]]

(* By the bits of the count, the highest first.                            *)
RotateBack(buf, count) ==
  LET turn[k \in 0 .. 6] ==
        IF k = 0 THEN [mac |-> buf, count |-> count]
        ELSE LET t == turn[k - 1]
                 rc == 2 ^ (6 - k)
             IN  [mac |-> CondRotate(t.count \div rc, t.mac, rc), count |-> t.count % rc]
  IN  turn[6].mac

(* Mutant: the rotation starts at the offset in the record.                *)
ExtractMacUnaligned(buf, minLen, maxLen, lenNoMac) ==
  LET from(v) == {u \in minLen .. maxLen - 1 :
                    u % MacLen = v /\ u >= lenNoMac /\ u < lenNoMac + MacLen}
      rotated == [i \in 1 .. MacLen |->
                    IF from(i - 1) = {} THEN 0 ELSE buf[(CHOOSE u \in from(i - 1) : TRUE) + 1]]
      hit == {u \in minLen .. maxLen - 1 : u = lenNoMac}
  IN  RotateBack(rotated, IF hit = {} THEN 0 ELSE (lenNoMac - minLen) % MacLen)

(* The MAC, read from buf wherever it is between minLen and maxLen: it is  *)
(* gathered in a circular buffer, then turned.                             *)
ExtractMac(buf, minLen, maxLen, lenNoMac) ==
  LET from(v) == {u \in minLen .. maxLen - 1 :
                    (u - minLen) % MacLen = v /\ u >= lenNoMac /\ u < lenNoMac + MacLen}
      rotated == [i \in 1 .. MacLen |->
                    IF from(i - 1) = {} THEN 0 ELSE buf[(CHOOSE u \in from(i - 1) : TRUE) + 1]]
      hit == {u \in minLen .. maxLen - 1 : u = lenNoMac}
  IN  RotateBack(rotated, IF hit = {} THEN 0 ELSE (lenNoMac - minLen) % MacLen)

Rejected == [ok |-> FALSE, data |-> <<>>]

(* cbc_decrypt                                                             *)
Opened(kc, explicit, seq, type, version, record) ==
  LET buf == IF explicit THEN SubSeq(record, BlockSize + 1, Len(record)) ELSE record
      len == Len(buf)
      minLen == IF MacLen + PadValues < len THEN len - PadValues ELSE MacLen
      maxLen == len - 1
      padLen == buf[maxLen + 1]
      fits == padLen <= maxLen - minLen
      lenWithMac == IF fits THEN maxLen - padLen ELSE minLen
      padded == \A u \in minLen .. maxLen - 1 : u < lenWithMac \/ buf[u + 1] = padLen
      lenNoMac == lenWithMac - MacLen
      mac == ExtractMac(buf, minLen - MacLen, maxLen, lenNoMac)
      hc == HmacUpdate(HmacInit(kc, MacLen), Header(seq, type, version, lenNoMac))
      good == /\ fits /\ padded
              /\ mac = HmacOutCT(hc, buf, lenNoMac, minLen - MacLen, maxLen - MacLen)
              /\ lenNoMac <= MaxPayload
  IN  IF good THEN [ok |-> TRUE, data |-> SubSeq(buf, 1, lenNoMac)] ELSE Rejected

(* cbc_check_length, before the decryption.                                *)
Rounded(n) == n - (n % BlockSize)
CbcCheckLength(explicit, rlen) ==
  LET iv == IF explicit THEN BlockSize ELSE 0
  IN  rlen \in Rounded(BlockSize + MacLen) + iv .. Rounded(MaxPayload + PadValues + MacLen) + iv

-----------------------------------------------------------------------------
(* One payload on its way: the records, and what the receiver makes of     *)
(* them; each side counts the records it has made or opened.               *)

VARIABLE cbc   \* [key, explicit, seq, type, data, stage, wire, next, opened]

CbcStart(key, explicit, seq, type, data) ==
  cbc = [key |-> key, explicit |-> explicit, seq |-> seq, type |-> type, data |-> data,
         stage |-> "write", wire |-> <<>>, next |-> seq, opened |-> <<>>]

CbcInit ==
  \E key \in MacKeys, explicit \in BOOLEAN, seq \in FirstNumbers, type \in ContentTypes,
     data \in CbcPayloads : CbcStart(key, explicit, seq, type, data)

CbcWrite ==
  /\ cbc.stage = "write" /\ Len(cbc.data) <= MaxPayload
  /\ cbc' = [cbc EXCEPT !.stage = "sent",
                !.wire = Records(HmacKey(cbc.key), cbc.explicit, cbc.seq, cbc.type, Version, cbc.data)]

(* Another implementation may make the padding longer than necessary.      *)
PeerWrite ==
  \E blocks \in 1 .. PadValues \div BlockSize :
    LET kc == HmacKey(cbc.key)
        record == Sealed(kc, cbc.explicit, cbc.seq, cbc.type, Version, cbc.data)
        p == record[Len(record)] + blocks * BlockSize
    IN  /\ cbc.stage = "write" /\ p < PadValues
        /\ cbc' = [cbc EXCEPT !.stage = "sent",
                      !.wire = <<SubSeq(record, 1, Len(record) - record[Len(record)] - 1)
                                   \o [i \in 1 .. p + 1 |-> p]>>]

(* The network changes a byte, or loses a block or a record, once.         *)
Change ==
  /\ cbc.stage = "sent" /\ cbc.opened = <<>>
  /\ LET record == Head(cbc.wire)
         changed(r) == [cbc EXCEPT !.stage = "changed", !.wire = <<r>> \o Tail(@)]
     IN  \/ \E i \in DOMAIN record, d \in Changes :
              cbc' = changed([record EXCEPT ![i] = (@ + d) % 256])
         \/ cbc' = changed(SubSeq(record, 1, Len(record) - BlockSize))
         \/ Len(cbc.wire) > 1 /\ cbc' = [cbc EXCEPT !.stage = "changed", !.wire = Tail(@)]

(* A record that is not accepted ends the connection.                      *)
CbcRead ==
  /\ cbc.stage \in {"sent", "changed"} /\ cbc.wire # <<>>
  /\ \A i \in DOMAIN cbc.opened : cbc.opened[i].result.ok
  /\ LET record == Head(cbc.wire)
         result == IF CbcCheckLength(cbc.explicit, Len(record))
                   THEN Opened(HmacKey(cbc.key), cbc.explicit, cbc.next, cbc.type, Version, record)
                   ELSE Rejected
     IN  cbc' = [cbc EXCEPT !.wire = Tail(@), !.next = @ + 1,
                   !.opened = Append(@, [record |-> record, seq |-> cbc.next, result |-> result])]

CbcNext == CbcWrite \/ PeerWrite \/ Change \/ CbcRead

CbcSpec == CbcInit /\ [][CbcNext]_cbc

-----------------------------------------------------------------------------
(* What a receiver should accept: n bytes of payload, their MAC, and       *)
(* p + 1 bytes of value p.                                                 *)
WellFormed(buf, n, seq) ==
  LET p == Len(buf) - n - MacLen - 1
  IN  /\ p \in 0 .. PadValues - 1 /\ n <= MaxPayload
      /\ \A i \in n + MacLen + 1 .. Len(buf) : buf[i] = p
      /\ SubSeq(buf, n + 1, n + MacLen)
           = SubSeq(Hmac(cbc.key, Header(seq, cbc.type, Version, n) \o SubSeq(buf, 1, n)), 1, MacLen)

OpenedExactly(o) ==
  LET buf == SubSeq(o.record, IF cbc.explicit THEN BlockSize + 1 ELSE 1, Len(o.record))
      lengths == {n \in 0 .. Len(buf) : WellFormed(buf, n, o.seq)}
  IN  IF o.result.ok THEN \E n \in lengths : o.result.data = SubSeq(buf, 1, n) ELSE lengths = {}

(* The record is opened without a step that depends on where its payload   *)
(* ends, and yet exactly as it should be: a record is accepted if and only *)
(* if it has a padding and, in front of it, the MAC (as RFC 2104 defines   *)
(* it) of its number, header and payload, wherever the MAC lies and        *)
(* whatever blocks it spans; and what arrives unchanged is what was sent.  *)
RecordsOpenExactly ==
  cbc.stage # "idle" =>
    /\ \A i \in DOMAIN cbc.opened : OpenedExactly(cbc.opened[i])
    /\ cbc.stage = "sent" /\ cbc.wire = <<>> /\ Len(cbc.data) <= MaxPayload =>
         FlattenSeq([i \in DOMAIN cbc.opened |-> cbc.opened[i].result.data]) = cbc.data

=============================================================================

----------------------------- MODULE AeadRecord -----------------------------
(***************************************************************************)
(* Records of one direction of a connection under the AEAD suites          *)
(* (src/src/bearssl/ssl_rec_gcm.c, ssl_rec_ccm.c, ssl_rec_chapol.c), with  *)
(* changes of keys and of suite, over a network that loses, repeats and    *)
(* reorders records and alters their parts.                                *)
(*                                                                         *)
(* A tag and a ciphertext are the tuples of what they are computed from;   *)
(* the network has those of the records that were sent, and wrong ones.    *)
(***************************************************************************)
EXTENDS Integers, Sequences

CONSTANTS Suites,    \* among "gcm", "ccm" and "chapol"
          Types,     \* record types
          SwitchType,\* the one of ChangeCipherSpec
          Versions,
          Plaintexts,
          Garbage,   \* what decrypting with a wrong nonce gives
          MaxSent    \* bound: records

ASSUME RecordsAssumption ==
  /\ Suites \subseteq {"gcm", "ccm", "chapol"}
  /\ SwitchType \in Types
  /\ MaxSent \in Nat

VARIABLES sender, receiver,  \* contexts of the record formats: suite, key, seq
          sent,     \* history: content, context and wire form of each record
          opened,   \* what the receiver got out of records
          refused,  \* a record had a wrong tag: the connection is over
          strayed   \* history: another record than the next one was delivered

recordVars == <<sender, receiver, sent, opened, refused, strayed>>

(* gen_gcm_init, gen_ccm_init, gen_chapol_init.  A key comes with its      *)
(* implicit nonce.                                                         *)
Keyed(suite, key) == [suite |-> suite, key |-> key, seq |-> 0]

NoNonce == -1  \* of a record without nonce

Nonce(c, explicit) == <<c.key, IF c.suite = "chapol" THEN c.seq ELSE explicit>>

(* The number is that of the side that computes, whatever the record says. *)
RecordHeaderAnyOrder(c, r) == <<r.explicit, r.type, r.version>>  \* mutant: it is the nonce
RecordHeader(c, r) == <<c.seq, r.type, r.version>>

WrongTag == <<"none", 0, 0, 0>>
Tag(c, r) == <<c.suite, Nonce(c, r.explicit), RecordHeader(c, r), r.body>>

(* gcm_encrypt, ccm_encrypt, chapol_encrypt                                *)
AeadSealed(c, type, version, payload) ==
  LET explicit == IF c.suite = "chapol" THEN NoNonce ELSE c.seq
      r == [type |-> type, version |-> version, explicit |-> explicit,
            body |-> [plain |-> payload, nonce |-> Nonce(c, explicit)]]
  IN  [type |-> type, version |-> version, explicit |-> explicit, body |-> r.body, tag |-> Tag(c, r)]

(* gcm_decrypt, ccm_decrypt, chapol_decrypt                                *)
Opens(c, r) == r.tag = Tag(c, r)
Decrypted(c, r) == IF r.body.nonce = Nonce(c, r.explicit) THEN r.body.plain ELSE Garbage

(* The context after a record; ChangeCipherSpec stands for the handshake   *)
(* on whose suite the two ends agreed.                                     *)
After(c, type, payload) ==
  IF type = SwitchType THEN Keyed(payload, c.key + 1) ELSE [c EXCEPT !.seq = @ + 1]

Contents == [type : Types \ {SwitchType}, payload : Plaintexts]
              \cup [type : {SwitchType}, payload : Suites]

-----------------------------------------------------------------------------
RecordsInit ==
  /\ \E suite \in Suites : sender = Keyed(suite, 1)
  /\ receiver = sender
  /\ sent = <<>> /\ opened = <<>> /\ refused = FALSE /\ strayed = FALSE

Send ==
  \E content \in Contents, version \in Versions :
    /\ Len(sent) < MaxSent
    /\ sent' = Append(sent, [content |-> content, by |-> sender,
                             wire |-> AeadSealed(sender, content.type, version, content.payload)])
    /\ sender' = After(sender, content.type, content.payload)
    /\ UNCHANGED <<receiver, opened, refused, strayed>>

(* Parts of any records that were sent, together or not; the tag may also  *)
(* be a wrong one.                                                         *)
Deliverable ==
  [type : Types, version : Versions, explicit : {sent[i].wire.explicit : i \in DOMAIN sent},
   body : {sent[i].wire.body : i \in DOMAIN sent},
   tag : {sent[i].wire.tag : i \in DOMAIN sent} \cup {WrongTag}]

IsNext(r) == Len(opened) < Len(sent) /\ r = sent[Len(opened) + 1].wire

Deliver ==
  \E r \in Deliverable :
    /\ ~refused
    /\ IF Opens(receiver, r)
       THEN /\ opened' = Append(opened, [type |-> r.type, payload |-> Decrypted(receiver, r)])
            /\ receiver' = After(receiver, r.type, Decrypted(receiver, r))
            /\ UNCHANGED refused
       ELSE /\ refused' = TRUE
            /\ receiver' = [receiver EXCEPT !.seq = @ + 1]
            /\ UNCHANGED opened
    /\ strayed' = (strayed \/ ~IsNext(r))
    /\ UNCHANGED <<sender, sent>>

RecordsNext == Send \/ Deliver
RecordsSpec == RecordsInit /\ [][RecordsNext]_recordVars

-----------------------------------------------------------------------------
(* Whatever the network does to records, through changes of keys and of    *)
(* suite, the receiver opens the first ones that were sent, in their       *)
(* order, each once and unaltered; it refuses none when each arrives in    *)
(* its turn; and no key is used twice with one nonce (gcm_encrypt,         *)
(* gcm_decrypt and those of the other suites: "the explicit part is an     *)
(* encoding of the sequence number").                                      *)
RecordsInOrder ==
  /\ Len(opened) <= Len(sent)
  /\ \A i \in DOMAIN opened : opened[i] = sent[i].content
  /\ refused => strayed
  /\ \A i, j \in DOMAIN sent : i # j => sent[i].wire.body.nonce # sent[j].wire.body.nonce
=============================================================================

----------------------------- MODULE DigestStream -----------------------------
(***************************************************************************)
(* What a hash object of this library promises its application: after      *)
(* beginHash or beginHmac it takes a message, and after endHash or endHmac *)
(* the digest or HMAC of the message can be read, byte after byte, until   *)
(* the next begin.                                                         *)
(***************************************************************************)
EXTENDS Integers, Sequences

CONSTANTS Octets, DigestLen, Secrets, Data,
          Digest(_),   \* of a message
          Hmac(_, _)   \* of a secret and a message

VARIABLES kind,     \* what was begun; "other" after calls without a meaning
          secret, message, unread,
          answer    \* what the last call gave to read

dvars == <<kind, secret, message, unread, answer>>

NoByte == -1
AnyDigest == [1 .. DigestLen -> Octets]

DInit ==
  /\ kind = "other" /\ secret = <<>> /\ message = <<>> /\ unread = <<>>
  /\ answer = <<>>

BeginHash ==
  /\ kind' = "hash" /\ secret' = <<>> /\ message' = <<>> /\ unread' = <<>>
  /\ answer' = <<>>

BeginHmac(s) ==
  /\ kind' = "hmac" /\ secret' = s /\ message' = <<>> /\ unread' = <<>>
  /\ answer' = <<>>

(* More of the message, also after a digest of what came before was taken, *)
(* whether or not that digest has been read.                               *)
Write(bytes) ==
  /\ message' = IF kind = "other" THEN <<>> ELSE message \o bytes
  /\ answer' = <<>>
  /\ UNCHANGED <<kind, secret, unread>>

(* In the middle of an HMAC, endHash has a result of its own and leaves    *)
(* the HMAC alone.                                                         *)
EndHash ==
  /\ IF kind = "hash" THEN unread' = Digest(message) ELSE unread' \in AnyDigest
  /\ answer' = <<>>
  /\ UNCHANGED <<kind, secret, message>>

EndHmac ==
  /\ IF kind = "hmac" THEN unread' = Hmac(secret, message) ELSE unread' \in AnyDigest
  /\ kind' = "other" /\ secret' = <<>> /\ message' = <<>>
  /\ answer' = <<>>

(* One byte (read, peek), or up to n (readBytes).                          *)
ReadByte(taken) ==
  /\ answer' = IF unread = <<>> THEN <<NoByte>> ELSE <<Head(unread)>>
  /\ unread' = IF unread = <<>> \/ taken = 0 THEN unread ELSE Tail(unread)
  /\ UNCHANGED <<kind, secret, message>>

ReadBytes(n) ==
  LET most == IF n < Len(unread) THEN n ELSE Len(unread)
  IN  /\ answer' = SubSeq(unread, 1, most)
      /\ unread' = SubSeq(unread, most + 1, Len(unread))
      /\ UNCHANGED <<kind, secret, message>>

DNext ==
  \/ BeginHash \/ EndHash \/ EndHmac
  \/ \E s \in Secrets : BeginHmac(s)
  \/ \E bytes \in Data : Write(bytes)
  \/ \E taken \in {0, 1} : ReadByte(taken)
  \/ \E n \in 0 .. DigestLen + 1 : ReadBytes(n)

DSpec == DInit /\ [][DNext]_dvars

=============================================================================

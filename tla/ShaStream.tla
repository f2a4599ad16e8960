------------------------------ MODULE ShaStream ------------------------------
(***************************************************************************)
(* A hash object (src/src/SHA.cpp, SHA1.cpp; MD5.cpp and SHA256.cpp are    *)
(* the same): one hash context, one buffer for digests and one for the     *)
(* secret serve both plain hashes and HMAC, in any order of calls.         *)
(***************************************************************************)
EXTENDS Hmac

CONSTANTS Secrets,   \* given to beginHmac
          Data,      \* given to write
          MaxCount   \* bound: bytes that are hashed between two begins

ASSUME ShaAssumption == Secrets \subseteq Seq(Octets) /\ Data \subseteq Seq(Octets)

VARIABLES ctx, digest, digestIndex,
          keyBlock,  \* _secret
          answer,    \* what the last call gave to read, -1 for no byte
          begun      \* history: the kind, secret and message since the last begin

svars == <<ctx, digest, digestIndex, keyBlock, answer, begun>>

Nothing == [kind |-> "other", secret |-> <<>>, message |-> <<>>]

-----------------------------------------------------------------------------
(* beginHash discards what has not been read.                              *)
beginHash ==
  /\ digestIndex' = DigestLen
  /\ ctx' = HashInit
  /\ begun' = [Nothing EXCEPT !.kind = "hash"]
  /\ answer' = <<>>
  /\ UNCHANGED <<digest, keyBlock>>

(* The digest is of a copy: the context goes on.                           *)
endHash ==
  /\ digest' = Out(ctx)
  /\ digestIndex' = 0
  /\ answer' = <<>>
  /\ UNCHANGED <<ctx, keyBlock, begun>>

(* A long secret is hashed, through the digest buffer.                     *)
beginHmac(secret) ==
  LET long == Len(secret) > BlockLen
      short == IF long THEN Out(Update(HashInit, secret)) ELSE secret
      block == short \o Zeros(BlockLen - Len(short))
  IN  /\ digest' = IF long THEN short ELSE digest
      /\ keyBlock' = block
      /\ ctx' = Update(HashInit, Masked(Xor36, block))
      /\ digestIndex' = DigestLen
      /\ begun' = [kind |-> "hmac", secret |-> secret, message |-> <<>>]
      /\ answer' = <<>>

(* Mutant: the outer hash goes on where the inner one ended.               *)
endHmacWithoutBegin ==
  LET inner == Out(ctx)
      outer == Update(Update(ctx, Masked(Xor5C, keyBlock)), inner)
  IN  /\ ctx' = outer
      /\ digest' = Out(outer) /\ digestIndex' = 0
      /\ begun' = Nothing
      /\ answer' = <<>>
      /\ UNCHANGED keyBlock

endHmac ==
  LET inner == Out(ctx)
      outer == Update(Update(HashInit, Masked(Xor5C, keyBlock)), inner)
  IN  /\ ctx' = outer
      /\ digest' = Out(outer) /\ digestIndex' = 0
      /\ begun' = Nothing
      /\ answer' = <<>>
      /\ UNCHANGED keyBlock

write(bytes) ==
  /\ ctx.count + Len(bytes) <= MaxCount
  /\ ctx' = Update(ctx, bytes)
  /\ begun' = IF begun.kind = "other" THEN begun
              ELSE [begun EXCEPT !.message = @ \o bytes]
  /\ answer' = <<>>
  /\ UNCHANGED <<digest, digestIndex, keyBlock>>

available == DigestLen - digestIndex

read ==
  /\ answer' = IF available = 0 THEN <<-1>> ELSE <<digest[digestIndex + 1]>>
  /\ digestIndex' = IF available = 0 THEN digestIndex ELSE digestIndex + 1
  /\ UNCHANGED <<ctx, digest, keyBlock, begun>>

peek ==
  /\ answer' = IF available = 0 THEN <<-1>> ELSE <<digest[digestIndex + 1]>>
  /\ UNCHANGED <<ctx, digest, digestIndex, keyBlock, begun>>

ToCopy(length) == IF available > length THEN length ELSE available

readBytes(length) ==
  /\ answer' = SubSeq(digest, digestIndex + 1, digestIndex + ToCopy(length))
  /\ digestIndex' = digestIndex + ToCopy(length)
  /\ UNCHANGED <<ctx, digest, keyBlock, begun>>

-----------------------------------------------------------------------------
(* The objects are global: their contexts start as zeros.  The buffers     *)
(* come from malloc, and nothing reads them before they are written.       *)
SInit ==
  /\ ctx = SetState(0, 0)
  /\ digest = Zeros(DigestLen) /\ digestIndex = DigestLen
  /\ keyBlock = Zeros(BlockLen)
  /\ answer = <<>> /\ begun = Nothing

SNext ==
  \/ beginHash \/ endHash \/ endHmac \/ read \/ peek
  \/ \E secret \in Secrets : beginHmac(secret)
  \/ \E bytes \in Data : write(bytes)
  \/ \E length \in 0 .. DigestLen + 1 : readBytes(length)

SSpec == SInit /\ [][SNext]_svars

-----------------------------------------------------------------------------
Promise == INSTANCE DigestStream WITH
  kind <- begun.kind, secret <- begun.secret, message <- begun.message,
  unread <- SubSeq(digest, digestIndex + 1, DigestLen)

(* Whatever hashes and HMACs came before, finished or not, read or not,    *)
(* what is read after an end is the digest or the HMAC of exactly the      *)
(* bytes written since the begin, under the secret given then, and nothing *)
(* is read twice or after a new begin.                                     *)
ImplementsDigestStream ==
  Promise!DInit /\ [][UNCHANGED svars \/ Promise!DNext]_(Promise!dvars)

=============================================================================

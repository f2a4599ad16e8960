------------------------- MODULE AeadModesProofs --------------------------
(***************************************************************************)
(* GCM, CCM and EAX, fed in pieces of any size, give the output and the tag*)
(* of their definitions, proved for every block, nonce and tag length that *)
(* ModesAssumption allows; of EAX if no injection goes beyond a block that *)
(* was partly there.                                                       *)
(*                                                                         *)
(* The invariant ModesInv says of the context what was fed so far: the MAC *)
(* has gone over whole blocks of it, the rest is in the block (Gathered),  *)
(* and in the middle of a message the block has the bytes of the stream    *)
(* that are due next (Keyed). The sections: sequences cut into blocks; a   *)
(* MAC over pieces; counter mode over pieces; the run functions; the OMACs *)
(* of EAX; each mode, of additional data, of the message and of the tag;   *)
(* the calls.                                                              *)
(***************************************************************************)
EXTENDS AeadModes, SequenceTheorems, TLAPS

(* A sequence cut in two behind its first a elements.                      *)
LEMMA CutAt ==
  ASSUME NEW S, NEW s \in Seq(S), NEW a \in 0 .. Len(s)
  PROVE  /\ SubSeq(s, 1, a) \in Seq(S) /\ Len(SubSeq(s, 1, a)) = a
         /\ \A i \in 1 .. a : SubSeq(s, 1, a)[i] = s[i]
         /\ SubSeq(s, a + 1, Len(s)) \in Seq(S) /\ Len(SubSeq(s, a + 1, Len(s))) = Len(s) - a
         /\ \A i \in 1 .. Len(s) - a : SubSeq(s, a + 1, Len(s))[i] = s[a + i]
<1>1. Len(s) \in Nat /\ a \in Nat
  BY LenProperties
<1>2. \A i \in 1 .. Len(s) : s[i] \in S
  BY ElementOfSeq
<1>3. /\ SubSeq(s, 1, a) \in Seq(S) /\ Len(SubSeq(s, 1, a)) = a
      /\ \A i \in 1 .. a : SubSeq(s, 1, a)[i] = s[i]
  <2>1. \A i \in 1 .. a : s[i] \in S
    BY <1>1, <1>2
  <2>2. /\ SubSeq(s, 1, a) \in Seq(S) /\ Len(SubSeq(s, 1, a)) = IF 1 <= a THEN a - 1 + 1 ELSE 0
        /\ \A i \in 1 .. a - 1 + 1 : SubSeq(s, 1, a)[i] = s[1 + i - 1]
    BY <1>1, <2>1, SubSeqProperties
  <2>3. a - 1 + 1 = a /\ \A i \in 1 .. a : 1 + i - 1 = i
    BY <1>1
  <2> QED BY <1>1, <2>2, <2>3
<1>4. /\ SubSeq(s, a + 1, Len(s)) \in Seq(S) /\ Len(SubSeq(s, a + 1, Len(s))) = Len(s) - a
      /\ \A i \in 1 .. Len(s) - a : SubSeq(s, a + 1, Len(s))[i] = s[a + i]
  <2> DEFINE n == Len(s)
             b == SubSeq(s, a + 1, n)
  <2>1. \A i \in a + 1 .. n : s[i] \in S
    BY <1>1, <1>2
  <2>2. /\ b \in Seq(S) /\ Len(b) = IF a + 1 <= n THEN n - (a + 1) + 1 ELSE 0
        /\ \A i \in 1 .. n - (a + 1) + 1 : b[i] = s[(a + 1) + i - 1]
    BY <1>1, <2>1, SubSeqProperties
  <2>0. n \in Nat /\ a \in 0 .. n
    BY <1>1
  <2> HIDE DEF n, b
  <2>4. Len(b) = n - a
    BY <2>0, <2>2
  <2>5. \A i \in 1 .. n - a : b[i] = s[a + i]
    <3> TAKE i \in 1 .. n - a
    <3>1. i \in 1 .. n - (a + 1) + 1 /\ (a + 1) + i - 1 = a + i
      BY <2>0
    <3>2. b[i] = s[(a + 1) + i - 1]
      BY <2>2, <3>1
    <3> QED BY <3>1, <3>2
  <2> QED BY <2>2, <2>4, <2>5 DEF n, b
<1> QED BY <1>3, <1>4

(* A sequence cut behind a and behind b elements.                          *)
LEMMA CutTwice ==
  ASSUME NEW S, NEW s \in Seq(S), NEW a \in 0 .. Len(s), NEW b \in a .. Len(s)
  PROVE  LET left == SubSeq(s, a + 1, Len(s))
             piece == SubSeq(left, 1, b - a)
         IN  /\ piece \in Seq(S) /\ Len(piece) = b - a
             /\ \A i \in 1 .. b - a : piece[i] = s[a + i]
             /\ SubSeq(s, 1, a) \o piece = SubSeq(s, 1, b)
             /\ SubSeq(left, b - a + 1, Len(left)) = SubSeq(s, b + 1, Len(s))
<1> DEFINE left == SubSeq(s, a + 1, Len(s))
           piece == SubSeq(left, 1, b - a)
<1>1. Len(s) \in Nat /\ a \in Nat /\ b \in Nat /\ b - a \in 0 .. Len(s) - a /\ a <= b
  BY LenProperties
<1>2. left \in Seq(S) /\ Len(left) = Len(s) - a /\ \A i \in 1 .. Len(s) - a : left[i] = s[a + i]
  BY CutAt
<1> HIDE DEF left
<1>3. b - a \in 0 .. Len(left)
  BY <1>1, <1>2
<1>4. /\ piece \in Seq(S) /\ Len(piece) = b - a /\ \A i \in 1 .. b - a : piece[i] = left[i]
      /\ SubSeq(left, b - a + 1, Len(left)) \in Seq(S)
      /\ Len(SubSeq(left, b - a + 1, Len(left))) = Len(left) - (b - a)
      /\ \A i \in 1 .. Len(left) - (b - a) : SubSeq(left, b - a + 1, Len(left))[i] = left[b - a + i]
  BY <1>2, <1>3, CutAt, ZenonT(60)
<1> HIDE DEF piece
<1>5. \A i \in 1 .. b - a : piece[i] = s[a + i]
  <2> TAKE i \in 1 .. b - a
  <2>1. i \in 1 .. Len(s) - a
    BY <1>1
  <2> QED BY <1>2, <1>4, <2>1
<1>6. /\ SubSeq(s, 1, a) \in Seq(S) /\ Len(SubSeq(s, 1, a)) = a
      /\ \A i \in 1 .. a : SubSeq(s, 1, a)[i] = s[i]
      /\ SubSeq(s, 1, b) \in Seq(S) /\ Len(SubSeq(s, 1, b)) = b
      /\ \A i \in 1 .. b : SubSeq(s, 1, b)[i] = s[i]
      /\ SubSeq(s, b + 1, Len(s)) \in Seq(S) /\ Len(SubSeq(s, b + 1, Len(s))) = Len(s) - b
      /\ \A i \in 1 .. Len(s) - b : SubSeq(s, b + 1, Len(s))[i] = s[b + i]
  <2>1. a \in 0 .. Len(s) /\ b \in 0 .. Len(s)
    BY <1>1
  <2> QED BY <2>1, CutAt
<1>7. SubSeq(s, 1, a) \o piece = SubSeq(s, 1, b)
  <2> DEFINE u == SubSeq(s, 1, a)
             v == SubSeq(s, 1, b)
  <2>1. /\ u \o piece \in Seq(S) /\ Len(u \o piece) = Len(u) + Len(piece)
        /\ \A i \in 1 .. Len(u) + Len(piece) : (u \o piece)[i] = IF i <= Len(u) THEN u[i] ELSE piece[i - Len(u)]
    BY <1>4, <1>6, ConcatProperties, ZenonT(60)
  <2>2. Len(u \o piece) = b /\ Len(v) = b
    BY <1>1, <1>4, <1>6, <2>1
  <2>3. \A i \in 1 .. b : (u \o piece)[i] = v[i]
    <3> TAKE i \in 1 .. b
    <3>1. (u \o piece)[i] = IF i <= a THEN u[i] ELSE piece[i - a]
      BY <1>1, <1>4, <1>6, <2>1
    <3>2. v[i] = s[i]
      BY <1>6
    <3>3. CASE i <= a
      BY <1>1, <1>6, <3>1, <3>2, <3>3
    <3>4. CASE ~(i <= a)
      <4>1. i - a \in 1 .. b - a /\ a + (i - a) = i
        BY <1>1, <3>4
      <4>2. piece[i - a] = s[i]
        BY <1>5, <4>1
      <4> QED BY <3>1, <3>2, <3>4, <4>2
    <3> QED BY <3>3, <3>4
  <2> QED BY <1>6, <2>1, <2>2, <2>3, SeqEqual
<1>8. SubSeq(left, b - a + 1, Len(left)) = SubSeq(s, b + 1, Len(s))
  <2> DEFINE u == SubSeq(left, b - a + 1, Len(left))
             v == SubSeq(s, b + 1, Len(s))
  <2>1. Len(u) = Len(s) - b /\ Len(v) = Len(s) - b
    BY <1>1, <1>2, <1>4, <1>6
  <2>2. \A i \in 1 .. Len(s) - b : u[i] = v[i]
    BY <1>1, <1>2, <1>4, <1>6
  <2> QED BY <1>4, <1>6, <2>1, <2>2, SeqEqual, ZenonT(60)
<1> QED BY <1>4, <1>5, <1>7, <1>8 DEF left, piece

(* Quotient and rest.                                                      *)
LEMMA DivideAndRest ==
  ASSUME NEW n \in Int, NEW B \in Nat \ {0}
  PROVE  n = B * (n \div B) + (n % B) /\ n % B \in 0 .. B - 1 /\ n \div B \in Int
OBVIOUS

(* Only one quotient and one rest fit.                                     *)
LEMMA RestUnique ==
  ASSUME NEW n \in Int, NEW B \in Nat \ {0}, NEW q \in Int, NEW r \in 0 .. B - 1, n = B * q + r
  PROVE  n % B = r /\ n \div B = q
OBVIOUS

(* Multiplying by a natural number keeps the order.                        *)
LEMMA TimesMonotone ==
  ASSUME NEW a \in Int, NEW b \in Int, NEW n \in Nat, a <= b
  PROVE  a * n <= b * n
<1>1. (b - a) * n >= 0
  OBVIOUS
<1>2. (b - a) * n = b * n - a * n
  OBVIOUS
<1> QED BY <1>1, <1>2

(* A function on 1 .. n is a sequence of length n.                         *)
LEMMA MadeSeq ==
  ASSUME NEW S, NEW n \in Nat, NEW f, f \in [1 .. n -> S]
  PROVE  f \in Seq(S) /\ Len(f) = n
<1>1. f \in Seq(S)
  BY SeqDef
<1>2. DOMAIN f = 1 .. n /\ DOMAIN f = 1 .. Len(f) /\ Len(f) \in Nat
  BY <1>1, LenProperties
<1>3. 1 .. Len(f) = 1 .. n
  BY <1>2
<1>4. Len(f) = n
  BY <1>2, <1>3
<1> QED BY <1>1, <1>4

(* Sequences of the same elements are the same.                            *)
LEMMA SameSeq ==
  ASSUME NEW S, NEW n \in Nat, NEW s \in Seq(S), NEW t \in Seq(S), Len(s) = n, Len(t) = n,
         \A i \in 1 .. n : s[i] = t[i]
  PROVE  s = t
BY SeqEqual

(* What joining two sequences gives, for elements of any set.              *)
LEMMA JoinOf ==
  ASSUME NEW S, NEW s \in Seq(S), NEW t \in Seq(S)
  PROVE  /\ Len(s) \in Nat /\ Len(t) \in Nat
         /\ s \o t \in Seq(S) /\ Len(s \o t) = Len(s) + Len(t)
         /\ \A i \in 1 .. Len(s) : (s \o t)[i] = s[i] /\ s[i] \in S
         /\ \A i \in 1 .. Len(t) : (s \o t)[Len(s) + i] = t[i] /\ t[i] \in S
<1>1. Len(s) \in Nat /\ Len(t) \in Nat
  BY LenProperties
<1>2. s \o t \in Seq(S) /\ Len(s \o t) = Len(s) + Len(t)
  BY ConcatProperties
<1>3. \A i \in 1 .. Len(s) + Len(t) : (s \o t)[i] = IF i <= Len(s) THEN s[i] ELSE t[i - Len(s)]
  BY ConcatProperties
<1>4. ASSUME NEW i \in 1 .. Len(s) PROVE (s \o t)[i] = s[i] /\ s[i] \in S
  <2>1. i \in 1 .. Len(s) + Len(t) /\ i <= Len(s)
    BY <1>1
  <2> QED BY <1>3, <2>1, ElementOfSeq
<1>5. ASSUME NEW i \in 1 .. Len(t) PROVE (s \o t)[Len(s) + i] = t[i] /\ t[i] \in S
  <2>1. Len(s) + i \in 1 .. Len(s) + Len(t) /\ ~(Len(s) + i <= Len(s)) /\ (Len(s) + i) - Len(s) = i
    BY <1>1
  <2> QED BY <1>3, <2>1, ElementOfSeq
<1> QED BY <1>1, <1>2, <1>4, <1>5

(* Three sequences in a row.                                               *)
ThreeJoined(s, t, u) == (s \o t) \o u = s \o (t \o u)

(* The elements of three sequences in a row.                               *)
LEMMA JoinThree ==
  ASSUME NEW S, NEW s \in Seq(S), NEW t \in Seq(S), NEW u \in Seq(S)
  PROVE  ThreeJoined(s, t, u)
BY ConcatAssociative DEF ThreeJoined

(* The first a elements and the others.                                    *)
LEMMA FirstRest ==
  ASSUME NEW S, NEW s \in Seq(S), NEW a \in 0 .. Len(s)
  PROVE  /\ Len(s) \in Nat /\ a \in Nat
         /\ First(s, a) \in Seq(S) /\ Len(First(s, a)) = a
         /\ \A i \in 1 .. a : First(s, a)[i] = s[i]
         /\ Rest(s, a) \in Seq(S) /\ Len(Rest(s, a)) = Len(s) - a
         /\ \A i \in 1 .. Len(s) - a : Rest(s, a)[i] = s[a + i]
<1>1. Len(s) \in Nat /\ a \in Nat
  BY LenProperties
<1> QED BY <1>1, CutAt DEF First, Rest

(* They are all of them.                                                   *)
LEMMA FirstThenRest ==
  ASSUME NEW S, NEW s \in Seq(S), NEW a \in 0 .. Len(s)
  PROVE  First(s, a) \o Rest(s, a) = s
<1> DEFINE u == First(s, a)
           v == Rest(s, a)
           n == Len(s)
<1>1. /\ n \in Nat /\ a \in Nat /\ a <= n
      /\ u \in Seq(S) /\ Len(u) = a /\ \A i \in 1 .. a : u[i] = s[i]
      /\ v \in Seq(S) /\ Len(v) = n - a /\ \A i \in 1 .. n - a : v[i] = s[a + i]
  BY FirstRest
<1>2. s \in Seq(S) /\ Len(s) = n
  OBVIOUS
<1> HIDE DEF u, v, n
<1>3. /\ u \o v \in Seq(S) /\ Len(u \o v) = Len(u) + Len(v)
      /\ \A i \in 1 .. Len(u) : (u \o v)[i] = u[i]
      /\ \A i \in 1 .. Len(v) : (u \o v)[Len(u) + i] = v[i]
  <2>1. u \in Seq(S) /\ v \in Seq(S)
    BY <1>1
  <2> QED BY <2>1, JoinOf
<1>4. Len(u \o v) = n
  BY <1>1, <1>3
<1>5. ASSUME NEW i \in 1 .. n PROVE (u \o v)[i] = s[i]
  <2>1. CASE i <= a
    <3>1. i \in 1 .. a
      BY <1>1, <2>1
    <3> QED BY <1>1, <1>3, <3>1
  <2>2. CASE ~(i <= a)
    <3>1. i - a \in 1 .. n - a /\ a + (i - a) = i
      BY <1>1, <2>2
    <3>2. (u \o v)[a + (i - a)] = v[i - a] /\ v[i - a] = s[a + (i - a)]
      BY <1>1, <1>3, <3>1
    <3> QED BY <3>1, <3>2
  <2> QED BY <2>1, <2>2
<1>6. u \o v = s
  BY <1>1, <1>2, <1>3, <1>4, <1>5, SameSeq
<1> QED BY <1>6 DEF u, v

(* All and nothing.                                                        *)
LEMMA FirstAll ==
  ASSUME NEW S, NEW s \in Seq(S)
  PROVE  First(s, Len(s)) = s /\ Rest(s, Len(s)) = <<>> /\ First(s, 0) = <<>> /\ Rest(s, 0) = s
<1>1. Len(s) \in Nat
  BY LenProperties
<1>2. First(s, Len(s)) = s
  BY SubSeqFull DEF First
<1>3. Rest(s, Len(s)) = <<>> /\ First(s, 0) = <<>>
  BY <1>1, SubSeqEmpty DEF First, Rest
<1>4. Rest(s, 0) = s
  <2>1. 0 + 1 = 1
    OBVIOUS
  <2> QED BY <2>1, SubSeqFull DEF Rest
<1> QED BY <1>2, <1>3, <1>4

(* The parts of a joined sequence.                                         *)
LEMMA PartsOfJoin ==
  ASSUME NEW S, NEW s \in Seq(S), NEW t \in Seq(S), NEW a \in 0 .. Len(s)
  PROVE  First(s \o t, a) = First(s, a) /\ Rest(s \o t, a) = Rest(s, a) \o t
<1> DEFINE u == First(s, a)
           v == Rest(s, a)
           w == s \o t
           n == Len(s)
           m == Len(t)
<1>1. /\ n \in Nat /\ a \in Nat /\ a <= n
      /\ u \in Seq(S) /\ Len(u) = a /\ \A i \in 1 .. a : u[i] = s[i]
      /\ v \in Seq(S) /\ Len(v) = n - a /\ \A i \in 1 .. n - a : v[i] = s[a + i]
  BY FirstRest
<1>2. /\ m \in Nat /\ w \in Seq(S) /\ Len(w) = n + m
      /\ \A i \in 1 .. n : w[i] = s[i]
      /\ \A i \in 1 .. m : w[n + i] = t[i]
  BY JoinOf
<1>3. t \in Seq(S) /\ Len(t) = m
  OBVIOUS
<1>4. a \in 0 .. Len(w)
  BY <1>1, <1>2
<1>5. /\ First(w, a) \in Seq(S) /\ Len(First(w, a)) = a /\ \A i \in 1 .. a : First(w, a)[i] = w[i]
      /\ Rest(w, a) \in Seq(S) /\ Len(Rest(w, a)) = n + m - a
      /\ \A i \in 1 .. n + m - a : Rest(w, a)[i] = w[a + i]
  <2>1. Len(w) - a = n + m - a
    BY <1>2
  <2> HIDE DEF w, n, m
  <2>2. /\ First(w, a) \in Seq(S) /\ Len(First(w, a)) = a /\ \A i \in 1 .. a : First(w, a)[i] = w[i]
        /\ Rest(w, a) \in Seq(S) /\ Len(Rest(w, a)) = Len(w) - a
        /\ \A i \in 1 .. Len(w) - a : Rest(w, a)[i] = w[a + i]
    BY <1>2, <1>4, FirstRest
  <2> QED BY <2>1, <2>2
<1> HIDE DEF u, v, w, n, m
<1>6. First(w, a) = u
  <2>1. \A i \in 1 .. a : First(w, a)[i] = u[i]
    <3>0. \A i \in 1 .. a : i \in 1 .. n
      BY <1>1
    <3> QED BY <1>1, <1>2, <1>5, <3>0, ZenonT(60)
  <2> QED BY <1>1, <1>5, <2>1, SameSeq
<1>7. /\ v \o t \in Seq(S) /\ Len(v \o t) = Len(v) + Len(t)
      /\ \A i \in 1 .. Len(v) : (v \o t)[i] = v[i]
      /\ \A i \in 1 .. Len(t) : (v \o t)[Len(v) + i] = t[i]
  <2>1. v \in Seq(S) /\ t \in Seq(S)
    BY <1>1
  <2> QED BY <2>1, JoinOf, SMTT(30)
<1>8. Len(v \o t) = n + m - a /\ n + m - a \in Nat
  BY <1>1, <1>2, <1>3, <1>7
<1>9. ASSUME NEW i \in 1 .. n + m - a PROVE Rest(w, a)[i] = (v \o t)[i]
  <2>1. CASE i <= n - a
    <3>1. i \in 1 .. n - a /\ a + i \in 1 .. n
      BY <1>1, <2>1
    <3>2. Rest(w, a)[i] = w[a + i]
      BY <1>5
    <3>3. w[a + i] = s[a + i]
      BY <1>2, <3>1
    <3>4. v[i] = s[a + i]
      BY <1>1, <3>1
    <3>5. i \in 1 .. Len(v)
      BY <1>1, <3>1
    <3>6. (v \o t)[i] = v[i]
      BY <1>7, <3>5
    <3> QED BY <3>2, <3>3, <3>4, <3>6
  <2>2. CASE ~(i <= n - a)
    <3> DEFINE j == i - (n - a)
    <3>1. j \in 1 .. m /\ a + i = n + j /\ i = (n - a) + j
      BY <1>1, <1>2, <2>2
    <3> HIDE DEF j
    <3>2. w[a + i] = t[j] /\ (v \o t)[i] = t[j]
      BY <1>1, <1>2, <1>3, <1>7, <3>1
    <3> QED BY <1>5, <3>2
  <2> QED BY <2>1, <2>2
<1>10. Rest(w, a) = v \o t
  BY <1>5, <1>7, <1>8, <1>9, SameSeq
<1> QED BY <1>6, <1>10 DEF u, v, w

(* The two sequences that were joined.                                     *)
LEMMA UnJoin ==
  ASSUME NEW S, NEW s \in Seq(S), NEW t \in Seq(S)
  PROVE  First(s \o t, Len(s)) = s /\ Rest(s \o t, Len(s)) = t
<1>1. Len(s) \in 0 .. Len(s)
  BY LenProperties
<1>2. First(s \o t, Len(s)) = First(s, Len(s)) /\ Rest(s \o t, Len(s)) = Rest(s, Len(s)) \o t
  BY <1>1, PartsOfJoin
<1>3. <<>> \o t = t
  BY ConcatEmptySeq
<1> QED BY <1>2, <1>3, FirstAll

(* Taking away in two goes.                                                *)
LEMMA RestOfRestOf ==
  ASSUME NEW S, NEW s \in Seq(S), NEW a \in 0 .. Len(s), NEW b \in 0 .. Len(s) - a
  PROVE  /\ Rest(Rest(s, a), b) = Rest(s, a + b)
         /\ First(s, a + b) = First(s, a) \o First(Rest(s, a), b)
<1>1. Len(s) \in Nat /\ a \in Nat /\ a + b \in a .. Len(s) /\ (a + b) - a = b /\ b \in Nat
  BY LenProperties
<1>2. LET left == SubSeq(s, a + 1, Len(s))
          piece == SubSeq(left, 1, (a + b) - a)
      IN  /\ SubSeq(s, 1, a) \o piece = SubSeq(s, 1, a + b)
          /\ SubSeq(left, (a + b) - a + 1, Len(left)) = SubSeq(s, a + b + 1, Len(s))
  BY <1>1, CutTwice
<1> QED BY <1>1, <1>2 DEF First, Rest

(* A number of bytes is a number of blocks and a rest.                     *)
LEMMA CipherBlocks ==
  ASSUME NEW n \in Nat
  PROVE  /\ CipherBlock \in Nat \ {0} /\ CipherBlock >= 4
         /\ n \div CipherBlock \in Nat /\ n % CipherBlock \in 0 .. CipherBlock - 1
         /\ n = CipherBlock * (n \div CipherBlock) + (n % CipherBlock)
         /\ n - (n % CipherBlock) \in 0 .. n
         /\ n % CipherBlock \in 0 .. n
<1>1. CipherBlock \in Nat \ {0} /\ CipherBlock >= 4
  BY ModesAssumption
<1>2. n \in Int
  OBVIOUS
<1>3. n = CipherBlock * (n \div CipherBlock) + (n % CipherBlock) /\ n % CipherBlock \in 0 .. CipherBlock - 1
      /\ n \div CipherBlock \in Int
  BY <1>1, <1>2, DivideAndRest
<1>4. n \div CipherBlock \in Nat
  BY <1>1
<1>5. n % CipherBlock <= n
  BY <1>1
<1> QED BY <1>1, <1>3, <1>4, <1>5

(* A block of a sequence.                                                  *)
LEMMA BlockAt ==
  ASSUME NEW S, NEW s \in Seq(S), NEW k \in 1 .. Len(s) \div CipherBlock
  PROVE  /\ (k - 1) * CipherBlock \in Nat /\ k * CipherBlock = (k - 1) * CipherBlock + CipherBlock
         /\ k * CipherBlock <= Len(s)
         /\ SubSeq(s, (k - 1) * CipherBlock + 1, k * CipherBlock) \in Seq(S)
         /\ Len(SubSeq(s, (k - 1) * CipherBlock + 1, k * CipherBlock)) = CipherBlock
         /\ \A i \in 1 .. CipherBlock :
              SubSeq(s, (k - 1) * CipherBlock + 1, k * CipherBlock)[i] = s[(k - 1) * CipherBlock + i]
<1> DEFINE B == CipherBlock
           a == (k - 1) * B
           b == k * B
           n == Len(s)
           q == n \div B
           p == SubSeq(s, a + 1, b)
<1>0. n \in Nat
  BY LenProperties
<1>1. B \in Nat \ {0} /\ q \in Nat /\ n % B \in 0 .. B - 1 /\ n = B * q + (n % B)
  BY <1>0, CipherBlocks
<1>2. k \in Nat /\ k - 1 \in Nat /\ k <= q
  BY <1>1
<1>3. k * B <= q * B
  BY <1>1, <1>2, TimesMonotone
<1>4. q * B = B * q /\ (k - 1) * B = k * B - B /\ (k - 1) * B \in Nat /\ k * B \in Nat
  <2> HIDE DEF q, n
  <2> QED BY <1>1, <1>2
<1>5. a \in Nat /\ b = a + B /\ b <= n /\ b \in Nat
  <2> HIDE DEF q, n
  <2> QED BY <1>0, <1>1, <1>3, <1>4
<1>6. \A i \in a + 1 .. b : s[i] \in S
  <2> TAKE i \in a + 1 .. b
  <2>1. i \in 1 .. n
    <3> HIDE DEF a, b, n
    <3> QED BY <1>0, <1>5
  <2> QED BY <2>1, ElementOfSeq
<1> HIDE DEF a, b
<1>7. /\ p \in Seq(S) /\ Len(p) = IF a + 1 <= b THEN b - (a + 1) + 1 ELSE 0
      /\ \A i \in 1 .. b - (a + 1) + 1 : p[i] = s[(a + 1) + i - 1]
  <2>1. a + 1 \in Int /\ b \in Int
    BY <1>5
  <2> QED BY <1>6, <2>1, SubSeqProperties
<1> HIDE DEF p, n, q
<1>8. Len(p) = B
  BY <1>1, <1>5, <1>7
<1>9. \A i \in 1 .. B : p[i] = s[a + i]
  <2> TAKE i \in 1 .. B
  <2>1. i \in 1 .. b - (a + 1) + 1 /\ (a + 1) + i - 1 = a + i
    BY <1>1, <1>5
  <2>2. p[i] = s[(a + 1) + i - 1]
    BY <1>7, <2>1
  <2> QED BY <2>1, <2>2
<1> QED BY <1>5, <1>7, <1>8, <1>9 DEF a, b, p, n

WholeBlock(S, b, s, k) ==
  b \in Seq(S) /\ Len(b) = CipherBlock /\ \A i \in 1 .. CipherBlock : b[i] = s[(k - 1) * CipherBlock + i]

(* Block k of a sequence is within it.                                     *)
LEMMA WholeBlockAt ==
  ASSUME NEW S, NEW s \in Seq(S), NEW k \in 1 .. Len(s) \div CipherBlock
  PROVE  WholeBlock(S, SubSeq(s, (k - 1) * CipherBlock + 1, k * CipherBlock), s, k)
BY BlockAt DEF WholeBlock

(* The blocks of a sequence.                                               *)
LEMMA BlocksAre ==
  ASSUME NEW S, NEW s \in Seq(S)
  PROVE  /\ Len(s) \div CipherBlock \in Nat
         /\ BlocksOf(s) \in Seq(Seq(S)) /\ Len(BlocksOf(s)) = Len(s) \div CipherBlock
         /\ \A k \in 1 .. Len(s) \div CipherBlock :
              BlocksOf(s)[k] = SubSeq(s, (k - 1) * CipherBlock + 1, k * CipherBlock)
<1>1. Len(s) \div CipherBlock \in Nat
  BY LenProperties, CipherBlocks
<1> DEFINE q == Len(s) \div CipherBlock
<1>2. \A k \in 1 .. q : SubSeq(s, (k - 1) * CipherBlock + 1, k * CipherBlock) \in Seq(S)
  BY BlockAt
<1>3. BlocksOf(s) \in [1 .. q -> Seq(S)]
  BY <1>2 DEF BlocksOf
<1>4. \A k \in 1 .. q : BlocksOf(s)[k] = SubSeq(s, (k - 1) * CipherBlock + 1, k * CipherBlock)
  BY DEF BlocksOf
<1>5. BlocksOf(s) \in Seq(Seq(S)) /\ Len(BlocksOf(s)) = q
  <2> DEFINE f == BlocksOf(s)
             T == Seq(S)
  <2>1. q \in Nat /\ f \in [1 .. q -> T]
    BY <1>1, <1>3
  <2> HIDE DEF f, T, q
  <2>2. f \in Seq(T) /\ Len(f) = q
    BY <2>1, MadeSeq
  <2> QED BY <2>2 DEF f, T
<1> QED BY <1>1, <1>4, <1>5

(* The number of blocks of two sequences, of which the first is whole.     *)
LEMMA BlockCount ==
  ASSUME NEW n \in Nat, NEW m \in Nat, n % CipherBlock = 0
  PROVE  /\ (n + m) \div CipherBlock = (n \div CipherBlock) + (m \div CipherBlock)
         /\ (n + m) % CipherBlock = m % CipherBlock
<1> DEFINE B == CipherBlock
           q == n \div B
           h == m \div B
           r == m % B
<1>1. B \in Nat \ {0} /\ q \in Nat /\ n = B * q + 0
  BY CipherBlocks
<1>2. h \in Nat /\ r \in 0 .. B - 1 /\ m = B * h + r
  BY CipherBlocks
<1> HIDE DEF B, q, h, r
<1>3. n + m = B * (q + h) + r /\ q + h \in Int /\ n + m \in Int
  BY <1>1, <1>2
<1>4. (n + m) % B = r /\ (n + m) \div B = q + h
  <2> DEFINE u == n + m
             v == q + h
  <2>1. u \in Int /\ v \in Int /\ u = B * v + r /\ B \in Nat \ {0} /\ r \in 0 .. B - 1
    BY <1>1, <1>2, <1>3
  <2> HIDE DEF u, v
  <2>2. u % B = r /\ u \div B = v
    BY <2>1, RestUnique
  <2> QED BY <2>2 DEF u, v
<1> QED BY <1>4 DEF B, q, h, r

(* A whole sequence and another one give the blocks of both.               *)
LEMMA BlocksJoin ==
  ASSUME NEW S, NEW s \in Seq(S), NEW t \in Seq(S), Len(s) % CipherBlock = 0
  PROVE  BlocksOf(s \o t) = BlocksOf(s) \o BlocksOf(t)
<1> DEFINE B == CipherBlock
           n == Len(s)
           m == Len(t)
           w == s \o t
           q == n \div B
           h == m \div B
           X == BlocksOf(s)
           Y == BlocksOf(t)
           Z == BlocksOf(w)
           T == Seq(S)
           at(u, k) == SubSeq(u, (k - 1) * B + 1, k * B)
<1>1. /\ n \in Nat /\ m \in Nat /\ w \in Seq(S) /\ Len(w) = n + m
      /\ \A i \in 1 .. n : w[i] = s[i]
      /\ \A i \in 1 .. m : w[n + i] = t[i]
  BY JoinOf
<1>2. B \in Nat \ {0} /\ q \in Nat /\ h \in Nat /\ n = B * q + 0
  BY <1>1, CipherBlocks
<1>3. Len(w) \div B = q + h
  BY <1>1, BlockCount
<1>4. X \in Seq(T) /\ Len(X) = q /\ \A k \in 1 .. q : X[k] = at(s, k)
  BY BlocksAre
<1>5. Y \in Seq(T) /\ Len(Y) = h /\ \A k \in 1 .. h : Y[k] = at(t, k)
  BY BlocksAre
<1>6. Z \in Seq(T) /\ Len(Z) = q + h /\ \A k \in 1 .. q + h : Z[k] = at(w, k)
  <2> HIDE DEF w, n, m, q, h
  <2> QED BY <1>1, <1>3, BlocksAre
<1>7. /\ X \o Y \in Seq(T) /\ Len(X \o Y) = Len(X) + Len(Y)
      /\ \A i \in 1 .. Len(X) : (X \o Y)[i] = X[i]
      /\ \A i \in 1 .. Len(Y) : (X \o Y)[Len(X) + i] = Y[i]
  <2>1. X \in Seq(T) /\ Y \in Seq(T)
    BY <1>4, <1>5
  <2> HIDE DEF X, Y, T
  <2> QED BY <2>1, JoinOf, SMTT(30)
<1>11. s \in Seq(S) /\ t \in Seq(S) /\ n = Len(s) /\ m = Len(t)
  OBVIOUS
<1>8. ASSUME NEW k \in 1 .. q PROVE Z[k] = X[k]
  <2>1. /\ (k - 1) * B \in Nat /\ k * B = (k - 1) * B + B /\ k * B <= n
        /\ at(s, k) \in Seq(S) /\ Len(at(s, k)) = B /\ \A i \in 1 .. B : at(s, k)[i] = s[(k - 1) * B + i]
    BY BlockAt
  <2>2. k \in 1 .. q + h
    <3> HIDE DEF q, h
    <3> QED BY <1>2
  <2>3. /\ at(w, k) \in Seq(S) /\ Len(at(w, k)) = B /\ \A i \in 1 .. B : at(w, k)[i] = w[(k - 1) * B + i]
    <3>1. k \in 1 .. Len(w) \div B
      BY <1>3, <2>2
    <3>2. w \in Seq(S)
      BY <1>1
    <3> HIDE DEF w
    <3> QED BY <3>1, <3>2, BlockAt
  <2>4. \A i \in 1 .. B : at(w, k)[i] = at(s, k)[i]
    <3> DEFINE a == (k - 1) * B
    <3> TAKE i \in 1 .. B
    <3>0. a \in Nat /\ a + B <= n /\ n \in Nat
      BY <1>1, <2>1
    <3>1. a + i \in 1 .. n
      <4> HIDE DEF n, a
      <4> QED BY <1>2, <3>0
    <3> QED BY <1>1, <2>1, <2>3, <3>1
  <2>5. at(w, k) = at(s, k)
    <3> DEFINE x == at(w, k)
               y == at(s, k)
    <3>1. x \in Seq(S) /\ y \in Seq(S) /\ Len(x) = B /\ Len(y) = B /\ \A i \in 1 .. B : x[i] = y[i]
      BY <2>1, <2>3, <2>4
    <3> HIDE DEF x, y
    <3>2. x = y
      BY <1>2, <3>1, SameSeq
    <3> QED BY <3>2 DEF x, y
  <2>6. Z[k] = at(w, k) /\ X[k] = at(s, k)
    BY <1>4, <1>6, <2>2
  <2> QED BY <2>5, <2>6
<1>9. ASSUME NEW k \in 1 .. h PROVE Z[q + k] = Y[k]
  <2>1. /\ (k - 1) * B \in Nat /\ k * B = (k - 1) * B + B /\ k * B <= m
        /\ at(t, k) \in Seq(S) /\ Len(at(t, k)) = B /\ \A i \in 1 .. B : at(t, k)[i] = t[(k - 1) * B + i]
    BY BlockAt
  <2>2. q + k \in 1 .. q + h /\ q + k \in Nat
    <3> HIDE DEF q, h
    <3> QED BY <1>2
  <2>3. ((q + k) - 1) * B = n + (k - 1) * B
    <3> HIDE DEF q, h, n
    <3> QED BY <1>2
  <2>4. /\ at(w, q + k) \in Seq(S) /\ Len(at(w, q + k)) = B
        /\ \A i \in 1 .. B : at(w, q + k)[i] = w[((q + k) - 1) * B + i]
    <3>1. q + k \in 1 .. Len(w) \div B
      BY <1>3, <2>2
    <3> DEFINE g == q + k
    <3>3. w \in Seq(S) /\ g \in 1 .. Len(w) \div B
      BY <1>1, <3>1
    <3> HIDE DEF w, g
    <3>2. /\ at(w, g) \in Seq(S) /\ Len(at(w, g)) = B /\ \A i \in 1 .. B : at(w, g)[i] = w[(g - 1) * B + i]
      <4>1. WholeBlock(S, at(w, g), w, g)
        BY <3>3, WholeBlockAt
      <4> QED BY <4>1 DEF WholeBlock
    <3> QED BY <3>2 DEF g
  <2>5. \A i \in 1 .. B : at(w, q + k)[i] = at(t, k)[i]
    <3> DEFINE a == (k - 1) * B
    <3> TAKE i \in 1 .. B
    <3>0. a \in Nat /\ a + B <= m /\ n \in Nat /\ m \in Nat
      BY <1>1, <2>1
    <3>1. a + i \in 1 .. m /\ (n + a) + i = n + (a + i)
      <4> HIDE DEF n, m, a
      <4> QED BY <1>2, <3>0
    <3>2. at(w, q + k)[i] = w[n + (a + i)]
      BY <2>3, <2>4, <3>1
    <3>3. w[n + (a + i)] = t[a + i] /\ at(t, k)[i] = t[a + i]
      BY <1>1, <2>1, <3>1
    <3> QED BY <3>2, <3>3
  <2>6. at(w, q + k) = at(t, k)
    <3> DEFINE x == at(w, q + k)
               y == at(t, k)
    <3>1. x \in Seq(S) /\ y \in Seq(S) /\ Len(x) = B /\ Len(y) = B /\ \A i \in 1 .. B : x[i] = y[i]
      BY <2>1, <2>4, <2>5
    <3> HIDE DEF x, y
    <3>2. x = y
      BY <1>2, <3>1, SameSeq
    <3> QED BY <3>2 DEF x, y
  <2>7. Z[q + k] = at(w, q + k) /\ Y[k] = at(t, k)
    BY <1>5, <1>6, <2>2
  <2> QED BY <2>6, <2>7
<1> HIDE DEF X, Y, Z, q, h, n, m, w, T
<1>10. ASSUME NEW i \in 1 .. q + h PROVE (X \o Y)[i] = Z[i]
  <2>1. CASE i <= q
    <3>1. i \in 1 .. q
      BY <1>2, <2>1
    <3> QED BY <1>4, <1>7, <1>8, <3>1
  <2>2. CASE ~(i <= q)
    <3>1. i - q \in 1 .. h /\ q + (i - q) = i
      BY <1>2, <2>2
    <3>2. (X \o Y)[q + (i - q)] = Y[i - q] /\ Z[q + (i - q)] = Y[i - q]
      BY <1>4, <1>5, <1>7, <1>9, <3>1
    <3> QED BY <3>1, <3>2
  <2> QED BY <2>1, <2>2
<1>12. Len(X \o Y) = q + h /\ q + h \in Nat
  BY <1>2, <1>4, <1>5, <1>7
<1>13. X \o Y = Z
  BY <1>6, <1>7, <1>10, <1>12, SameSeq
<1> QED BY <1>13 DEF X, Y, Z, w

(* What fits is written behind the first p bytes.                          *)
LEMMA OverwrittenIs ==
  ASSUME NEW S, NEW buf \in [1 .. CipherBlock -> S], NEW p \in 0 .. CipherBlock, NEW d \in Seq(S),
         p + Len(d) <= CipherBlock
  PROVE  /\ Overwritten(buf, p, d) \in [1 .. CipherBlock -> S]
         /\ First(Overwritten(buf, p, d), p + Len(d)) = First(buf, p) \o d
         /\ Rest(Overwritten(buf, p, d), p + Len(d)) = Rest(buf, p + Len(d))
<1> DEFINE B == CipherBlock
           m == Len(d)
           f == Overwritten(buf, p, d)
           e == p + m
<1>1. B \in Nat /\ p \in Nat /\ m \in Nat /\ e \in 0 .. B /\ p \in 0 .. B /\ DOMAIN d = 1 .. m /\ p <= e
      /\ \A i \in 1 .. m : d[i] \in S
  <2>1. m \in Nat /\ DOMAIN d = 1 .. m /\ \A i \in 1 .. m : d[i] \in S
    BY LenProperties, ElementOfSeq
  <2>2. B \in Nat
    BY ModesAssumption
  <2> QED BY <2>1, <2>2
<1>2. f = [i \in 1 .. B |-> IF i - p \in 1 .. m THEN d[i - p] ELSE buf[i]]
  BY <1>1 DEF Overwritten
<1>3. f \in [1 .. B -> S]
  BY <1>1, <1>2
<1>4. buf \in Seq(S) /\ Len(buf) = B /\ f \in Seq(S) /\ Len(f) = B
  <2> HIDE DEF f
  <2> QED BY <1>1, <1>3, MadeSeq
<1>5. \A i \in 1 .. B : (i <= p \/ i > e) => f[i] = buf[i]
  <2> HIDE DEF m
  <2> QED BY <1>1, <1>2
<1>6. \A i \in 1 .. m : f[p + i] = d[i]
  <2> TAKE i \in 1 .. m
  <2> HIDE DEF m
  <2>1. p + i \in 1 .. B /\ (p + i) - p = i /\ i \in 1 .. m
    BY <1>1
  <2> QED BY <1>2, <2>1
<1>7. /\ First(buf, p) \in Seq(S) /\ Len(First(buf, p)) = p /\ \A i \in 1 .. p : First(buf, p)[i] = buf[i]
  <2>1. p \in 0 .. Len(buf) /\ buf \in Seq(S)
    BY <1>1, <1>4
  <2> QED BY <2>1, FirstRest
<1>8. /\ Rest(buf, e) \in Seq(S) /\ Len(Rest(buf, e)) = B - e /\ \A i \in 1 .. B - e : Rest(buf, e)[i] = buf[e + i]
  <2>1. e \in 0 .. Len(buf)
    BY <1>1, <1>4
  <2>2. buf \in Seq(S) /\ Len(buf) = B
    BY <1>4
  <2> HIDE DEF e
  <2>3. /\ Rest(buf, e) \in Seq(S) /\ Len(Rest(buf, e)) = Len(buf) - e
        /\ \A i \in 1 .. Len(buf) - e : Rest(buf, e)[i] = buf[e + i]
    BY <2>1, <2>2, FirstRest
  <2> QED BY <2>2, <2>3
<1>9. /\ First(f, e) \in Seq(S) /\ Len(First(f, e)) = e /\ \A i \in 1 .. e : First(f, e)[i] = f[i]
      /\ Rest(f, e) \in Seq(S) /\ Len(Rest(f, e)) = B - e /\ \A i \in 1 .. B - e : Rest(f, e)[i] = f[e + i]
  <2>1. e \in 0 .. Len(f)
    BY <1>1, <1>4
  <2>2. f \in Seq(S) /\ Len(f) = B
    BY <1>4
  <2> HIDE DEF e, f
  <2>3. /\ First(f, e) \in Seq(S) /\ Len(First(f, e)) = e /\ \A i \in 1 .. e : First(f, e)[i] = f[i]
        /\ Rest(f, e) \in Seq(S) /\ Len(Rest(f, e)) = Len(f) - e /\ \A i \in 1 .. Len(f) - e : Rest(f, e)[i] = f[e + i]
    BY <2>1, <2>2, FirstRest
  <2> QED BY <2>2, <2>3
<1>10. Rest(f, e) = Rest(buf, e)
  <2>1. \A i \in 1 .. B - e : Rest(f, e)[i] = Rest(buf, e)[i]
    <3> TAKE i \in 1 .. B - e
    <3> HIDE DEF e, f
    <3>1. e + i \in 1 .. B /\ e + i > e
      BY <1>1
    <3>2. f[e + i] = buf[e + i]
      BY <1>5, <3>1
    <3> QED BY <1>8, <1>9, <3>2
  <2>2. B - e \in Nat
    BY <1>1
  <2> HIDE DEF e, f
  <2> QED BY <1>8, <1>9, <2>1, <2>2, SameSeq
<1>11. First(f, e) = First(buf, p) \o d
  <2> DEFINE u == First(buf, p)
             w == u \o d
             v == First(f, e)
  <2>1. /\ w \in Seq(S) /\ Len(w) = Len(u) + m
        /\ \A i \in 1 .. Len(u) : w[i] = u[i]
        /\ \A i \in 1 .. m : w[Len(u) + i] = d[i]
    <3>1. u \in Seq(S) /\ d \in Seq(S)
      BY <1>7
    <3> HIDE DEF u
    <3> QED BY <3>1, JoinOf, SMTT(30)
  <2>2. Len(w) = e
    BY <1>7, <2>1
  <2>3. ASSUME NEW i \in 1 .. e PROVE v[i] = w[i]
    <3> HIDE DEF u, w, v, f, m
    <3>1. CASE i <= p
      <4>1. i \in 1 .. p /\ i \in 1 .. B /\ i <= p
        BY <1>1, <3>1
      <4>2. w[i] = buf[i]
        BY <1>7, <2>1, <4>1 DEF u
      <4>3. v[i] = buf[i]
        BY <1>5, <1>9, <4>1 DEF v
      <4> QED BY <4>2, <4>3
    <3>2. CASE ~(i <= p)
      <4>1. i - p \in 1 .. m /\ p + (i - p) = i
        BY <1>1, <3>2
      <4>2. w[p + (i - p)] = d[i - p]
        BY <1>7, <2>1, <4>1 DEF u
      <4>3. f[p + (i - p)] = d[i - p]
        BY <1>6, <4>1
      <4>4. v[i] = f[i]
        BY <1>9 DEF v
      <4> QED BY <4>1, <4>2, <4>3, <4>4
    <3> QED BY <3>1, <3>2
  <2>4. v \in Seq(S) /\ Len(v) = e /\ e \in Nat
    BY <1>1, <1>9
  <2> HIDE DEF v, w, e
  <2>5. v = w
    BY <2>1, <2>2, <2>3, <2>4, SameSeq
  <2> QED BY <2>5 DEF v, w
<1> QED BY <1>3, <1>10, <1>11

(* Nothing, and one block.                                                 *)
LEMMA FewBlocks ==
  ASSUME NEW S
  PROVE  /\ BlocksOf(<<>>) = <<>> /\ <<>> \in Seq(S)
         /\ \A s \in Seq(S) : Len(s) = CipherBlock => BlocksOf(s) = <<s>>
<1>1. CipherBlock \in Nat \ {0}
  BY ModesAssumption
<1>2. <<>> \in Seq(S) /\ Len(<<>>) = 0
  BY EmptySeq
<1>3. BlocksOf(<<>>) = <<>>
  <2> DEFINE e == <<>>
             f == BlocksOf(e)
             T == Seq(S)
  <2>0. e \in Seq(S) /\ Len(e) = 0
    BY <1>2
  <2>1. Len(e) \div CipherBlock = 0
    BY <1>1, <2>0
  <2>2. f \in Seq(T) /\ Len(f) = 0
    <3> HIDE DEF e
    <3> QED BY <2>0, <2>1, BlocksAre
  <2> HIDE DEF f, T
  <2>3. f = <<>>
    BY <2>2, EmptySeq
  <2> QED BY <2>3 DEF f
<1>4. ASSUME NEW s \in Seq(S), Len(s) = CipherBlock PROVE BlocksOf(s) = <<s>>
  <2> DEFINE f == BlocksOf(s)
             g == <<s>>
             T == Seq(S)
  <2>1. Len(s) \div CipherBlock = 1
    BY <1>1, <1>4
  <2>2. f \in Seq(T) /\ Len(f) = 1 /\ f[1] = SubSeq(s, (1 - 1) * CipherBlock + 1, 1 * CipherBlock)
    <3>1. /\ f \in Seq(T) /\ Len(f) = 1
          /\ \A k \in 1 .. 1 : f[k] = SubSeq(s, (k - 1) * CipherBlock + 1, k * CipherBlock)
      BY <2>1, BlocksAre
    <3>2. 1 \in 1 .. 1
      OBVIOUS
    <3> QED BY <3>1, <3>2
  <2>3. (1 - 1) * CipherBlock + 1 = 1 /\ 1 * CipherBlock = CipherBlock
    BY <1>1
  <2>4. f[1] = s
    BY <1>4, <2>2, <2>3, SubSeqFull
  <2>5. g \in Seq(T) /\ Len(g) = 1 /\ g[1] = s
    <3>1. s \in T
      OBVIOUS
    <3> HIDE DEF T
    <3> QED BY <3>1
  <2> HIDE DEF f, g, T
  <2>6. \A i \in 1 .. 1 : f[i] = g[i]
    BY <2>4, <2>5
  <2>7. f = g
    BY <2>2, <2>5, <2>6, SameSeq
  <2> QED BY <2>7 DEF f, g
<1> QED BY <1>2, <1>3, <1>4

-----------------------------------------------------------------------------
(* The MAC has gone over all of s but its last p bytes, which are in buf.  *)
Gathered(S, mac, buf, p, s) ==
  /\ s \in Seq(S) /\ buf \in [1 .. CipherBlock -> S]
  /\ p \in 0 .. CipherBlock /\ p <= Len(s) /\ (Len(s) - p) % CipherBlock = 0
  /\ mac = BlocksOf(First(s, Len(s) - p)) /\ First(buf, p) = Rest(s, Len(s) - p)

(* More bytes that fit.                                                    *)
LEMMA GatherIn ==
  ASSUME NEW S, NEW mac, NEW buf, NEW p, NEW s, Gathered(S, mac, buf, p, s),
         NEW d \in Seq(S), p + Len(d) <= CipherBlock
  PROVE  Gathered(S, mac, Overwritten(buf, p, d), p + Len(d), s \o d)
<1> DEFINE n == Len(s)
           m == Len(d)
           a == n - p
           t == s \o d
           f == Overwritten(buf, p, d)
<1>1. /\ s \in Seq(S) /\ buf \in [1 .. CipherBlock -> S] /\ p \in 0 .. CipherBlock /\ p <= n
      /\ a % CipherBlock = 0 /\ mac = BlocksOf(First(s, a)) /\ First(buf, p) = Rest(s, a)
  BY DEF Gathered
<1>2. t \in Seq(S) /\ Len(t) = n + m /\ n \in Nat /\ m \in Nat
  BY <1>1, JoinOf
<1>3. a \in 0 .. n /\ (n + m) - (p + m) = a /\ p + m \in 0 .. CipherBlock /\ p + m <= n + m
  <2>1. CipherBlock \in Nat
    BY ModesAssumption
  <2> QED BY <1>1, <1>2, <2>1
<1>4. First(t, a) = First(s, a) /\ Rest(t, a) = Rest(s, a) \o d
  <2>1. a \in 0 .. Len(s) /\ s \in Seq(S)
    BY <1>1, <1>3
  <2> HIDE DEF a
  <2> QED BY <2>1, PartsOfJoin
<1>5. f \in [1 .. CipherBlock -> S] /\ First(f, p + m) = First(buf, p) \o d
  <2>1. p + Len(d) <= CipherBlock
    OBVIOUS
  <2> QED BY <1>1, <2>1, OverwrittenIs
<1> HIDE DEF n, m, a, t, f
<1>6. Gathered(S, mac, f, p + m, t)
  BY <1>1, <1>2, <1>3, <1>4, <1>5 DEF Gathered
<1> QED BY <1>6 DEF m, t, f

(* Joining in another order.                                               *)
FourJoined(s, x, w, z) == s \o (x \o (w \o z)) = ((s \o x) \o w) \o z

(* Four sequences in a row, of which the two in the middle fill blocks.    *)
LEMMA JoinFour ==
  ASSUME NEW S, NEW s \in Seq(S), NEW x \in Seq(S), NEW w \in Seq(S), NEW z \in Seq(S)
  PROVE  FourJoined(s, x, w, z)
<1> DEFINE g == w \o z
           h == s \o x
<1>1. g \in Seq(S)
  BY JoinOf
<1>2. h \in Seq(S)
  BY JoinOf
<1>3. (s \o x) \o g = s \o (x \o g)
  <2> HIDE DEF g
  <2>1. ThreeJoined(s, x, g)
    BY <1>1, JoinThree
  <2> QED BY <2>1 DEF ThreeJoined
<1>4. (h \o w) \o z = h \o (w \o z)
  <2> HIDE DEF h
  <2>1. ThreeJoined(h, w, z)
    BY <1>2, JoinThree
  <2> QED BY <2>1 DEF ThreeJoined
<1> QED BY <1>3, <1>4 DEF FourJoined

(* More bytes than fit: x fills the block up, w are whole blocks, and z    *)
(* stays.                                                                  *)
LEMMA GatherOn ==
  ASSUME NEW S, NEW mac, NEW buf, NEW p, NEW s, Gathered(S, mac, buf, p, s),
         NEW x \in Seq(S), NEW w \in Seq(S), NEW z \in Seq(S), NEW block, NEW f,
         (p = 0 /\ x = <<>>) \/ (p # 0 /\ p + Len(x) = CipherBlock /\ block = First(buf, p) \o x),
         Len(w) % CipherBlock = 0, f \in [1 .. CipherBlock -> S], Len(z) <= CipherBlock, First(f, Len(z)) = z
  PROVE  Gathered(S, (mac \o (IF p = 0 THEN <<>> ELSE <<block>>)) \o BlocksOf(w), f, Len(z), s \o (x \o (w \o z)))
<1> DEFINE n == Len(s)
           a == n - p
           u == First(s, a)
           v == Rest(s, a)
           y == IF p = 0 THEN <<>> ELSE block
           t == (s \o x) \o w
           s2 == s \o (x \o (w \o z))
           head == mac \o (IF p = 0 THEN <<>> ELSE <<block>>)
<1>1. /\ s \in Seq(S) /\ buf \in [1 .. CipherBlock -> S] /\ p \in 0 .. CipherBlock /\ p <= n
      /\ a % CipherBlock = 0 /\ mac = BlocksOf(u) /\ First(buf, p) = v
  BY DEF Gathered
<1>2. CipherBlock \in Nat \ {0} /\ n \in Nat /\ a \in 0 .. n
  <2>1. CipherBlock \in Nat \ {0} /\ n \in Nat
    BY <1>1, ModesAssumption, LenProperties
  <2> HIDE DEF n
  <2> QED BY <1>1, <2>1
<1>3. u \in Seq(S) /\ Len(u) = a /\ v \in Seq(S) /\ Len(v) = p /\ u \o v = s
  <2>1. s \in Seq(S) /\ a \in 0 .. Len(s)
    BY <1>1, <1>2
  <2>2. n - a = p
    BY <1>1, <1>2
  <2> HIDE DEF a
  <2>3. u \in Seq(S) /\ Len(u) = a /\ v \in Seq(S) /\ Len(v) = n - a
    BY <2>1, FirstRest, SMTT(30)
  <2> QED BY <2>1, <2>2, <2>3, FirstThenRest
<1> HIDE DEF n, a, u, v
<1>4. y \in Seq(S) /\ Len(y) % CipherBlock = 0 /\ s \o x = u \o y
      /\ BlocksOf(y) = (IF p = 0 THEN <<>> ELSE <<block>>)
  <2>1. CASE p = 0
    <3>1. x = <<>> /\ y = <<>>
      BY <2>1
    <3>2. v = <<>>
      BY <1>3, <2>1, EmptySeq
    <3>3. s \o <<>> = s
      BY <1>1, ConcatEmptySeq
    <3>4. <<>> \in Seq(S) /\ Len(<<>>) = 0 /\ BlocksOf(<<>>) = <<>>
      BY FewBlocks, EmptySeq
    <3>5. 0 % CipherBlock = 0
      BY <1>2
    <3> QED BY <1>3, <2>1, <3>1, <3>2, <3>3, <3>4, <3>5
  <2>2. CASE p # 0
    <3>1. y = v \o x /\ p + Len(x) = CipherBlock /\ y = block
      BY <1>1, <2>2
    <3>2. v \o x \in Seq(S) /\ Len(v \o x) = Len(v) + Len(x)
      BY <1>3, JoinOf
    <3>3. y \in Seq(S) /\ Len(y) = CipherBlock
      <4> DEFINE g == v \o x
      <4>1. y = g /\ g \in Seq(S) /\ Len(g) = p + Len(x)
        BY <1>3, <3>1, <3>2
      <4> HIDE DEF g, y
      <4> QED BY <3>1, <4>1
    <3>4. CipherBlock % CipherBlock = 0
      BY <1>2
    <3>5. s \o x = u \o (v \o x)
      <4>1. u \in Seq(S) /\ v \in Seq(S) /\ u \o v = s
        BY <1>3
      <4>2. (u \o v) \o x = u \o (v \o x)
        <5>1. u \in Seq(S) /\ v \in Seq(S)
          BY <1>3
        <5>2. ThreeJoined(u, v, x)
          BY <5>1, JoinThree
        <5> QED BY <5>2 DEF ThreeJoined
      <4> QED BY <4>1, <4>2
    <3>6. BlocksOf(y) = <<y>>
      BY <3>3, FewBlocks
    <3> QED BY <1>3, <2>2, <3>1, <3>3, <3>4, <3>5, <3>6
  <2> QED BY <2>1, <2>2
<1> HIDE DEF y
<1>5. BlocksOf(s \o x) = head
  <2>1. BlocksOf(u \o y) = BlocksOf(u) \o BlocksOf(y)
    BY <1>1, <1>3, <1>4, BlocksJoin
  <2> QED BY <1>1, <1>4, <2>1
<1>6. s \o x \in Seq(S) /\ Len(s \o x) \in Nat /\ Len(s \o x) % CipherBlock = 0
  <2>1. s \o x \in Seq(S) /\ Len(u \o y) = Len(u) + Len(y) /\ Len(y) \in Nat /\ Len(s \o x) \in Nat
    BY <1>1, <1>3, <1>4, JoinOf
  <2>2. (a + Len(y)) % CipherBlock = 0
    <3> DEFINE m == Len(y)
    <3>1. a \in Nat /\ m \in Nat /\ a % CipherBlock = 0 /\ m % CipherBlock = 0
      BY <1>1, <1>2, <1>4, <2>1
    <3> HIDE DEF m
    <3>2. (a + m) % CipherBlock = m % CipherBlock
      BY <3>1, BlockCount
    <3> QED BY <3>1, <3>2 DEF m
  <2> QED BY <1>3, <1>4, <2>1, <2>2
<1> HIDE DEF head
<1>7. t \in Seq(S) /\ Len(t) \in Nat /\ Len(t) % CipherBlock = 0 /\ BlocksOf(t) = head \o BlocksOf(w)
  <2> DEFINE g == s \o x
  <2>1. g \in Seq(S) /\ Len(g) \in Nat /\ Len(g) % CipherBlock = 0 /\ BlocksOf(g) = head
    BY <1>5, <1>6
  <2> HIDE DEF g
  <2>2. BlocksOf(g \o w) = BlocksOf(g) \o BlocksOf(w)
    BY <2>1, BlocksJoin
  <2>3. g \o w \in Seq(S) /\ Len(g \o w) = Len(g) + Len(w) /\ Len(w) \in Nat
    BY <2>1, JoinOf
  <2>4. (Len(g) + Len(w)) % CipherBlock = 0
    <3> DEFINE m == Len(w)
               h == Len(g)
    <3>1. h \in Nat /\ m \in Nat /\ h % CipherBlock = 0 /\ m % CipherBlock = 0
      BY <2>1, <2>3
    <3> HIDE DEF m, h
    <3>2. (h + m) % CipherBlock = m % CipherBlock
      BY <3>1, BlockCount
    <3> QED BY <3>1, <3>2 DEF m, h
  <2>5. g \o w \in Seq(S) /\ Len(g \o w) \in Nat /\ Len(g \o w) % CipherBlock = 0 /\ BlocksOf(g \o w) = head \o BlocksOf(w)
    BY <2>1, <2>2, <2>3, <2>4
  <2> QED BY <2>5 DEF g
<1>8. s2 = t \o z
  <2>1. s \in Seq(S)
    BY <1>1
  <2>2. FourJoined(s, x, w, z)
    BY <2>1, JoinFour
  <2> QED BY <2>2 DEF FourJoined
<1> HIDE DEF t, s2
<1>9. s2 \in Seq(S) /\ Len(s2) = Len(t) + Len(z) /\ Len(z) \in Nat /\ First(s2, Len(t)) = t /\ Rest(s2, Len(t)) = z
  BY <1>7, <1>8, JoinOf, UnJoin
<1>10. Len(s2) - Len(z) = Len(t) /\ Len(z) \in 0 .. CipherBlock /\ Len(z) <= Len(s2)
  BY <1>2, <1>7, <1>9
<1>11. Gathered(S, head \o BlocksOf(w), f, Len(z), s2)
  BY <1>7, <1>9, <1>10 DEF Gathered
<1> QED BY <1>11 DEF s2, head

-----------------------------------------------------------------------------
(* s, filled up with zeros.                                                *)
Zeroed(s) == s \o ZeroBytes((CipherBlock - (Len(s) % CipherBlock)) % CipherBlock)

(* The zeros of a padding.                                                 *)
LEMMA ZeroBytesAre ==
  ASSUME NEW S, Zero \in S, NEW n \in Nat
  PROVE  ZeroBytes(n) \in Seq(S) /\ Len(ZeroBytes(n)) = n /\ ZeroBytes(0) = <<>>
<1> DEFINE f == ZeroBytes(n)
<1>1. f \in [1 .. n -> S]
  BY DEF ZeroBytes
<1>2. f \in Seq(S) /\ Len(f) = n
  <2> HIDE DEF f
  <2> QED BY <1>1, MadeSeq
<1>3. ZeroBytes(0) = <<>>
  <2> DEFINE g == ZeroBytes(0)
  <2>1. g \in [1 .. 0 -> S] /\ 0 \in Nat
    BY DEF ZeroBytes
  <2>2. g \in Seq(S) /\ Len(g) = 0
    <3> HIDE DEF g
    <3> QED BY <2>1, MadeSeq
  <2> HIDE DEF g
  <2>3. g = <<>>
    BY <2>2, EmptySeq
  <2> QED BY <2>3 DEF g
<1> QED BY <1>2, <1>3

(* Filling up ends at the end of a block, and adds nothing behind whole    *)
(* blocks.                                                                 *)
LEMMA ZeroedIs ==
  ASSUME NEW S, Zero \in S, NEW s \in Seq(S)
  PROVE  /\ Zeroed(s) \in Seq(S) /\ Len(Zeroed(s)) \in Nat /\ Len(Zeroed(s)) % CipherBlock = 0
         /\ ZeroPadded(s) = BlocksOf(Zeroed(s))
         /\ Len(s) % CipherBlock = 0 => Zeroed(s) = s
         /\ Len(s) % CipherBlock # 0 => Zeroed(s) = s \o ZeroBytes(CipherBlock - (Len(s) % CipherBlock))
<1> DEFINE B == CipherBlock
           n == Len(s)
           r == n % B
           q == n \div B
           k == (B - r) % B
<1>1. n \in Nat
  BY LenProperties
<1>2. B \in Nat \ {0} /\ q \in Nat /\ r \in 0 .. B - 1 /\ n = B * q + r
  BY <1>1, CipherBlocks
<1>3. (r = 0 => k = 0) /\ (r # 0 => k = B - r) /\ k \in Nat
  <2> HIDE DEF r
  <2>1. CASE r = 0
    BY <1>2, <2>1
  <2>2. CASE r # 0
    BY <1>2, <2>2
  <2> QED BY <2>1, <2>2
<1>4. Zeroed(s) = s \o ZeroBytes(k)
  BY DEF Zeroed
<1>5. ZeroBytes(k) \in Seq(S) /\ Len(ZeroBytes(k)) = k /\ ZeroBytes(0) = <<>>
  <2> HIDE DEF k
  <2> QED BY <1>3, ZeroBytesAre
<1>6. Zeroed(s) \in Seq(S) /\ Len(Zeroed(s)) = n + k
  BY <1>4, <1>5, JoinOf, ZenonT(60)
<1>7. (n + k) % B = 0
  <2> HIDE DEF n, r, q, k
  <2>1. CASE r = 0
    <3> DEFINE e == n + k
    <3>1. e = B * q + 0 /\ e \in Int /\ 0 \in 0 .. B - 1
      BY <1>1, <1>2, <1>3, <2>1
    <3> HIDE DEF e
    <3>2. e % B = 0
      BY <1>2, <3>1, RestUnique
    <3> QED BY <3>2 DEF e
  <2>2. CASE r # 0
    <3> DEFINE e == n + k
               q1 == q + 1
    <3>1. e = B * q1 + 0 /\ e \in Int /\ 0 \in 0 .. B - 1 /\ q1 \in Int
      BY <1>1, <1>2, <1>3, <2>2
    <3> HIDE DEF e, q1
    <3>2. e % B = 0
      BY <1>2, <3>1, RestUnique
    <3> QED BY <3>2 DEF e
  <2> QED BY <2>1, <2>2
<1>8. ZeroPadded(s) = BlocksOf(Zeroed(s))
  BY DEF ZeroPadded, Zeroed
<1>9. r = 0 => Zeroed(s) = s
  BY <1>3, <1>4, <1>5, ConcatEmptySeq
<1>10. n + k \in Nat
  BY <1>1, <1>3
<1> QED BY <1>3, <1>4, <1>6, <1>7, <1>8, <1>9, <1>10

(* Zeros behind whole blocks and more fill up what is more.                *)
ZeroedApart(s, t) == BlocksOf(Zeroed(s \o t)) = BlocksOf(s) \o ZeroPadded(t)

(* Behind whole blocks, what is more is filled up on its own.              *)
LEMMA ZeroedJoin ==
  ASSUME NEW S, Zero \in S, NEW s \in Seq(S), NEW t \in Seq(S), Len(s) % CipherBlock = 0
  PROVE  ZeroedApart(s, t)
<1> DEFINE n == Len(s)
           m == Len(t)
<1>1. n \in Nat /\ m \in Nat /\ Len(s \o t) = n + m /\ n % CipherBlock = 0
  BY JoinOf
<1>2. (n + m) % CipherBlock = m % CipherBlock
  <2> HIDE DEF n, m
  <2> QED BY <1>1, BlockCount
<1> DEFINE zeros == ZeroBytes((CipherBlock - (m % CipherBlock)) % CipherBlock)
<1>3. Zeroed(s \o t) = (s \o t) \o zeros /\ Zeroed(t) = t \o zeros
  BY <1>1, <1>2 DEF Zeroed
<1>4. zeros \in Seq(S)
  <2> DEFINE k == (CipherBlock - (m % CipherBlock)) % CipherBlock
  <2>1. m % CipherBlock \in 0 .. CipherBlock - 1 /\ CipherBlock \in Nat \ {0}
    BY <1>1, CipherBlocks
  <2>2. k \in Nat
    <3> DEFINE r == m % CipherBlock
    <3> HIDE DEF r
    <3>1. (CipherBlock - r) % CipherBlock \in Nat
      BY <2>1 DEF r
    <3> QED BY <3>1 DEF r
  <2> HIDE DEF k
  <2>3. ZeroBytes(k) \in Seq(S)
    BY <2>2, ZeroBytesAre
  <2> QED BY <2>3 DEF k
<1>5. (s \o t) \o zeros = s \o (t \o zeros)
  <2> HIDE DEF zeros
  <2>1. ThreeJoined(s, t, zeros)
    BY <1>4, JoinThree
  <2> QED BY <2>1 DEF ThreeJoined
<1>6. Zeroed(s \o t) = s \o Zeroed(t)
  BY <1>3, <1>5
<1>7. BlocksOf(s \o Zeroed(t)) = BlocksOf(s) \o BlocksOf(Zeroed(t))
  BY ZeroedIs, BlocksJoin
<1> QED BY <1>6, <1>7, ZeroedIs DEF ZeroedApart

-----------------------------------------------------------------------------
(* The bytes of nonces and of what goes into the first block of a MAC; the *)
(* values that a counter starts from; all bytes.                           *)
Names == {"n", "m", "a", "old", "bits", "flags", "aad", "no aad", "length", "aad length", "omac", "0x80", "L2", "L4"}
PlainBytes == SUBSET (Names \X Int)
Counters == Seq(Seq(PlainBytes))
Bytes == SUBSET ((Names \X Int) \cup (Counters \X Int \X Int))

KeyByte(ctr, first, j) == {<<ctr, first + ((j - 1) \div CipherBlock), ((j - 1) % CipherBlock) + 1>>}
OutputOf(ctr, first, n) == XorBytes(Input(n), Stream(ctr, first, n))
CoveredOf(keeps, ctr, first, n) == IF keeps THEN OutputOf(ctr, first, n) ELSE Input(n)

(* d is the k bytes of the message after the first n; t begins with the   *)
(* stream for them.                                                        *)
MessagePart(d, n, k) == d \in Seq(Bytes) /\ Len(d) = k /\ \A i \in 1 .. k : d[i] = {<<"m", n + i>>}
IsBytes(t, k) == t \in Seq(Bytes) /\ Len(t) = k
StreamPart(t, ctr, first, n, k) == \A i \in 1 .. k : t[i] = KeyByte(ctr, first, n + i)

(* Adding (XOR) gives bytes.                                               *)
LEMMA PlainAreBytes ==
  /\ PlainBytes \subseteq Bytes
  /\ Zero \in PlainBytes /\ Zero \in Bytes
  /\ \A x, y \in Bytes : Added(x, y) \in Bytes
  /\ \A x, y \in PlainBytes : Added(x, y) \in PlainBytes
BY DEF PlainBytes, Bytes, Zero, Added

(* Bytes of nonces and of data are bytes.                                  *)
LEMMA PlainSeqs ==
  ASSUME NEW s \in Seq(PlainBytes)
  PROVE  s \in Seq(Bytes)
<1>1. Len(s) \in Nat /\ s \in [1 .. Len(s) -> PlainBytes]
  BY LenProperties
<1>2. s \in [1 .. Len(s) -> Bytes]
  BY <1>1, PlainAreBytes
<1> DEFINE n == Len(s)
<1>3. n \in Nat /\ s \in [1 .. n -> Bytes]
  BY <1>1, <1>2
<1> HIDE DEF n
<1> QED BY <1>3, MadeSeq

(* The bytes of a nonce, of data or of a message.                          *)
LEMMA NamedAre ==
  ASSUME NEW name \in Names, NEW n \in Nat
  PROVE  /\ Named(name, n) \in Seq(PlainBytes) /\ Named(name, n) \in Seq(Bytes)
         /\ Len(Named(name, n)) = n /\ \A i \in 1 .. n : Named(name, n)[i] = {<<name, i>>}
<1> DEFINE f == Named(name, n)
<1>1. f \in [1 .. n -> PlainBytes] /\ \A i \in 1 .. n : f[i] = {<<name, i>>}
  <2>1. \A i \in 1 .. n : {<<name, i>>} \in PlainBytes
    <3> TAKE i \in 1 .. n
    <3>1. i \in Int
      OBVIOUS
    <3>2. {<<name, i>>} \subseteq Names \X Int
      BY <3>1
    <3> QED BY <3>2 DEF PlainBytes
  <2> QED BY <2>1 DEF Named
<1> HIDE DEF f
<1>2. f \in Seq(PlainBytes) /\ Len(f) = n
  BY <1>1, MadeSeq
<1>3. f \in Seq(Bytes)
  BY <1>2, PlainSeqs
<1> QED BY <1>1, <1>2, <1>3 DEF f

(* The first n + k of them are the first n and the next k.                 *)
LEMMA NamedGrows ==
  ASSUME NEW name \in Names, NEW n \in Nat, NEW k \in Nat
  PROVE  /\ n + k \in Nat /\ n \in 0 .. n + k
         /\ Rest(Named(name, n + k), n) \in Seq(Bytes) /\ Len(Rest(Named(name, n + k), n)) = k
         /\ \A i \in 1 .. k : Rest(Named(name, n + k), n)[i] = {<<name, n + i>>}
         /\ Named(name, n) \o Rest(Named(name, n + k), n) = Named(name, n + k)
<1> DEFINE f == Named(name, n + k)
           g == Named(name, n)
           d == Rest(f, n)
           nk == n + k
<1>1. nk \in Nat /\ n \in 0 .. nk /\ nk - n = k
  OBVIOUS
<1>2. f \in Seq(Bytes) /\ Len(f) = nk /\ \A i \in 1 .. nk : f[i] = {<<name, i>>}
  BY <1>1, NamedAre
<1>3. g \in Seq(Bytes) /\ Len(g) = n /\ \A i \in 1 .. n : g[i] = {<<name, i>>}
  BY NamedAre
<1> HIDE DEF f, g
<1>4. /\ First(f, n) \in Seq(Bytes) /\ Len(First(f, n)) = n /\ \A i \in 1 .. n : First(f, n)[i] = f[i]
      /\ d \in Seq(Bytes) /\ Len(d) = k /\ \A i \in 1 .. k : d[i] = f[n + i]
  <2> HIDE DEF nk
  <2>1. n \in 0 .. Len(f)
    BY <1>1, <1>2
  <2>2. /\ First(f, n) \in Seq(Bytes) /\ Len(First(f, n)) = n /\ \A i \in 1 .. n : First(f, n)[i] = f[i]
        /\ Rest(f, n) \in Seq(Bytes) /\ Len(Rest(f, n)) = Len(f) - n
        /\ \A i \in 1 .. Len(f) - n : Rest(f, n)[i] = f[n + i]
    <3>1. f \in Seq(Bytes)
      BY <1>2
    <3> QED BY <2>1, <3>1, FirstRest
  <2> QED BY <1>1, <1>2, <2>2
<1> HIDE DEF d
<1>5. \A i \in 1 .. k : d[i] = {<<name, n + i>>}
  <2> TAKE i \in 1 .. k
  <2>1. n + i \in 1 .. nk
    BY <1>1
  <2> QED BY <1>2, <1>4, <2>1
<1>6. First(f, n) = g
  <2>1. \A i \in 1 .. n : First(f, n)[i] = g[i]
    <3> TAKE i \in 1 .. n
    <3>1. i \in 1 .. nk
      BY <1>1
    <3> QED BY <1>2, <1>3, <1>4, <3>1
  <2> QED BY <1>3, <1>4, <2>1, SameSeq
<1>7. First(f, n) \o Rest(f, n) = f
  <2>1. n \in 0 .. Len(f)
    BY <1>1, <1>2
  <2> HIDE DEF nk
  <2> QED BY <1>2, <2>1, FirstThenRest
<1> QED BY <1>1, <1>4, <1>5, <1>6, <1>7 DEF d, f, g

NextInput(e, n, k) ==
  /\ e \in Seq(Bytes) /\ Len(e) = k
  /\ \A i \in 1 .. k : e[i] = {<<"m", n + i>>}
  /\ Input(n) \o e = Input(n + k)

(* The same of the message.                                                *)
LEMMA InputGrows ==
  ASSUME NEW n \in Nat, NEW k \in Nat
  PROVE  NextInput(Rest(Input(n + k), n), n, k)
<1> DEFINE name == "m"
<1>1. name \in Names
  BY DEF Names
<1> HIDE DEF name
<1>2. /\ Rest(Named(name, n + k), n) \in Seq(Bytes) /\ Len(Rest(Named(name, n + k), n)) = k
      /\ \A i \in 1 .. k : Rest(Named(name, n + k), n)[i] = {<<name, n + i>>}
      /\ Named(name, n) \o Rest(Named(name, n + k), n) = Named(name, n + k)
  BY <1>1, NamedGrows
<1> QED BY <1>2 DEF name, Input, NextInput

(* A stream goes on where the blocks before it end.                        *)
LEMMA StreamIs ==
  ASSUME NEW ctr \in Counters, NEW first \in Int, NEW n \in Nat, n % CipherBlock = 0, NEW len \in Nat
  PROVE  LET f == Stream(ctr, first + (n \div CipherBlock), len)
         IN  /\ f \in Seq(Bytes) /\ Len(f) = len
             /\ \A i \in 1 .. len : f[i] = KeyByte(ctr, first, n + i)
<1> DEFINE q == n \div CipherBlock
           f == Stream(ctr, first + q, len)
<1>1. CipherBlock \in Nat \ {0} /\ q \in Nat
  BY CipherBlocks
<1>2. ASSUME NEW i \in 1 .. len
      PROVE  f[i] = KeyByte(ctr, first, n + i) /\ f[i] \in Bytes
  <2> DEFINE h == (i - 1) \div CipherBlock
             r == (i - 1) % CipherBlock
  <2>1. i - 1 \in Nat /\ h \in Nat /\ r \in Nat
    <3>1. i - 1 \in Nat
      OBVIOUS
    <3>2. h \in Nat /\ r \in 0 .. CipherBlock - 1
      BY <3>1, CipherBlocks
    <3> HIDE DEF h, r
    <3> QED BY <1>1, <3>1, <3>2
  <2>2. f[i] = {<<ctr, (first + q) + h, r + 1>>}
    BY DEF Stream
  <2>3. (n + (i - 1)) \div CipherBlock = q + h /\ (n + (i - 1)) % CipherBlock = r
    BY <2>1, BlockCount
  <2>4. n + (i - 1) = (n + i) - 1
    OBVIOUS
  <2>5. KeyByte(ctr, first, n + i) = {<<ctr, first + (q + h), r + 1>>}
    BY <2>3, <2>4 DEF KeyByte
  <2> HIDE DEF q, h, r
  <2>6. (first + q) + h = first + (q + h) /\ (first + q) + h \in Int /\ r + 1 \in Int
    BY <1>1, <2>1
  <2>7. {<<ctr, (first + q) + h, r + 1>>} \in Bytes
    BY <2>6 DEF Bytes
  <2> HIDE DEF f
  <2> QED BY <2>2, <2>5, <2>6, <2>7
<1>3. f \in [1 .. len -> Bytes]
  <2>1. \E e : f = [i \in 1 .. len |-> e[i]]
    <3>1. f = [i \in 1 .. len |-> f[i]]
      BY DEF Stream
    <3> QED BY <3>1
  <2> HIDE DEF f
  <2> QED BY <1>2, <2>1
<1>4. f \in Seq(Bytes) /\ Len(f) = len
  <2> HIDE DEF f
  <2> QED BY <1>3, MadeSeq
<1> QED BY <1>2, <1>4

(* Bytes added to those of another sequence, which may be longer.          *)
LEMMA XorIs ==
  ASSUME NEW S, \A x, y \in S : Added(x, y) \in S,
         NEW n \in Nat, NEW d \in Seq(S), Len(d) = n, NEW t, \A i \in 1 .. n : t[i] \in S
  PROVE  /\ XorBytes(d, t) \in Seq(S) /\ Len(XorBytes(d, t)) = n
         /\ \A i \in 1 .. n : XorBytes(d, t)[i] = Added(d[i], t[i])
<1> DEFINE f == XorBytes(d, t)
<1>1. DOMAIN d = 1 .. n /\ \A i \in 1 .. n : d[i] \in S
  BY LenProperties, ElementOfSeq
<1>2. f \in [1 .. n -> S] /\ \A i \in 1 .. n : f[i] = Added(d[i], t[i])
  BY <1>1 DEF XorBytes
<1> HIDE DEF f
<1>3. f \in Seq(S) /\ Len(f) = n
  BY <1>2, MadeSeq
<1> QED BY <1>2, <1>3 DEF f

(* The stream for n whole blocks goes on at the counter behind them.       *)
LEMMA StreamGoesOn ==
  ASSUME NEW ctr \in Counters, NEW first \in Int, NEW n \in Nat, NEW len \in Nat, NEW next,
         n % CipherBlock = 0, next = first + (n \div CipherBlock)
  PROVE  IsBytes(Stream(ctr, next, len), len) /\ StreamPart(Stream(ctr, next, len), ctr, first, n, len)
BY StreamIs DEF StreamPart, IsBytes

(* What counter mode makes of the first n bytes.                           *)
LEMMA OutputIs ==
  ASSUME NEW ctr \in Counters, NEW first \in Int, NEW n \in Nat
  PROVE  /\ OutputOf(ctr, first, n) \in Seq(Bytes) /\ Len(OutputOf(ctr, first, n)) = n
         /\ \A i \in 1 .. n : OutputOf(ctr, first, n)[i] = Added({<<"m", i>>}, KeyByte(ctr, first, i))
<1>1. CipherBlock \in Nat \ {0} /\ 0 \div CipherBlock = 0 /\ 0 % CipherBlock = 0
  BY ModesAssumption
<1> DEFINE t == Stream(ctr, first, n)
           d == Input(n)
<1>2. first + 0 = first /\ \A i \in 1 .. n : 0 + i = i
  OBVIOUS
<1>3. t \in Seq(Bytes) /\ Len(t) = n /\ \A i \in 1 .. n : t[i] = KeyByte(ctr, first, i)
  <2> DEFINE f == Stream(ctr, first + (0 \div CipherBlock), n)
  <2>1. f = t
    BY <1>1, <1>2
  <2>2. f \in Seq(Bytes) /\ Len(f) = n /\ \A i \in 1 .. n : f[i] = KeyByte(ctr, first, 0 + i)
    <3>1. 0 \in Nat
      OBVIOUS
    <3> QED BY <1>1, <3>1, StreamIs
  <2> HIDE DEF f, t
  <2> QED BY <1>2, <2>1, <2>2
<1>4. d \in Seq(Bytes) /\ Len(d) = n /\ \A i \in 1 .. n : d[i] = {<<"m", i>>}
  <2>1. "m" \in Names
    BY DEF Names
  <2> QED BY <2>1, NamedAre DEF Input
<1>5. OutputOf(ctr, first, n) = XorBytes(d, t)
  BY DEF OutputOf
<1> HIDE DEF d, t
<1>6. \A i \in 1 .. n : t[i] \in Bytes
  BY <1>3, ElementOfSeq
<1>7. /\ XorBytes(d, t) \in Seq(Bytes) /\ Len(XorBytes(d, t)) = n
      /\ \A i \in 1 .. n : XorBytes(d, t)[i] = Added(d[i], t[i])
  BY <1>4, <1>6, PlainAreBytes, XorIs
<1> QED BY <1>3, <1>4, <1>5, <1>7

(* With d and t the output goes on for k bytes, and so does what is        *)
(* covered.                                                                *)
KeptOf(keeps, d, t) == IF keeps THEN XorBytes(d, t) ELSE d
GoesOn(keeps, ctr, first, n, k, d, t) ==
  /\ XorBytes(d, t) \in Seq(Bytes) /\ Len(XorBytes(d, t)) = k
  /\ OutputOf(ctr, first, n) \o XorBytes(d, t) = OutputOf(ctr, first, n + k)
  /\ CoveredOf(keeps, ctr, first, n) \o KeptOf(keeps, d, t) = CoveredOf(keeps, ctr, first, n + k)
  /\ KeptOf(keeps, d, t) \in Seq(Bytes) /\ Len(KeptOf(keeps, d, t)) = k

(* The next k bytes, encrypted with the next bytes of the stream.          *)
LEMMA OutputOn ==
  ASSUME NEW ctr \in Counters, NEW first \in Int, NEW n \in Nat, NEW k \in Nat, NEW keeps \in BOOLEAN,
         NEW d, MessagePart(d, n, k), NEW t, StreamPart(t, ctr, first, n, k)
  PROVE  GoesOn(keeps, ctr, first, n, k, d, t)
<1> DEFINE nk == n + k
           u == OutputOf(ctr, first, n)
           v == OutputOf(ctr, first, nk)
           x == XorBytes(d, t)
<1>0. /\ d \in Seq(Bytes) /\ Len(d) = k /\ \A i \in 1 .. k : d[i] = {<<"m", n + i>>}
      /\ \A i \in 1 .. k : t[i] = KeyByte(ctr, first, n + i)
  BY DEF MessagePart, StreamPart
<1>1. CipherBlock \in Nat \ {0}
  BY ModesAssumption
<1>2. \A i \in 1 .. k : t[i] \in Bytes
  <2> TAKE i \in 1 .. k
  <2> DEFINE j == (n + i) - 1
  <2>1. j \in Nat
    OBVIOUS
  <2> HIDE DEF j
  <2>2. first + (j \div CipherBlock) \in Int /\ (j % CipherBlock) + 1 \in Int
    <3>1. j \div CipherBlock \in Nat /\ j % CipherBlock \in 0 .. CipherBlock - 1
      BY <2>1, CipherBlocks
    <3> QED BY <1>1, <3>1
  <2>3. t[i] = {<<ctr, first + (j \div CipherBlock), (j % CipherBlock) + 1>>}
    BY <1>0 DEF KeyByte, j
  <2> QED BY <2>2, <2>3 DEF Bytes
<1>3. x \in Seq(Bytes) /\ Len(x) = k /\ \A i \in 1 .. k : x[i] = Added(d[i], t[i])
  BY <1>0, <1>2, PlainAreBytes, XorIs
<1>4. nk \in Nat /\ \A i \in 1 .. n : i \in 1 .. nk
  OBVIOUS
<1>5. /\ u \in Seq(Bytes) /\ Len(u) = n
      /\ \A i \in 1 .. n : u[i] = Added({<<"m", i>>}, KeyByte(ctr, first, i))
  BY OutputIs
<1>6. /\ v \in Seq(Bytes) /\ Len(v) = nk
      /\ \A i \in 1 .. nk : v[i] = Added({<<"m", i>>}, KeyByte(ctr, first, i))
  <2> HIDE DEF nk
  <2> QED BY <1>4, OutputIs
<1> HIDE DEF u, v, x
<1>7. /\ u \o x \in Seq(Bytes) /\ Len(u \o x) = nk
      /\ \A i \in 1 .. n : (u \o x)[i] = u[i]
      /\ \A i \in 1 .. k : (u \o x)[n + i] = x[i]
  <2>1. u \in Seq(Bytes) /\ x \in Seq(Bytes)
    BY <1>3, <1>5
  <2>2. /\ u \o x \in Seq(Bytes) /\ Len(u \o x) = Len(u) + Len(x)
        /\ \A i \in 1 .. Len(u) : (u \o x)[i] = u[i]
        /\ \A i \in 1 .. Len(x) : (u \o x)[Len(u) + i] = x[i]
    BY <2>1, JoinOf
  <2> QED BY <1>3, <1>5, <2>2
<1>8. \A i \in 1 .. nk : (u \o x)[i] = v[i]
  <2> TAKE i \in 1 .. nk
  <2>1. CASE i <= n
    <3>1. i \in 1 .. n
      BY <2>1
    <3> QED BY <1>5, <1>6, <1>7, <3>1
  <2>2. CASE ~(i <= n)
    <3> DEFINE j == i - n
    <3>1. j \in 1 .. k /\ n + j = i
      BY <2>2
    <3> HIDE DEF j
    <3>2. (u \o x)[n + j] = Added({<<"m", n + j>>}, KeyByte(ctr, first, n + j))
      BY <1>0, <1>3, <1>7, <3>1
    <3> QED BY <1>6, <3>1, <3>2
  <2> QED BY <2>1, <2>2
<1>9. u \o x = v
  BY <1>4, <1>6, <1>7, <1>8, SameSeq
<1>10. Input(n) \o d = Input(n + k)
  <2>1. PICK e \in Seq(Bytes) : /\ Len(e) = k /\ \A i \in 1 .. k : e[i] = {<<"m", n + i>>}
                               /\ Input(n) \o e = Input(n + k)
    <3> DEFINE e == Rest(Input(n + k), n)
    <3>1. NextInput(e, n, k)
      BY InputGrows
    <3> HIDE DEF e
    <3> QED BY <3>1 DEF NextInput
  <2>2. \A i \in 1 .. k : d[i] = e[i]
    BY <1>0, <2>1
  <2>3. d = e
    BY <1>0, <2>1, <2>2, SameSeq
  <2> QED BY <2>1, <2>3
<1>11. CASE keeps
  <2>1. CoveredOf(keeps, ctr, first, n) = u /\ CoveredOf(keeps, ctr, first, n + k) = v
    BY <1>11 DEF CoveredOf, u, v
  <2>2. KeptOf(keeps, d, t) = x
    BY <1>11 DEF KeptOf, x
  <2> QED BY <1>3, <1>9, <1>11, <2>1, <2>2 DEF u, v, x, GoesOn
<1>12. CASE ~keeps
  <2>1. CoveredOf(keeps, ctr, first, n) = Input(n) /\ CoveredOf(keeps, ctr, first, n + k) = Input(n + k)
    BY <1>12 DEF CoveredOf
  <2>2. KeptOf(keeps, d, t) = d
    BY <1>12 DEF KeptOf
  <2> QED BY <1>0, <1>3, <1>9, <1>10, <1>12, <2>1, <2>2 DEF u, v, x, GoesOn
<1> QED BY <1>11, <1>12

-----------------------------------------------------------------------------
(* A block is a sequence.                                                  *)
LEMMA BlockIsSeq ==
  ASSUME NEW S, NEW f \in [1 .. CipherBlock -> S]
  PROVE  f \in Seq(S) /\ Len(f) = CipherBlock /\ First(f, CipherBlock) = f /\ First(f, 0) = <<>>
<1>1. CipherBlock \in Nat
  BY ModesAssumption
<1>2. f \in Seq(S) /\ Len(f) = CipherBlock
  BY <1>1, MadeSeq
<1>3. First(f, Len(f)) = f /\ First(f, 0) = <<>>
  BY <1>2, FirstAll
<1> QED BY <1>2, <1>3

(* With the last block full, or no byte of it: whole blocks, and others    *)
(* that stay.                                                              *)
LEMMA GatherNext ==
  ASSUME NEW S, NEW mac, NEW buf, NEW p, NEW s, Gathered(S, mac, buf, p, s), p \in {0, CipherBlock},
         NEW w \in Seq(S), NEW z \in Seq(S), NEW f,
         Len(w) % CipherBlock = 0, f \in [1 .. CipherBlock -> S], Len(z) <= CipherBlock, First(f, Len(z)) = z
  PROVE  Gathered(S, (mac \o (IF p = 0 THEN <<>> ELSE <<buf>>)) \o BlocksOf(w), f, Len(z), (s \o w) \o z)
<1>1. CipherBlock \in Nat \ {0}
  BY ModesAssumption
<1>2. s \in Seq(S) /\ buf \in [1 .. CipherBlock -> S]
  BY DEF Gathered
<1>3. <<>> \in Seq(S) /\ Len(<<>>) = 0
  OBVIOUS
<1>4. buf = First(buf, p) \o <<>> \/ p = 0
  <2>1. First(buf, CipherBlock) = buf /\ buf \in Seq(S)
    BY <1>2, BlockIsSeq
  <2>2. buf \o <<>> = buf
    BY <2>1, ConcatEmptySeq
  <2> QED BY <2>1, <2>2
<1> DEFINE x == <<>>
<1>5. x \in Seq(S) /\ ((p = 0 /\ x = <<>>) \/ (p # 0 /\ p + Len(x) = CipherBlock /\ buf = First(buf, p) \o x))
  BY <1>1, <1>3, <1>4
<1>6. (s \o x) = s
  BY <1>2, ConcatEmptySeq
<1>7. s \o (x \o (w \o z)) = (s \o w) \o z
  <2>1. s \in Seq(S)
    BY <1>2
  <2>2. s \o (x \o (w \o z)) = ((s \o x) \o w) \o z
    <3>1. x \in Seq(S)
      BY <1>5
    <3> HIDE DEF x
    <3>2. FourJoined(s, x, w, z)
      BY <2>1, <3>1, JoinFour
    <3> QED BY <3>2 DEF FourJoined
  <2> QED BY <1>6, <2>2
<1> HIDE DEF x
<1>8. Gathered(S, (mac \o (IF p = 0 THEN <<>> ELSE <<buf>>)) \o BlocksOf(w), f, Len(z), s \o (x \o (w \o z)))
  BY <1>5, GatherOn
<1> QED BY <1>7, <1>8

(* The rest of the last block is filled up with zeros.                     *)
LEMMA GatherFlip ==
  ASSUME NEW S, Zero \in S, NEW mac, NEW buf, NEW p, NEW s, Gathered(S, mac, buf, p, s), p < CipherBlock
  PROVE  /\ Zeroed(s) \in Seq(S)
         /\ p = 0 => Gathered(S, mac, buf, 0, Zeroed(s)) /\ mac = BlocksOf(Zeroed(s))
         /\ p # 0 => /\ Append(mac, Filled(First(buf, p))) = BlocksOf(Zeroed(s))
                     /\ \A f \in [1 .. CipherBlock -> S] :
                          Gathered(S, Append(mac, Filled(First(buf, p))), f, 0, Zeroed(s))
<1> DEFINE B == CipherBlock
           n == Len(s)
           a == n - p
           u == First(s, a)
           v == Rest(s, a)
           zeros == ZeroBytes(B - p)
           t == Zeroed(s)
<1>1. B \in Nat \ {0}
  BY ModesAssumption
<1>2. /\ s \in Seq(S) /\ n \in Nat /\ buf \in [1 .. B -> S] /\ p \in 0 .. B - 1 /\ p <= n
      /\ a % B = 0 /\ mac = BlocksOf(u) /\ First(buf, p) = v
  <2>1. /\ s \in Seq(S) /\ buf \in [1 .. B -> S] /\ p \in 0 .. B /\ p <= n
        /\ a % B = 0 /\ mac = BlocksOf(u) /\ First(buf, p) = v
    BY DEF Gathered
  <2>2. n \in Nat
    BY <2>1, LenProperties
  <2> HIDE DEF n, a, u, v
  <2> QED BY <1>1, <2>1, <2>2
<1>3. /\ u \in Seq(S) /\ Len(u) = a /\ v \in Seq(S) /\ Len(v) = p /\ u \o v = s /\ a \in 0 .. n
      /\ n - a = p
  <2>1. s \in Seq(S) /\ a \in 0 .. Len(s) /\ n - a = p
    BY <1>2
  <2> HIDE DEF a
  <2>3. u \in Seq(S) /\ Len(u) = a /\ v \in Seq(S) /\ Len(v) = n - a
    BY <2>1, FirstRest
  <2> QED BY <2>1, <2>3, FirstThenRest
<1>4. t \in Seq(S) /\ (n % B = 0 => t = s) /\ (n % B # 0 => t = s \o ZeroBytes(B - (n % B)))
      /\ Len(t) \in Nat /\ Len(t) % B = 0
  BY <1>2, ZeroedIs
<1> HIDE DEF u, v, t
<1>5. n % B = p
  <2> DEFINE q == a \div B
  <2>1. a = B * q + (a % B) /\ q \in Int
    <3>1. a \in Nat
      BY <1>2, <1>3
    <3> HIDE DEF a
    <3> QED BY <1>1, <3>1, CipherBlocks
  <2> HIDE DEF q
  <2>2. n = B * q + p
    <3> DEFINE k == B * q
    <3>1. k \in Int /\ a = k
      BY <1>1, <1>2, <2>1
    <3> HIDE DEF k
    <3>2. n = k + p
      BY <1>2, <3>1
    <3> QED BY <3>2 DEF k
  <2>3. n \in Int /\ B \in Nat \ {0} /\ p \in 0 .. B - 1
    BY <1>1, <1>2
  <2> HIDE DEF n, B
  <2> QED BY <2>1, <2>2, <2>3, RestUnique
<1>6. CASE p = 0
  <2>1. t = s
    BY <1>4, <1>5, <1>6
  <2>2. Gathered(S, mac, buf, 0, s)
    BY <1>6
  <2>3. mac = BlocksOf(s)
    <3>1. v = <<>>
      BY <1>3, <1>6, EmptySeq
    <3>2. u \o <<>> = u
      BY <1>3, ConcatEmptySeq
    <3> QED BY <1>2, <1>3, <3>1, <3>2
  <2> QED BY <1>4, <1>6, <2>1, <2>2, <2>3 DEF t
<1>7. CASE p # 0
  <2> DEFINE g == v \o zeros
  <2>1. zeros \in Seq(S) /\ Len(zeros) = B - p
    <3>1. B - p \in Nat
      BY <1>1, <1>2
    <3> QED BY <3>1, ZeroBytesAre
  <2>2. t = s \o zeros
    BY <1>4, <1>5, <1>7
  <2>3. Filled(First(buf, p)) = g
    BY <1>2, <1>3 DEF Filled
  <2> HIDE DEF zeros
  <2>4. g \in Seq(S) /\ Len(g) = B
    <3>1. g \in Seq(S) /\ Len(g) = Len(v) + Len(zeros)
      BY <1>3, <2>1, JoinOf
    <3> HIDE DEF g
    <3> QED BY <1>1, <1>2, <1>3, <2>1, <3>1
  <2>5. t = u \o g
    <3>1. u \in Seq(S) /\ v \in Seq(S)
      BY <1>3
    <3>2. (u \o v) \o zeros = u \o (v \o zeros)
      <4>1. zeros \in Seq(S)
        BY <2>1
      <4>2. ThreeJoined(u, v, zeros)
        BY <3>1, <4>1, JoinThree
      <4> QED BY <4>2 DEF ThreeJoined
    <3> QED BY <1>3, <2>2, <3>2
  <2> HIDE DEF g
  <2>6. BlocksOf(t) = BlocksOf(u) \o <<g>>
    <3>1. BlocksOf(u \o g) = BlocksOf(u) \o BlocksOf(g)
      <4>1. u \in Seq(S) /\ Len(u) % CipherBlock = 0
        BY <1>2, <1>3
      <4> QED BY <2>4, <4>1, BlocksJoin
    <3>2. BlocksOf(g) = <<g>>
      BY <2>4, FewBlocks
    <3> QED BY <2>5, <3>1, <3>2
  <2>7. Append(mac, g) = BlocksOf(t)
    <3> DEFINE T == Seq(S)
               m == BlocksOf(u)
    <3>1. m \in Seq(T) /\ g \in T
      BY <1>3, <2>4, BlocksAre
    <3> HIDE DEF T, m
    <3>2. Append(m, g) = m \o <<g>>
      BY <3>1, AppendIsConcat
    <3> QED BY <1>2, <2>6, <3>2 DEF m
  <2>8. ASSUME NEW f \in [1 .. B -> S] PROVE Gathered(S, Append(mac, g), f, 0, t)
    <3>1. First(t, Len(t)) = t /\ Rest(t, Len(t)) = <<>>
      BY <1>4, FirstAll
    <3>2. First(f, 0) = <<>>
      BY BlockIsSeq
    <3>3. Len(t) - 0 = Len(t) /\ 0 <= Len(t) /\ 0 \in 0 .. B
      BY <1>1, <1>4
    <3> QED BY <1>4, <2>7, <3>1, <3>2, <3>3 DEF Gathered
  <2> QED BY <1>4, <1>7, <2>3, <2>7, <2>8 DEF t
<1> QED BY <1>6, <1>7

-----------------------------------------------------------------------------
(* The bytes of buf from p on are those of the stream for what comes after *)
(* n bytes; next is the block of the stream after them.                    *)
BlockEnd(p, n) == IF p = 0 THEN n ELSE n + (CipherBlock - p)
Keyed(buf, p, ctr, first, next, n) ==
  /\ p \in 0 .. CipherBlock /\ n \in Nat
  /\ BlockEnd(p, n) \in Nat /\ BlockEnd(p, n) % CipherBlock = 0
  /\ next = first + (BlockEnd(p, n) \div CipherBlock)
  /\ p # 0 => \A i \in 1 .. CipherBlock - p : buf[p + i] = KeyByte(ctr, first, n + i)

(* What the MAC covers has the length of the message.                      *)
LEMMA CoveredIs ==
  ASSUME NEW ctr \in Counters, NEW first \in Int, NEW n \in Nat, NEW keeps \in BOOLEAN
  PROVE  CoveredOf(keeps, ctr, first, n) \in Seq(Bytes) /\ Len(CoveredOf(keeps, ctr, first, n)) = n
<1>1. OutputOf(ctr, first, n) \in Seq(Bytes) /\ Len(OutputOf(ctr, first, n)) = n
  BY OutputIs
<1>2. Input(n) \in Seq(Bytes) /\ Len(Input(n)) = n
  BY NamedAre DEF Input, Names
<1> QED BY <1>1, <1>2 DEF CoveredOf

(* What fits into a block that was begun.                                  *)
MetOn(keeps, head, ctr, first, next, n, mac, p, k, met) ==
  /\ met.result \in Seq(Bytes) /\ Len(met.result) = k
  /\ OutputOf(ctr, first, n) \o met.result = OutputOf(ctr, first, n + k)
  /\ Gathered(Bytes, mac, met.buf, p + k, head \o CoveredOf(keeps, ctr, first, n + k))
  /\ Keyed(met.buf, p + k, ctr, first, next, n + k)

(* A run that stays in the block: the MAC, the block and the stream go on. *)
LEMMA MetIs ==
  ASSUME NEW ctr \in Counters, NEW first \in Int, NEW next, NEW n, NEW keeps \in BOOLEAN,
         NEW head \in Seq(Bytes), NEW mac, NEW buf, NEW p, NEW k \in Nat, NEW d
  PROVE  /\ Gathered(Bytes, mac, buf, p, head \o CoveredOf(keeps, ctr, first, n))
         /\ Keyed(buf, p, ctr, first, next, n) /\ p # 0
         /\ MessagePart(d, n, k) /\ p + k <= CipherBlock
         => MetOn(keeps, head, ctr, first, next, n, mac, p, k, Met(buf, p, d, keeps))
<1> DEFINE t == Rest(buf, p)
           x == XorBytes(d, t)
           y == IF keeps THEN x ELSE d
           f == Overwritten(buf, p, y)
           met == Met(buf, p, d, keeps)
<1>0. SUFFICES ASSUME Gathered(Bytes, mac, buf, p, head \o CoveredOf(keeps, ctr, first, n)),
                      Keyed(buf, p, ctr, first, next, n), p # 0,
                      MessagePart(d, n, k), p + k <= CipherBlock
               PROVE  /\ met.result \in Seq(Bytes) /\ Len(met.result) = k
                      /\ OutputOf(ctr, first, n) \o met.result = OutputOf(ctr, first, n + k)
                      /\ Gathered(Bytes, mac, met.buf, p + k, head \o CoveredOf(keeps, ctr, first, n + k))
                      /\ Keyed(met.buf, p + k, ctr, first, next, n + k)
  BY DEF MetOn
<1>1. CipherBlock \in Nat \ {0} /\ p \in 1 .. CipherBlock /\ n \in Nat /\ buf \in [1 .. CipherBlock -> Bytes]
  BY <1>0, ModesAssumption DEF Gathered, Keyed
<1>2. /\ BlockEnd(p, n) = n + (CipherBlock - p) /\ BlockEnd(p, n) \in Nat /\ BlockEnd(p, n) % CipherBlock = 0
      /\ next = first + (BlockEnd(p, n) \div CipherBlock)
      /\ \A i \in 1 .. CipherBlock - p : buf[p + i] = KeyByte(ctr, first, n + i)
  BY <1>0 DEF Keyed, BlockEnd
<1>3. met.result = x /\ met.buf = f
  BY DEF Met
<1> HIDE DEF met
<1>4. \A i \in 1 .. k : t[i] = KeyByte(ctr, first, n + i)
  <2>1. buf \in Seq(Bytes) /\ Len(buf) = CipherBlock
    BY <1>1, BlockIsSeq
  <2>2. p \in 0 .. Len(buf)
    BY <1>1, <2>1
  <2>3. \A i \in 1 .. Len(buf) - p : t[i] = buf[p + i]
    BY <2>1, <2>2, FirstRest
  <2>5. k <= CipherBlock - p
    BY <1>0, <1>1
  <2> HIDE DEF t
  <2> TAKE i \in 1 .. k
  <2>4. i \in 1 .. CipherBlock - p
    BY <1>1, <2>5
  <2> QED BY <1>2, <2>1, <2>3, <2>4
<1> HIDE DEF t
<1>5. /\ x \in Seq(Bytes) /\ Len(x) = k /\ y \in Seq(Bytes) /\ Len(y) = k
      /\ OutputOf(ctr, first, n) \o x = OutputOf(ctr, first, n + k)
      /\ CoveredOf(keeps, ctr, first, n) \o y = CoveredOf(keeps, ctr, first, n + k)
  <2>1. n \in Nat /\ MessagePart(d, n, k) /\ StreamPart(t, ctr, first, n, k)
    BY <1>0, <1>1, <1>4 DEF StreamPart
  <2>2. GoesOn(keeps, ctr, first, n, k, d, t)
    BY <2>1, OutputOn
  <2> HIDE DEF t, x
  <2> QED BY <2>2 DEF GoesOn, KeptOf, x
<1> HIDE DEF x, y
<1>6. Gathered(Bytes, mac, f, p + k, head \o CoveredOf(keeps, ctr, first, n + k))
  <2> DEFINE c == CoveredOf(keeps, ctr, first, n)
             s == head \o c
  <2>1. c \in Seq(Bytes)
    BY <1>1, CoveredIs
  <2>2. Gathered(Bytes, mac, buf, p, s)
    BY <1>0
  <2>3. c \o y = CoveredOf(keeps, ctr, first, n + k)
    BY <1>5
  <2> HIDE DEF c
  <2>4. (head \o c) \o y = head \o (c \o y)
    <3>1. y \in Seq(Bytes)
      BY <1>5
    <3>2. ThreeJoined(head, c, y)
      BY <2>1, <3>1, JoinThree
    <3> QED BY <3>2 DEF ThreeJoined
  <2> HIDE DEF s
  <2>5. Gathered(Bytes, mac, f, p + Len(y), s \o y)
    BY <1>0, <1>5, <2>2, GatherIn
  <2> QED BY <1>5, <2>3, <2>4, <2>5 DEF s
<1>7. Keyed(f, p + k, ctr, first, next, n + k)
  <2> DEFINE pk == p + k
             nk == n + k
  <2>1. pk \in 1 .. CipherBlock /\ nk \in Nat /\ nk + (CipherBlock - pk) = n + (CipherBlock - p)
    BY <1>0, <1>1
  <2>2. BlockEnd(pk, nk) = BlockEnd(p, n)
    BY <1>2, <2>1 DEF BlockEnd
  <2>3. ASSUME NEW i \in 1 .. CipherBlock - pk PROVE f[pk + i] = KeyByte(ctr, first, nk + i)
    <3>1. k + i \in 1 .. CipherBlock - p /\ p + (k + i) = pk + i /\ n + (k + i) = nk + i
      BY <1>0, <1>1
    <3>2. pk + i \in 1 .. CipherBlock /\ (pk + i) - p = k + i /\ k + i \notin 1 .. k
      BY <1>0, <1>1, <2>1
    <3>3. DOMAIN y = 1 .. k /\ DOMAIN buf = 1 .. CipherBlock
      BY <1>1, <1>5, LenProperties
    <3> HIDE DEF pk, nk
    <3>4. f[pk + i] = buf[pk + i]
      BY <3>2, <3>3 DEF Overwritten
    <3> QED BY <1>2, <3>1, <3>4
  <2> HIDE DEF pk, nk, f
  <2>4. pk \in 0 .. CipherBlock /\ pk # 0
    BY <1>1, <2>1
  <2>5. Keyed(f, pk, ctr, first, next, nk)
    BY <1>2, <2>1, <2>2, <2>3, <2>4 DEF Keyed
  <2> QED BY <2>5 DEF pk, nk, f
<1> QED BY <1>3, <1>5, <1>6, <1>7 DEF met

(* Whole blocks, and others of which some bytes may stay in a block.       *)
NextOn(keeps, head, ctr, first, next, n, mac, buf, p, whole, h, z, k, f) ==
  LET bulk == XorBytes(whole, Stream(ctr, next, h))
      last == next + (h \div CipherBlock)
      ended == Met(Stream(ctr, last, CipherBlock), 0, z, keeps)
      buf2 == IF k = 0 THEN f ELSE ended.buf
  IN  /\ bulk \in Seq(Bytes) /\ ended.result \in Seq(Bytes) /\ Len(ended.result) = k
      /\ ended.buf \in [1 .. CipherBlock -> Bytes]
      /\ (OutputOf(ctr, first, n) \o bulk) \o ended.result = OutputOf(ctr, first, (n + h) + k)
      /\ Gathered(Bytes, (mac \o (IF p = 0 THEN <<>> ELSE <<buf>>)) \o BlocksOf(IF keeps THEN bulk ELSE whole),
                  buf2, k, head \o CoveredOf(keeps, ctr, first, (n + h) + k))
      /\ Keyed(buf2, k, ctr, first, IF k = 0 THEN last ELSE last + 1, (n + h) + k)

(* A run after a full block: whole blocks, then the first bytes of a new   *)
(* one.                                                                    *)
LEMMA RunNext ==
  ASSUME NEW ctr \in Counters, NEW first \in Int, NEW next \in Int, NEW n \in Nat, NEW keeps \in BOOLEAN,
         NEW head \in Seq(Bytes), NEW mac, NEW buf, NEW p, NEW h \in Nat, NEW whole,
         NEW k \in Nat, NEW z, NEW f
  PROVE  /\ Gathered(Bytes, mac, buf, p, head \o CoveredOf(keeps, ctr, first, n))
         /\ Keyed(buf, p, ctr, first, next, n) /\ p \in {0, CipherBlock}
         /\ MessagePart(whole, n, h) /\ h % CipherBlock = 0
         /\ MessagePart(z, n + h, k) /\ k <= CipherBlock
         /\ f \in [1 .. CipherBlock -> Bytes]
         => NextOn(keeps, head, ctr, first, next, n, mac, buf, p, whole, h, z, k, f)
<1> DEFINE B == CipherBlock
           bulk == XorBytes(whole, Stream(ctr, next, h))
           last == next + (h \div B)
           key == Stream(ctr, last, B)
           ended == Met(key, 0, z, keeps)
           buf2 == IF k = 0 THEN f ELSE ended.buf
           n1 == n + h
           n2 == n1 + k
           w2 == IF keeps THEN bulk ELSE whole
           x == XorBytes(z, Rest(key, 0))
           z2 == IF keeps THEN x ELSE z
           q == n \div B
           g == h \div B
<1>0. SUFFICES ASSUME Gathered(Bytes, mac, buf, p, head \o CoveredOf(keeps, ctr, first, n)),
                      Keyed(buf, p, ctr, first, next, n), p \in {0, CipherBlock},
                      MessagePart(whole, n, h), h % CipherBlock = 0, MessagePart(z, n + h, k), k <= CipherBlock,
                      f \in [1 .. CipherBlock -> Bytes]
               PROVE  /\ bulk \in Seq(Bytes) /\ ended.result \in Seq(Bytes) /\ Len(ended.result) = k
                      /\ ended.buf \in [1 .. CipherBlock -> Bytes]
                      /\ (OutputOf(ctr, first, n) \o bulk) \o ended.result = OutputOf(ctr, first, (n + h) + k)
                      /\ Gathered(Bytes, (mac \o (IF p = 0 THEN <<>> ELSE <<buf>>)) \o BlocksOf(w2),
                                  buf2, k, head \o CoveredOf(keeps, ctr, first, (n + h) + k))
                      /\ Keyed(buf2, k, ctr, first, IF k = 0 THEN last ELSE last + 1, (n + h) + k)
  BY DEF NextOn
<1>1. B \in Nat \ {0} /\ q \in Nat /\ g \in Nat /\ n1 \in Nat /\ n2 \in Nat
  <2>1. B \in Nat \ {0} /\ q \in Nat /\ g \in Nat
    BY CipherBlocks
  <2>2. n + h \in Nat
    OBVIOUS
  <2> HIDE DEF B, q, g
  <2> QED BY <2>1, <2>2
<1>2. n % B = 0 /\ next = first + q
  <2>1. BlockEnd(p, n) = n
    <3>1. n + (CipherBlock - CipherBlock) = n
      BY <1>1
    <3> QED BY <1>0, <3>1 DEF BlockEnd
  <2> QED BY <1>0, <2>1 DEF Keyed
<1>3. n1 % B = 0 /\ n1 \div B = q + g
  BY <1>0, <1>2, BlockCount
<1>4. last = first + (n1 \div B) /\ last \in Int
  <2>1. last = next + g /\ next = first + q /\ n1 \div B = q + g /\ q \in Int /\ g \in Int
    BY <1>1, <1>2, <1>3
  <2> HIDE DEF q, g, n1, last
  <2> QED BY <2>1
<1>5. /\ bulk \in Seq(Bytes) /\ Len(bulk) = h /\ w2 \in Seq(Bytes) /\ Len(w2) = h
      /\ OutputOf(ctr, first, n) \o bulk = OutputOf(ctr, first, n1)
      /\ CoveredOf(keeps, ctr, first, n) \o w2 = CoveredOf(keeps, ctr, first, n1)
  <2> DEFINE t == Stream(ctr, next, h)
  <2>1. StreamPart(t, ctr, first, n, h)
    <3>1. n % CipherBlock = 0 /\ next = first + (n \div CipherBlock)
      BY <1>2
    <3> QED BY <3>1, StreamGoesOn
  <2>2. MessagePart(whole, n, h)
    BY <1>0
  <2> HIDE DEF t
  <2>3. GoesOn(keeps, ctr, first, n, h, whole, t)
    BY <2>1, <2>2, OutputOn
  <2> QED BY <2>3 DEF t, GoesOn, KeptOf
<1>6. /\ key \in Seq(Bytes) /\ Len(key) = B /\ Rest(key, 0) = key /\ key \in [1 .. B -> Bytes]
      /\ \A i \in 1 .. B : key[i] = KeyByte(ctr, first, n1 + i)
  <2>1. key \in Seq(Bytes) /\ Len(key) = CipherBlock /\ StreamPart(key, ctr, first, n1, CipherBlock)
    <3>1. CipherBlock \in Nat /\ n1 \in Nat /\ n1 % CipherBlock = 0 /\ last = first + (n1 \div CipherBlock)
      BY <1>1, <1>3, <1>4
    <3>2. IsBytes(key, CipherBlock) /\ StreamPart(key, ctr, first, n1, CipherBlock)
      <4> HIDE DEF last, n1
      <4> QED BY <3>1, StreamGoesOn
    <3> HIDE DEF key
    <3> QED BY <3>2 DEF IsBytes
  <2> HIDE DEF key
  <2>2. Rest(key, 0) = key /\ key \in [1 .. Len(key) -> Bytes]
    BY <2>1, FirstAll, LenProperties
  <2> QED BY <2>1, <2>2 DEF StreamPart
<1> HIDE DEF key
<1>7. /\ x \in Seq(Bytes) /\ Len(x) = k /\ z2 \in Seq(Bytes) /\ Len(z2) = k
      /\ OutputOf(ctr, first, n1) \o x = OutputOf(ctr, first, n2)
      /\ CoveredOf(keeps, ctr, first, n1) \o z2 = CoveredOf(keeps, ctr, first, n2)
  <2> DEFINE t == Rest(key, 0)
  <2>1. StreamPart(t, ctr, first, n1, k)
    <3> SUFFICES ASSUME NEW i \in 1 .. k PROVE t[i] = KeyByte(ctr, first, n1 + i)
      BY DEF StreamPart
    <3>1. i \in 1 .. B
      BY <1>0, <1>1
    <3> QED BY <1>6, <3>1
  <2>2. n1 \in Nat /\ MessagePart(z, n1, k)
    BY <1>0, <1>1
  <2> HIDE DEF t, n1
  <2>3. GoesOn(keeps, ctr, first, n1, k, z, t)
    BY <2>1, <2>2, OutputOn
  <2> QED BY <2>3 DEF t, GoesOn, KeptOf
<1>8. ended.result = x /\ ended.buf = Overwritten(key, 0, z2)
  BY DEF Met
<1> HIDE DEF bulk, w2, x, z2, ended, last, n2, n1, q, g
<1>9. /\ ended.buf \in [1 .. B -> Bytes] /\ First(ended.buf, k) = z2
      /\ \A i \in 1 .. B - k : ended.buf[k + i] = key[k + i]
  <2>1. 0 \in 0 .. CipherBlock /\ 0 + Len(z2) <= CipherBlock /\ 0 + k = k
    BY <1>0, <1>1, <1>7
  <2>2. /\ Overwritten(key, 0, z2) \in [1 .. CipherBlock -> Bytes]
        /\ First(Overwritten(key, 0, z2), 0 + Len(z2)) = First(key, 0) \o z2
    <3>1. key \in [1 .. CipherBlock -> Bytes] /\ z2 \in Seq(Bytes)
      BY <1>6, <1>7
    <3> HIDE DEF B
    <3> QED BY <2>1, <3>1, OverwrittenIs
  <2>3. First(key, 0) = <<>> /\ <<>> \o z2 = z2
    BY <1>6, <1>7, FirstAll, ConcatEmptySeq
  <2>4. ASSUME NEW i \in 1 .. B - k PROVE Overwritten(key, 0, z2)[k + i] = key[k + i]
    <3>1. k + i \in 1 .. B /\ (k + i) - 0 = k + i /\ k + i \notin 1 .. k
      BY <1>0, <1>1
    <3>2. DOMAIN z2 = 1 .. k /\ DOMAIN key = 1 .. B
      BY <1>6, <1>7, LenProperties
    <3> QED BY <3>1, <3>2 DEF Overwritten
  <2> QED BY <1>7, <1>8, <2>1, <2>2, <2>3, <2>4
<1>10. buf2 \in [1 .. B -> Bytes] /\ First(buf2, k) = z2
  <2>1. CASE k = 0
    <3>1. z2 = <<>> /\ First(f, 0) = <<>>
      BY <1>0, <1>7, <2>1, EmptySeq, BlockIsSeq
    <3> QED BY <1>0, <2>1, <3>1
  <2>2. CASE k # 0
    BY <1>9, <2>2
  <2> QED BY <2>1, <2>2
<1> HIDE DEF buf2
<1>11. Gathered(Bytes, (mac \o (IF p = 0 THEN <<>> ELSE <<buf>>)) \o BlocksOf(w2), buf2, k,
                head \o CoveredOf(keeps, ctr, first, n2))
  <2> DEFINE c == CoveredOf(keeps, ctr, first, n)
             c1 == CoveredOf(keeps, ctr, first, n1)
             s == head \o c
  <2>1. c \in Seq(Bytes) /\ c1 \in Seq(Bytes) /\ c \o w2 = c1 /\ c1 \o z2 = CoveredOf(keeps, ctr, first, n2)
    BY <1>1, <1>5, <1>7, CoveredIs
  <2>2. Gathered(Bytes, mac, buf, p, s)
    BY <1>0
  <2> HIDE DEF c, c1
  <2>3. (head \o c) \o w2 = head \o (c \o w2)
    <3>1. w2 \in Seq(Bytes) /\ c \in Seq(Bytes)
      BY <1>5, <2>1
    <3>2. ThreeJoined(head, c, w2)
      BY <3>1, JoinThree
    <3> QED BY <3>2 DEF ThreeJoined
  <2>4. (head \o c1) \o z2 = head \o (c1 \o z2)
    <3>1. z2 \in Seq(Bytes) /\ c1 \in Seq(Bytes)
      BY <1>7, <2>1
    <3>2. ThreeJoined(head, c1, z2)
      BY <3>1, JoinThree
    <3> QED BY <3>2 DEF ThreeJoined
  <2> HIDE DEF s
  <2>5. Gathered(Bytes, (mac \o (IF p = 0 THEN <<>> ELSE <<buf>>)) \o BlocksOf(w2), buf2, Len(z2), (s \o w2) \o z2)
    <3>1. Len(w2) % CipherBlock = 0 /\ Len(z2) <= CipherBlock /\ First(buf2, Len(z2)) = z2
      BY <1>0, <1>5, <1>7, <1>10
    <3>2. w2 \in Seq(Bytes) /\ z2 \in Seq(Bytes) /\ buf2 \in [1 .. CipherBlock -> Bytes] /\ p \in {0, CipherBlock}
      BY <1>0, <1>5, <1>7, <1>10
    <3> QED BY <2>2, <3>1, <3>2, GatherNext
  <2> QED BY <1>7, <2>1, <2>3, <2>4, <2>5 DEF s
<1>12. Keyed(buf2, k, ctr, first, IF k = 0 THEN last ELSE last + 1, n2)
  <2>1. n2 = n1 + k
    BY DEF n2
  <2>2. CASE k = 0
    <3>1. BlockEnd(k, n2) = n1
      BY <1>1, <2>1, <2>2 DEF BlockEnd
    <3>2. k \in 0 .. CipherBlock
      BY <1>0, <1>1
    <3> QED BY <1>1, <1>3, <1>4, <2>2, <3>1, <3>2 DEF Keyed
  <2>3. CASE k # 0
    <3>1. BlockEnd(k, n2) = n1 + B
      <4>1. n2 + (B - k) = n1 + B
        BY <1>1, <2>1
      <4> QED BY <2>3, <4>1 DEF BlockEnd
    <3>2. (n1 + B) % B = 0 /\ (n1 + B) \div B = (n1 \div B) + 1 /\ n1 + B \in Nat
      <4>1. B % B = 0 /\ B \div B = 1
        BY <1>1
      <4>2. n1 + B \in Nat
        BY <1>1
      <4>3. (n1 + CipherBlock) \div CipherBlock = (n1 \div CipherBlock) + (CipherBlock \div CipherBlock)
            /\ (n1 + CipherBlock) % CipherBlock = CipherBlock % CipherBlock
        <5>1. CipherBlock \in Nat /\ n1 \in Nat /\ n1 % CipherBlock = 0
          BY <1>1, <1>3
        <5> QED BY <5>1, BlockCount
      <4> QED BY <4>1, <4>2, <4>3
    <3>3. last + 1 = first + ((n1 + B) \div B)
      <4> DEFINE e == n1 \div B
      <4>1. e \in Int /\ (n1 + B) \div B = e + 1 /\ last = first + e
        BY <1>1, <1>4, <3>2, CipherBlocks
      <4> HIDE DEF e
      <4> QED BY <4>1
    <3>4. ASSUME NEW i \in 1 .. B - k PROVE buf2[k + i] = KeyByte(ctr, first, n2 + i)
      <4>1. k + i \in 1 .. B /\ n1 + (k + i) = n2 + i
        BY <1>0, <1>1, <2>1
      <4>2. buf2[k + i] = key[k + i]
        BY <1>9, <2>3 DEF buf2
      <4> QED BY <1>6, <4>1, <4>2
    <3>5. k \in 0 .. CipherBlock
      BY <1>0, <1>1
    <3> QED BY <1>1, <2>3, <3>1, <3>2, <3>3, <3>4, <3>5 DEF Keyed
  <2> QED BY <2>2, <2>3
<1>13. (OutputOf(ctr, first, n) \o bulk) \o ended.result = OutputOf(ctr, first, n2)
  BY <1>5, <1>7, <1>8
<1> QED BY <1>5, <1>7, <1>8, <1>9, <1>11, <1>12, <1>13
        DEF bulk, last, key, ended, buf2, n1, n2, w2

LeftJoined(s, x, w, z) == s \o ((x \o w) \o z) = ((s \o x) \o w) \o z

(* The message in another order of its parts.                              *)
LEMMA JoinLeft ==
  ASSUME NEW S, NEW s \in Seq(S), NEW x \in Seq(S), NEW w \in Seq(S), NEW z \in Seq(S)
  PROVE  LeftJoined(s, x, w, z)
<1> DEFINE g == x \o w
<1>1. g \in Seq(S)
  BY JoinOf
<1>2. (s \o x) \o w = s \o (x \o w)
  <2>1. ThreeJoined(s, x, w)
    BY JoinThree
  <2> QED BY <2>1 DEF ThreeJoined
<1>3. (s \o g) \o z = s \o (g \o z)
  <2> HIDE DEF g
  <2>1. ThreeJoined(s, g, z)
    BY <1>1, JoinThree
  <2> QED BY <2>1 DEF ThreeJoined
<1> QED BY <1>2, <1>3 DEF LeftJoined

(* Parts of a part of the message.                                         *)
LEMMA MessageParts ==
  ASSUME NEW d, NEW n \in Nat, NEW k \in Nat, NEW a \in 0 .. k, MessagePart(d, n, k)
  PROVE  MessagePart(First(d, a), n, a) /\ MessagePart(Rest(d, a), n + a, k - a)
<1>1. d \in Seq(Bytes) /\ Len(d) = k /\ \A i \in 1 .. k : d[i] = {<<"m", n + i>>}
  BY DEF MessagePart
<1>2. /\ First(d, a) \in Seq(Bytes) /\ Len(First(d, a)) = a
      /\ \A i \in 1 .. a : First(d, a)[i] = d[i]
      /\ Rest(d, a) \in Seq(Bytes) /\ Len(Rest(d, a)) = k - a
      /\ \A i \in 1 .. k - a : Rest(d, a)[i] = d[a + i]
  <2>1. d \in Seq(Bytes) /\ a \in 0 .. Len(d) /\ Len(d) = k
    BY <1>1
  <2> QED BY <2>1, FirstRest
<1>3. MessagePart(First(d, a), n, a)
  <2>1. \A i \in 1 .. a : i \in 1 .. k
    OBVIOUS
  <2> QED BY <1>1, <1>2, <2>1 DEF MessagePart
<1>4. ASSUME NEW i \in 1 .. k - a PROVE Rest(d, a)[i] = {<<"m", (n + a) + i>>}
  <2>1. a + i \in 1 .. k /\ n + (a + i) = (n + a) + i
    OBVIOUS
  <2> QED BY <1>1, <1>2, <2>1
<1>5. MessagePart(Rest(d, a), n + a, k - a)
  BY <1>2, <1>4 DEF MessagePart
<1> QED BY <1>3, <1>5

-----------------------------------------------------------------------------
(* A context in the middle of a message: the MAC has gone over head and n  *)
(* bytes of what it covers, and buf has the stream for the next ones.      *)
Running(keeps, head, ctr, first, n, mac, buf, p, next) ==
  /\ Gathered(Bytes, mac, buf, p, head \o CoveredOf(keeps, ctr, first, n))
  /\ Keyed(buf, p, ctr, first, next, n) /\ next \in Int

(* Bytes up to the end of the block, whole blocks, and what is left.       *)
RanOn(keeps, head, ctr, first, next, n, mac, buf, p, data, k, clen, m) ==
  LET begun == Met(buf, p, First(data, clen), keeps)
      rest == Rest(data, clen)
      whole == First(rest, m)
      bulk == XorBytes(whole, Stream(ctr, next, m))
      last == next + (m \div CipherBlock)
      ended == Met(Stream(ctr, last, CipherBlock), 0, Rest(rest, m), keeps)
      left == k - clen - m
  IN  /\ Running(keeps, head, ctr, first, n + k,
                 (mac \o (IF p = 0 THEN <<>> ELSE <<begun.buf>>)) \o BlocksOf(IF keeps THEN bulk ELSE whole),
                 IF left = 0 THEN begun.buf ELSE ended.buf, left, IF left = 0 THEN last ELSE last + 1)
      /\ OutputOf(ctr, first, n) \o ((begun.result \o bulk) \o ended.result) = OutputOf(ctr, first, n + k)

(* A run of any length: up to the end of the block, whole blocks, the      *)
(* rest.                                                                   *)
LEMMA RunPieces ==
  ASSUME NEW ctr \in Counters, NEW first \in Int, NEW next \in Int, NEW n \in Nat, NEW keeps \in BOOLEAN,
         NEW head \in Seq(Bytes), NEW mac, NEW buf, NEW p, NEW k \in Nat, NEW data,
         NEW clen \in 0 .. k, NEW m \in 0 .. k - clen
  PROVE  /\ Running(keeps, head, ctr, first, n, mac, buf, p, next) /\ MessagePart(data, n, k)
         /\ (p = 0 /\ clen = 0) \/ (p # 0 /\ p + clen = CipherBlock)
         /\ m % CipherBlock = 0 /\ k - clen - m <= CipherBlock
         => RanOn(keeps, head, ctr, first, next, n, mac, buf, p, data, k, clen, m)
<1> DEFINE d == First(data, clen)
           begun == Met(buf, p, d, keeps)
           rest == Rest(data, clen)
           whole == First(rest, m)
           z == Rest(rest, m)
           bulk == XorBytes(whole, Stream(ctr, next, m))
           last == next + (m \div CipherBlock)
           ended == Met(Stream(ctr, last, CipherBlock), 0, z, keeps)
           left == k - clen - m
           n1 == n + clen
           p1 == IF p = 0 THEN 0 ELSE CipherBlock
           f == begun.buf
           w2 == IF keeps THEN bulk ELSE whole
           buf2 == IF left = 0 THEN f ELSE ended.buf
<1>0. SUFFICES ASSUME Running(keeps, head, ctr, first, n, mac, buf, p, next), MessagePart(data, n, k),
                      (p = 0 /\ clen = 0) \/ (p # 0 /\ p + clen = CipherBlock),
                      m % CipherBlock = 0, k - clen - m <= CipherBlock
               PROVE  RanOn(keeps, head, ctr, first, next, n, mac, buf, p, data, k, clen, m)
  OBVIOUS
<1>1. CipherBlock \in Nat \ {0} /\ n1 \in Nat /\ left \in Nat /\ (n1 + m) + left = n + k /\ clen \in Nat
      /\ m \in Nat /\ (k - clen) - m = left /\ (n1 + m) \in Nat
  BY ModesAssumption
<1>2. /\ Gathered(Bytes, mac, buf, p, head \o CoveredOf(keeps, ctr, first, n))
      /\ Keyed(buf, p, ctr, first, next, n)
  BY <1>0 DEF Running
<1>3. MessagePart(d, n, clen) /\ MessagePart(whole, n1, m) /\ MessagePart(z, n1 + m, left)
  <2>1. MessagePart(d, n, clen) /\ MessagePart(rest, n1, k - clen)
    BY <1>0, MessageParts
  <2>2. k - clen \in Nat
    OBVIOUS
  <2> HIDE DEF n1, rest
  <2>3. MessagePart(First(rest, m), n1, m) /\ MessagePart(Rest(rest, m), n1 + m, (k - clen) - m)
    BY <1>1, <2>1, <2>2, MessageParts
  <2> QED BY <1>1, <2>1, <2>3
<1> HIDE DEF d, begun, rest, n1
<1>4. /\ begun.result \in Seq(Bytes)
      /\ OutputOf(ctr, first, n) \o begun.result = OutputOf(ctr, first, n1)
      /\ f \in [1 .. CipherBlock -> Bytes]
      /\ Gathered(Bytes, mac, f, p1, head \o CoveredOf(keeps, ctr, first, n1))
      /\ Keyed(f, p1, ctr, first, next, n1)
  <2>1. CASE p # 0
    <3>1. p + clen = CipherBlock /\ p1 = CipherBlock
      BY <1>0, <2>1
    <3>2. p + clen <= CipherBlock
      BY <1>1, <3>1
    <3>3. /\ begun.result \in Seq(Bytes) /\ Len(begun.result) = clen
          /\ OutputOf(ctr, first, n) \o begun.result = OutputOf(ctr, first, n + clen)
          /\ Gathered(Bytes, mac, begun.buf, p + clen, head \o CoveredOf(keeps, ctr, first, n + clen))
          /\ Keyed(begun.buf, p + clen, ctr, first, next, n + clen)
      <4>1. MetOn(keeps, head, ctr, first, next, n, mac, p, clen, begun)
        BY <1>1, <1>2, <1>3, <2>1, <3>2, MetIs DEF begun
      <4> QED BY <4>1 DEF MetOn
    <3>4. f \in [1 .. CipherBlock -> Bytes]
      BY <3>3 DEF Gathered
    <3> QED BY <3>1, <3>3, <3>4 DEF n1
  <2>2. CASE p = 0
    <3>1. clen = 0 /\ n1 = n /\ p1 = 0
      BY <1>0, <1>1, <2>2 DEF n1
    <3>2. d = <<>>
      BY <1>3, <3>1, EmptySeq DEF MessagePart
    <3>3. XorBytes(d, Rest(buf, p)) = <<>>
      <4>1. XorBytes(<<>>, Rest(buf, p)) = <<>>
        BY DEF XorBytes
      <4> QED BY <3>2, <4>1
    <3>4. begun.result = <<>> /\ f = Overwritten(buf, p, <<>>)
      BY <3>2, <3>3 DEF begun, Met
    <3>5. OutputOf(ctr, first, n) \o <<>> = OutputOf(ctr, first, n)
      BY OutputIs, ConcatEmptySeq
    <3> DEFINE s == head \o CoveredOf(keeps, ctr, first, n)
               e == <<>>
    <3>6. s \in Seq(Bytes) /\ Gathered(Bytes, mac, buf, p, s)
      BY <1>2 DEF Gathered
    <3>7. e \in Seq(Bytes) /\ Len(e) = 0 /\ p + Len(e) <= CipherBlock /\ p + Len(e) = 0
      BY <1>1, <2>2
    <3> HIDE DEF s, e
    <3>8. Gathered(Bytes, mac, Overwritten(buf, p, e), p + Len(e), s \o e)
      BY <3>6, <3>7, GatherIn
    <3>9. s \o e = s
      BY <3>6, ConcatEmptySeq DEF e
    <3>10. Gathered(Bytes, mac, f, 0, s)
      BY <3>4, <3>7, <3>8, <3>9 DEF e
    <3>11. f \in [1 .. CipherBlock -> Bytes]
      BY <3>10 DEF Gathered
    <3>12. Keyed(f, 0, ctr, first, next, n)
      BY <1>2, <2>2 DEF Keyed
    <3> QED BY <3>1, <3>4, <3>5, <3>10, <3>11, <3>12 DEF s
  <2> QED BY <2>1, <2>2
<1>5. /\ bulk \in Seq(Bytes) /\ ended.result \in Seq(Bytes)
      /\ (OutputOf(ctr, first, n1) \o bulk) \o ended.result = OutputOf(ctr, first, (n1 + m) + left)
      /\ Gathered(Bytes, (mac \o (IF p1 = 0 THEN <<>> ELSE <<f>>)) \o BlocksOf(w2), buf2, left,
                  head \o CoveredOf(keeps, ctr, first, (n1 + m) + left))
      /\ Keyed(buf2, left, ctr, first, IF left = 0 THEN last ELSE last + 1, (n1 + m) + left)
  <2>1. /\ Gathered(Bytes, mac, f, p1, head \o CoveredOf(keeps, ctr, first, n1))
        /\ Keyed(f, p1, ctr, first, next, n1) /\ p1 \in {0, CipherBlock}
        /\ MessagePart(whole, n1, m) /\ m % CipherBlock = 0
        /\ MessagePart(z, n1 + m, left) /\ left <= CipherBlock
        /\ f \in [1 .. CipherBlock -> Bytes]
    BY <1>0, <1>3, <1>4
  <2>2. n1 \in Nat /\ m \in Nat /\ left \in Nat
    BY <1>1
  <2> HIDE DEF f, p1, whole, z, left
  <2>3. NextOn(keeps, head, ctr, first, next, n1, mac, f, p1, whole, m, z, left, f)
    BY <2>1, <2>2, RunNext
  <2> QED BY <2>3 DEF NextOn
<1>6. OutputOf(ctr, first, n) \o ((begun.result \o bulk) \o ended.result) = OutputOf(ctr, first, n + k)
  <2> DEFINE o == OutputOf(ctr, first, n)
             b == begun.result
             e == ended.result
  <2>1. o \in Seq(Bytes) /\ b \in Seq(Bytes) /\ bulk \in Seq(Bytes) /\ e \in Seq(Bytes)
    BY <1>4, <1>5, OutputIs
  <2> HIDE DEF o, b, e, bulk
  <2>2. o \o ((b \o bulk) \o e) = ((o \o b) \o bulk) \o e
    <3>1. LeftJoined(o, b, bulk, e)
      BY <2>1, JoinLeft
    <3> QED BY <3>1 DEF LeftJoined
  <2>3. o \o b = OutputOf(ctr, first, n1) /\ (OutputOf(ctr, first, n1) \o bulk) \o e = OutputOf(ctr, first, n + k)
    BY <1>1, <1>4, <1>5 DEF o, b, e
  <2> QED BY <2>2, <2>3 DEF o, b, e
<1>7. (IF p1 = 0 THEN <<>> ELSE <<f>>) = (IF p = 0 THEN <<>> ELSE <<f>>)
  BY <1>1
<1>8. (IF left = 0 THEN last ELSE last + 1) \in Int
  <2>1. m \div CipherBlock \in Int
    BY <1>1, CipherBlocks
  <2> QED BY <2>1
<1>9. Running(keeps, head, ctr, first, n + k, (mac \o (IF p = 0 THEN <<>> ELSE <<f>>)) \o BlocksOf(w2), buf2, left,
              IF left = 0 THEN last ELSE last + 1)
  BY <1>1, <1>5, <1>7, <1>8 DEF Running
<1> QED BY <1>6, <1>9 DEF RanOn, d, begun, rest, n1

-----------------------------------------------------------------------------
(* Contexts; what a run leaves alone in them.                              *)
Fields == {"mac", "buf", "ptr", "ctr", "next", "first", "countAad", "countCtr", "tagLen", "nonce", "head", "headFlag"}
Context(c) == DOMAIN c = Fields
SameKeys(c, c2) ==
  /\ Context(c2) /\ c2.ctr = c.ctr /\ c2.first = c.first
  /\ c2.countAad = c.countAad /\ c2.countCtr = c.countCtr /\ c2.tagLen = c.tagLen
  /\ c2.nonce = c.nonce /\ c2.head = c.head /\ c2.headFlag = c.headFlag

CtxRuns(keeps, head, first, n, c) == Running(keeps, head, c.ctr, first, n, c.mac, c.buf, c.ptr, c.next)

RanTo(keeps, head, first, n, k, c, r) ==
  /\ CtxRuns(keeps, head, first, n + k, r.c) /\ SameKeys(c, r.c)
  /\ OutputOf(c.ctr, first, n) \o r.out = OutputOf(c.ctr, first, n + k)

(* Changes of what a run changes.                                          *)
WithBlock(c, buf, p) == [c EXCEPT !.buf = buf, !.ptr = p]
WithBlocks(c, mac, buf, next, p) == [c EXCEPT !.mac = mac, !.buf = buf, !.next = next, !.ptr = p]

(* What a change of the block leaves alone.                                *)
LEMMA WithBlockIs ==
  ASSUME NEW c, Context(c), NEW buf, NEW p
  PROVE  LET c2 == WithBlock(c, buf, p)
         IN  SameKeys(c, c2) /\ c2.mac = c.mac /\ c2.buf = buf /\ c2.next = c.next /\ c2.ptr = p
BY DEF Context, Fields, SameKeys, WithBlock

(* What a change of the MAC, the block and the counter leaves alone.       *)
LEMMA WithBlocksIs ==
  ASSUME NEW c, Context(c), NEW mac, NEW buf, NEW next, NEW p
  PROVE  LET c2 == WithBlocks(c, mac, buf, next, p)
         IN  SameKeys(c, c2) /\ c2.mac = mac /\ c2.buf = buf /\ c2.next = next /\ c2.ptr = p
BY DEF Context, Fields, SameKeys, WithBlocks

(* A number up to a limit.                                                 *)
LEMMA AtMostIs ==
  ASSUME NEW n \in Nat, NEW limit \in Nat
  PROVE  /\ AtMost(n, limit) \in 0 .. n /\ AtMost(n, limit) <= limit
         /\ AtMost(n, limit) < limit => AtMost(n, limit) = n
         /\ AtMost(n, limit) # n => AtMost(n, limit) = limit
BY DEF AtMost

(* The bytes fit, or go just to the end of the block.                      *)
FitsTo(c, data, k, keeps) ==
  LET met == Met(c.buf, c.ptr, data, keeps)
  IN  [c |-> WithBlock(c, met.buf, c.ptr + k), out |-> met.result]

(* A run that stays in the block keeps the context in step.                *)
LEMMA FitsRuns ==
  ASSUME NEW c, Context(c), c.ctr \in Counters, NEW first \in Int, NEW n \in Nat, NEW k \in Nat,
         NEW keeps \in BOOLEAN, NEW head \in Seq(Bytes), NEW data
  PROVE  CtxRuns(keeps, head, first, n, c) /\ MessagePart(data, n, k) /\ c.ptr # 0 /\ c.ptr + k <= CipherBlock
         => /\ RanTo(keeps, head, first, n, k, c, FitsTo(c, data, k, keeps))
            /\ FitsTo(c, data, k, keeps).c.ptr = c.ptr + k
<1> DEFINE met == Met(c.buf, c.ptr, data, keeps)
           ptr == c.ptr + k
           c2 == WithBlock(c, met.buf, ptr)
           r == FitsTo(c, data, k, keeps)
<1>0. SUFFICES ASSUME CtxRuns(keeps, head, first, n, c), MessagePart(data, n, k), c.ptr # 0, ptr <= CipherBlock
               PROVE  RanTo(keeps, head, first, n, k, c, r) /\ r.c.ptr = ptr
  OBVIOUS
<1>1. /\ Gathered(Bytes, c.mac, c.buf, c.ptr, head \o CoveredOf(keeps, c.ctr, first, n))
      /\ Keyed(c.buf, c.ptr, c.ctr, first, c.next, n) /\ c.next \in Int
  BY <1>0 DEF CtxRuns, Running
<1>2. MetOn(keeps, head, c.ctr, first, c.next, n, c.mac, c.ptr, k, met)
  <2>1. /\ Gathered(Bytes, c.mac, c.buf, c.ptr, head \o CoveredOf(keeps, c.ctr, first, n))
        /\ Keyed(c.buf, c.ptr, c.ctr, first, c.next, n) /\ c.ptr # 0
        /\ MessagePart(data, n, k) /\ c.ptr + k <= CipherBlock
    BY <1>0, <1>1
  <2> QED BY <2>1, MetIs
<1>3. SameKeys(c, c2) /\ c2.mac = c.mac /\ c2.buf = met.buf /\ c2.next = c.next /\ c2.ptr = ptr
  <2> HIDE DEF met, ptr
  <2> QED BY WithBlockIs
<1>4. r.c = c2 /\ r.out = met.result
  BY DEF FitsTo
<1> HIDE DEF c2, met, r
<1>5. CtxRuns(keeps, head, first, n + k, r.c)
  BY <1>1, <1>2, <1>3, <1>4 DEF CtxRuns, Running, MetOn, SameKeys
<1> QED BY <1>2, <1>3, <1>4, <1>5 DEF RanTo, MetOn

(* br_ccm_run and br_gcm_run; br_eax_run with what is behind whole blocks. *)
PiecesTo(c, data, k, keeps, clen, m) ==
  LET begun == Met(c.buf, c.ptr, First(data, clen), keeps)
      rest == Rest(data, clen)
      whole == First(rest, m)
      bulk == XorBytes(whole, Stream(c.ctr, c.next, m))
      last == c.next + (m \div CipherBlock)
      ended == Met(Stream(c.ctr, last, CipherBlock), 0, Rest(rest, m), keeps)
      left == k - clen - m
  IN  [c |-> WithBlocks(c, (c.mac \o (IF c.ptr = 0 THEN <<>> ELSE <<begun.buf>>))
                             \o BlocksOf(IF keeps THEN bulk ELSE whole),
                        IF left = 0 THEN begun.buf ELSE ended.buf, IF left = 0 THEN last ELSE last + 1, left),
       out |-> (begun.result \o bulk) \o ended.result]

(* So does one of any length.                                              *)
LEMMA PiecesRun ==
  ASSUME NEW c, Context(c), c.ctr \in Counters, NEW first \in Int, NEW n \in Nat, NEW k \in Nat,
         NEW keeps \in BOOLEAN, NEW head \in Seq(Bytes), NEW data, NEW clen \in 0 .. k, NEW m \in 0 .. k - clen
  PROVE  /\ CtxRuns(keeps, head, first, n, c) /\ MessagePart(data, n, k)
         /\ (c.ptr = 0 /\ clen = 0) \/ (c.ptr # 0 /\ c.ptr + clen = CipherBlock)
         /\ m % CipherBlock = 0 /\ k - clen - m <= CipherBlock
         => /\ RanTo(keeps, head, first, n, k, c, PiecesTo(c, data, k, keeps, clen, m))
            /\ PiecesTo(c, data, k, keeps, clen, m).c.ptr = k - clen - m
<1> DEFINE begun == Met(c.buf, c.ptr, First(data, clen), keeps)
           rest == Rest(data, clen)
           whole == First(rest, m)
           bulk == XorBytes(whole, Stream(c.ctr, c.next, m))
           last == c.next + (m \div CipherBlock)
           ended == Met(Stream(c.ctr, last, CipherBlock), 0, Rest(rest, m), keeps)
           left == k - clen - m
           mac2 == (c.mac \o (IF c.ptr = 0 THEN <<>> ELSE <<begun.buf>>)) \o BlocksOf(IF keeps THEN bulk ELSE whole)
           buf2 == IF left = 0 THEN begun.buf ELSE ended.buf
           next2 == IF left = 0 THEN last ELSE last + 1
           out2 == (begun.result \o bulk) \o ended.result
           c2 == WithBlocks(c, mac2, buf2, next2, left)
           r == PiecesTo(c, data, k, keeps, clen, m)
<1>0. SUFFICES ASSUME CtxRuns(keeps, head, first, n, c), MessagePart(data, n, k),
                      (c.ptr = 0 /\ clen = 0) \/ (c.ptr # 0 /\ c.ptr + clen = CipherBlock),
                      m % CipherBlock = 0, k - clen - m <= CipherBlock
               PROVE  RanTo(keeps, head, first, n, k, c, r) /\ r.c.ptr = left
  OBVIOUS
<1>1. Running(keeps, head, c.ctr, first, n, c.mac, c.buf, c.ptr, c.next) /\ c.next \in Int
  BY <1>0 DEF CtxRuns, Running
<1>2. RanOn(keeps, head, c.ctr, first, c.next, n, c.mac, c.buf, c.ptr, data, k, clen, m)
  <2>1. /\ Running(keeps, head, c.ctr, first, n, c.mac, c.buf, c.ptr, c.next) /\ MessagePart(data, n, k)
        /\ (c.ptr = 0 /\ clen = 0) \/ (c.ptr # 0 /\ c.ptr + clen = CipherBlock)
        /\ m % CipherBlock = 0 /\ k - clen - m <= CipherBlock
    BY <1>0, <1>1
  <2> QED BY <1>1, <2>1, RunPieces
<1>3. /\ Running(keeps, head, c.ctr, first, n + k, mac2, buf2, left, next2)
      /\ OutputOf(c.ctr, first, n) \o out2 = OutputOf(c.ctr, first, n + k)
  BY <1>2 DEF RanOn
<1>5. r.c = c2 /\ r.out = out2
  BY DEF PiecesTo
<1> HIDE DEF mac2, buf2, next2, left, out2, r
<1>4. SameKeys(c, c2) /\ c2.mac = mac2 /\ c2.buf = buf2 /\ c2.next = next2 /\ c2.ptr = left
  BY WithBlocksIs
<1> HIDE DEF c2
<1>6. CtxRuns(keeps, head, first, n + k, r.c)
  BY <1>3, <1>4, <1>5 DEF CtxRuns, SameKeys
<1> QED BY <1>3, <1>4, <1>5, <1>6 DEF RanTo

EagerTo(c, data, keeps, clen, left, a, m) ==
  LET begun == Met(c.buf, c.ptr, First(data, clen), keeps)
      rest == Rest(data, clen)
      whole == First(rest, a)
      bulk == XorBytes(whole, Stream(c.ctr, c.next, m))
      last == c.next + m \div CipherBlock
      ended == Met(Stream(c.ctr, last, CipherBlock), 0, Rest(rest, m), keeps)
  IN  [c |-> [c EXCEPT !.mac = @ \o (IF c.ptr = 0 THEN <<>> ELSE <<begun.buf>>)
                                 \o BlocksOf(IF keeps THEN bulk ELSE whole),
                       !.buf = IF left = 0 THEN begun.buf ELSE ended.buf,
                       !.next = IF left = 0 THEN last ELSE last + 1,
                       !.ptr = left],
       out |-> begun.result \o bulk \o ended.result]

(* br_gcm_run and br_ccm_run never leave a full block.                     *)
LEMMA EagerRuns ==
  ASSUME NEW c, Context(c), c.ctr \in Counters, NEW first \in Int, NEW n \in Nat, NEW k \in Nat,
         NEW keeps \in BOOLEAN, NEW head \in Seq(Bytes), NEW data
  PROVE  /\ CtxRuns(keeps, head, first, n, c) /\ MessagePart(data, n, k) /\ c.ptr < CipherBlock
         => /\ RanTo(keeps, head, first, n, k, c, RunEager(c, data, keeps))
            /\ RunEager(c, data, keeps).c.ptr < CipherBlock
<1> DEFINE r == RunEager(c, data, keeps)
           clen == IF c.ptr = 0 THEN 0 ELSE AtMost(k, CipherBlock - c.ptr)
           left == (k - clen) % CipherBlock
           m == (k - clen) - left
<1>0. SUFFICES ASSUME CtxRuns(keeps, head, first, n, c), MessagePart(data, n, k), c.ptr < CipherBlock
               PROVE  RanTo(keeps, head, first, n, k, c, r) /\ r.c.ptr < CipherBlock
  OBVIOUS
<1>1. /\ CipherBlock \in Nat \ {0} /\ c.ptr \in 0 .. CipherBlock - 1
      /\ data \in Seq(Bytes) /\ Len(data) = k
  <2>1. c.ptr \in 0 .. CipherBlock /\ CipherBlock \in Nat \ {0}
    BY <1>0, ModesAssumption DEF CtxRuns, Running, Keyed
  <2> QED BY <1>0, <2>1 DEF MessagePart
<1>2. /\ clen \in 0 .. k
      /\ c.ptr # 0 => (c.ptr + clen < CipherBlock /\ clen = k) \/ c.ptr + clen = CipherBlock
      /\ c.ptr = 0 => clen = 0
  <2>1. CASE c.ptr = 0
    BY <2>1
  <2>2. CASE c.ptr # 0
    <3> DEFINE room == CipherBlock - c.ptr
    <3>1. room \in Nat /\ c.ptr + room = CipherBlock
      BY <1>1
    <3>2. clen = AtMost(k, room)
      BY <2>2
    <3> HIDE DEF room, clen
    <3>3. clen \in 0 .. k /\ clen <= room /\ (clen < room => clen = k)
      BY <3>1, <3>2, AtMostIs
    <3> QED BY <1>1, <2>2, <3>1, <3>3
  <2> QED BY <2>1, <2>2
<1> HIDE DEF clen
<1>3. left \in 0 .. CipherBlock - 1 /\ m \in 0 .. k - clen /\ m % CipherBlock = 0 /\ (k - clen) - m = left
  <2> DEFINE e == k - clen
  <2>1. e \in Nat
    BY <1>2
  <2> HIDE DEF e
  <2>2. e % CipherBlock \in 0 .. CipherBlock - 1 /\ e - (e % CipherBlock) \in 0 .. e
        /\ e = CipherBlock * (e \div CipherBlock) + (e % CipherBlock) /\ e \div CipherBlock \in Nat
    BY <2>1, CipherBlocks
  <2> DEFINE q == e \div CipherBlock
             g == e % CipherBlock
             a == e - g
  <2>3. a % CipherBlock = 0
    <3> HIDE DEF q, g
    <3>1. a = CipherBlock * q + 0
      <4> DEFINE y == CipherBlock * q
      <4>1. e = y + g /\ y \in Int /\ g \in Int
        BY <1>1, <2>2 DEF q, g
      <4> HIDE DEF y
      <4>2. a = y
        BY <4>1
      <4> QED BY <4>1, <4>2 DEF y
    <3>2. a \in Int /\ q \in Int /\ 0 \in 0 .. CipherBlock - 1
      BY <1>1, <2>1, <2>2 DEF q, g
    <3> HIDE DEF a
    <3> QED BY <1>1, <3>1, <3>2, RestUnique
  <2>4. g \in 0 .. CipherBlock - 1 /\ e - (e - g) = g
    BY <2>1, <2>2
  <2> QED BY <2>2, <2>3, <2>4 DEF e
<1> HIDE DEF left, m
<1>4. CASE c.ptr # 0 /\ c.ptr + clen < CipherBlock
  <2>1. clen = k
    BY <1>1, <1>2, <1>4
  <2>2. First(data, clen) = data
    BY <1>1, <2>1, FirstAll
  <2>3. r = [c |-> [c EXCEPT !.buf = Met(c.buf, c.ptr, First(data, clen), keeps).buf, !.ptr = c.ptr + clen],
             out |-> Met(c.buf, c.ptr, First(data, clen), keeps).result]
    BY <1>1, <1>4 DEF RunEager, clen
  <2>4. r = FitsTo(c, data, k, keeps)
    BY <2>1, <2>2, <2>3 DEF FitsTo, WithBlock
  <2> HIDE DEF r
  <2>5. c.ptr + k <= CipherBlock /\ c.ptr + k < CipherBlock
    BY <1>1, <1>4, <2>1
  <2>6. RanTo(keeps, head, first, n, k, c, r) /\ r.c.ptr = c.ptr + k
    BY <1>0, <1>4, <2>4, <2>5, FitsRuns
  <2> QED BY <2>5, <2>6
<1>5. CASE ~(c.ptr # 0 /\ c.ptr + clen < CipherBlock)
  <2> DEFINE begun == Met(c.buf, c.ptr, First(data, clen), keeps)
             rest == Rest(data, clen)
             whole == First(rest, m)
             bulk == XorBytes(whole, Stream(c.ctr, c.next, m))
             last == c.next + (m \div CipherBlock)
             ended == Met(Stream(c.ctr, last, CipherBlock), 0, Rest(rest, m), keeps)
             rem == k - clen - m
  <2>1. Len(rest) = k - clen /\ rest \in Seq(Bytes)
    BY <1>1, <1>2, FirstRest
  <2>2. Len(whole) = m
    <3>1. m \in 0 .. Len(rest)
      BY <1>3, <2>1
    <3> HIDE DEF rest
    <3> QED BY <2>1, <3>1, FirstRest
  <2>3. Len(rest) % CipherBlock = left /\ Len(rest) - left = m
    BY <2>1 DEF left, m
  <2>4. r = EagerTo(c, data, keeps, clen, left, m, m)
    <3> DEFINE clen0 == IF c.ptr = 0 THEN 0 ELSE AtMost(Len(data), CipherBlock - c.ptr)
               rest0 == Rest(data, clen0)
               left0 == Len(rest0) % CipherBlock
               a0 == Len(rest0) - left0
               m0 == Len(First(rest0, a0))
    <3>1. clen0 = clen
      BY <1>1 DEF clen
    <3>2. rest0 = rest
      BY <3>1
    <3>3. left0 = left /\ a0 = m /\ m0 = m
      BY <2>2, <2>3, <3>2
    <3>4. ~(c.ptr # 0 /\ c.ptr + clen0 < CipherBlock)
      BY <1>5, <3>1
    <3>5. r = EagerTo(c, data, keeps, clen0, left0, a0, m0)
      BY <3>4 DEF RunEager, EagerTo
    <3> HIDE DEF clen0, left0, a0, m0, r
    <3> QED BY <3>1, <3>3, <3>5
  <2>5. rem = left
    BY <1>3
  <2>6. r = PiecesTo(c, data, k, keeps, clen, m)
    BY <2>4, <2>5 DEF EagerTo, PiecesTo, WithBlocks
  <2>7. /\ (c.ptr = 0 /\ clen = 0) \/ (c.ptr # 0 /\ c.ptr + clen = CipherBlock)
        /\ m % CipherBlock = 0 /\ k - clen - m <= CipherBlock
    BY <1>1, <1>2, <1>3, <1>5
  <2> HIDE DEF r
  <2>8. RanTo(keeps, head, first, n, k, c, r) /\ r.c.ptr = k - clen - m
    BY <1>0, <1>2, <1>3, <2>6, <2>7, PiecesRun
  <2> QED BY <1>1, <1>3, <2>5, <2>8
<1> QED BY <1>4, <1>5

(* The last block of a message, which is full when there is no rest.       *)
LEMMA LastPartIs ==
  ASSUME NEW n \in Nat, n # 0
  PROVE  /\ LastPart(n) \in 1 .. CipherBlock /\ LastPart(n) <= n
         /\ n - LastPart(n) \in 0 .. n /\ (n - LastPart(n)) % CipherBlock = 0
<1> DEFINE B == CipherBlock
           e == n - 1
           q == e \div B
           g == e % B
           a == n - (g + 1)
<1>1. e \in Nat
  OBVIOUS
<1>2. B \in Nat \ {0} /\ q \in Nat /\ g \in 0 .. B - 1 /\ e = B * q + g /\ e - g \in 0 .. e
  <2> HIDE DEF e
  <2> QED BY <1>1, CipherBlocks
<1>3. LastPart(n) = g + 1
  BY DEF LastPart
<1> HIDE DEF q, g
<1>4. g + 1 \in 1 .. B /\ g + 1 <= n /\ a \in 0 .. n /\ a = e - g
  BY <1>1, <1>2
<1>5. a = B * q + 0
  <2> DEFINE y == B * q
  <2>1. e = y + g /\ y \in Int
    BY <1>2
  <2> HIDE DEF y, a, e
  <2>2. a = y
    BY <1>1, <1>2, <1>4, <2>1
  <2> QED BY <2>1, <2>2 DEF y
<1>6. a % B = 0
  <2>1. a \in Int /\ q \in Int /\ 0 \in 0 .. B - 1
    BY <1>2, <1>4
  <2> HIDE DEF a, B
  <2> QED BY <1>2, <1>5, <2>1, RestUnique
<1> QED BY <1>3, <1>4, <1>6

(* Only one size of the last block fits.                                   *)
LEMMA LastPartOnly ==
  ASSUME NEW n \in Nat, NEW p \in 1 .. CipherBlock, p <= n, (n - p) % CipherBlock = 0
  PROVE  LastPart(n) = p
<1> DEFINE B == CipherBlock
           a == n - p
           g == p - 1
           e == n - 1
           q == a \div B
<1>1. B \in Nat \ {0} /\ a \in Nat /\ g \in 0 .. B - 1 /\ e = a + g /\ e \in Int
  BY ModesAssumption
<1>2. a = B * q + (a % B) /\ q \in Nat /\ a % B = 0
  <2> HIDE DEF a
  <2>1. a \in Nat
    BY <1>1
  <2>2. a % B = 0
    BY DEF a
  <2> QED BY <2>1, <2>2, CipherBlocks
<1>3. e = B * q + g
  <2> DEFINE y == B * q
  <2>1. a = y /\ y \in Int
    BY <1>1, <1>2
  <2> HIDE DEF y, e, a
  <2>2. e = y + g
    BY <1>1, <2>1
  <2> QED BY <2>2 DEF y
<1> HIDE DEF a, e, g, q, B
<1>4. e % B = g
  <2>1. e \in Int /\ B \in Nat \ {0} /\ q \in Int /\ g \in 0 .. B - 1 /\ e = B * q + g
    BY <1>1, <1>2, <1>3
  <2> QED BY <2>1, RestUnique
<1>5. g + 1 = p
  BY DEF g
<1> QED BY <1>4, <1>5 DEF LastPart, e, B

-----------------------------------------------------------------------------
(* br_eax_run: a block is used up before there are bytes for the next one. *)
LEMMA EaxRuns ==
  ASSUME NEW c, Context(c), c.ctr \in Counters, NEW first \in Int, NEW n \in Nat, NEW k \in Nat,
         NEW keeps \in BOOLEAN, NEW head \in Seq(Bytes), NEW data
  PROVE  CtxRuns(keeps, head, first, n, c) /\ MessagePart(data, n, k)
         => /\ RanTo(keeps, head, first, n, k, c, EaxRun(c, data, keeps))
            /\ EaxRun(c, data, keeps).c.ptr = 0 => k = 0 /\ c.ptr = 0
<1> DEFINE r == EaxRun(c, data, keeps)
           clen == IF c.ptr \in {0, CipherBlock} THEN 0 ELSE AtMost(k, CipherBlock - c.ptr)
           left == LastPart(k - clen)
           m == (k - clen) - left
<1>0. SUFFICES ASSUME CtxRuns(keeps, head, first, n, c), MessagePart(data, n, k)
               PROVE  RanTo(keeps, head, first, n, k, c, r) /\ (r.c.ptr = 0 => k = 0 /\ c.ptr = 0)
  OBVIOUS
<1>1. /\ CipherBlock \in Nat \ {0} /\ c.ptr \in 0 .. CipherBlock
      /\ data \in Seq(Bytes) /\ Len(data) = k
  BY <1>0, ModesAssumption DEF CtxRuns, Running, Keyed, MessagePart
<1>2. /\ clen \in 0 .. k
      /\ c.ptr \notin {0, CipherBlock} => c.ptr + clen <= CipherBlock /\ (clen # k => c.ptr + clen = CipherBlock)
      /\ c.ptr \in {0, CipherBlock} => clen = 0
  <2>1. CASE c.ptr \in {0, CipherBlock}
    BY <2>1
  <2>2. CASE c.ptr \notin {0, CipherBlock}
    <3> DEFINE room == CipherBlock - c.ptr
    <3>1. room \in Nat /\ c.ptr + room = CipherBlock
      BY <1>1
    <3>2. clen = AtMost(k, room)
      BY <2>2
    <3> HIDE DEF room, clen
    <3>3. clen \in 0 .. k /\ clen <= room /\ (clen # k => clen = room)
      BY <3>1, <3>2, AtMostIs
    <3> QED BY <1>1, <2>2, <3>1, <3>3
  <2> QED BY <2>1, <2>2
<1> DEFINE rest == Rest(data, clen)
<1>3. Len(rest) = k - clen /\ rest \in Seq(Bytes)
  <2> HIDE DEF clen
  <2> QED BY <1>1, <1>2, FirstRest
<1>4. CASE data = <<>>
  <2>1. r = [c |-> c, out |-> <<>>] /\ k = 0
    BY <1>1, <1>4 DEF EaxRun
  <2>2. n + k = n
    BY <2>1
  <2>3. OutputOf(c.ctr, first, n) \o <<>> = OutputOf(c.ctr, first, n)
    BY OutputIs, ConcatEmptySeq
  <2>4. r.c = c /\ r.out = <<>>
    BY <2>1
  <2> HIDE DEF r
  <2>5. SameKeys(c, r.c)
    BY <2>4 DEF SameKeys
  <2> QED BY <1>0, <2>1, <2>2, <2>3, <2>4, <2>5 DEF RanTo
<1>5. CASE data # <<>> /\ rest = <<>>
  <2>1. clen = k /\ k # 0
    <3>1. Len(data) # 0
      BY <1>1, <1>5, EmptySeq
    <3>2. Len(rest) = 0
      BY <1>5
    <3> HIDE DEF rest, clen
    <3> QED BY <1>1, <1>2, <1>3, <3>1, <3>2
  <2>2. c.ptr \notin {0, CipherBlock} /\ c.ptr + k <= CipherBlock
    BY <1>2, <2>1
  <2>3. First(data, clen) = data
    <3> HIDE DEF clen
    <3> QED BY <1>1, <2>1, FirstAll
  <2>4. r = [c |-> [c EXCEPT !.buf = Met(c.buf, c.ptr, First(data, clen), keeps).buf, !.ptr = c.ptr + clen],
             out |-> Met(c.buf, c.ptr, First(data, clen), keeps).result]
    <3> DEFINE clen0 == IF c.ptr \in {0, CipherBlock} THEN 0 ELSE AtMost(Len(data), CipherBlock - c.ptr)
    <3>1. clen0 = clen
      BY <1>1
    <3>2. Rest(data, clen0) = <<>>
      BY <1>5, <3>1
    <3>3. r = [c |-> [c EXCEPT !.buf = Met(c.buf, c.ptr, First(data, clen0), keeps).buf, !.ptr = c.ptr + clen0],
               out |-> Met(c.buf, c.ptr, First(data, clen0), keeps).result]
      BY <1>5, <3>2 DEF EaxRun
    <3> HIDE DEF clen0, clen, r
    <3> QED BY <3>1, <3>3
  <2>5. r = FitsTo(c, data, k, keeps)
    <3> HIDE DEF clen, r
    <3> QED BY <2>1, <2>3, <2>4 DEF FitsTo, WithBlock
  <2> HIDE DEF r
  <2>6. RanTo(keeps, head, first, n, k, c, r) /\ r.c.ptr = c.ptr + k
    BY <1>0, <2>2, <2>5, FitsRuns
  <2>7. c.ptr + k # 0
    BY <1>1, <2>1
  <2> QED BY <2>6, <2>7
<1>6. CASE data # <<>> /\ rest # <<>>
  <2>1. k - clen \in Nat /\ k - clen # 0
    <3>1. Len(rest) # 0
      BY <1>3, <1>6, EmptySeq
    <3> HIDE DEF clen, rest
    <3> QED BY <1>2, <1>3, <3>1
  <2> HIDE DEF clen
  <2>2. /\ left \in 1 .. CipherBlock /\ m \in 0 .. k - clen /\ m % CipherBlock = 0
        /\ (k - clen) - m = left
    <3> DEFINE e == k - clen
    <3>1. e \in Nat /\ e # 0
      BY <2>1
    <3> HIDE DEF e
    <3>2. /\ LastPart(e) \in 1 .. CipherBlock /\ LastPart(e) <= e
          /\ e - LastPart(e) \in 0 .. e /\ (e - LastPart(e)) % CipherBlock = 0
      BY <3>1, LastPartIs
    <3>3. e - (e - LastPart(e)) = LastPart(e)
      BY <1>1, <3>1, <3>2
    <3> QED BY <3>2, <3>3 DEF e
  <2> HIDE DEF left, m
  <2>3. (c.ptr = 0 /\ clen = 0) \/ (c.ptr # 0 /\ c.ptr + clen = CipherBlock)
    <3>1. clen # k
      BY <1>2, <2>1
    <3> QED BY <1>1, <1>2, <3>1
  <2>4. r = EagerTo(c, data, keeps, clen, left, m, m)
    <3> DEFINE clen0 == IF c.ptr \in {0, CipherBlock} THEN 0 ELSE AtMost(Len(data), CipherBlock - c.ptr)
               rest0 == Rest(data, clen0)
               left0 == Len(rest0) - (Len(rest0) - LastPart(Len(rest0)))
               m0 == Len(rest0) - LastPart(Len(rest0))
    <3>1. clen0 = clen
      BY <1>1 DEF clen
    <3>2. rest0 = rest
      BY <3>1
    <3>3. m0 = m /\ left0 = left
      <4>1. LastPart(Len(rest0)) = left /\ Len(rest0) = k - clen
        BY <1>3, <3>2 DEF left
      <4> QED BY <2>2, <4>1 DEF m
    <3>4. data # <<>> /\ rest0 # <<>>
      BY <1>6, <3>2
    <3> DEFINE begun == Met(c.buf, c.ptr, First(data, clen0), keeps)
               whole == First(rest0, m0)
               bulk == XorBytes(whole, Stream(c.ctr, c.next, m0))
               last == c.next + m0 \div CipherBlock
               ended == Met(Stream(c.ctr, last, CipherBlock), 0, Rest(rest0, m0), keeps)
    <3>5. r = [c |-> [c EXCEPT !.mac = @ \o (IF c.ptr = 0 THEN <<>> ELSE <<begun.buf>>)
                                      \o BlocksOf(IF keeps THEN bulk ELSE whole),
                               !.buf = ended.buf, !.ptr = left0, !.next = last + 1],
               out |-> begun.result \o bulk \o ended.result]
      BY <3>4 DEF EaxRun
    <3>6. r = [c |-> [c EXCEPT !.mac = @ \o (IF c.ptr = 0 THEN <<>> ELSE <<begun.buf>>)
                                      \o BlocksOf(IF keeps THEN bulk ELSE whole),
                               !.buf = ended.buf, !.next = last + 1, !.ptr = left0],
               out |-> begun.result \o bulk \o ended.result]
      <4> HIDE DEF begun, whole, bulk, last, ended, r, left0
      <4> QED BY <3>5
    <3>7. left0 # 0
      BY <2>2, <3>3
    <3>8. r = EagerTo(c, data, keeps, clen0, left0, m0, m0)
      <4> HIDE DEF r, left0, m0, clen0
      <4> QED BY <3>6, <3>7 DEF EagerTo
    <3> HIDE DEF clen0, left0, m0, r
    <3> QED BY <3>1, <3>3, <3>8
  <2>5. r = PiecesTo(c, data, k, keeps, clen, m)
    <3>1. k - clen - m = left
      BY <2>2
    <3> HIDE DEF r
    <3> QED BY <2>4, <3>1 DEF EagerTo, PiecesTo, WithBlocks
  <2>6. k - clen - m <= CipherBlock
    BY <1>1, <2>2
  <2> HIDE DEF r
  <2>7. RanTo(keeps, head, first, n, k, c, r) /\ r.c.ptr = k - clen - m
    BY <1>0, <1>2, <2>2, <2>3, <2>5, <2>6, PiecesRun
  <2> QED BY <2>2, <2>7
<1> QED BY <1>4, <1>5, <1>6

(* The whole blocks of a number of bytes.                                  *)
LEMMA WholeBlocks ==
  ASSUME NEW e \in Nat
  PROVE  /\ e % CipherBlock \in 0 .. CipherBlock - 1 /\ e - (e % CipherBlock) \in 0 .. e
         /\ (e - (e % CipherBlock)) % CipherBlock = 0 /\ e - (e - (e % CipherBlock)) = e % CipherBlock
<1> DEFINE q == e \div CipherBlock
           g == e % CipherBlock
           a == e - g
<1>1. /\ CipherBlock \in Nat \ {0} /\ g \in 0 .. CipherBlock - 1 /\ a \in 0 .. e
      /\ e = CipherBlock * q + g /\ q \in Nat
  BY CipherBlocks
<1> HIDE DEF q, g
<1>2. a = CipherBlock * q + 0
  <2> DEFINE y == CipherBlock * q
  <2>1. e = y + g /\ y \in Int /\ g \in Int
    BY <1>1
  <2> HIDE DEF y
  <2>2. a = y
    BY <2>1
  <2> QED BY <2>1, <2>2 DEF y
<1>3. a % CipherBlock = 0
  <2>1. a \in Int /\ q \in Int /\ 0 \in 0 .. CipherBlock - 1
    BY <1>1
  <2> HIDE DEF a
  <2> QED BY <1>1, <1>2, <2>1, RestUnique
<1>4. e - a = g
  BY <1>1
<1> QED BY <1>1, <1>3, <1>4 DEF g

-----------------------------------------------------------------------------
(* The MAC of the context has gone over s, but for what is in the block.   *)
GatheredIn(S, c, s) == Gathered(S, c.mac, c.buf, c.ptr, s)
SameStream(c, c2) == SameKeys(c, c2) /\ c2.next = c.next

WithMac(c, mac, buf, p) == [c EXCEPT !.mac = mac, !.buf = buf, !.ptr = p]

(* What a change of the MAC and of the block leaves alone.                 *)
LEMMA WithMacIs ==
  ASSUME NEW c, Context(c), NEW mac, NEW buf, NEW p
  PROVE  LET c2 == WithMac(c, mac, buf, p)
         IN  SameStream(c, c2) /\ c2.mac = mac /\ c2.buf = buf /\ c2.ptr = p
BY DEF Context, Fields, SameKeys, SameStream, WithMac

(* br_ccm_aad_inject, br_gcm_aad_inject                                    *)
LEMMA EagerInjects ==
  ASSUME NEW c, Context(c), NEW s, NEW data \in Seq(Bytes)
  PROVE  GatheredIn(Bytes, c, s) /\ c.ptr < CipherBlock
         => /\ GatheredIn(Bytes, InjectEager(c, data), s \o data) /\ InjectEager(c, data).ptr < CipherBlock
            /\ SameStream(c, InjectEager(c, data))
<1> DEFINE r == InjectEager(c, data)
           k == Len(data)
           p == c.ptr
           room == CipherBlock - p
           x == IF p = 0 THEN <<>> ELSE First(data, room)
           rest == IF p = 0 THEN data ELSE Rest(data, room)
           left == Len(rest) % CipherBlock
           m == Len(rest) - left
           w == First(rest, m)
           z == Rest(rest, m)
           block == First(c.buf, p) \o First(data, room)
           buf1 == IF p = 0 THEN c.buf ELSE Overwritten(c.buf, p, First(data, room))
           f == Overwritten(buf1, 0, z)
<1>0. SUFFICES ASSUME GatheredIn(Bytes, c, s), c.ptr < CipherBlock
               PROVE  GatheredIn(Bytes, r, s \o data) /\ r.ptr < CipherBlock /\ SameStream(c, r)
  OBVIOUS
<1>1. /\ CipherBlock \in Nat \ {0} /\ p \in 0 .. CipherBlock - 1 /\ k \in Nat /\ s \in Seq(Bytes)
      /\ c.buf \in [1 .. CipherBlock -> Bytes] /\ Gathered(Bytes, c.mac, c.buf, p, s)
      /\ room \in Nat /\ p + room = CipherBlock
  <2>1. p \in 0 .. CipherBlock /\ CipherBlock \in Nat \ {0}
    BY <1>0, ModesAssumption DEF Gathered, GatheredIn
  <2> QED BY <1>0, <2>1, LenProperties DEF Gathered, GatheredIn
<1>2. CASE p # 0 /\ room > k
  <2>1. r = [c EXCEPT !.buf = Overwritten(@, c.ptr, data), !.ptr = @ + Len(data)]
    BY <1>2 DEF InjectEager
  <2>2. r = WithBlock(c, Overwritten(c.buf, p, data), p + k)
    BY <2>1 DEF WithBlock
  <2>3. p + k < CipherBlock /\ p + Len(data) <= CipherBlock
    BY <1>1, <1>2
  <2>4. Gathered(Bytes, c.mac, Overwritten(c.buf, p, data), p + k, s \o data)
    BY <1>1, <2>3, GatherIn
  <2> HIDE DEF r
  <2>5. SameStream(c, r) /\ r.mac = c.mac /\ r.buf = Overwritten(c.buf, p, data) /\ r.ptr = p + k
    BY <2>2, WithBlockIs DEF SameStream
  <2> QED BY <2>3, <2>4, <2>5 DEF GatheredIn
<1>3. CASE ~(p # 0 /\ room > k)
  <2>1. /\ x \in Seq(Bytes) /\ rest \in Seq(Bytes) /\ x \o rest = data
        /\ (p = 0 /\ x = <<>>) \/ (p # 0 /\ p + Len(x) = CipherBlock /\ block = First(c.buf, p) \o x)
    <3>1. CASE p = 0
      <4>1. x = <<>> /\ rest = data /\ <<>> \o data = data
        BY <3>1, ConcatEmptySeq
      <4>2. <<>> \in Seq(Bytes)
        OBVIOUS
      <4> QED BY <3>1, <4>1, <4>2
    <3>2. CASE p # 0
      <4>1. room \in 0 .. Len(data)
        BY <1>1, <1>3, <3>2
      <4> HIDE DEF room
      <4>2. /\ First(data, room) \in Seq(Bytes) /\ Len(First(data, room)) = room /\ Rest(data, room) \in Seq(Bytes)
            /\ First(data, room) \o Rest(data, room) = data
        BY <4>1, FirstRest, FirstThenRest
      <4> QED BY <1>1, <3>2, <4>2
    <3> QED BY <3>1, <3>2
  <2> HIDE DEF x, rest
  <2>2. /\ left \in 0 .. CipherBlock - 1 /\ m \in 0 .. Len(rest) /\ m % CipherBlock = 0
        /\ Len(rest) - m = left
    <3> DEFINE e == Len(rest)
    <3>1. e \in Nat
      BY <2>1, LenProperties
    <3> HIDE DEF e
    <3>2. /\ e % CipherBlock \in 0 .. CipherBlock - 1 /\ e - (e % CipherBlock) \in 0 .. e
          /\ (e - (e % CipherBlock)) % CipherBlock = 0 /\ e - (e - (e % CipherBlock)) = e % CipherBlock
      BY <3>1, WholeBlocks
    <3> QED BY <3>2 DEF e
  <2> HIDE DEF left, m
  <2>3. /\ w \in Seq(Bytes) /\ Len(w) = m /\ z \in Seq(Bytes) /\ Len(z) = left /\ w \o z = rest
    <3>1. rest \in Seq(Bytes) /\ m \in 0 .. Len(rest)
      BY <2>1, <2>2
    <3>2. w \in Seq(Bytes) /\ Len(w) = m /\ z \in Seq(Bytes) /\ Len(z) = Len(rest) - m
      BY <3>1, FirstRest
    <3> QED BY <2>2, <3>1, <3>2, FirstThenRest
  <2>4. buf1 \in [1 .. CipherBlock -> Bytes]
    <3>1. CASE p = 0
      BY <1>1, <3>1
    <3>2. CASE p # 0
      <4>1. x = First(data, room)
        BY <3>2 DEF x
      <4>2. p + Len(x) <= CipherBlock /\ p \in 0 .. CipherBlock
        <5> DEFINE l == Len(x)
        <5>1. p + l = CipherBlock /\ p \in 0 .. CipherBlock - 1 /\ CipherBlock \in Nat
          BY <1>1, <2>1, <3>2
        <5> HIDE DEF l, p
        <5> QED BY <5>1 DEF l
      <4>3. Overwritten(c.buf, p, x) \in [1 .. CipherBlock -> Bytes]
        BY <1>1, <2>1, <4>2, OverwrittenIs
      <4> QED BY <3>2, <4>1, <4>3
    <3> QED BY <3>1, <3>2
  <2>5. r = WithMac(c, c.mac \o (IF p = 0 THEN <<>> ELSE <<block>>) \o BlocksOf(w), f, left)
    <3>1. Len(w) = m
      BY <2>3
    <3>5. w = First(rest, Len(rest) - left)
      BY DEF m
    <3>2. ~(~(p = 0) /\ room > Len(data))
      BY <1>3
    <3>3. r = [c EXCEPT !.mac = @ \o (IF p = 0 THEN <<>> ELSE <<First(c.buf, c.ptr) \o First(data, room)>>)
                                \o BlocksOf(w),
                     !.buf = Overwritten(IF p = 0 THEN @ ELSE Overwritten(@, c.ptr, First(data, room)),
                                         0, Rest(rest, Len(w))),
                     !.ptr = left]
      BY <3>2 DEF InjectEager, left, m, rest
    <3> HIDE DEF r, w
    <3>4. Rest(rest, Len(w)) = z
      BY <2>3
    <3>6. r = WithMac(c, c.mac \o (IF p = 0 THEN <<>> ELSE <<First(c.buf, c.ptr) \o First(data, room)>>) \o BlocksOf(w),
                      Overwritten(IF p = 0 THEN c.buf ELSE Overwritten(c.buf, c.ptr, First(data, room)), 0, z), left)
      BY <3>3, <3>4 DEF WithMac
    <3> QED BY <3>6
  <2> HIDE DEF r, w, z, buf1, block
  <2>6. f \in [1 .. CipherBlock -> Bytes] /\ First(f, Len(z)) = z /\ Len(z) <= CipherBlock
    <3>1. 0 \in 0 .. CipherBlock /\ 0 + Len(z) <= CipherBlock /\ 0 + Len(z) = Len(z)
      BY <1>1, <2>2, <2>3
    <3>5. buf1 \in [1 .. CipherBlock -> Bytes] /\ z \in Seq(Bytes)
      BY <2>3, <2>4
    <3>2. /\ Overwritten(buf1, 0, z) \in [1 .. CipherBlock -> Bytes]
          /\ First(Overwritten(buf1, 0, z), 0 + Len(z)) = First(buf1, 0) \o z
      BY <3>1, <3>5, OverwrittenIs
    <3>3. First(buf1, 0) = <<>> /\ <<>> \o z = z
      BY <2>3, <2>4, BlockIsSeq, ConcatEmptySeq
    <3> QED BY <1>1, <2>2, <2>3, <3>1, <3>2, <3>3
  <2> HIDE DEF f
  <2>7. Gathered(Bytes, (c.mac \o (IF p = 0 THEN <<>> ELSE <<block>>)) \o BlocksOf(w), f, Len(z), s \o (x \o (w \o z)))
    <3>1. Len(w) % CipherBlock = 0
      BY <2>2, <2>3
    <3> QED BY <1>1, <2>1, <2>3, <2>6, <3>1, GatherOn
  <2>8. s \o (x \o (w \o z)) = s \o data
    BY <2>1, <2>3
  <2>9. /\ SameStream(c, r) /\ r.mac = c.mac \o (IF p = 0 THEN <<>> ELSE <<block>>) \o BlocksOf(w)
        /\ r.buf = f /\ r.ptr = left
    <3> DEFINE mac2 == c.mac \o (IF p = 0 THEN <<>> ELSE <<block>>) \o BlocksOf(w)
    <3>1. r = WithMac(c, mac2, f, left)
      BY <2>5
    <3> HIDE DEF mac2
    <3>2. SameStream(c, r) /\ r.mac = mac2 /\ r.buf = f /\ r.ptr = left
      BY <3>1, WithMacIs
    <3> QED BY <3>2 DEF mac2
  <2> QED BY <1>1, <2>2, <2>3, <2>7, <2>8, <2>9 DEF GatheredIn
<1> QED BY <1>2, <1>3

(* br_ccm_flip                                                             *)
LEMMA EagerFlips ==
  ASSUME NEW c, Context(c), NEW s
  PROVE  GatheredIn(Bytes, c, s) /\ c.ptr < CipherBlock
         => /\ GatheredIn(Bytes, FlipEager(c), Zeroed(s)) /\ FlipEager(c).ptr = 0
            /\ FlipEager(c).mac = BlocksOf(Zeroed(s)) /\ SameStream(c, FlipEager(c))
<1> DEFINE r == FlipEager(c)
<1>0. SUFFICES ASSUME GatheredIn(Bytes, c, s), c.ptr < CipherBlock
               PROVE  /\ GatheredIn(Bytes, r, Zeroed(s)) /\ r.ptr = 0 /\ r.mac = BlocksOf(Zeroed(s))
                      /\ SameStream(c, r)
  OBVIOUS
<1>1. Gathered(Bytes, c.mac, c.buf, c.ptr, s) /\ Zero \in Bytes /\ c.buf \in [1 .. CipherBlock -> Bytes]
  BY <1>0, PlainAreBytes DEF GatheredIn, Gathered
<1>2. /\ c.ptr = 0 => Gathered(Bytes, c.mac, c.buf, 0, Zeroed(s)) /\ c.mac = BlocksOf(Zeroed(s))
      /\ c.ptr # 0 => /\ Append(c.mac, Filled(First(c.buf, c.ptr))) = BlocksOf(Zeroed(s))
                      /\ Gathered(Bytes, Append(c.mac, Filled(First(c.buf, c.ptr))), c.buf, 0, Zeroed(s))
  BY <1>0, <1>1, GatherFlip
<1>3. CASE c.ptr = 0
  <2>1. r = c
    BY <1>3 DEF FlipEager
  <2> QED BY <1>2, <1>3, <2>1 DEF GatheredIn, SameStream, SameKeys
<1>4. CASE c.ptr # 0
  <2> DEFINE mac == Append(c.mac, Filled(First(c.buf, c.ptr)))
  <2>1. r = WithMac(c, mac, c.buf, 0)
    BY <1>4 DEF FlipEager, WithMac
  <2> HIDE DEF r, mac
  <2>2. SameStream(c, r) /\ r.mac = mac /\ r.buf = c.buf /\ r.ptr = 0
    BY <2>1, WithMacIs
  <2> QED BY <1>2, <1>4, <2>2 DEF GatheredIn, mac
<1> QED BY <1>3, <1>4

(* Bytes that EAX can authenticate: its padding is among them.             *)
BlockBytes(S) ==
  /\ Zero \in S /\ \A x, y \in S : Added(x, y) \in S
  /\ \A name \in Names, i \in Int : {<<name, i>>} \in S

(* EAX can authenticate nonces and data, and everything.                   *)
LEMMA PlainAndAll == BlockBytes(PlainBytes) /\ BlockBytes(Bytes)
<1>1. /\ PlainBytes \subseteq Bytes /\ Zero \in PlainBytes /\ Zero \in Bytes
      /\ \A x, y \in Bytes : Added(x, y) \in Bytes
      /\ \A x, y \in PlainBytes : Added(x, y) \in PlainBytes
  BY PlainAreBytes
<1>2. \A name \in Names, i \in Int : {<<name, i>>} \in PlainBytes
  BY DEF PlainBytes
<1> QED BY <1>1, <1>2 DEF BlockBytes

(* A block of bytes of a nonce is a block of bytes.                        *)
LEMMA PlainBlocks ==
  ASSUME NEW f \in [1 .. CipherBlock -> PlainBytes]
  PROVE  f \in [1 .. CipherBlock -> Bytes]
BY PlainAreBytes

(* A sequence as long as a block is one.                                   *)
LEMMA SeqIsBlock ==
  ASSUME NEW S, NEW f \in Seq(S), Len(f) = CipherBlock
  PROVE  f \in [1 .. CipherBlock -> S]
BY LenProperties

(* Nonces and data, in a set of bytes that EAX can authenticate.           *)
LEMMA NamedIn ==
  ASSUME NEW S, BlockBytes(S), NEW name \in Names, NEW n \in Nat
  PROVE  /\ Named(name, n) \in Seq(S) /\ Len(Named(name, n)) = n
         /\ \A i \in 1 .. n : Named(name, n)[i] \in S
<1>1. Named(name, n) \in [1 .. n -> S]
  BY DEF Named, BlockBytes
<1> QED BY <1>1, MadeSeq

(* The first block of an OMAC, which holds its number.                     *)
LEMMA OmacFirstIs ==
  ASSUME NEW S, BlockBytes(S), NEW val \in Int
  PROVE  OmacFirst(val) \in Seq(S) /\ Len(OmacFirst(val)) = CipherBlock /\ OmacFirst(val) \in [1 .. CipherBlock -> S]
<1>1. CipherBlock - 1 \in Nat /\ CipherBlock \in Nat /\ Zero \in S /\ {<<"omac", val>>} \in S
  <2>1. "omac" \in Names
    BY DEF Names
  <2>2. Zero \in S /\ {<<"omac", val>>} \in S
    BY <2>1 DEF BlockBytes
  <2> QED BY <2>2, ModesAssumption
<1>2. ZeroBytes(CipherBlock - 1) \in Seq(S) /\ Len(ZeroBytes(CipherBlock - 1)) = CipherBlock - 1
  BY <1>1, ZeroBytesAre
<1>3. <<{<<"omac", val>>}>> \in Seq(S) /\ Len(<<{<<"omac", val>>}>>) = 1
  BY <1>1
<1>4. OmacFirst(val) \in Seq(S) /\ Len(OmacFirst(val)) = CipherBlock - 1 + 1
  BY <1>2, <1>3, JoinOf DEF OmacFirst
<1> QED BY <1>1, <1>4, SeqIsBlock

(* The last block of an OMAC, made of what is left of the message.         *)
Ending(last, p) ==
  IF p = CipherBlock THEN XorBytes(last, Named("L2", CipherBlock))
  ELSE XorBytes(Filled(Append(last, {<<"0x80", 0>>})), Named("L4", CipherBlock))

(* The last block of an OMAC, with its padding and the key that is added.  *)
LEMMA EndingIs ==
  ASSUME NEW S, BlockBytes(S), NEW last \in Seq(S), NEW p \in 0 .. CipherBlock, Len(last) = p
  PROVE  Ending(last, p) \in Seq(S) /\ Len(Ending(last, p)) = CipherBlock /\ Ending(last, p) \in [1 .. CipherBlock -> S]
<1> DEFINE mark == {<<"0x80", 0>>}
           filled == Filled(Append(last, mark))
<1>1. CipherBlock \in Nat /\ Zero \in S /\ mark \in S /\ \A x, y \in S : Added(x, y) \in S
  <2>1. "0x80" \in Names /\ 0 \in Int
    BY DEF Names
  <2>2. mark \in S
    BY <2>1 DEF BlockBytes
  <2> HIDE DEF mark
  <2>3. Zero \in S /\ \A x, y \in S : Added(x, y) \in S
    BY DEF BlockBytes
  <2> QED BY <2>2, <2>3, ModesAssumption
<1> HIDE DEF mark
<1>2. \A name \in {"L2", "L4"} : \A i \in 1 .. CipherBlock : Named(name, CipherBlock)[i] \in S
  BY <1>1, NamedIn DEF Names
<1>3. \A d \in Seq(S), name \in {"L2", "L4"} :
         Len(d) = CipherBlock => /\ XorBytes(d, Named(name, CipherBlock)) \in Seq(S)
                                 /\ Len(XorBytes(d, Named(name, CipherBlock))) = CipherBlock
  <2> TAKE d \in Seq(S), name \in {"L2", "L4"}
  <2> HAVE Len(d) = CipherBlock
  <2> DEFINE t == Named(name, CipherBlock)
  <2>1. \A i \in 1 .. CipherBlock : t[i] \in S
    BY <1>2
  <2> HIDE DEF t
  <2>2. XorBytes(d, t) \in Seq(S) /\ Len(XorBytes(d, t)) = CipherBlock
    BY <1>1, <2>1, XorIs
  <2> QED BY <2>2 DEF t
<1>4. p # CipherBlock => filled \in Seq(S) /\ Len(filled) = CipherBlock
  <2> HAVE p # CipherBlock
  <2>1. Append(last, mark) \in Seq(S) /\ Len(Append(last, mark)) = p + 1 /\ CipherBlock - (p + 1) \in Nat
    BY <1>1, AppendProperties
  <2>2. /\ ZeroBytes(CipherBlock - (p + 1)) \in Seq(S)
        /\ Len(ZeroBytes(CipherBlock - (p + 1))) = CipherBlock - (p + 1)
    BY <1>1, <2>1, ZeroBytesAre
  <2>3. filled = Append(last, mark) \o ZeroBytes(CipherBlock - (p + 1))
    BY <2>1 DEF Filled
  <2> DEFINE x == Append(last, mark)
             y == ZeroBytes(CipherBlock - (p + 1))
  <2>4. x \in Seq(S) /\ Len(x) = p + 1 /\ y \in Seq(S) /\ Len(y) = CipherBlock - (p + 1) /\ filled = x \o y
    BY <2>1, <2>2, <2>3
  <2> HIDE DEF filled, x, y
  <2>5. x \o y \in Seq(S) /\ Len(x \o y) = Len(x) + Len(y)
    BY <2>4, JoinOf
  <2> QED BY <1>1, <2>4, <2>5
<1>5. Ending(last, p) \in Seq(S) /\ Len(Ending(last, p)) = CipherBlock
  <2>1. CASE p = CipherBlock
    BY <1>3, <2>1 DEF Ending
  <2>2. CASE p # CipherBlock
    <3>1. Ending(last, p) = XorBytes(filled, Named("L4", CipherBlock))
      BY <2>2 DEF Ending, mark
    <3> HIDE DEF filled
    <3> QED BY <1>3, <1>4, <2>2, <3>1
  <2> QED BY <2>1, <2>2
<1> QED BY <1>5, SeqIsBlock

(* An OMAC goes over the whole blocks but the last one, and over its       *)
(* ending.                                                                 *)
LEMMA OmacIs ==
  ASSUME NEW S, BlockBytes(S), NEW val \in Int, NEW t \in Seq(S)
  PROVE  LET all == OmacFirst(val) \o t
             p == LastPart(Len(all))
         IN  /\ all \in Seq(S) /\ Len(all) >= CipherBlock /\ p \in 1 .. CipherBlock /\ p <= Len(all)
             /\ Rest(all, Len(all) - p) \in Seq(S) /\ Len(Rest(all, Len(all) - p)) = p
             /\ OmacOf(val, t) = Append(BlocksOf(First(all, Len(all) - p)), Ending(Rest(all, Len(all) - p), p))
             /\ OmacOf(val, t) \in Seq(Seq(S))
<1> DEFINE all == OmacFirst(val) \o t
           n == Len(all)
           p == LastPart(n)
           last == Rest(all, n - p)
           front == First(all, n - p)
<1>1. all \in Seq(S) /\ n \in Nat /\ n >= CipherBlock /\ n # 0
  <2>1. OmacFirst(val) \in Seq(S) /\ Len(OmacFirst(val)) = CipherBlock
    BY OmacFirstIs
  <2>2. all \in Seq(S) /\ n = CipherBlock + Len(t) /\ Len(t) \in Nat
    BY <2>1, JoinOf
  <2> QED BY <2>2, ModesAssumption
<1>2. OmacOf(val, t) = Append(BlocksOf(front), Ending(last, p))
  BY DEF OmacOf, Ending
<1> HIDE DEF all
<1>3. p \in 1 .. CipherBlock /\ p <= n /\ n - p \in 0 .. n
  <2> HIDE DEF n
  <2> QED BY <1>1, LastPartIs
<1>4. last \in Seq(S) /\ Len(last) = p /\ front \in Seq(S)
  <2> DEFINE a == n - p
  <2>1. a \in 0 .. Len(all)
    BY <1>3
  <2>2. n - a = p
    BY <1>1, <1>3
  <2> HIDE DEF a
  <2>3. Rest(all, a) \in Seq(S) /\ Len(Rest(all, a)) = n - a /\ First(all, a) \in Seq(S)
    BY <1>1, <2>1, FirstRest
  <2> QED BY <2>2, <2>3 DEF a
<1> HIDE DEF last, front, n, p
<1>5. Ending(last, p) \in Seq(S) /\ BlocksOf(front) \in Seq(Seq(S))
  <2>1. p \in 0 .. CipherBlock
    BY <1>3
  <2> QED BY <1>4, <2>1, EndingIs, BlocksAre
<1>6. Append(BlocksOf(front), Ending(last, p)) \in Seq(Seq(S))
  BY <1>5
<1> QED BY <1>1, <1>2, <1>3, <1>4, <1>6 DEF last, front, n, p, all

(* do_cbcmac_chunk: w is authenticated, z is kept.                         *)
ChunkTo(S, c, data, len, w, z, r) ==
  /\ len \in 0 .. Len(data) /\ len % CipherBlock = 0 /\ Len(data) - len \in 1 .. CipherBlock
  /\ w \in Seq(S) /\ z \in Seq(S) /\ Len(w) = len /\ Len(z) = Len(data) - len /\ w \o z = data
  /\ SameStream(c, r) /\ r.ptr = Len(data) - len
  /\ r.mac = c.mac \o (IF c.ptr = CipherBlock THEN <<c.buf>> ELSE <<>>) \o BlocksOf(w)
  /\ r.buf \in [1 .. CipherBlock -> S] /\ First(r.buf, r.ptr) = z

(* do_cbcmac_chunk authenticates all but the last block, and keeps that    *)
(* one.                                                                    *)
LEMMA ChunkIs ==
  ASSUME NEW S, NEW c, Context(c), c.buf \in [1 .. CipherBlock -> S], c.ptr \in 0 .. CipherBlock,
         NEW data \in Seq(S), data # <<>>
  PROVE  LET len == Len(data) - LastPart(Len(data))
         IN  ChunkTo(S, c, data, len, First(data, len), Rest(data, len), DoCbcmacChunk(c, data))
<1> DEFINE k == Len(data)
           len == k - LastPart(k)
           w == First(data, len)
           z == Rest(data, len)
           mac == c.mac \o (IF c.ptr = CipherBlock THEN <<c.buf>> ELSE <<>>) \o BlocksOf(w)
           f == Overwritten(c.buf, 0, z)
           r == DoCbcmacChunk(c, data)
<1>1. k \in Nat /\ k # 0 /\ CipherBlock \in Nat
  BY LenProperties, EmptySeq, ModesAssumption
<1>2. len \in 0 .. k /\ len % CipherBlock = 0 /\ k - len \in 1 .. CipherBlock
  <2> HIDE DEF k
  <2> DEFINE l == LastPart(k)
  <2>1. l \in 1 .. CipherBlock /\ l <= k /\ k - l \in 0 .. k /\ (k - l) % CipherBlock = 0
    BY <1>1, LastPartIs
  <2> HIDE DEF l
  <2>2. k - (k - l) = l
    BY <1>1, <2>1
  <2> QED BY <2>1, <2>2 DEF l
<1>3. r = WithMac(c, mac, f, k - len)
  BY DEF DoCbcmacChunk, WithMac
<1> HIDE DEF len, r
<1>4. w \in Seq(S) /\ z \in Seq(S) /\ Len(w) = len /\ Len(z) = k - len /\ w \o z = data
  <2>1. len \in 0 .. Len(data)
    BY <1>2
  <2>2. w \in Seq(S) /\ z \in Seq(S) /\ Len(w) = len /\ Len(z) = Len(data) - len
    BY <2>1, FirstRest
  <2>3. w \o z = data
    BY <2>1, FirstThenRest
  <2> QED BY <2>2, <2>3
<1> HIDE DEF w, z, k
<1>5. f \in [1 .. CipherBlock -> S] /\ First(f, k - len) = z
  <2>1. 0 \in 0 .. CipherBlock /\ 0 + Len(z) <= CipherBlock /\ 0 + Len(z) = k - len
    BY <1>1, <1>2, <1>4
  <2>2. c.buf \in [1 .. CipherBlock -> S] /\ z \in Seq(S)
    BY <1>4
  <2>3. /\ Overwritten(c.buf, 0, z) \in [1 .. CipherBlock -> S]
        /\ First(Overwritten(c.buf, 0, z), 0 + Len(z)) = First(c.buf, 0) \o z
    <3> DEFINE b == c.buf
    <3>1. b \in [1 .. CipherBlock -> S] /\ z \in Seq(S)
      BY <2>2
    <3> HIDE DEF b
    <3>2. /\ Overwritten(b, 0, z) \in [1 .. CipherBlock -> S]
          /\ First(Overwritten(b, 0, z), 0 + Len(z)) = First(b, 0) \o z
      BY <2>1, <3>1, OverwrittenIs
    <3> QED BY <3>2 DEF b
  <2>4. First(c.buf, 0) = <<>> /\ <<>> \o z = z
    BY <2>2, BlockIsSeq, ConcatEmptySeq
  <2> QED BY <2>1, <2>3, <2>4
<1> HIDE DEF mac, f
<1>6. SameStream(c, r) /\ r.mac = mac /\ r.buf = f /\ r.ptr = k - len
  BY <1>3, WithMacIs
<1>7. ChunkTo(S, c, data, len, w, z, r)
  BY <1>2, <1>4, <1>5, <1>6 DEF k, mac, ChunkTo
<1> QED BY <1>7 DEF k, len, w, z, r

(* After whole blocks or a full one it goes on with what was gathered.     *)
LEMMA ChunkGathers ==
  ASSUME NEW S, NEW c, Context(c), NEW s, NEW data \in Seq(S)
  PROVE  GatheredIn(S, c, s) /\ c.ptr \in {0, CipherBlock}
         => /\ GatheredIn(S, DoCbcmacChunk(c, data), s \o data) /\ SameStream(c, DoCbcmacChunk(c, data))
            /\ data = <<>> => DoCbcmacChunk(c, data) = c
            /\ data # <<>> => DoCbcmacChunk(c, data).ptr \in 1 .. CipherBlock
<1> DEFINE r == DoCbcmacChunk(c, data)
           len == Len(data) - LastPart(Len(data))
           w == First(data, len)
           z == Rest(data, len)
<1>0. SUFFICES ASSUME GatheredIn(S, c, s), c.ptr \in {0, CipherBlock}
               PROVE  /\ GatheredIn(S, r, s \o data) /\ SameStream(c, r)
                      /\ data = <<>> => r = c
                      /\ data # <<>> => r.ptr \in 1 .. CipherBlock
  OBVIOUS
<1>1. /\ Gathered(S, c.mac, c.buf, c.ptr, s) /\ s \in Seq(S) /\ c.buf \in [1 .. CipherBlock -> S]
      /\ c.ptr \in 0 .. CipherBlock /\ CipherBlock \in Nat \ {0}
  BY <1>0, ModesAssumption DEF GatheredIn, Gathered
<1>2. CASE data = <<>>
  <2>1. r = c
    BY <1>2 DEF DoCbcmacChunk
  <2>2. s \o data = s
    BY <1>1, <1>2, ConcatEmptySeq
  <2> QED BY <1>0, <1>2, <2>1, <2>2 DEF SameStream, SameKeys
<1>3. CASE data # <<>>
  <2>1. /\ len \in 0 .. Len(data) /\ len % CipherBlock = 0 /\ Len(data) - len \in 1 .. CipherBlock
        /\ w \in Seq(S) /\ z \in Seq(S) /\ Len(w) = len /\ Len(z) = Len(data) - len /\ w \o z = data
        /\ SameStream(c, r) /\ r.ptr = Len(data) - len
        /\ r.mac = c.mac \o (IF c.ptr = CipherBlock THEN <<c.buf>> ELSE <<>>) \o BlocksOf(w)
        /\ r.buf \in [1 .. CipherBlock -> S] /\ First(r.buf, r.ptr) = z
    <3>1. ChunkTo(S, c, data, len, w, z, r)
      BY <1>1, <1>3, ChunkIs
    <3> HIDE DEF r, len, w, z
    <3> QED BY <3>1 DEF ChunkTo
  <2> HIDE DEF r, len, w, z
  <2>2. (IF c.ptr = CipherBlock THEN <<c.buf>> ELSE <<>>) = (IF c.ptr = 0 THEN <<>> ELSE <<c.buf>>)
    BY <1>0, <1>1
  <2>3. /\ Len(w) % CipherBlock = 0 /\ Len(z) <= CipherBlock /\ First(r.buf, Len(z)) = z /\ Len(z) = r.ptr
    BY <1>1, <2>1
  <2>4. Gathered(S, (c.mac \o (IF c.ptr = 0 THEN <<>> ELSE <<c.buf>>)) \o BlocksOf(w), r.buf, Len(z), (s \o w) \o z)
    <3> DEFINE f == r.buf
    <3>1. f \in [1 .. CipherBlock -> S] /\ First(f, Len(z)) = z
      BY <2>1, <2>3
    <3> HIDE DEF f
    <3>2. Gathered(S, (c.mac \o (IF c.ptr = 0 THEN <<>> ELSE <<c.buf>>)) \o BlocksOf(w), f, Len(z), (s \o w) \o z)
      <4>1. /\ Gathered(S, c.mac, c.buf, c.ptr, s) /\ c.ptr \in {0, CipherBlock} /\ w \in Seq(S) /\ z \in Seq(S)
            /\ Len(w) % CipherBlock = 0 /\ Len(z) <= CipherBlock
        BY <1>0, <1>1, <2>1, <2>3
      <4> QED BY <3>1, <4>1, GatherNext, SMTT(30)
    <3> QED BY <3>2 DEF f
  <2>5. (s \o w) \o z = s \o data
    <3>1. (s \o w) \o z = s \o (w \o z)
      <4>1. s \in Seq(S) /\ w \in Seq(S) /\ z \in Seq(S)
        BY <1>1, <2>1
      <4>2. ThreeJoined(s, w, z)
        BY <4>1, JoinThree
      <4> QED BY <4>2 DEF ThreeJoined
    <3> QED BY <2>1, <3>1
  <2>6. GatheredIn(S, r, s \o data)
    BY <2>1, <2>2, <2>3, <2>4, <2>5 DEF GatheredIn
  <2> QED BY <1>3, <2>1, <2>6
<1> QED BY <1>2, <1>3

(* do_pad                                                                  *)
LEMMA PadIs ==
  ASSUME NEW S, BlockBytes(S), NEW c, Context(c), c.buf \in [1 .. CipherBlock -> S], c.ptr \in 0 .. CipherBlock
  PROVE  LET r == DoPad(c)
             ending == Ending(First(c.buf, c.ptr), c.ptr)
         IN  /\ SameStream(c, r) /\ r.ptr = c.ptr /\ r.mac = Append(c.mac, ending) /\ r.buf = ending
             /\ ending \in [1 .. CipherBlock -> S]
<1> DEFINE last == First(c.buf, c.ptr)
           ending == Ending(last, c.ptr)
           r == DoPad(c)
           mac == Append(c.mac, ending)
<1>1. c.buf \in Seq(S) /\ Len(c.buf) = CipherBlock /\ First(c.buf, CipherBlock) = c.buf
  BY BlockIsSeq
<1>2. r = WithMac(c, mac, ending, c.ptr)
  <2>1. CASE c.ptr = CipherBlock
    <3>1. ending = XorBytes(c.buf, Named("L2", CipherBlock))
      BY <1>1, <2>1 DEF Ending
    <3>2. DoPad(c) = [c EXCEPT !.buf = XorBytes(c.buf, Named("L2", CipherBlock)),
                               !.mac = Append(@, XorBytes(c.buf, Named("L2", CipherBlock)))]
      BY <2>1 DEF DoPad
    <3> HIDE DEF ending
    <3>3. DoPad(c) = [c EXCEPT !.buf = ending, !.mac = Append(@, ending)]
      BY <3>1, <3>2
    <3>4. DoPad(c) = [c EXCEPT !.mac = mac, !.buf = ending, !.ptr = c.ptr]
      BY <3>3 DEF Context
    <3> QED BY <3>4 DEF WithMac
  <2>2. CASE c.ptr # CipherBlock
    <3>1. ending = XorBytes(Filled(Append(First(c.buf, c.ptr), {<<"0x80", 0>>})), Named("L4", CipherBlock))
      BY <2>2 DEF Ending
    <3>2. DoPad(c) = [c EXCEPT !.buf = XorBytes(Filled(Append(First(c.buf, c.ptr), {<<"0x80", 0>>})), Named("L4", CipherBlock)),
                               !.mac = Append(@, XorBytes(Filled(Append(First(c.buf, c.ptr), {<<"0x80", 0>>})), Named("L4", CipherBlock)))]
      BY <2>2 DEF DoPad
    <3> HIDE DEF ending
    <3>3. DoPad(c) = [c EXCEPT !.buf = ending, !.mac = Append(@, ending)]
      BY <3>1, <3>2
    <3>4. DoPad(c) = [c EXCEPT !.mac = mac, !.buf = ending, !.ptr = c.ptr]
      BY <3>3 DEF Context
    <3> QED BY <3>4 DEF WithMac
  <2> QED BY <2>1, <2>2
<1>3. last \in Seq(S) /\ Len(last) = c.ptr
  <2> DEFINE b == c.buf
             a == c.ptr
  <2>1. b \in Seq(S) /\ a \in 0 .. Len(b)
    BY <1>1
  <2> HIDE DEF a, b
  <2>2. First(b, a) \in Seq(S) /\ Len(First(b, a)) = a
    BY <2>1, FirstRest
  <2> QED BY <2>2 DEF a, b
<1>4. ending \in [1 .. CipherBlock -> S]
  <2> DEFINE a == c.ptr
  <2>1. last \in Seq(S) /\ a \in 0 .. CipherBlock /\ Len(last) = a
    BY <1>3
  <2> HIDE DEF last, a
  <2>2. Ending(last, a) \in [1 .. CipherBlock -> S]
    BY <2>1, EndingIs
  <2> QED BY <2>2 DEF a
<1> HIDE DEF r, mac, ending
<1>5. SameStream(c, r) /\ r.mac = mac /\ r.buf = ending /\ r.ptr = c.ptr
  BY <1>2, WithMacIs
<1> QED BY <1>4, <1>5 DEF r, mac, ending

(* do_pad on the last block gives the OMAC of what was gathered.           *)
LEMMA PadGathered ==
  ASSUME NEW S, BlockBytes(S), NEW c, Context(c), NEW val \in Int, NEW t \in Seq(S)
  PROVE  GatheredIn(S, c, OmacFirst(val) \o t) /\ c.ptr # 0
         => /\ SameStream(c, DoPad(c)) /\ DoPad(c).mac = OmacOf(val, t) /\ DoPad(c).ptr = c.ptr
            /\ DoPad(c).buf \in [1 .. CipherBlock -> S]
<1> DEFINE all == OmacFirst(val) \o t
           r == DoPad(c)
           ending == Ending(First(c.buf, c.ptr), c.ptr)
<1>0. SUFFICES ASSUME GatheredIn(S, c, all), c.ptr # 0
               PROVE  /\ SameStream(c, r) /\ r.mac = OmacOf(val, t) /\ r.ptr = c.ptr
                      /\ r.buf \in [1 .. CipherBlock -> S]
  OBVIOUS
<1>1. /\ all \in Seq(S) /\ c.buf \in [1 .. CipherBlock -> S] /\ c.ptr \in 0 .. CipherBlock /\ c.ptr <= Len(all)
      /\ (Len(all) - c.ptr) % CipherBlock = 0 /\ Len(all) \in Nat
      /\ c.mac = BlocksOf(First(all, Len(all) - c.ptr)) /\ First(c.buf, c.ptr) = Rest(all, Len(all) - c.ptr)
  <2> HIDE DEF all
  <2>1. /\ all \in Seq(S) /\ c.buf \in [1 .. CipherBlock -> S] /\ c.ptr \in 0 .. CipherBlock /\ c.ptr <= Len(all)
        /\ (Len(all) - c.ptr) % CipherBlock = 0
        /\ c.mac = BlocksOf(First(all, Len(all) - c.ptr)) /\ First(c.buf, c.ptr) = Rest(all, Len(all) - c.ptr)
    BY <1>0 DEF GatheredIn, Gathered
  <2> QED BY <2>1, LenProperties
<1>2. LastPart(Len(all)) = c.ptr
  <2> DEFINE n == Len(all)
             p == c.ptr
  <2>1. n \in Nat /\ p \in 1 .. CipherBlock /\ p <= n /\ (n - p) % CipherBlock = 0
    <3>1. p \in 0 .. CipherBlock /\ p # 0 /\ CipherBlock \in Nat
      BY <1>0, <1>1, ModesAssumption
    <3> QED BY <1>1, <3>1
  <2> HIDE DEF n, p
  <2>2. LastPart(n) = p
    BY <2>1, LastPartOnly
  <2> QED BY <2>2 DEF n, p
<1>3. OmacOf(val, t) = Append(BlocksOf(First(all, Len(all) - LastPart(Len(all)))),
                              Ending(Rest(all, Len(all) - LastPart(Len(all))), LastPart(Len(all))))
  BY OmacIs
<1>4. SameStream(c, r) /\ r.ptr = c.ptr /\ r.mac = Append(c.mac, ending) /\ r.buf = ending /\ ending \in [1 .. CipherBlock -> S]
  BY <1>1, PadIs
<1> HIDE DEF all, r
<1> QED BY <1>1, <1>2, <1>3, <1>4

(* A block that has been authenticated, or that waits for it.              *)
LEMMA FirstGathered ==
  ASSUME NEW S, BlockBytes(S), NEW c, c.buf \in [1 .. CipherBlock -> S], NEW val \in Int
  PROVE  /\ c.mac = <<OmacFirst(val)>> /\ c.ptr = 0 => GatheredIn(S, c, OmacFirst(val))
         /\ c.mac = <<>> /\ c.buf = OmacFirst(val) /\ c.ptr = CipherBlock => GatheredIn(S, c, OmacFirst(val))
<1> DEFINE s == OmacFirst(val)
<1>1. s \in Seq(S) /\ Len(s) = CipherBlock /\ s \in [1 .. CipherBlock -> S] /\ CipherBlock \in Nat \ {0}
  BY OmacFirstIs, ModesAssumption
<1> HIDE DEF s
<1>2. First(s, Len(s)) = s /\ Rest(s, Len(s)) = <<>> /\ First(s, 0) = <<>> /\ Rest(s, 0) = s
  BY <1>1, FirstAll
<1>3. BlocksOf(<<>>) = <<>> /\ BlocksOf(s) = <<s>> /\ First(c.buf, 0) = <<>>
  BY <1>1, FewBlocks, BlockIsSeq
<1>4. CipherBlock % CipherBlock = 0 /\ 0 % CipherBlock = 0
  BY <1>1
<1>5. CipherBlock - 0 = CipherBlock /\ CipherBlock - CipherBlock = 0 /\ 0 \in 0 .. CipherBlock /\ CipherBlock \in 0 .. CipherBlock
  BY <1>1
<1>6. c.mac = <<s>> /\ c.ptr = 0 => GatheredIn(S, c, s)
  BY <1>1, <1>2, <1>3, <1>4, <1>5 DEF Gathered, GatheredIn
<1>7. c.mac = <<>> /\ c.buf = s /\ c.ptr = CipherBlock => GatheredIn(S, c, s)
  BY <1>1, <1>2, <1>3, <1>4, <1>5 DEF Gathered, GatheredIn
<1> QED BY <1>6, <1>7 DEF s

(* omac_start                                                              *)
LEMMA StartIs ==
  ASSUME NEW S, BlockBytes(S), NEW c, Context(c), NEW val \in Int
  PROVE  /\ GatheredIn(S, OmacStart(c, val), OmacFirst(val)) /\ SameStream(c, OmacStart(c, val))
         /\ OmacStart(c, val).ptr = CipherBlock
<1> DEFINE r == OmacStart(c, val)
<1>1. r = WithMac(c, <<>>, OmacFirst(val), CipherBlock)
  BY DEF OmacStart, WithMac
<1> HIDE DEF r
<1>2. SameStream(c, r) /\ r.mac = <<>> /\ r.buf = OmacFirst(val) /\ r.ptr = CipherBlock
  BY <1>1, WithMacIs
<1>3. r.buf \in [1 .. CipherBlock -> S]
  BY <1>2, OmacFirstIs
<1>4. GatheredIn(S, r, OmacFirst(val))
  BY <1>2, <1>3, FirstGathered
<1> QED BY <1>2, <1>4 DEF r

(* br_eax_aad_inject, of what fits into the block or after a full one.     *)
LEMMA EaxInjects ==
  ASSUME NEW S, NEW c, Context(c), NEW s, NEW data \in Seq(S)
  PROVE  GatheredIn(S, c, s) /\ (c.ptr = CipherBlock \/ c.ptr + Len(data) <= CipherBlock)
         => /\ GatheredIn(S, EaxInject(c, data), s \o data) /\ SameStream(c, EaxInject(c, data))
            /\ EaxInject(c, data).ptr = 0 => c.ptr = 0 /\ data = <<>>
<1> DEFINE r == EaxInject(c, data)
           p == c.ptr
           k == Len(data)
<1>0. SUFFICES ASSUME GatheredIn(S, c, s), p = CipherBlock \/ p + k <= CipherBlock
               PROVE  GatheredIn(S, r, s \o data) /\ SameStream(c, r) /\ (r.ptr = 0 => p = 0 /\ data = <<>>)
  OBVIOUS
<1>1. /\ Gathered(S, c.mac, c.buf, p, s) /\ c.buf \in [1 .. CipherBlock -> S] /\ p \in 0 .. CipherBlock
      /\ CipherBlock \in Nat \ {0} /\ k \in Nat
  BY <1>0, ModesAssumption, LenProperties DEF GatheredIn, Gathered
<1>2. CASE p < CipherBlock
  <2>1. p + k <= CipherBlock /\ k <= CipherBlock - p
    BY <1>0, <1>1, <1>2
  <2>2. r = WithBlock(c, Overwritten(c.buf, p, data), p + k)
    BY <1>2, <2>1 DEF EaxInject, WithBlock
  <2> HIDE DEF r
  <2>3. SameStream(c, r) /\ r.mac = c.mac /\ r.buf = Overwritten(c.buf, p, data) /\ r.ptr = p + k
    BY <2>2, WithBlockIs DEF SameStream
  <2>4. Gathered(S, c.mac, Overwritten(c.buf, p, data), p + k, s \o data)
    <3>1. p + Len(data) <= CipherBlock
      BY <2>1
    <3> QED BY <1>1, <3>1, GatherIn
  <2>5. r.ptr = 0 => p = 0 /\ data = <<>>
    BY <1>1, <2>3, EmptySeq, LenProperties
  <2> QED BY <2>3, <2>4, <2>5 DEF GatheredIn
<1>3. CASE p = CipherBlock
  <2>1. AtMost(k, CipherBlock - p) = 0 /\ CipherBlock - p = 0
    BY <1>1, <1>3 DEF AtMost
  <2>2. First(data, 0) = <<>> /\ Rest(data, 0) = data
    BY FirstAll
  <2>3. Overwritten(c.buf, p, <<>>) = c.buf
    BY <1>1 DEF Overwritten
  <2> DEFINE c2 == WithBlock(c, c.buf, p)
  <2>4. [c EXCEPT !.buf = c.buf] = c2
    BY DEF Context, Fields, WithBlock
  <2>5. r = DoCbcmacChunk([c EXCEPT !.buf = Overwritten(@, p, First(data, AtMost(k, CipherBlock - p)))],
                          Rest(data, CipherBlock - p))
    BY <1>1, <1>3 DEF EaxInject
  <2> HIDE DEF r
  <2>6. r = DoCbcmacChunk(c2, data)
    BY <2>1, <2>2, <2>3, <2>4, <2>5
  <2> HIDE DEF c2
  <2>8. SameStream(c, c2) /\ c2.mac = c.mac /\ c2.buf = c.buf /\ c2.ptr = p
    BY WithBlockIs DEF SameStream, c2
  <2>7. /\ GatheredIn(S, r, s \o data) /\ SameStream(c2, r) /\ (data = <<>> => r = c2)
        /\ data # <<>> => r.ptr \in 1 .. CipherBlock
    <3>1. c2.ptr \in {0, CipherBlock} /\ GatheredIn(S, c2, s) /\ Context(c2)
      BY <1>0, <1>3, <2>8 DEF GatheredIn, SameStream, SameKeys
    <3> QED BY <2>6, <3>1, ChunkGathers
  <2>9. SameStream(c, r)
    BY <2>7, <2>8 DEF SameStream, SameKeys
  <2>10. r.ptr # 0
    BY <1>1, <1>3, <2>7, <2>8
  <2> QED BY <2>7, <2>9, <2>10
<1> QED BY <1>1, <1>2, <1>3

(* What it does in any case.                                               *)
LEMMA EaxInjectKeeps ==
  ASSUME NEW S, NEW c, Context(c), c.buf \in [1 .. CipherBlock -> S], c.ptr \in 0 .. CipherBlock,
         NEW data \in Seq(S)
  PROVE  LET r == EaxInject(c, data)
         IN  SameStream(c, r) /\ r.buf \in [1 .. CipherBlock -> S] /\ r.ptr \in 0 .. CipherBlock
<1> DEFINE r == EaxInject(c, data)
           k == Len(data)
           p == c.ptr
           room == CipherBlock - p
           x == First(data, AtMost(k, room))
           rest == Rest(data, room)
           c1 == [c EXCEPT !.buf = Overwritten(@, p, x)]
<1>0. SUFFICES SameStream(c, r) /\ r.buf \in [1 .. CipherBlock -> S] /\ r.ptr \in 0 .. CipherBlock
  OBVIOUS
<1>1. k \in Nat /\ room \in Nat /\ p \in 0 .. CipherBlock /\ CipherBlock \in Nat /\ p + room = CipherBlock
  BY ModesAssumption, LenProperties
<1>2. CASE p < CipherBlock /\ k <= room
  <2>1. r = WithBlock(c, Overwritten(c.buf, p, data), p + k)
    BY <1>2 DEF EaxInject, WithBlock
  <2>2. Overwritten(c.buf, p, data) \in [1 .. CipherBlock -> S] /\ p + k \in 0 .. CipherBlock
    <3>1. p + Len(data) <= CipherBlock /\ p + k \in 0 .. CipherBlock
      BY <1>1, <1>2
    <3>2. Overwritten(c.buf, p, data) \in [1 .. CipherBlock -> S]
      BY <1>1, <3>1, OverwrittenIs
    <3> QED BY <3>1, <3>2
  <2> HIDE DEF r
  <2>3. SameStream(c, r) /\ r.buf = Overwritten(c.buf, p, data) /\ r.ptr = p + k
    BY <2>1, WithBlockIs DEF SameStream
  <2> QED BY <2>2, <2>3
<1>3. CASE ~(p < CipherBlock /\ k <= room)
  <2>1. r = DoCbcmacChunk(c1, rest)
    BY <1>3 DEF EaxInject
  <2>2. AtMost(k, room) \in 0 .. k /\ AtMost(k, room) <= room /\ room \in 0 .. k
    <3>1. AtMost(k, room) \in 0 .. k /\ AtMost(k, room) <= room
      BY <1>1, AtMostIs
    <3> QED BY <1>1, <1>3, <3>1
  <2>3. x \in Seq(S) /\ p + Len(x) <= CipherBlock /\ rest \in Seq(S)
    <3>1. x \in Seq(S) /\ Len(x) = AtMost(k, room)
      BY <2>2, FirstRest
    <3>2. rest \in Seq(S)
      <4> HIDE DEF room
      <4> QED BY <2>2, FirstRest
    <3> QED BY <1>1, <2>2, <3>1, <3>2
  <2> HIDE DEF x, rest, r
  <2>4. Overwritten(c.buf, p, x) \in [1 .. CipherBlock -> S]
    BY <1>1, <2>3, OverwrittenIs
  <2>5. c1 = WithBlock(c, Overwritten(c.buf, p, x), p)
    BY DEF WithBlock, Context, Fields
  <2> HIDE DEF c1
  <2>6. SameStream(c, c1) /\ c1.buf \in [1 .. CipherBlock -> S] /\ c1.ptr = p
    BY <2>4, <2>5, WithBlockIs DEF SameStream
  <2>7. CASE rest = <<>>
    <3>1. r = c1
      BY <2>1, <2>7 DEF DoCbcmacChunk
    <3> QED BY <1>1, <2>6, <3>1
  <2>8. CASE rest # <<>>
    <3> DEFINE len == Len(rest) - LastPart(Len(rest))
    <3>1. Context(c1) /\ c1.buf \in [1 .. CipherBlock -> S] /\ c1.ptr \in 0 .. CipherBlock
      BY <1>1, <2>6 DEF SameStream, SameKeys
    <3>2. ChunkTo(S, c1, rest, len, First(rest, len), Rest(rest, len), r)
      BY <2>1, <2>3, <2>8, <3>1, ChunkIs
    <3> HIDE DEF len
    <3>3. SameStream(c1, r) /\ r.buf \in [1 .. CipherBlock -> S] /\ r.ptr \in 0 .. CipherBlock
      BY <1>1, <3>2 DEF ChunkTo
    <3> QED BY <2>6, <3>3 DEF SameStream, SameKeys
  <2> QED BY <2>7, <2>8
<1> QED BY <1>2, <1>3

(* The context before a reset has the types of a context.                  *)
LEMMA UsedIs == Context(UsedContext) /\ UsedContext.buf \in [1 .. CipherBlock -> PlainBytes] /\ UsedContext.ptr = 1
<1>1. Named("old", CipherBlock) \in [1 .. CipherBlock -> PlainBytes]
  <2>1. "old" \in Names /\ CipherBlock \in Nat
    BY ModesAssumption DEF Names
  <2>2. Named("old", CipherBlock) \in Seq(PlainBytes) /\ Len(Named("old", CipherBlock)) = CipherBlock
    BY <2>1, NamedAre
  <2> QED BY <2>2, SeqIsBlock
<1>2. UsedContext.buf = Named("old", CipherBlock) /\ UsedContext.ptr = 1
  BY DEF UsedContext
<1>3. Context(UsedContext)
  BY DEF UsedContext, Context, Fields
<1> QED BY <1>1, <1>2, <1>3

(* The OMAC of a nonce is a base of counters.                              *)
LEMMA OmacTyped ==
  ASSUME NEW nonce \in Seq(PlainBytes)
  PROVE  OmacOf(0, nonce) \in Counters
BY PlainAndAll, OmacIs DEF Counters

(* The MAC of the nonce, from a context that has been used.                *)
LEMMA NonceMac ==
  ASSUME NEW c, Context(c), c.buf \in [1 .. CipherBlock -> PlainBytes], NEW nonce \in Seq(PlainBytes)
  PROVE  LET n == DoPad(DoCbcmacChunk(OmacStart(c, 0), nonce))
         IN  SameStream(c, n) /\ n.mac = OmacOf(0, nonce) /\ n.buf \in [1 .. CipherBlock -> PlainBytes]
<1> DEFINE c1 == OmacStart(c, 0)
           c2 == DoCbcmacChunk(c1, nonce)
           n == DoPad(c2)
<1>1. BlockBytes(PlainBytes) /\ CipherBlock \in Nat \ {0}
  BY PlainAndAll, ModesAssumption
<1>2. GatheredIn(PlainBytes, c1, OmacFirst(0)) /\ SameStream(c, c1) /\ c1.ptr = CipherBlock /\ Context(c1)
  <2>1. GatheredIn(PlainBytes, c1, OmacFirst(0)) /\ SameStream(c, c1) /\ c1.ptr = CipherBlock
    BY <1>1, StartIs
  <2> QED BY <2>1 DEF SameStream, SameKeys
<1> HIDE DEF c1
<1>3. /\ GatheredIn(PlainBytes, c2, OmacFirst(0) \o nonce) /\ SameStream(c1, c2) /\ c2.ptr # 0 /\ Context(c2)
  <2>1. /\ GatheredIn(PlainBytes, c2, OmacFirst(0) \o nonce) /\ SameStream(c1, c2)
        /\ (nonce = <<>> => c2 = c1) /\ (nonce # <<>> => c2.ptr \in 1 .. CipherBlock)
    BY <1>2, ChunkGathers
  <2> HIDE DEF c2
  <2>2. c2.ptr # 0
    BY <1>1, <1>2, <2>1
  <2> QED BY <2>1, <2>2 DEF SameStream, SameKeys
<1> HIDE DEF c2
<1>4. SameStream(c2, n) /\ n.mac = OmacOf(0, nonce) /\ n.buf \in [1 .. CipherBlock -> PlainBytes]
  BY <1>1, <1>3, PadGathered
<1> HIDE DEF n
<1>5. SameStream(c, n)
  BY <1>2, <1>3, <1>4 DEF SameStream, SameKeys
<1> QED BY <1>4, <1>5 DEF n, c2, c1

(* From a captured state, the OMAC of the nonce is the same.               *)
LEMMA CapturedNonceIs ==
  ASSUME NEW c, Context(c), c.buf \in [1 .. CipherBlock -> PlainBytes], NEW nonce \in Seq(PlainBytes),
         NEW st, st[1] = <<OmacFirst(0)>>
  PROVE  LET n == CapturedNonce(c, st, nonce)
         IN  SameStream(c, n) /\ n.mac = OmacOf(0, nonce) /\ n.buf \in [1 .. CipherBlock -> PlainBytes]
<1> DEFINE c1 == [c EXCEPT !.mac = st[1], !.ptr = 0]
           c2 == DoCbcmacChunk(c1, nonce)
           n == DoPad(c2)
           r == CapturedNonce(c, st, nonce)
<1>1. BlockBytes(PlainBytes) /\ CipherBlock \in Nat \ {0}
  BY PlainAndAll, ModesAssumption
<1>0. SUFFICES SameStream(c, r) /\ r.mac = OmacOf(0, nonce) /\ r.buf \in [1 .. CipherBlock -> PlainBytes]
  OBVIOUS
<1>2. CASE nonce = <<>>
  <2>1. DoCbcmacChunk(OmacStart(c, 0), nonce) = OmacStart(c, 0)
    BY <1>2 DEF DoCbcmacChunk
  <2>2. r = DoPad(DoCbcmacChunk(OmacStart(c, 0), nonce))
    BY <1>2, <2>1 DEF CapturedNonce
  <2> HIDE DEF r
  <2> QED BY <2>2, NonceMac
<1>3. CASE nonce # <<>>
  <2>1. r = n
    BY <1>3 DEF CapturedNonce
  <2> HIDE DEF r
  <2>2. c1 = WithMac(c, <<OmacFirst(0)>>, c.buf, 0)
    BY DEF WithMac, Context, Fields
  <2> HIDE DEF c1
  <2>3. SameStream(c, c1) /\ c1.mac = <<OmacFirst(0)>> /\ c1.buf = c.buf /\ c1.ptr = 0 /\ Context(c1)
    BY <2>2, WithMacIs DEF SameStream, SameKeys
  <2>4. GatheredIn(PlainBytes, c1, OmacFirst(0))
    BY <1>1, <2>3, FirstGathered
  <2>5. /\ GatheredIn(PlainBytes, c2, OmacFirst(0) \o nonce) /\ SameStream(c1, c2) /\ c2.ptr # 0 /\ Context(c2)
    <3>1. /\ GatheredIn(PlainBytes, c2, OmacFirst(0) \o nonce) /\ SameStream(c1, c2)
          /\ (nonce # <<>> => c2.ptr \in 1 .. CipherBlock)
      BY <2>3, <2>4, ChunkGathers
    <3> HIDE DEF c2
    <3> QED BY <1>1, <1>3, <3>1 DEF SameStream, SameKeys
  <2> HIDE DEF c2
  <2>6. SameStream(c2, n) /\ n.mac = OmacOf(0, nonce) /\ n.buf \in [1 .. CipherBlock -> PlainBytes]
    BY <1>1, <2>5, PadGathered
  <2> HIDE DEF n
  <2> QED BY <2>1, <2>3, <2>5, <2>6 DEF SameStream, SameKeys
<1> QED BY <1>2, <1>3

(* br_eax_reset                                                            *)
LEMMA EaxResets ==
  ASSUME NEW c, Context(c), c.buf \in [1 .. CipherBlock -> PlainBytes], NEW nonce \in Seq(PlainBytes)
  PROVE  LET r == EaxReset(c, nonce)
         IN  /\ Context(r) /\ r.nonce = OmacOf(0, nonce) /\ r.headFlag = 0
             /\ GatheredIn(Bytes, r, OmacFirst(1)) /\ r.ptr = CipherBlock
<1> DEFINE n == DoPad(DoCbcmacChunk(OmacStart(c, 0), nonce))
           n1 == OmacStart(n, 1)
           r == EaxReset(c, nonce)
<1>1. SameStream(c, n) /\ n.mac = OmacOf(0, nonce)
  BY NonceMac
<1>2. r = [n1 EXCEPT !.nonce = n.mac, !.headFlag = 0]
  BY DEF EaxReset
<1> HIDE DEF n, r
<1>3. GatheredIn(Bytes, n1, OmacFirst(1)) /\ SameStream(n, n1) /\ n1.ptr = CipherBlock
  <2>1. BlockBytes(Bytes) /\ Context(n)
    BY <1>1, PlainAndAll DEF SameStream, SameKeys
  <2> QED BY <2>1, StartIs
<1> HIDE DEF n1
<1>4. Context(n1)
  BY <1>3 DEF SameStream, SameKeys
<1>5. /\ Context(r) /\ r.nonce = n.mac /\ r.headFlag = 0 /\ r.mac = n1.mac /\ r.buf = n1.buf /\ r.ptr = n1.ptr
  BY <1>2, <1>4 DEF Context, Fields
<1>6. GatheredIn(Bytes, r, OmacFirst(1))
  BY <1>3, <1>5 DEF GatheredIn
<1> QED BY <1>1, <1>3, <1>5, <1>6 DEF r

(* br_eax_reset_pre_aad                                                    *)
LEMMA PreAadResets ==
  ASSUME NEW c, Context(c), c.buf \in [1 .. CipherBlock -> PlainBytes], NEW nonce \in Seq(PlainBytes)
  PROVE  LET r == EaxResetPreAad(c, EaxCapture, nonce)
         IN  /\ Context(r) /\ r.nonce = OmacOf(0, nonce) /\ r.headFlag = 1 /\ r.ctr = <<OmacFirst(2)>>
             /\ GatheredIn(Bytes, r, OmacFirst(1)) /\ r.ptr = 0
<1> DEFINE st == EaxCapture
           n == CapturedNonce(c, st, nonce)
           r == EaxResetPreAad(c, EaxCapture, nonce)
<1>1. st[1] = <<OmacFirst(0)>> /\ st[2] = <<OmacFirst(1)>> /\ st[3] = <<OmacFirst(2)>>
  BY DEF EaxCapture
<1>2. r = [n EXCEPT !.nonce = n.mac, !.mac = st[2], !.ptr = 0, !.ctr = st[3], !.headFlag = 1]
  BY DEF EaxResetPreAad
<1> HIDE DEF st, r
<1>3. SameStream(c, n) /\ n.mac = OmacOf(0, nonce) /\ n.buf \in [1 .. CipherBlock -> PlainBytes]
  BY <1>1, CapturedNonceIs
<1> HIDE DEF n
<1>4. Context(n)
  BY <1>3 DEF SameStream, SameKeys
<1>5. /\ Context(r) /\ r.nonce = n.mac /\ r.headFlag = 1 /\ r.ctr = st[3] /\ r.mac = st[2] /\ r.buf = n.buf /\ r.ptr = 0
  BY <1>2, <1>4 DEF Context, Fields
<1>6. GatheredIn(Bytes, r, OmacFirst(1))
  <2>1. r.buf \in [1 .. CipherBlock -> Bytes]
    BY <1>3, <1>5, PlainBlocks
  <2> QED BY <1>1, <1>5, <2>1, PlainAndAll, FirstGathered
<1> QED BY <1>1, <1>3, <1>5, <1>6 DEF r

(* br_eax_flip                                                             *)
LEMMA EaxFlips ==
  ASSUME NEW c, Context(c), c.buf \in [1 .. CipherBlock -> Bytes], c.ptr \in 0 .. CipherBlock
  PROVE  LET r == EaxFlip(c)
         IN  /\ Context(r) /\ r.nonce = c.nonce /\ r.ctr = c.nonce /\ r.next = 0 /\ r.head = DoPad(c).mac
             /\ c.headFlag = 1 /\ c.ctr = <<OmacFirst(2)>> => GatheredIn(Bytes, r, OmacFirst(2)) /\ r.ptr = 0
             /\ c.headFlag # 1 => GatheredIn(Bytes, r, OmacFirst(2)) /\ r.ptr = CipherBlock
<1> DEFINE c1 == WithMac(c, c.ctr, c.buf, 0)
           c2 == OmacStart(c, 2)
           begun == IF c.headFlag = 1 THEN c1 ELSE c2
           head == DoPad(c).mac
           r == EaxFlip(c)
<1>1. r = [begun EXCEPT !.head = head, !.ctr = c.nonce, !.next = 0]
  <2>1. [c EXCEPT !.mac = c.ctr, !.ptr = 0] = c1
    BY DEF WithMac, Context, Fields
  <2> QED BY <2>1 DEF EaxFlip
<1> HIDE DEF r, head
<1>2. /\ SameStream(c, c1) /\ c1.mac = c.ctr /\ c1.buf = c.buf /\ c1.ptr = 0
      /\ SameStream(c, c2) /\ GatheredIn(Bytes, c2, OmacFirst(2)) /\ c2.ptr = CipherBlock
  BY WithMacIs, StartIs, PlainAndAll
<1>3. c1.mac = <<OmacFirst(2)>> => GatheredIn(Bytes, c1, OmacFirst(2))
  <2>1. c1.buf \in [1 .. CipherBlock -> Bytes] /\ c1.ptr = 0
    BY <1>2
  <2> HIDE DEF c1
  <2> QED BY <2>1, PlainAndAll, FirstGathered
<1> HIDE DEF c1, c2
<1>4. Context(begun) /\ begun.nonce = c.nonce
  BY <1>2 DEF SameStream, SameKeys
<1>5. /\ Context(r) /\ r.nonce = begun.nonce /\ r.ctr = c.nonce /\ r.next = 0 /\ r.head = head
      /\ r.mac = begun.mac /\ r.buf = begun.buf /\ r.ptr = begun.ptr
  <2> HIDE DEF begun
  <2> QED BY <1>1, <1>4 DEF Context, Fields
<1>6. c.headFlag = 1 /\ c.ctr = <<OmacFirst(2)>> => GatheredIn(Bytes, r, OmacFirst(2)) /\ r.ptr = 0
  BY <1>2, <1>3, <1>5 DEF GatheredIn
<1>7. c.headFlag # 1 => GatheredIn(Bytes, r, OmacFirst(2)) /\ r.ptr = CipherBlock
  BY <1>2, <1>3, <1>5 DEF GatheredIn
<1> QED BY <1>4, <1>5, <1>6, <1>7 DEF r, head

WithPtr(c, p) == [c EXCEPT !.ptr = p]

(* What a change of ptr leaves alone.                                      *)
LEMMA WithPtrIs ==
  ASSUME NEW c, Context(c), NEW p
  PROVE  LET c2 == WithPtr(c, p)
         IN  SameStream(c, c2) /\ Context(c2) /\ c2.mac = c.mac /\ c2.buf = c.buf /\ c2.ptr = p
BY DEF Context, Fields, SameKeys, SameStream, WithPtr

(* The message begins after whole blocks, or after one that waits.         *)
LEMMA StartRuns ==
  ASSUME NEW c, c.ctr \in Counters, NEW head, GatheredIn(Bytes, c, head), c.ptr \in {0, CipherBlock},
         c.next \in Int, NEW keeps \in BOOLEAN
  PROVE  CtxRuns(keeps, head, c.next, 0, c)
<1> DEFINE first == c.next
           ctr == c.ctr
           cov == CoveredOf(keeps, ctr, first, 0)
<1>1. first \in Int /\ ctr \in Counters /\ head \in Seq(Bytes) /\ CipherBlock \in Nat \ {0}
  BY ModesAssumption DEF GatheredIn, Gathered
<1> HIDE DEF first, ctr
<1>2. cov = <<>>
  <2>1. cov \in Seq(Bytes) /\ Len(cov) = 0
    BY <1>1, CoveredIs
  <2> HIDE DEF cov
  <2> QED BY <2>1, EmptySeq
<1> HIDE DEF cov
<1>3. head \o cov = head
  BY <1>1, <1>2, ConcatEmptySeq
<1>4. Keyed(c.buf, c.ptr, ctr, first, first, 0)
  <2>1. BlockEnd(c.ptr, 0) = 0 /\ c.ptr \in 0 .. CipherBlock
    BY <1>1 DEF BlockEnd
  <2>2. 0 \div CipherBlock = 0 /\ 0 % CipherBlock = 0
    BY <1>1
  <2>3. c.ptr # 0 => \A i \in 1 .. CipherBlock - c.ptr : c.buf[c.ptr + i] = KeyByte(ctr, first, 0 + i)
    BY <1>1
  <2> QED BY <1>1, <2>1, <2>2, <2>3 DEF Keyed
<1>5. Gathered(Bytes, c.mac, c.buf, c.ptr, head \o cov)
  BY <1>3 DEF GatheredIn
<1>6. Running(keeps, head, ctr, first, 0, c.mac, c.buf, c.ptr, first)
  BY <1>1, <1>4, <1>5 DEF Running, cov
<1> QED BY <1>6 DEF CtxRuns, first, ctr

(* How much of the block is in use follows from what was gathered.         *)
LEMMA PtrIs ==
  ASSUME NEW S, NEW c, NEW s, GatheredIn(S, c, s), c.ptr < CipherBlock
  PROVE  c.ptr = Len(s) % CipherBlock
<1> DEFINE n == Len(s)
           p == c.ptr
           q == (n - p) \div CipherBlock
<1>1. n \in Nat /\ p \in 0 .. CipherBlock - 1 /\ (n - p) % CipherBlock = 0 /\ CipherBlock \in Nat \ {0} /\ n - p \in Nat
  <2>1. s \in Seq(S) /\ p \in 0 .. CipherBlock /\ p <= n /\ (n - p) % CipherBlock = 0
    BY DEF GatheredIn, Gathered
  <2>2. n \in Nat /\ CipherBlock \in Nat \ {0}
    BY <2>1, LenProperties, ModesAssumption
  <2>3. p < CipherBlock
    OBVIOUS
  <2> HIDE DEF n, p
  <2> QED BY <2>1, <2>2, <2>3
<1> HIDE DEF n, p
<1>2. n - p = CipherBlock * q + 0 /\ q \in Int
  <2> DEFINE d == n - p
  <2>1. d \in Nat /\ d % CipherBlock = 0
    BY <1>1
  <2> HIDE DEF d
  <2>2. d = CipherBlock * (d \div CipherBlock) + 0 /\ d \div CipherBlock \in Nat
    BY <2>1, CipherBlocks
  <2> QED BY <2>2 DEF d
<1> HIDE DEF q
<1>3. n = CipherBlock * q + p
  <2> DEFINE y == CipherBlock * q
  <2>1. y \in Int /\ n - p = y + 0 /\ n \in Int /\ p \in Int
    BY <1>1, <1>2
  <2> HIDE DEF y
  <2>2. n = y + p
    BY <2>1
  <2> QED BY <2>2 DEF y
<1>4. n % CipherBlock = p
  BY <1>1, <1>2, <1>3, RestUnique
<1> QED BY <1>4 DEF n, p

(* How much of the block is in use, behind a head of whole blocks.         *)
LEMMA RunsPtr ==
  ASSUME NEW keeps \in BOOLEAN, NEW head \in Seq(Bytes), Len(head) % CipherBlock = 0, NEW first \in Int, NEW n \in Nat,
         NEW c, c.ctr \in Counters, CtxRuns(keeps, head, first, n, c), c.ptr < CipherBlock
  PROVE  c.ptr = n % CipherBlock
<1> DEFINE cov == CoveredOf(keeps, c.ctr, first, n)
           ctr == c.ctr
<1>1. cov \in Seq(Bytes) /\ Len(cov) = n
  <2>1. ctr \in Counters
    OBVIOUS
  <2> HIDE DEF ctr
  <2>2. CoveredOf(keeps, ctr, first, n) \in Seq(Bytes) /\ Len(CoveredOf(keeps, ctr, first, n)) = n
    BY <2>1, CoveredIs
  <2> QED BY <2>2 DEF ctr
<1>2. GatheredIn(Bytes, c, head \o cov)
  BY DEF CtxRuns, Running, GatheredIn
<1> HIDE DEF cov
<1>3. c.ptr = Len(head \o cov) % CipherBlock
  BY <1>2, PtrIs
<1>4. Len(head \o cov) = Len(head) + n /\ Len(head) \in Nat
  BY <1>1, JoinOf
<1>5. (Len(head) + n) % CipherBlock = n % CipherBlock
  BY <1>4, BlockCount
<1> QED BY <1>3, <1>4, <1>5

-----------------------------------------------------------------------------
(* br_gcm_reset                                                            *)
GcmKey(nonce) == IF Len(nonce) = PlainNonce THEN <<nonce>> ELSE ZeroPadded(nonce) \o GcmLengths(0, Len(nonce))
GcmFirst(nonce) == IF Len(nonce) = PlainNonce THEN 1 ELSE 0

(* The block of lengths of GCM.                                            *)
LEMMA LengthsAre ==
  ASSUME NEW n \in Nat, NEW m \in Nat
  PROVE  GcmLengths(n, m) \in Counters
<1>1. CipherBlock - 2 \in Nat /\ Zero \in PlainBytes
  BY ModesAssumption, PlainAreBytes
<1>2. ZeroBytes(CipherBlock - 2) \in Seq(PlainBytes)
  BY <1>1, ZeroBytesAre
<1>3. {<<"bits", n>>} \in PlainBytes /\ {<<"bits", m>>} \in PlainBytes
  <2>1. "bits" \in Names /\ n \in Int /\ m \in Int
    BY DEF Names
  <2> QED BY <2>1, PlainAndAll DEF BlockBytes
<1> DEFINE x == {<<"bits", n>>}
           y == {<<"bits", m>>}
           z == ZeroBytes(CipherBlock - 2)
<1>4. GcmLengths(n, m) = <<z \o <<x, y>> >>
  BY DEF GcmLengths
<1> HIDE DEF x, y, z
<1>5. <<x, y>> \in Seq(PlainBytes)
  BY <1>3 DEF x, y
<1>6. z \o <<x, y>> \in Seq(PlainBytes)
  BY <1>2, <1>5, JoinOf DEF z
<1> QED BY <1>4, <1>6 DEF Counters

(* The base and the first counter of GCM, for a nonce of any length.       *)
LEMMA GcmKeyIs ==
  ASSUME NEW nonce \in Seq(PlainBytes)
  PROVE  GcmKey(nonce) \in Counters /\ GcmFirst(nonce) \in Int
<1>1. Len(nonce) \in Nat
  BY LenProperties
<1>2. GcmLengths(0, Len(nonce)) \in Counters
  BY <1>1, LengthsAre
<1>3. ZeroPadded(nonce) \in Counters
  <2>1. Zeroed(nonce) \in Seq(PlainBytes) /\ ZeroPadded(nonce) = BlocksOf(Zeroed(nonce))
    BY PlainAreBytes, ZeroedIs
  <2>2. BlocksOf(Zeroed(nonce)) \in Seq(Seq(PlainBytes))
    <3> DEFINE z == Zeroed(nonce)
    <3>1. z \in Seq(PlainBytes)
      BY <2>1
    <3> HIDE DEF z
    <3>2. BlocksOf(z) \in Seq(Seq(PlainBytes))
      BY <3>1, BlocksAre
    <3> QED BY <3>2 DEF z
  <2> QED BY <2>1, <2>2 DEF Counters
<1>4. ZeroPadded(nonce) \o GcmLengths(0, Len(nonce)) \in Counters
  BY <1>2, <1>3, JoinOf DEF Counters
<1>5. <<nonce>> \in Counters
  BY DEF Counters
<1> QED BY <1>4, <1>5 DEF GcmKey, GcmFirst

(* br_gcm_reset leaves nothing of the computation before it.               *)
LEMMA GcmResets ==
  ASSUME NEW c, Context(c), c.buf \in [1 .. CipherBlock -> PlainBytes], NEW nonce
  PROVE  LET r == GcmReset(c, nonce)
         IN  /\ Context(r) /\ r.ctr = GcmKey(nonce) /\ r.first = GcmFirst(nonce) /\ r.next = GcmFirst(nonce) + 1
             /\ r.countAad = 0 /\ r.countCtr = 0 /\ GatheredIn(Bytes, WithPtr(r, 0), <<>>)
<1> DEFINE r == GcmReset(c, nonce)
           plain == Len(nonce) = PlainNonce
<1>1. r = [c EXCEPT !.ctr = GcmKey(nonce), !.first = GcmFirst(nonce), !.next = IF plain THEN 2 ELSE 1,
                    !.mac = <<>>, !.countAad = 0, !.countCtr = 0]
  BY DEF GcmReset, GcmKey, GcmFirst
<1>2. (IF plain THEN 2 ELSE 1) = GcmFirst(nonce) + 1
  BY DEF GcmFirst
<1> HIDE DEF r
<1>3. /\ Context(r) /\ r.ctr = GcmKey(nonce) /\ r.first = GcmFirst(nonce) /\ r.next = GcmFirst(nonce) + 1
      /\ r.countAad = 0 /\ r.countCtr = 0 /\ r.mac = <<>> /\ r.buf = c.buf
  BY <1>1, <1>2 DEF Context, Fields
<1>4. WithPtr(r, 0).mac = <<>> /\ WithPtr(r, 0).buf = c.buf /\ WithPtr(r, 0).ptr = 0
  BY <1>3, WithPtrIs
<1>5. c.buf \in [1 .. CipherBlock -> Bytes]
  BY PlainBlocks
<1>6. GatheredIn(Bytes, WithPtr(r, 0), <<>>)
  <2>1. First(<<>>, 0) = <<>> /\ Rest(<<>>, 0) = <<>> /\ Len(<<>>) = 0 /\ BlocksOf(<<>>) = <<>> /\ <<>> \in Seq(Bytes)
    <3>1. <<>> \in Seq(Bytes)
      OBVIOUS
    <3> QED BY <3>1, FirstAll, FewBlocks
  <2>2. First(c.buf, 0) = <<>>
    BY <1>5, BlockIsSeq
  <2>3. 0 \in 0 .. CipherBlock /\ 0 % CipherBlock = 0 /\ 0 - 0 = 0 /\ 0 <= 0
    BY ModesAssumption
  <2> QED BY <1>4, <1>5, <2>1, <2>2, <2>3 DEF GatheredIn, Gathered
<1> QED BY <1>3, <1>6 DEF r

(* The additional data.                                                    *)
LEMMA AadIs ==
  ASSUME NEW n \in Nat
  PROVE  Aad(n) \in Seq(Bytes) /\ Len(Aad(n)) = n /\ (Aad(n) = <<>> <=> n = 0)
<1>1. "a" \in Names
  BY DEF Names
<1>2. Aad(n) \in Seq(Bytes) /\ Len(Aad(n)) = n
  BY <1>1, NamedAre DEF Aad
<1>3. Aad(n) = <<>> <=> n = 0
  <2> HIDE DEF Aad
  <2> QED BY <1>2, EmptySeq
<1> QED BY <1>2, <1>3

AadPart(data, n, k) == data \in Seq(Bytes) /\ Len(data) = k /\ Aad(n) \o data = Aad(n + k)

(* The next k bytes of it.                                                 *)
LEMMA AadGrows ==
  ASSUME NEW n \in Nat, NEW k \in Nat
  PROVE  AadPart(Rest(Aad(n + k), n), n, k)
<1>1. "a" \in Names
  BY DEF Names
<1>2. /\ Rest(Named("a", n + k), n) \in Seq(Bytes) /\ Len(Rest(Named("a", n + k), n)) = k
      /\ Named("a", n) \o Rest(Named("a", n + k), n) = Named("a", n + k)
  BY <1>1, NamedGrows
<1> QED BY <1>2 DEF AadPart, Aad

(* The next k bytes of the message.                                        *)
LEMMA InputPart ==
  ASSUME NEW n \in Nat, NEW k \in Nat
  PROVE  MessagePart(Rest(Input(n + k), n), n, k)
<1>1. NextInput(Rest(Input(n + k), n), n, k)
  BY InputGrows
<1> QED BY <1>1 DEF NextInput, MessagePart

-----------------------------------------------------------------------------
(* GCM, of additional data and of the message.                             *)
GcmKeyed(c, nonce, aad, input) ==
  /\ Context(c) /\ c.ctr = GcmKey(nonce) /\ c.first = GcmFirst(nonce) /\ c.countAad = aad /\ c.countCtr = input

GcmAadIs(c, nonce, aad) ==
  /\ GcmKeyed(c, nonce, aad, 0) /\ c.next = GcmFirst(nonce) + 1
  /\ GatheredIn(Bytes, WithPtr(c, aad % CipherBlock), Aad(aad))

GcmDataIs(c, nonce, aad, encrypt, input) ==
  /\ GcmKeyed(c, nonce, aad, input)
  /\ CtxRuns(encrypt, Zeroed(Aad(aad)), GcmFirst(nonce) + 1, input, WithPtr(c, input % CipherBlock))

(* br_gcm_aad_inject goes on with the additional data.                     *)
LEMMA GcmInjects ==
  ASSUME NEW c, NEW nonce, NEW n \in Nat, NEW k \in Nat, NEW data, GcmAadIs(c, nonce, n), AadPart(data, n, k)
  PROVE  GcmAadIs(GcmInject(c, data), nonce, n + k)
<1> DEFINE p == n % CipherBlock
           c1 == WithPtr(c, p)
           r1 == InjectEager(c1, data)
           r == GcmInject(c, data)
<1>1. /\ Context(c) /\ c.countAad = n /\ c.ctr = GcmKey(nonce) /\ c.first = GcmFirst(nonce) /\ c.countCtr = 0
      /\ c.next = GcmFirst(nonce) + 1 /\ GatheredIn(Bytes, c1, Aad(n))
  BY DEF GcmAadIs, GcmKeyed
<1>2. p \in 0 .. CipherBlock - 1 /\ data \in Seq(Bytes) /\ Len(data) = k /\ Aad(n) \o data = Aad(n + k)
      /\ CipherBlock \in Nat
  BY CipherBlocks, ModesAssumption DEF AadPart
<1>3. r = [r1 EXCEPT !.countAad = @ + Len(data)]
  BY <1>1 DEF GcmInject, WithPtr
<1>4. SameStream(c, c1) /\ Context(c1) /\ c1.ptr = p
  BY <1>1, WithPtrIs
<1> HIDE DEF r, c1
<1>5. GatheredIn(Bytes, r1, Aad(n) \o data) /\ r1.ptr < CipherBlock /\ SameStream(c1, r1)
  <2>1. c1.ptr < CipherBlock
    BY <1>2, <1>4
  <2> QED BY <1>1, <1>2, <1>4, <2>1, EagerInjects
<1> HIDE DEF r1
<1>6. r1.ptr = (n + k) % CipherBlock
  <2>1. r1.ptr = Len(Aad(n + k)) % CipherBlock
    BY <1>2, <1>5, PtrIs
  <2>2. Len(Aad(n + k)) = n + k
    BY AadIs
  <2> QED BY <2>1, <2>2
<1>7. Context(r1) /\ r1.countAad = n /\ r1.ctr = c.ctr /\ r1.first = c.first /\ r1.countCtr = c.countCtr /\ r1.next = c.next
  BY <1>1, <1>4, <1>5 DEF SameStream, SameKeys
<1>8. /\ Context(r) /\ r.countAad = n + k /\ r.ctr = c.ctr /\ r.first = c.first /\ r.countCtr = c.countCtr
      /\ r.next = c.next /\ r.mac = r1.mac /\ r.buf = r1.buf
  BY <1>2, <1>3, <1>7 DEF Context, Fields
<1>9. GatheredIn(Bytes, WithPtr(r, (n + k) % CipherBlock), Aad(n + k))
  <2> DEFINE p2 == (n + k) % CipherBlock
             r2 == WithPtr(r, p2)
  <2>1. r2.mac = r1.mac /\ r2.buf = r1.buf /\ r2.ptr = p2
    BY <1>8, WithPtrIs
  <2> HIDE DEF r2, p2
  <2>2. GatheredIn(Bytes, r2, Aad(n) \o data)
    BY <1>5, <1>6, <2>1 DEF GatheredIn, p2
  <2> QED BY <1>2, <2>2 DEF r2, p2
<1>10. GcmAadIs(r, nonce, n + k)
  BY <1>1, <1>8, <1>9 DEF GcmAadIs, GcmKeyed
<1> QED BY <1>10 DEF r

(* br_gcm_flip fills up the block and starts the message.                  *)
LEMMA GcmFlips ==
  ASSUME NEW c, NEW nonce \in Seq(PlainBytes), NEW n \in Nat, NEW encrypt \in BOOLEAN, GcmAadIs(c, nonce, n)
  PROVE  GcmDataIs(GcmFlip(c), nonce, n, encrypt, 0)
<1> DEFINE p == n % CipherBlock
           c1 == WithPtr(c, p)
           r == GcmFlip(c)
           z == Zeroed(Aad(n))
<1>1. /\ Context(c) /\ c.countAad = n /\ c.ctr = GcmKey(nonce) /\ c.first = GcmFirst(nonce) /\ c.countCtr = 0
      /\ c.next = GcmFirst(nonce) + 1 /\ GatheredIn(Bytes, c1, Aad(n))
  BY DEF GcmAadIs, GcmKeyed
<1>2. p \in 0 .. CipherBlock - 1 /\ CipherBlock \in Nat \ {0} /\ 0 % CipherBlock = 0
  <2>1. p \in 0 .. CipherBlock - 1 /\ CipherBlock \in Nat \ {0}
    BY CipherBlocks
  <2> HIDE DEF p
  <2> QED BY <2>1
<1>3. r = FlipEager(c1)
  BY <1>1 DEF GcmFlip, WithPtr
<1>4. SameStream(c, c1) /\ Context(c1) /\ c1.ptr = p
  BY <1>1, WithPtrIs
<1> HIDE DEF r, c1
<1>5. GatheredIn(Bytes, r, z) /\ r.ptr = 0 /\ SameStream(c1, r)
  <2>1. c1.ptr < CipherBlock
    BY <1>2, <1>4
  <2> QED BY <1>1, <1>3, <1>4, <2>1, EagerFlips
<1> HIDE DEF z
<1>6. Context(r) /\ r.countAad = n /\ r.ctr = c.ctr /\ r.first = c.first /\ r.countCtr = 0 /\ r.next = GcmFirst(nonce) + 1
  BY <1>1, <1>4, <1>5 DEF SameStream, SameKeys
<1> DEFINE r2 == WithPtr(r, 0)
<1>7. r2.mac = r.mac /\ r2.buf = r.buf /\ r2.ptr = 0 /\ SameStream(r, r2)
  BY <1>6, WithPtrIs
<1> HIDE DEF r2
<1>8. CtxRuns(encrypt, z, GcmFirst(nonce) + 1, 0, r2)
  <2>1. r2.ctr \in Counters /\ r2.next = GcmFirst(nonce) + 1 /\ r2.next \in Int /\ r2.ptr \in {0, CipherBlock}
    BY <1>1, <1>6, <1>7, GcmKeyIs DEF SameStream, SameKeys
  <2>2. GatheredIn(Bytes, r2, z)
    BY <1>5, <1>7 DEF GatheredIn
  <2>3. CtxRuns(encrypt, z, r2.next, 0, r2)
    BY <2>1, <2>2, StartRuns
  <2> QED BY <2>1, <2>3
<1>9. GcmDataIs(r, nonce, n, encrypt, 0)
  BY <1>1, <1>2, <1>6, <1>8 DEF GcmDataIs, GcmKeyed, r2, z
<1> QED BY <1>9 DEF r

(* A run of k bytes after n: the bytes that come out are those due.        *)
RunOut(ctr, first, n, k, out) == OutputOf(ctr, first, n) \o out = OutputOf(ctr, first, n + k)
GcmRanTo(r, nonce, aad, encrypt, n, k) ==
  GcmDataIs(r.c, nonce, aad, encrypt, n + k) /\ RunOut(GcmKey(nonce), GcmFirst(nonce) + 1, n, k, r.out)

(* br_gcm_run gives the output that is due and goes on with the            *)
(* ciphertext.                                                             *)
LEMMA GcmRuns ==
  ASSUME NEW c, NEW nonce \in Seq(PlainBytes), NEW aad \in Nat, NEW encrypt \in BOOLEAN, NEW n \in Nat, NEW k \in Nat,
         NEW data, GcmDataIs(c, nonce, aad, encrypt, n), MessagePart(data, n, k)
  PROVE  GcmRanTo(GcmRun(c, data, encrypt), nonce, aad, encrypt, n, k)
<1> DEFINE p == n % CipherBlock
           c1 == WithPtr(c, p)
           r1 == RunEager(c1, data, encrypt)
           r == GcmRun(c, data, encrypt)
           head == Zeroed(Aad(aad))
           first == GcmFirst(nonce) + 1
           ctr == GcmKey(nonce)
<1>1. /\ Context(c) /\ c.countAad = aad /\ c.ctr = ctr /\ c.first = GcmFirst(nonce) /\ c.countCtr = n
      /\ CtxRuns(encrypt, head, first, n, c1)
  BY DEF GcmDataIs, GcmKeyed
<1>2. p \in 0 .. CipherBlock - 1 /\ CipherBlock \in Nat \ {0} /\ Len(data) = k
  BY CipherBlocks DEF MessagePart
<1>3. head \in Seq(Bytes) /\ Len(head) % CipherBlock = 0 /\ ctr \in Counters /\ first \in Int
  <2>1. Aad(aad) \in Seq(Bytes) /\ Zero \in Bytes
    BY AadIs, PlainAreBytes
  <2> QED BY <2>1, ZeroedIs, GcmKeyIs
<1>4. SameStream(c, c1) /\ Context(c1) /\ c1.ptr = p /\ c1.ctr = ctr
  BY <1>1, WithPtrIs DEF SameStream, SameKeys
<1>5. r = [r1 EXCEPT !.c.countCtr = @ + Len(data)]
  BY <1>1 DEF GcmRun, WithPtr
<1> HIDE DEF r, c1, head, first, ctr
<1>6. RanTo(encrypt, head, first, n, k, c1, r1) /\ r1.c.ptr < CipherBlock
  <2>1. c1.ptr < CipherBlock /\ c1.ctr \in Counters
    BY <1>2, <1>3, <1>4
  <2> QED BY <1>1, <1>3, <1>4, <2>1, EagerRuns
<1>7. /\ CtxRuns(encrypt, head, first, n + k, r1.c) /\ SameKeys(c1, r1.c)
      /\ OutputOf(ctr, first, n) \o r1.out = OutputOf(ctr, first, n + k)
  BY <1>4, <1>6 DEF RanTo
<1>8. DOMAIN r1 = {"c", "out"}
  BY DEF RunEager
<1> HIDE DEF r1
<1>9. r.out = r1.out /\ r.c = [r1.c EXCEPT !.countCtr = @ + Len(data)]
  BY <1>5, <1>8
<1> DEFINE d == r1.c
           e == r.c
<1>10. /\ Context(d) /\ d.countAad = aad /\ d.ctr = ctr /\ d.first = GcmFirst(nonce) /\ d.countCtr = n
       /\ d.ptr < CipherBlock /\ CtxRuns(encrypt, head, first, n + k, d) /\ e = [d EXCEPT !.countCtr = @ + Len(data)]
  BY <1>1, <1>4, <1>6, <1>7, <1>9 DEF SameStream, SameKeys
<1> HIDE DEF d, e
<1>11. d.ptr = (n + k) % CipherBlock
  <2>1. n + k \in Nat /\ d.ctr \in Counters
    BY <1>3, <1>10
  <2> QED BY <1>3, <1>10, <2>1, RunsPtr
<1>12. /\ Context(e) /\ e.countAad = aad /\ e.ctr = ctr /\ e.first = GcmFirst(nonce) /\ e.countCtr = n + k
       /\ e.mac = d.mac /\ e.buf = d.buf /\ e.next = d.next
  BY <1>2, <1>10 DEF Context, Fields
<1> DEFINE p2 == (n + k) % CipherBlock
           e2 == WithPtr(e, p2)
<1>13. SameStream(e, e2) /\ e2.mac = d.mac /\ e2.buf = d.buf /\ e2.ptr = p2
  BY <1>12, WithPtrIs
<1> HIDE DEF e2, p2
<1>14. CtxRuns(encrypt, head, first, n + k, e2)
  <2>1. e2.ctr = d.ctr /\ e2.next = d.next /\ e2.mac = d.mac /\ e2.buf = d.buf /\ e2.ptr = d.ptr
    BY <1>10, <1>11, <1>12, <1>13 DEF SameStream, SameKeys, p2
  <2> QED BY <1>10, <2>1 DEF CtxRuns
<1>15. GcmDataIs(e, nonce, aad, encrypt, n + k)
  BY <1>12, <1>14 DEF GcmDataIs, GcmKeyed, e2, p2, head, first, ctr
<1> QED BY <1>7, <1>9, <1>15 DEF r, e, first, ctr, GcmRanTo, RunOut

(* The MAC of a message that is over.                                      *)
MacGoesOver(c, head, cov) == FlipEager(c).mac = BlocksOf(head) \o ZeroPadded(cov)

(* Filling up the last block authenticates all of the message.             *)
LEMMA FlippedMac ==
  ASSUME NEW keeps \in BOOLEAN, NEW head \in Seq(Bytes), Len(head) % CipherBlock = 0, NEW first \in Int, NEW n \in Nat,
         NEW c, Context(c), c.ctr \in Counters, CtxRuns(keeps, head, first, n, c), c.ptr < CipherBlock
  PROVE  MacGoesOver(c, head, CoveredOf(keeps, c.ctr, first, n))
<1> DEFINE ctr == c.ctr
           cov == CoveredOf(keeps, ctr, first, n)
<1>1. cov \in Seq(Bytes) /\ Zero \in Bytes
  <2>1. ctr \in Counters
    OBVIOUS
  <2> HIDE DEF ctr
  <2> QED BY <2>1, CoveredIs, PlainAreBytes
<1>2. GatheredIn(Bytes, c, head \o cov)
  BY DEF CtxRuns, Running, GatheredIn
<1> HIDE DEF cov
<1>3. FlipEager(c).mac = BlocksOf(Zeroed(head \o cov))
  BY <1>2, EagerFlips
<1>4. ZeroedApart(head, cov)
  BY <1>1, ZeroedJoin
<1> QED BY <1>3, <1>4 DEF cov, ctr, MacGoesOver, ZeroedApart

(* br_gcm_get_tag gives the tag of the definition of GCM.                  *)
LEMMA GcmTagIs ==
  ASSUME NEW c, NEW nonce \in Seq(PlainBytes), NEW aad \in Nat, NEW encrypt \in BOOLEAN, NEW n \in Nat,
         GcmDataIs(c, nonce, aad, encrypt, n), NEW plaintext, NEW tagLen
  PROVE  GcmTag(c) = TagOf("gcm", nonce, Aad(aad), n, CoveredOf(encrypt, GcmKey(nonce), GcmFirst(nonce) + 1, n),
                           plaintext, tagLen)
<1> DEFINE p == n % CipherBlock
           c1 == WithPtr(c, p)
           head == Zeroed(Aad(aad))
           first == GcmFirst(nonce) + 1
           ctr == GcmKey(nonce)
           cov == CoveredOf(encrypt, ctr, first, n)
           y == FlipEager(c1).mac
<1>1. /\ Context(c) /\ c.countAad = aad /\ c.ctr = ctr /\ c.first = GcmFirst(nonce) /\ c.countCtr = n
      /\ CtxRuns(encrypt, head, first, n, c1)
  BY DEF GcmDataIs, GcmKeyed
<1>2. p \in 0 .. CipherBlock - 1 /\ CipherBlock \in Nat \ {0}
  BY CipherBlocks
<1>3. head \in Seq(Bytes) /\ Len(head) % CipherBlock = 0 /\ ctr \in Counters /\ first \in Int /\ BlocksOf(head) = ZeroPadded(Aad(aad))
  <2>1. Aad(aad) \in Seq(Bytes) /\ Zero \in Bytes
    BY AadIs, PlainAreBytes
  <2> QED BY <2>1, ZeroedIs, GcmKeyIs
<1>4. SameStream(c, c1) /\ Context(c1) /\ c1.ptr = p /\ c1.ctr = ctr
  BY <1>1, WithPtrIs DEF SameStream, SameKeys
<1>5. GcmTag(c) = XorBytes(MacBytes(y \o GcmLengths(aad, n)), Stream(ctr, GcmFirst(nonce), CipherBlock))
  BY <1>1 DEF GcmTag, WithPtr
<1> HIDE DEF c1, head
<1>6. y = ZeroPadded(Aad(aad)) \o ZeroPadded(cov)
  <2>1. c1.ptr < CipherBlock
    BY <1>2, <1>4
  <2> HIDE DEF first, ctr
  <2>2. MacGoesOver(c1, head, CoveredOf(encrypt, c1.ctr, first, n))
    <3>1. /\ head \in Seq(Bytes) /\ Len(head) % CipherBlock = 0 /\ first \in Int /\ Context(c1) /\ c1.ctr \in Counters
          /\ CtxRuns(encrypt, head, first, n, c1) /\ c1.ptr < CipherBlock
      BY <1>1, <1>3, <1>4, <2>1
    <3> QED BY <3>1, FlippedMac
  <2> QED BY <1>3, <1>4, <2>2 DEF MacGoesOver
<1> HIDE DEF y, cov
<1>7. Len(Aad(aad)) = aad
  BY AadIs
<1>8. Stream(ctr, GcmFirst(nonce), CipherBlock)
        = IF Len(nonce) = PlainNonce THEN Stream(<<nonce>>, 1, CipherBlock)
          ELSE Stream(ZeroPadded(nonce) \o GcmLengths(0, Len(nonce)), 0, CipherBlock)
  BY DEF GcmKey, GcmFirst
<1>9. TagOf("gcm", nonce, Aad(aad), n, cov, plaintext, tagLen)
        = XorBytes(MacBytes(ZeroPadded(Aad(aad)) \o ZeroPadded(cov) \o GcmLengths(Len(Aad(aad)), n)),
                   IF Len(nonce) = PlainNonce THEN Stream(<<nonce>>, 1, CipherBlock)
                   ELSE Stream(ZeroPadded(nonce) \o GcmLengths(0, Len(nonce)), 0, CipherBlock))
  BY DEF TagOf
<1>10. GcmTag(c) = TagOf("gcm", nonce, Aad(aad), n, cov, plaintext, tagLen)
  BY <1>5, <1>6, <1>7, <1>8, <1>9
<1> QED BY <1>10 DEF cov, ctr, first

-----------------------------------------------------------------------------
(* CCM, after its first block and the header of the additional data.       *)
CcmHead(nonce, most, tagLen) == CcmFirst(nonce, most.aad > 0, most.input, tagLen)
CcmAad(nonce, most, tagLen, aad) == CcmHead(nonce, most, tagLen) \o (AadHeader(most.aad) \o Aad(aad))

CcmKeyed(c, nonce, most, tagLen) ==
  /\ Context(c) /\ c.ctr = <<nonce>> /\ c.tagLen = tagLen /\ c.ptr < CipherBlock
  /\ most.aad \in Nat
  /\ CcmHead(nonce, most, tagLen) \in Seq(Bytes) /\ Len(CcmHead(nonce, most, tagLen)) = CipherBlock

CcmAadIs(c, nonce, most, tagLen, aad) ==
  /\ CcmKeyed(c, nonce, most, tagLen) /\ c.next = 1
  /\ GatheredIn(Bytes, c, CcmAad(nonce, most, tagLen, aad))

CcmDataIs(c, nonce, most, tagLen, encrypt, input) ==
  /\ CcmKeyed(c, nonce, most, tagLen)
  /\ CtxRuns(~encrypt, Zeroed(CcmAad(nonce, most, tagLen, most.aad)), 1, input, c)

(* The encoding of the length of the additional data.                      *)
LEMMA AadHeaderIs ==
  ASSUME NEW n \in Nat
  PROVE  AadHeader(n) \in Seq(PlainBytes) /\ AadHeader(n) \in Seq(Bytes) /\ Len(AadHeader(n)) \in 0 .. 3
<1> DEFINE size == CASE n = 0 -> 0
                     [] n \in 1 .. ShortAad - 1 -> 1
                     [] n \in ShortAad .. LongAad - 1 -> 2
                     [] OTHER -> 3
<1>1. size \in 0 .. 3
  OBVIOUS
<1>2. AadHeader(n) = [i \in 1 .. size |-> {<<"aad length", 10 * n + i>>}]
  BY DEF AadHeader
<1> HIDE DEF size
<1>3. \A i \in 1 .. size : {<<"aad length", 10 * n + i>>} \in PlainBytes
  <2>1. "aad length" \in Names /\ \A i \in 1 .. size : 10 * n + i \in Int
    BY DEF Names
  <2> QED BY <2>1, PlainAndAll DEF BlockBytes
<1>4. AadHeader(n) \in [1 .. size -> PlainBytes] /\ size \in Nat
  <2>1. [i \in 1 .. size |-> {<<"aad length", 10 * n + i>>}] \in [1 .. size -> PlainBytes]
    <3> HIDE DEF PlainBytes
    <3> QED BY <1>3, Zenon
  <2>2. AadHeader(n) \in [1 .. size -> PlainBytes]
    BY <1>2, <2>1, Zenon
  <2>3. size \in Nat
    BY <1>1
  <2> QED BY <2>2, <2>3
<1> HIDE DEF AadHeader
<1>5. AadHeader(n) \in Seq(PlainBytes) /\ Len(AadHeader(n)) = size
  BY <1>4, MadeSeq
<1> QED BY <1>1, <1>5, PlainSeqs

(* The first block of CCM, of a nonce that br_ccm_reset accepts.           *)
LEMMA CcmFirstIs ==
  ASSUME NEW nonce \in Seq(PlainBytes), Len(nonce) <= CipherBlock - 3, NEW has \in BOOLEAN, NEW dataLen \in Nat,
         NEW tagLen \in Nat
  PROVE  CcmFirst(nonce, has, dataLen, tagLen) \in Seq(PlainBytes) /\ Len(CcmFirst(nonce, has, dataLen, tagLen)) = CipherBlock
<1> DEFINE b == {<<"flags", tagLen>>, <<IF has THEN "aad" ELSE "no aad", 0>>}
           e == {<<"length", dataLen>>}
           z == ZeroBytes(CipherBlock - 2 - Len(nonce))
           n == Len(nonce)
<1>1. b \in PlainBytes /\ e \in PlainBytes
  <2>1. /\ <<"flags", tagLen>> \in Names \X Int /\ <<"aad", 0>> \in Names \X Int /\ <<"no aad", 0>> \in Names \X Int
        /\ <<"length", dataLen>> \in Names \X Int
    <3>1. "flags" \in Names /\ "aad" \in Names /\ "no aad" \in Names /\ "length" \in Names
      BY DEF Names
    <3>2. tagLen \in Int /\ 0 \in Int /\ dataLen \in Int
      OBVIOUS
    <3> QED BY <3>1, <3>2
  <2> QED BY <2>1 DEF PlainBytes
<1>2. n \in Nat /\ CipherBlock \in Nat /\ CipherBlock - 2 - n \in Nat /\ Zero \in PlainBytes
  BY ModesAssumption, LenProperties, PlainAreBytes
<1>3. z \in Seq(PlainBytes) /\ Len(z) = CipherBlock - 2 - n
  BY <1>2, ZeroBytesAre
<1>4. CcmFirst(nonce, has, dataLen, tagLen) = ((<<b>> \o nonce) \o z) \o <<e>>
  BY DEF CcmFirst
<1> HIDE DEF b, e, z
<1>5. <<b>> \in Seq(PlainBytes) /\ Len(<<b>>) = 1 /\ <<e>> \in Seq(PlainBytes) /\ Len(<<e>>) = 1
  BY <1>1
<1> DEFINE x == <<b>> \o nonce
<1>6. x \in Seq(PlainBytes) /\ Len(x) = 1 + n
  <2>1. x \in Seq(PlainBytes) /\ Len(x) = Len(<<b>>) + Len(nonce)
    BY <1>5, JoinOf
  <2> HIDE DEF x
  <2> QED BY <1>5, <2>1
<1> HIDE DEF x
<1> DEFINE y == x \o z
<1>7. y \in Seq(PlainBytes) /\ Len(y) = 1 + n + (CipherBlock - 2 - n)
  <2>1. y \in Seq(PlainBytes) /\ Len(y) = Len(x) + Len(z)
    BY <1>3, <1>6, JoinOf
  <2> HIDE DEF y
  <2> QED BY <1>3, <1>6, <2>1
<1> HIDE DEF y
<1>8. y \o <<e>> \in Seq(PlainBytes) /\ Len(y \o <<e>>) = (1 + n + (CipherBlock - 2 - n)) + 1
  BY <1>5, <1>7, JoinOf
<1>9. (1 + n + (CipherBlock - 2 - n)) + 1 = CipherBlock
  BY <1>2
<1> QED BY <1>4, <1>8, <1>9 DEF x, y

(* br_ccm_reset, of what it does not refuse                                *)
LEMMA CcmResets ==
  ASSUME NEW c, Context(c), c.buf \in [1 .. CipherBlock -> PlainBytes],
         NEW n \in Nat, NEW most, most.aad \in Nat, most.input \in Nat, NEW tagLen \in Nat,
         ~CcmRefuses(n, most.input, tagLen)
  PROVE  CcmAadIs(CcmReset(c, Named("n", n), most.aad, most.input, tagLen), Named("n", n), most, tagLen, 0)
<1> DEFINE nonce == Named("n", n)
           header == AadHeader(most.aad)
           f == CcmHead(nonce, most, tagLen)
           buf == Overwritten(c.buf, 0, header)
           r == CcmReset(c, nonce, most.aad, most.input, tagLen)
<1>1. nonce \in Seq(PlainBytes) /\ Len(nonce) = n /\ n <= CipherBlock - 3
  <2>1. "n" \in Names
    BY DEF Names
  <2>2. n \in CipherBlock \div 2 - 1 .. CipherBlock - 3
    BY DEF CcmRefuses
  <2>3. n <= CipherBlock - 3
    BY <2>2
  <2> QED BY <2>1, <2>3, NamedAre
<1> HIDE DEF nonce
<1>2. r = [c EXCEPT !.mac = <<f>>, !.buf = buf, !.ptr = Len(header), !.ctr = <<nonce>>, !.next = 1, !.tagLen = tagLen]
  BY DEF CcmReset, CcmHead
<1>3. f \in Seq(PlainBytes) /\ Len(f) = CipherBlock
  <2>1. (most.aad > 0) \in BOOLEAN /\ Len(nonce) <= CipherBlock - 3
    BY <1>1
  <2> DEFINE has == most.aad > 0
             d == most.input
  <2>2. has \in BOOLEAN /\ d \in Nat
    BY <2>1
  <2>3. f = CcmFirst(nonce, has, d, tagLen)
    BY DEF CcmHead
  <2> HIDE DEF has, d, f
  <2> QED BY <1>1, <2>1, <2>2, <2>3, CcmFirstIs
<1>4. header \in Seq(PlainBytes) /\ header \in Seq(Bytes) /\ Len(header) \in 0 .. 3 /\ 3 < CipherBlock /\ CipherBlock \in Nat \ {0}
  <2> DEFINE m == most.aad
  <2>1. m \in Nat
    OBVIOUS
  <2> HIDE DEF m
  <2>2. AadHeader(m) \in Seq(PlainBytes) /\ AadHeader(m) \in Seq(Bytes) /\ Len(AadHeader(m)) \in 0 .. 3
    BY <2>1, AadHeaderIs
  <2>3. 3 < CipherBlock /\ CipherBlock \in Nat \ {0}
    BY ModesAssumption
  <2> QED BY <2>2, <2>3 DEF m
<1> HIDE DEF r, header, f
<1>5. buf \in [1 .. CipherBlock -> PlainBytes] /\ First(buf, Len(header)) = header
  <2>1. 0 \in 0 .. CipherBlock /\ 0 + Len(header) <= CipherBlock /\ 0 + Len(header) = Len(header)
    BY <1>4
  <2>2. /\ Overwritten(c.buf, 0, header) \in [1 .. CipherBlock -> PlainBytes]
        /\ First(Overwritten(c.buf, 0, header), 0 + Len(header)) = First(c.buf, 0) \o header
    <3> DEFINE b == c.buf
    <3>1. b \in [1 .. CipherBlock -> PlainBytes] /\ header \in Seq(PlainBytes) /\ 0 \in 0 .. CipherBlock
          /\ 0 + Len(header) <= CipherBlock
      BY <1>4, <2>1
    <3> HIDE DEF b
    <3>2. /\ Overwritten(b, 0, header) \in [1 .. CipherBlock -> PlainBytes]
          /\ First(Overwritten(b, 0, header), 0 + Len(header)) = First(b, 0) \o header
      BY <3>1, OverwrittenIs
    <3> QED BY <3>2 DEF b
  <2>3. First(c.buf, 0) = <<>> /\ <<>> \o header = header
    BY <1>4, BlockIsSeq, ConcatEmptySeq
  <2> QED BY <2>1, <2>2, <2>3
<1> HIDE DEF buf
<1>6. /\ Context(r) /\ r.mac = <<f>> /\ r.buf = buf /\ r.ptr = Len(header) /\ r.ctr = <<nonce>> /\ r.next = 1 /\ r.tagLen = tagLen
  BY <1>2 DEF Context, Fields
<1>7. GatheredIn(Bytes, r, f \o header)
  <2>1. f \in Seq(Bytes) /\ buf \in [1 .. CipherBlock -> Bytes]
    BY <1>3, <1>5, PlainSeqs, PlainBlocks
  <2>2. f \o header \in Seq(Bytes) /\ Len(f \o header) = CipherBlock + Len(header)
    <3>1. f \o header \in Seq(Bytes) /\ Len(f \o header) = Len(f) + Len(header)
      BY <1>4, <2>1, JoinOf
    <3> QED BY <1>3, <3>1
  <2>3. First(f \o header, CipherBlock) = f /\ Rest(f \o header, CipherBlock) = header
    BY <1>3, <1>4, <2>1, UnJoin
  <2>4. BlocksOf(f) = <<f>>
    BY <1>3, <2>1, FewBlocks
  <2>5. /\ (CipherBlock + Len(header)) - Len(header) = CipherBlock /\ CipherBlock % CipherBlock = 0
        /\ Len(header) \in 0 .. CipherBlock /\ Len(header) <= CipherBlock + Len(header)
    BY <1>4
  <2> DEFINE s == f \o header
             l == Len(header)
  <2>6. /\ s \in Seq(Bytes) /\ Len(s) - l = CipherBlock /\ l <= Len(s) /\ First(s, CipherBlock) = f /\ Rest(s, CipherBlock) = header
        /\ l \in 0 .. CipherBlock /\ First(buf, l) = header
    BY <1>5, <2>2, <2>3, <2>5
  <2> HIDE DEF s, l
  <2>7. Gathered(Bytes, <<f>>, buf, l, s)
    BY <2>1, <2>4, <2>5, <2>6 DEF Gathered
  <2> QED BY <1>6, <2>7 DEF GatheredIn, s, l
<1>8. CcmAad(nonce, most, tagLen, 0) = f \o header
  <2>1. Aad(0) = <<>>
    BY AadIs
  <2>2. header \o <<>> = header
    BY <1>4, ConcatEmptySeq
  <2> QED BY <2>1, <2>2 DEF CcmAad, f, header
<1>9. f \in Seq(Bytes) /\ Len(header) < CipherBlock
  <2>1. f \in Seq(Bytes)
    BY <1>3, PlainSeqs
  <2>2. Len(header) < CipherBlock
    <3> DEFINE l == Len(header)
    <3>1. l \in 0 .. 3 /\ 3 < CipherBlock /\ CipherBlock \in Nat
      BY <1>4
    <3> HIDE DEF l
    <3>2. l < CipherBlock
      BY <3>1
    <3> QED BY <3>2 DEF l
  <2> QED BY <2>1, <2>2
<1>10. CcmAadIs(r, nonce, most, tagLen, 0)
  BY <1>3, <1>6, <1>7, <1>8, <1>9 DEF CcmAadIs, CcmKeyed, f
<1> QED BY <1>10 DEF r, nonce

LastJoined(f, h, a, d) == (f \o (h \o a)) \o d = f \o (h \o (a \o d))

(* The first block, the header, and the additional data in two parts.      *)
LEMMA JoinLast ==
  ASSUME NEW S, NEW f \in Seq(S), NEW h \in Seq(S), NEW a \in Seq(S), NEW d \in Seq(S)
  PROVE  LastJoined(f, h, a, d)
<1> DEFINE g == h \o a
<1>1. g \in Seq(S)
  BY JoinOf
<1>2. (f \o g) \o d = f \o (g \o d)
  <2> HIDE DEF g
  <2>1. ThreeJoined(f, g, d)
    BY <1>1, JoinThree
  <2> QED BY <2>1 DEF ThreeJoined
<1>3. g \o d = h \o (a \o d)
  <2>1. ThreeJoined(h, a, d)
    BY JoinThree
  <2> QED BY <2>1 DEF ThreeJoined
<1> QED BY <1>2, <1>3 DEF LastJoined

CcmGrows(nonce, most, tagLen, n, k, data) ==
  CcmAad(nonce, most, tagLen, n) \o data = CcmAad(nonce, most, tagLen, n + k)

(* What CCM authenticates before the message, with the next k bytes.       *)
LEMMA CcmAadGrows ==
  ASSUME NEW nonce, NEW most, most.aad \in Nat, NEW tagLen, CcmHead(nonce, most, tagLen) \in Seq(Bytes),
         NEW n \in Nat, NEW k \in Nat, NEW data, AadPart(data, n, k)
  PROVE  CcmGrows(nonce, most, tagLen, n, k, data)
<1> DEFINE f == CcmHead(nonce, most, tagLen)
           h == AadHeader(most.aad)
           a == Aad(n)
<1>1. f \in Seq(Bytes) /\ h \in Seq(Bytes) /\ a \in Seq(Bytes) /\ data \in Seq(Bytes) /\ a \o data = Aad(n + k)
  BY AadHeaderIs, AadIs DEF AadPart
<1>2. CcmAad(nonce, most, tagLen, n) = f \o (h \o a) /\ CcmAad(nonce, most, tagLen, n + k) = f \o (h \o Aad(n + k))
  BY DEF CcmAad
<1> HIDE DEF f, h, a
<1>3. LastJoined(f, h, a, data)
  <2>1. f \in Seq(Bytes) /\ h \in Seq(Bytes) /\ a \in Seq(Bytes) /\ data \in Seq(Bytes)
    BY <1>1
  <2> QED BY <2>1, JoinLast
<1> QED BY <1>1, <1>2, <1>3, Zenon DEF CcmGrows, LastJoined

(* br_ccm_aad_inject goes on with the additional data.                     *)
LEMMA CcmInjects ==
  ASSUME NEW c, NEW nonce, NEW most, NEW tagLen, NEW n \in Nat, NEW k \in Nat, NEW data,
         CcmAadIs(c, nonce, most, tagLen, n), AadPart(data, n, k)
  PROVE  CcmAadIs(InjectEager(c, data), nonce, most, tagLen, n + k)
<1> DEFINE r == InjectEager(c, data)
<1>1. /\ Context(c) /\ c.ctr = <<nonce>> /\ c.tagLen = tagLen /\ c.ptr < CipherBlock /\ c.next = 1 /\ most.aad \in Nat
      /\ CcmHead(nonce, most, tagLen) \in Seq(Bytes) /\ Len(CcmHead(nonce, most, tagLen)) = CipherBlock
      /\ GatheredIn(Bytes, c, CcmAad(nonce, most, tagLen, n)) /\ data \in Seq(Bytes)
  BY DEF CcmAadIs, CcmKeyed, AadPart
<1>2. GatheredIn(Bytes, r, CcmAad(nonce, most, tagLen, n) \o data) /\ r.ptr < CipherBlock /\ SameStream(c, r)
  BY <1>1, EagerInjects
<1>3. CcmGrows(nonce, most, tagLen, n, k, data)
  <2>1. most.aad \in Nat /\ CcmHead(nonce, most, tagLen) \in Seq(Bytes)
    BY <1>1
  <2> QED BY <2>1, CcmAadGrows
<1> HIDE DEF r
<1>4. Context(r) /\ r.ctr = c.ctr /\ r.tagLen = c.tagLen /\ r.next = c.next
  BY <1>2 DEF SameStream, SameKeys
<1>5. CcmAadIs(r, nonce, most, tagLen, n + k)
  BY <1>1, <1>2, <1>3, <1>4 DEF CcmAadIs, CcmKeyed, CcmGrows
<1> QED BY <1>5 DEF r

CcmBlocks(nonce, most, tagLen, n, z) ==
  /\ z \in Seq(Bytes) /\ Len(z) % CipherBlock = 0
  /\ BlocksOf(z) = <<CcmHead(nonce, most, tagLen)>> \o ZeroPadded(AadHeader(most.aad) \o Aad(n))

(* It is filled up with zeros to whole blocks.                             *)
LEMMA CcmAadTyped ==
  ASSUME NEW c, NEW nonce, NEW most, NEW tagLen, CcmKeyed(c, nonce, most, tagLen), NEW n \in Nat
  PROVE  CcmBlocks(nonce, most, tagLen, n, Zeroed(CcmAad(nonce, most, tagLen, n)))
<1> DEFINE f == CcmHead(nonce, most, tagLen)
           header == AadHeader(most.aad)
           ha == header \o Aad(n)
           s == CcmAad(nonce, most, tagLen, n)
<1>1. f \in Seq(Bytes) /\ Len(f) = CipherBlock /\ header \in Seq(Bytes) /\ Aad(n) \in Seq(Bytes) /\ Zero \in Bytes
      /\ CipherBlock \in Nat \ {0}
  <2> DEFINE m == most.aad
  <2>1. m \in Nat /\ f \in Seq(Bytes) /\ Len(f) = CipherBlock
    BY DEF CcmKeyed
  <2> HIDE DEF m, f
  <2>2. AadHeader(m) \in Seq(Bytes) /\ Aad(n) \in Seq(Bytes) /\ Zero \in Bytes
    BY <2>1, AadHeaderIs, AadIs, PlainAreBytes
  <2>3. CipherBlock \in Nat \ {0}
    BY ModesAssumption
  <2> QED BY <2>1, <2>2, <2>3 DEF m
<1>2. s = f \o ha
  BY DEF CcmAad
<1> HIDE DEF f, header, s
<1>3. ha \in Seq(Bytes)
  BY <1>1, JoinOf
<1> HIDE DEF ha
<1>4. s \in Seq(Bytes)
  BY <1>1, <1>2, <1>3, JoinOf
<1>5. Zeroed(s) \in Seq(Bytes) /\ Len(Zeroed(s)) % CipherBlock = 0
  BY <1>1, <1>4, ZeroedIs
<1>6. Len(f) % CipherBlock = 0
  BY <1>1
<1>7. ZeroedApart(f, ha)
  BY <1>1, <1>3, <1>6, ZeroedJoin
<1>8. BlocksOf(f) = <<f>>
  BY <1>1, FewBlocks
<1>9. BlocksOf(Zeroed(s)) = <<f>> \o ZeroPadded(ha)
  BY <1>2, <1>7, <1>8 DEF ZeroedApart
<1> QED BY <1>5, <1>9 DEF s, f, ha, header, CcmBlocks

(* br_ccm_flip after all the data that was announced starts the message.   *)
LEMMA CcmFlips ==
  ASSUME NEW c, NEW nonce \in Seq(PlainBytes), NEW most, NEW tagLen, NEW encrypt \in BOOLEAN,
         CcmAadIs(c, nonce, most, tagLen, most.aad)
  PROVE  CcmDataIs(FlipEager(c), nonce, most, tagLen, encrypt, 0)
<1> DEFINE r == FlipEager(c)
           s == CcmAad(nonce, most, tagLen, most.aad)
           keeps == ~encrypt
<1>1. /\ Context(c) /\ c.ctr = <<nonce>> /\ c.tagLen = tagLen /\ c.ptr < CipherBlock /\ c.next = 1 /\ most.aad \in Nat
      /\ CcmHead(nonce, most, tagLen) \in Seq(Bytes) /\ Len(CcmHead(nonce, most, tagLen)) = CipherBlock
      /\ GatheredIn(Bytes, c, s)
  BY DEF CcmAadIs, CcmKeyed
<1>2. GatheredIn(Bytes, r, Zeroed(s)) /\ r.ptr = 0 /\ SameStream(c, r)
  BY <1>1, EagerFlips
<1> HIDE DEF r, s
<1>3. Context(r) /\ r.ctr = <<nonce>> /\ r.tagLen = tagLen /\ r.next = 1
  BY <1>1, <1>2 DEF SameStream, SameKeys
<1>4. CtxRuns(keeps, Zeroed(s), 1, 0, r)
  <2>1. r.ctr \in Counters /\ r.ptr \in {0, CipherBlock} /\ r.next \in Int /\ keeps \in BOOLEAN
    BY <1>2, <1>3 DEF Counters
  <2> HIDE DEF keeps
  <2>2. CtxRuns(keeps, Zeroed(s), r.next, 0, r)
    BY <1>2, <2>1, StartRuns
  <2> QED BY <1>3, <2>2
<1>5. 0 < CipherBlock
  BY ModesAssumption
<1>6. CcmDataIs(r, nonce, most, tagLen, encrypt, 0)
  BY <1>1, <1>2, <1>3, <1>4, <1>5 DEF CcmDataIs, CcmKeyed, s
<1> QED BY <1>6 DEF r

CcmRanTo(r, nonce, most, tagLen, encrypt, n, k) ==
  CcmDataIs(r.c, nonce, most, tagLen, encrypt, n + k) /\ RunOut(<<nonce>>, 1, n, k, r.out)

(* br_ccm_run gives the output that is due and goes on with the plaintext. *)
LEMMA CcmRuns ==
  ASSUME NEW c, NEW nonce \in Seq(PlainBytes), NEW most, NEW tagLen, NEW encrypt \in BOOLEAN, NEW n \in Nat, NEW k \in Nat,
         NEW data, CcmDataIs(c, nonce, most, tagLen, encrypt, n), MessagePart(data, n, k)
  PROVE  CcmRanTo(RunEager(c, data, ~encrypt), nonce, most, tagLen, encrypt, n, k)
<1> DEFINE keeps == ~encrypt
           r == RunEager(c, data, keeps)
           head == Zeroed(CcmAad(nonce, most, tagLen, most.aad))
<1>1. /\ CcmKeyed(c, nonce, most, tagLen) /\ CtxRuns(keeps, head, 1, n, c) /\ Context(c) /\ c.ctr = <<nonce>>
      /\ c.ptr < CipherBlock /\ most.aad \in Nat
  BY DEF CcmDataIs, CcmKeyed
<1>2. head \in Seq(Bytes) /\ Len(head) % CipherBlock = 0 /\ keeps \in BOOLEAN /\ c.ctr \in Counters
  <2> DEFINE m == most.aad
  <2>1. m \in Nat
    BY <1>1
  <2> HIDE DEF m
  <2> DEFINE z == Zeroed(CcmAad(nonce, most, tagLen, m))
  <2>2. CcmBlocks(nonce, most, tagLen, m, z)
    BY <1>1, <2>1, CcmAadTyped
  <2>3. head = z
    BY DEF m
  <2>4. c.ctr \in Counters
    BY <1>1 DEF Counters
  <2> HIDE DEF head, z
  <2> QED BY <2>2, <2>3, <2>4 DEF CcmBlocks
<1> HIDE DEF keeps, head
<1>3. RanTo(keeps, head, 1, n, k, c, r) /\ r.c.ptr < CipherBlock
  BY <1>1, <1>2, EagerRuns
<1> HIDE DEF r
<1>4. CtxRuns(keeps, head, 1, n + k, r.c) /\ SameKeys(c, r.c) /\ OutputOf(c.ctr, 1, n) \o r.out = OutputOf(c.ctr, 1, n + k)
  BY <1>3 DEF RanTo
<1>5. CcmKeyed(r.c, nonce, most, tagLen)
  BY <1>1, <1>3, <1>4 DEF CcmKeyed, SameKeys
<1>6. CcmDataIs(r.c, nonce, most, tagLen, encrypt, n + k)
  BY <1>4, <1>5 DEF CcmDataIs, keeps, head
<1> QED BY <1>1, <1>4, <1>6 DEF r, keeps, CcmRanTo, RunOut

(* All of the message that was announced.                                  *)
CcmWhole(most, n) == n = most.input

CcmTagged(c, nonce, most, tagLen, encrypt, n, ciphertext) ==
  CcmTag(c) = TagOf("ccm", nonce, Aad(most.aad), n, ciphertext, CoveredOf(~encrypt, <<nonce>>, 1, n), tagLen)

(* br_ccm_get_tag after all of the message gives the tag of CCM.           *)
LEMMA CcmTagIs ==
  ASSUME NEW c, NEW nonce \in Seq(PlainBytes), NEW most, NEW tagLen, NEW encrypt \in BOOLEAN, NEW n \in Nat,
         CcmDataIs(c, nonce, most, tagLen, encrypt, n), CcmWhole(most, n), NEW ciphertext
  PROVE  CcmTagged(c, nonce, most, tagLen, encrypt, n, ciphertext)
<1> DEFINE keeps == ~encrypt
           s == CcmAad(nonce, most, tagLen, most.aad)
           head == Zeroed(s)
           cov == CoveredOf(keeps, <<nonce>>, 1, n)
           f == CcmHead(nonce, most, tagLen)
           ha == AadHeader(most.aad) \o Aad(most.aad)
<1>1. /\ CcmKeyed(c, nonce, most, tagLen) /\ CtxRuns(keeps, head, 1, n, c) /\ Context(c) /\ c.ctr = <<nonce>>
      /\ c.ptr < CipherBlock /\ most.aad \in Nat /\ c.tagLen = tagLen
  BY DEF CcmDataIs, CcmKeyed
<1>2. head \in Seq(Bytes) /\ Len(head) % CipherBlock = 0 /\ BlocksOf(head) = <<f>> \o ZeroPadded(ha)
  <2> DEFINE m == most.aad
  <2>1. m \in Nat
    BY <1>1
  <2> HIDE DEF m
  <2> DEFINE z == Zeroed(CcmAad(nonce, most, tagLen, m))
  <2>2. CcmBlocks(nonce, most, tagLen, m, z)
    BY <1>1, <2>1, CcmAadTyped
  <2>3. head = z /\ ha = AadHeader(most.aad) \o Aad(m)
    BY DEF m
  <2> HIDE DEF head, z, ha
  <2> QED BY <2>2, <2>3 DEF CcmBlocks
<1>3. keeps \in BOOLEAN /\ c.ctr \in Counters
  BY <1>1 DEF Counters
<1> HIDE DEF keeps, head
<1>4. FlipEager(c).mac = BlocksOf(head) \o ZeroPadded(cov)
  <2>1. FlipEager(c).mac = BlocksOf(head) \o ZeroPadded(CoveredOf(keeps, c.ctr, 1, n))
    <3> DEFINE one == 1
    <3>1. /\ head \in Seq(Bytes) /\ Len(head) % CipherBlock = 0 /\ one \in Int /\ Context(c) /\ c.ctr \in Counters
          /\ CtxRuns(keeps, head, one, n, c) /\ c.ptr < CipherBlock /\ keeps \in BOOLEAN
      BY <1>1, <1>2, <1>3
    <3> HIDE DEF one
    <3>2. MacGoesOver(c, head, CoveredOf(keeps, c.ctr, one, n))
      BY <3>1, FlippedMac
    <3> QED BY <3>2 DEF one, MacGoesOver
  <2> QED BY <1>1, <2>1
<1> HIDE DEF cov
<1>5. CcmTag(c) = First(XorBytes(MacBytes(FlipEager(c).mac), Stream(c.ctr, 0, CipherBlock)), c.tagLen)
  BY DEF CcmTag
<1>6. (Aad(most.aad) # <<>>) = (most.aad > 0) /\ Len(Aad(most.aad)) = most.aad
  BY <1>1, AadIs
<1>7. CcmFirst(nonce, Aad(most.aad) # <<>>, n, tagLen) = f
  BY <1>6 DEF CcmHead, CcmWhole
<1>8. TagOf("ccm", nonce, Aad(most.aad), n, ciphertext, cov, tagLen)
        = First(XorBytes(MacBytes(<<CcmFirst(nonce, Aad(most.aad) # <<>>, n, tagLen)>>
                                    \o ZeroPadded(AadHeader(Len(Aad(most.aad))) \o Aad(most.aad)) \o ZeroPadded(cov)),
                         Stream(<<nonce>>, 0, CipherBlock)), tagLen)
  BY DEF TagOf
<1> HIDE DEF f
<1>9. CcmTag(c) = TagOf("ccm", nonce, Aad(most.aad), n, ciphertext, cov, tagLen)
  BY <1>1, <1>2, <1>4, <1>5, <1>6, <1>7, <1>8
<1> QED BY <1>9 DEF cov, keeps, CcmTagged

(* EAX, of additional data and of the message.                             *)
AadAfter(n) == OmacFirst(1) \o Aad(n)

EaxAadIs(c, nonce, aad, least, torn) ==
  /\ Context(c) /\ c.nonce = OmacOf(0, nonce)
  /\ c.buf \in [1 .. CipherBlock -> Bytes] /\ c.ptr \in 0 .. CipherBlock
  /\ c.headFlag = 1 => c.ctr = <<OmacFirst(2)>> /\ least.input >= 1
  /\ ~torn => GatheredIn(Bytes, c, AadAfter(aad)) /\ (c.ptr = 0 => aad = 0 /\ least.aad >= 1)

EaxDataIs(c, nonce, aad, least, torn, encrypt, input) ==
  /\ Context(c) /\ c.nonce = OmacOf(0, nonce) /\ c.ctr = OmacOf(0, nonce)
  /\ CtxRuns(encrypt, OmacFirst(2), 0, input, c)
  /\ c.ptr = 0 => input = 0 /\ least.input >= 1
  /\ ~torn => c.head = OmacOf(1, Aad(aad))

(* More than the rest of a block that was partly there.                    *)
Tears(c, k) == c.ptr < CipherBlock /\ k > CipherBlock - c.ptr

(* The OMAC of the additional data starts from its first block.            *)
LEMMA AadAfterIs ==
  /\ AadAfter(0) = OmacFirst(1)
  /\ \A n, k \in Nat : \A data : AadPart(data, n, k) => AadAfter(n) \o data = AadAfter(n + k)
<1> DEFINE f == OmacFirst(1)
<1>1. f \in Seq(Bytes)
  BY PlainAndAll, OmacFirstIs
<1> HIDE DEF f
<1>2. f \o Aad(0) = f
  <2>1. Aad(0) = <<>>
    BY AadIs
  <2> QED BY <1>1, <2>1, ConcatEmptySeq
<1>3. ASSUME NEW n \in Nat, NEW k \in Nat, NEW data, AadPart(data, n, k)
      PROVE  (f \o Aad(n)) \o data = f \o Aad(n + k)
  <2> DEFINE a == Aad(n)
  <2>1. a \in Seq(Bytes) /\ data \in Seq(Bytes)
    BY <1>3, AadIs DEF AadPart
  <2>2. a \o data = Aad(n + k)
    BY <1>3 DEF AadPart
  <2> HIDE DEF a
  <2>3. (f \o a) \o data = f \o (a \o data)
    <3>1. ThreeJoined(f, a, data)
      BY <1>1, <2>1, JoinThree
    <3> QED BY <3>1 DEF ThreeJoined
  <2> QED BY <2>2, <2>3 DEF a
<1> QED BY <1>2, <1>3 DEF AadAfter, f

(* br_eax_reset and br_eax_reset_pre_aad leave nothing of the computation  *)
(* before them.                                                            *)
LEMMA EaxAadBegins ==
  ASSUME NEW nonce \in Seq(PlainBytes), NEW least
  PROVE  /\ EaxAadIs(EaxReset(UsedContext, nonce), nonce, 0, least, FALSE)
         /\ least.aad = 1 /\ least.input = 1
            => EaxAadIs(EaxResetPreAad(UsedContext, EaxCapture, nonce), nonce, 0, least, FALSE)
<1> DEFINE r == EaxReset(UsedContext, nonce)
           q == EaxResetPreAad(UsedContext, EaxCapture, nonce)
<1>0. AadAfter(0) = OmacFirst(1) /\ CipherBlock \in Nat \ {0}
  BY AadAfterIs, ModesAssumption
<1>1. /\ Context(r) /\ r.nonce = OmacOf(0, nonce) /\ r.headFlag = 0
      /\ GatheredIn(Bytes, r, OmacFirst(1)) /\ r.ptr = CipherBlock
  BY UsedIs, EaxResets
<1>2. /\ Context(q) /\ q.nonce = OmacOf(0, nonce) /\ q.headFlag = 1 /\ q.ctr = <<OmacFirst(2)>>
      /\ GatheredIn(Bytes, q, OmacFirst(1)) /\ q.ptr = 0
  BY UsedIs, PreAadResets
<1> HIDE DEF r, q
<1>3. r.buf \in [1 .. CipherBlock -> Bytes] /\ r.ptr \in 0 .. CipherBlock
  BY <1>1 DEF GatheredIn, Gathered
<1>4. q.buf \in [1 .. CipherBlock -> Bytes] /\ q.ptr \in 0 .. CipherBlock
  BY <1>2 DEF GatheredIn, Gathered
<1>5. EaxAadIs(r, nonce, 0, least, FALSE)
  BY <1>0, <1>1, <1>3 DEF EaxAadIs
<1>6. ASSUME least.aad = 1, least.input = 1
      PROVE  EaxAadIs(q, nonce, 0, least, FALSE)
  BY <1>0, <1>2, <1>4, <1>6 DEF EaxAadIs
<1> QED BY <1>5, <1>6 DEF r, q

(* br_eax_aad_inject goes on with the additional data.                     *)
LEMMA EaxInjectsTo ==
  ASSUME NEW c, NEW nonce, NEW least, NEW torn \in BOOLEAN, NEW n \in Nat, NEW k \in Nat, NEW data,
         EaxAadIs(c, nonce, n, least, torn), AadPart(data, n, k)
  PROVE  EaxAadIs(EaxInject(c, data), nonce, n + k, least, torn \/ Tears(c, k))
<1> DEFINE r == EaxInject(c, data)
           s == AadAfter(n)
<1>1. /\ Context(c) /\ c.nonce = OmacOf(0, nonce) /\ c.buf \in [1 .. CipherBlock -> Bytes] /\ c.ptr \in 0 .. CipherBlock
      /\ (c.headFlag = 1 => c.ctr = <<OmacFirst(2)>> /\ least.input >= 1)
      /\ (~torn => GatheredIn(Bytes, c, s) /\ (c.ptr = 0 => n = 0 /\ least.aad >= 1))
  BY DEF EaxAadIs
<1>2. data \in Seq(Bytes) /\ Len(data) = k /\ Aad(n) \o data = Aad(n + k)
  BY DEF AadPart
<1>3. SameStream(c, r) /\ r.buf \in [1 .. CipherBlock -> Bytes] /\ r.ptr \in 0 .. CipherBlock
  BY <1>1, <1>2, EaxInjectKeeps
<1>4. ASSUME ~torn, ~Tears(c, k)
      PROVE  GatheredIn(Bytes, r, AadAfter(n + k)) /\ (r.ptr = 0 => n + k = 0 /\ least.aad >= 1)
  <2>1. c.ptr = CipherBlock \/ c.ptr + Len(data) <= CipherBlock
    <3> DEFINE p == c.ptr
    <3>1. p \in 0 .. CipherBlock /\ ~(p < CipherBlock /\ k > CipherBlock - p) /\ CipherBlock \in Nat
      BY <1>1, <1>4, ModesAssumption DEF Tears
    <3> HIDE DEF p
    <3>2. p = CipherBlock \/ p + k <= CipherBlock
      BY <3>1
    <3> QED BY <1>2, <3>2 DEF p
  <2>2. GatheredIn(Bytes, r, s \o data) /\ (r.ptr = 0 => c.ptr = 0 /\ data = <<>>)
    <3> HIDE DEF s
    <3> QED BY <1>1, <1>2, <1>4, <2>1, EaxInjects
  <2>3. s \o data = AadAfter(n + k)
    BY AadAfterIs
  <2>4. r.ptr = 0 => k = 0 /\ n = 0 /\ least.aad >= 1
    BY <1>1, <1>2, <1>4, <2>2
  <2> QED BY <2>2, <2>3, <2>4
<1> HIDE DEF r
<1>5. Context(r) /\ r.nonce = c.nonce /\ r.headFlag = c.headFlag /\ r.ctr = c.ctr
  BY <1>3 DEF SameStream, SameKeys
<1>6. EaxAadIs(r, nonce, n + k, least, torn \/ Tears(c, k))
  BY <1>1, <1>3, <1>4, <1>5 DEF EaxAadIs
<1> QED BY <1>6 DEF r

(* br_eax_flip ends its OMAC and starts that of the message.               *)
LEMMA EaxFlipsTo ==
  ASSUME NEW c, NEW nonce \in Seq(PlainBytes), NEW least, least.aad \in Int, NEW torn \in BOOLEAN, NEW n \in Nat,
         EaxAadIs(c, nonce, n, least, torn), n >= least.aad, NEW encrypt \in BOOLEAN
  PROVE  EaxDataIs(EaxFlip(c), nonce, n, least, torn, encrypt, 0)
<1> DEFINE r == EaxFlip(c)
<1>1. /\ Context(c) /\ c.nonce = OmacOf(0, nonce) /\ c.buf \in [1 .. CipherBlock -> Bytes] /\ c.ptr \in 0 .. CipherBlock
      /\ (c.headFlag = 1 => c.ctr = <<OmacFirst(2)>> /\ least.input >= 1)
      /\ (~torn => GatheredIn(Bytes, c, AadAfter(n)) /\ (c.ptr = 0 => n = 0 /\ least.aad >= 1))
  BY DEF EaxAadIs
<1>2. /\ Context(r) /\ r.nonce = c.nonce /\ r.ctr = c.nonce /\ r.next = 0 /\ r.head = DoPad(c).mac
      /\ (c.headFlag = 1 /\ c.ctr = <<OmacFirst(2)>> => GatheredIn(Bytes, r, OmacFirst(2)) /\ r.ptr = 0)
      /\ (c.headFlag # 1 => GatheredIn(Bytes, r, OmacFirst(2)) /\ r.ptr = CipherBlock)
  BY <1>1, EaxFlips
<1> HIDE DEF r
<1>3. GatheredIn(Bytes, r, OmacFirst(2)) /\ r.ptr \in {0, CipherBlock} /\ (r.ptr = 0 => least.input >= 1)
  <2>1. CipherBlock # 0
    BY ModesAssumption
  <2> QED BY <1>1, <1>2, <2>1
<1>4. CtxRuns(encrypt, OmacFirst(2), 0, 0, r)
  <2>1. r.ctr \in Counters /\ r.next \in Int
    BY <1>1, <1>2, OmacTyped
  <2>2. CtxRuns(encrypt, OmacFirst(2), r.next, 0, r)
    BY <1>3, <2>1, StartRuns
  <2> QED BY <1>2, <2>2
<1>5. ASSUME ~torn
      PROVE  r.head = OmacOf(1, Aad(n))
  <2>1. c.ptr # 0
    <3> DEFINE m == least.aad
    <3>1. m \in Int /\ n >= m /\ (c.ptr = 0 => n = 0 /\ m >= 1)
      BY <1>1, <1>5
    <3> HIDE DEF m
    <3> QED BY <3>1
  <2>2. DoPad(c).mac = OmacOf(1, Aad(n))
    <3>1. BlockBytes(Bytes) /\ Aad(n) \in Seq(Bytes) /\ GatheredIn(Bytes, c, OmacFirst(1) \o Aad(n)) /\ Context(c)
      BY <1>1, <1>5, PlainAndAll, AadIs DEF AadAfter
    <3> DEFINE t == Aad(n)
    <3>2. t \in Seq(Bytes) /\ GatheredIn(Bytes, c, OmacFirst(1) \o t)
      BY <3>1
    <3> HIDE DEF t
    <3>3. DoPad(c).mac = OmacOf(1, t)
      BY <2>1, <3>1, <3>2, PadGathered
    <3> QED BY <3>3 DEF t
  <2> QED BY <1>2, <2>2
<1>6. EaxDataIs(r, nonce, n, least, torn, encrypt, 0)
  BY <1>1, <1>2, <1>3, <1>4, <1>5 DEF EaxDataIs
<1> QED BY <1>6 DEF r

EaxRanTo(r, nonce, aad, least, torn, encrypt, n, k) ==
  EaxDataIs(r.c, nonce, aad, least, torn, encrypt, n + k) /\ RunOut(OmacOf(0, nonce), 0, n, k, r.out)

(* br_eax_run gives the output that is due and goes on with the            *)
(* ciphertext.                                                             *)
LEMMA EaxRunsTo ==
  ASSUME NEW c, NEW nonce \in Seq(PlainBytes), NEW aad, NEW least, NEW torn, NEW encrypt \in BOOLEAN, NEW n \in Nat,
         NEW k \in Nat, NEW data, EaxDataIs(c, nonce, aad, least, torn, encrypt, n), MessagePart(data, n, k)
  PROVE  EaxRanTo(EaxRun(c, data, encrypt), nonce, aad, least, torn, encrypt, n, k)
<1> DEFINE r == EaxRun(c, data, encrypt)
           head == OmacFirst(2)
<1>1. /\ Context(c) /\ c.nonce = OmacOf(0, nonce) /\ c.ctr = OmacOf(0, nonce)
      /\ CtxRuns(encrypt, head, 0, n, c) /\ (c.ptr = 0 => n = 0 /\ least.input >= 1)
      /\ (~torn => c.head = OmacOf(1, Aad(aad)))
  BY DEF EaxDataIs
<1>2. c.ctr \in Counters /\ head \in Seq(Bytes)
  BY <1>1, OmacTyped, PlainAndAll, OmacFirstIs
<1> HIDE DEF head
<1>3. RanTo(encrypt, head, 0, n, k, c, r) /\ (r.c.ptr = 0 => k = 0 /\ c.ptr = 0)
  BY <1>1, <1>2, EaxRuns
<1> HIDE DEF r
<1>4. CtxRuns(encrypt, head, 0, n + k, r.c) /\ SameKeys(c, r.c) /\ OutputOf(c.ctr, 0, n) \o r.out = OutputOf(c.ctr, 0, n + k)
  BY <1>3 DEF RanTo
<1>5. Context(r.c) /\ r.c.nonce = c.nonce /\ r.c.ctr = c.ctr /\ r.c.head = c.head
  BY <1>4 DEF SameKeys
<1>6. r.c.ptr = 0 => n + k = 0 /\ least.input >= 1
  BY <1>1, <1>3
<1>7. EaxDataIs(r.c, nonce, aad, least, torn, encrypt, n + k)
  BY <1>1, <1>4, <1>5, <1>6 DEF EaxDataIs, head
<1> QED BY <1>1, <1>4, <1>7 DEF r, EaxRanTo, RunOut

(* A MAC has the bytes of a block.                                         *)
LEMMA MacBytesAre ==
  ASSUME NEW m
  PROVE  DOMAIN MacBytes(m) = 1 .. CipherBlock
BY DEF MacBytes

(* The three MACs are added in another order.                              *)
LEMMA AddedInOrder ==
  ASSUME NEW x, NEW y, NEW z, DOMAIN x = 1 .. CipherBlock, DOMAIN y = 1 .. CipherBlock, DOMAIN z = 1 .. CipherBlock
  PROVE  XorBytes(XorBytes(z, x), y) = XorBytes(XorBytes(x, y), z)
<1>1. \A a, b, e : Added(Added(e, a), b) = Added(Added(a, b), e)
  BY DEF Added
<1>2. /\ DOMAIN XorBytes(z, x) = 1 .. CipherBlock /\ \A i \in 1 .. CipherBlock : XorBytes(z, x)[i] = Added(z[i], x[i])
      /\ DOMAIN XorBytes(x, y) = 1 .. CipherBlock /\ \A i \in 1 .. CipherBlock : XorBytes(x, y)[i] = Added(x[i], y[i])
  BY DEF XorBytes
<1> HIDE DEF Added
<1>3. XorBytes(XorBytes(z, x), y) = [i \in 1 .. CipherBlock |-> Added(Added(z[i], x[i]), y[i])]
  BY <1>2 DEF XorBytes
<1>4. XorBytes(XorBytes(x, y), z) = [i \in 1 .. CipherBlock |-> Added(Added(x[i], y[i]), z[i])]
  BY <1>2 DEF XorBytes
<1> QED BY <1>1, <1>3, <1>4

(* At least what the captured MACs ask for.                                *)
EaxEnough(least, n) == least.input \in Int /\ n >= least.input

EaxTagged(c, nonce, aad, encrypt, n, plaintext, tagLen) ==
  EaxTag(c) = TagOf("eax", nonce, Aad(aad), n, CoveredOf(encrypt, OmacOf(0, nonce), 0, n), plaintext, tagLen)
EaxWhole(c, nonce, aad, least, encrypt, n) == EaxDataIs(c, nonce, aad, least, FALSE, encrypt, n)

(* br_eax_get_tag gives the tag of the definition of EAX, if no MAC was    *)
(* torn.                                                                   *)
LEMMA EaxTagIs ==
  ASSUME NEW c, NEW nonce \in Seq(PlainBytes), NEW aad, NEW least, NEW encrypt \in BOOLEAN,
         NEW n \in Nat, EaxEnough(least, n), EaxWhole(c, nonce, aad, least, encrypt, n), NEW plaintext, NEW tagLen
  PROVE  EaxTagged(c, nonce, aad, encrypt, n, plaintext, tagLen)
<1> DEFINE cov == CoveredOf(encrypt, OmacOf(0, nonce), 0, n)
<1>1. /\ Context(c) /\ c.nonce = OmacOf(0, nonce) /\ c.ctr = OmacOf(0, nonce)
      /\ CtxRuns(encrypt, OmacFirst(2), 0, n, c) /\ (c.ptr = 0 => n = 0 /\ least.input >= 1)
      /\ c.head = OmacOf(1, Aad(aad))
  BY DEF EaxWhole, EaxDataIs
<1>2. cov \in Seq(Bytes) /\ GatheredIn(Bytes, c, OmacFirst(2) \o cov)
  <2>1. OmacOf(0, nonce) \in Counters
    BY OmacTyped
  <2>2. cov \in Seq(Bytes)
    BY <2>1, CoveredIs
  <2>3. GatheredIn(Bytes, c, OmacFirst(2) \o cov)
    BY <1>1 DEF CtxRuns, Running, GatheredIn
  <2> QED BY <2>2, <2>3
<1> HIDE DEF cov
<1>3. c.ptr # 0
  <2> DEFINE m == least.input
  <2>1. m \in Int /\ n >= m /\ (c.ptr = 0 => n = 0 /\ m >= 1)
    BY <1>1 DEF EaxEnough
  <2> HIDE DEF m
  <2> QED BY <2>1
<1>4. DoPad(c).mac = OmacOf(2, cov)
  BY <1>1, <1>2, <1>3, PlainAndAll, PadGathered
<1>5. EaxTag(c) = XorBytes(XorBytes(MacBytes(OmacOf(2, cov)), MacBytes(OmacOf(0, nonce))), MacBytes(OmacOf(1, Aad(aad))))
  BY <1>1, <1>4 DEF EaxTag
<1>6. TagOf("eax", nonce, Aad(aad), n, cov, plaintext, tagLen)
        = XorBytes(XorBytes(MacBytes(OmacOf(0, nonce)), MacBytes(OmacOf(1, Aad(aad)))), MacBytes(OmacOf(2, cov)))
  BY DEF TagOf
<1> DEFINE x == MacBytes(OmacOf(0, nonce))
           y == MacBytes(OmacOf(1, Aad(aad)))
           z == MacBytes(OmacOf(2, cov))
<1>7. DOMAIN x = 1 .. CipherBlock /\ DOMAIN y = 1 .. CipherBlock /\ DOMAIN z = 1 .. CipherBlock
  BY MacBytesAre
<1> HIDE DEF x, y, z
<1>8. XorBytes(XorBytes(z, x), y) = XorBytes(XorBytes(x, y), z)
  BY <1>7, AddedInOrder
<1> QED BY <1>5, <1>6, <1>8 DEF x, y, z, cov, EaxTagged

(* br_eax_get_aad_mac, and br_eax_reset_post_aad                           *)
LEMMA EaxDataBegins ==
  ASSUME NEW nonce \in Seq(PlainBytes), NEW a \in Nat, NEW least, least.input = 1, NEW encrypt \in BOOLEAN
  PROVE  EaxDataIs(EaxResetPostAad(UsedContext, CapturedAad(Aad(a)), nonce), nonce, a, least, FALSE, encrypt, 0)
<1> DEFINE c0 == EaxReset(UsedContext, <<>>)
           data == Aad(a)
           c1 == EaxInject(c0, data)
           st == CapturedAad(data)
           n == CapturedNonce(UsedContext, st, nonce)
           r == EaxResetPostAad(UsedContext, st, nonce)
<1>1. Context(c0) /\ GatheredIn(Bytes, c0, OmacFirst(1)) /\ c0.ptr = CipherBlock
  <2>1. <<>> \in Seq(PlainBytes)
    OBVIOUS
  <2> QED BY <2>1, UsedIs, EaxResets
<1>2. data \in Seq(Bytes) /\ CipherBlock \in Nat \ {0}
  BY AadIs, ModesAssumption
<1>0. st = [EaxCapture EXCEPT ![2] = EaxFlip(c1).head]
  BY DEF CapturedAad
<1> HIDE DEF c0, data, st
<1>3. GatheredIn(Bytes, c1, OmacFirst(1) \o data) /\ Context(c1) /\ c1.ptr # 0
  <2>1. GatheredIn(Bytes, c1, OmacFirst(1) \o data) /\ SameStream(c0, c1) /\ (c1.ptr = 0 => c0.ptr = 0 /\ data = <<>>)
    BY <1>1, <1>2, EaxInjects
  <2> HIDE DEF c1
  <2> QED BY <1>1, <1>2, <2>1 DEF SameStream, SameKeys
<1> HIDE DEF c1
<1>4. EaxFlip(c1).head = OmacOf(1, data)
  <2>1. DoPad(c1).mac = OmacOf(1, data)
    BY <1>2, <1>3, PlainAndAll, PadGathered
  <2>2. c1.buf \in [1 .. CipherBlock -> Bytes] /\ c1.ptr \in 0 .. CipherBlock
    BY <1>3 DEF GatheredIn, Gathered
  <2>3. EaxFlip(c1).head = DoPad(c1).mac
    BY <1>3, <2>2, EaxFlips
  <2> QED BY <2>1, <2>3
<1>5. st[1] = <<OmacFirst(0)>> /\ st[2] = OmacOf(1, data) /\ st[3] = <<OmacFirst(2)>>
  BY <1>0, <1>4 DEF EaxCapture
<1>6. r = [n EXCEPT !.nonce = n.mac, !.ctr = n.mac, !.next = 0, !.head = st[2], !.mac = st[3], !.ptr = 0]
  BY DEF EaxResetPostAad
<1> HIDE DEF r
<1>7. SameStream(UsedContext, n) /\ n.mac = OmacOf(0, nonce) /\ n.buf \in [1 .. CipherBlock -> PlainBytes]
  BY <1>5, UsedIs, CapturedNonceIs
<1> HIDE DEF n
<1>8. Context(n)
  BY <1>7 DEF SameStream, SameKeys
<1>9. /\ Context(r) /\ r.nonce = n.mac /\ r.ctr = n.mac /\ r.next = 0 /\ r.head = st[2] /\ r.mac = st[3]
      /\ r.buf = n.buf /\ r.ptr = 0
  BY <1>6, <1>8 DEF Context, Fields
<1>10. GatheredIn(Bytes, r, OmacFirst(2))
  <2>1. r.buf \in [1 .. CipherBlock -> Bytes]
    BY <1>7, <1>9, PlainBlocks
  <2> QED BY <1>5, <1>9, <2>1, PlainAndAll, FirstGathered
<1>11. CtxRuns(encrypt, OmacFirst(2), 0, 0, r)
  <2>1. r.ctr \in Counters /\ r.next \in Int /\ r.ptr \in {0, CipherBlock}
    BY <1>7, <1>9, OmacTyped
  <2>2. CtxRuns(encrypt, OmacFirst(2), r.next, 0, r)
    BY <1>10, <2>1, StartRuns
  <2> QED BY <1>9, <2>2
<1>12. EaxDataIs(r, nonce, a, least, FALSE, encrypt, 0)
  BY <1>5, <1>7, <1>9, <1>11 DEF EaxDataIs, data
<1> QED BY <1>12 DEF r, st, data

AeadFields == {"step", "mode", "nonce", "c", "encrypt", "aad", "input", "out", "tag", "tagLen", "least", "most", "torn"}

(* What an injection or a run leaves of the call.                          *)
SameCall(x, y) ==
  /\ DOMAIN y = AeadFields /\ y.mode = x.mode /\ y.nonce = x.nonce /\ y.encrypt = x.encrypt /\ y.tagLen = x.tagLen
  /\ y.least = x.least /\ y.most = x.most

Going(x) ==
  /\ DOMAIN x = AeadFields
  /\ x.nonce \in Seq(PlainBytes) /\ x.aad \in Nat /\ x.input \in Nat /\ x.encrypt \in BOOLEAN /\ x.torn \in BOOLEAN
  /\ x.mode \in {"gcm", "ccm", "eax"} /\ (x.mode # "eax" => ~x.torn)
  /\ x.least.aad \in Nat /\ x.least.input \in Nat
  /\ x.mode = "ccm" => x.least = x.most /\ x.aad <= x.most.aad /\ x.input <= x.most.input

InAad(x) ==
  /\ x.step = "aad" /\ Going(x) /\ x.input = 0 /\ x.out = <<>>
  /\ x.mode = "gcm" => GcmAadIs(x.c, x.nonce, x.aad)
  /\ x.mode = "ccm" => CcmAadIs(x.c, x.nonce, x.most, x.tagLen, x.aad)
  /\ x.mode = "eax" => EaxAadIs(x.c, x.nonce, x.aad, x.least, x.torn)

InData(x) ==
  /\ x.step = "data" /\ Going(x) /\ x.out = Output(x.mode, x.nonce, x.input)
  /\ x.mode = "gcm" => GcmDataIs(x.c, x.nonce, x.aad, x.encrypt, x.input)
  /\ x.mode = "ccm" => x.aad = x.most.aad /\ CcmDataIs(x.c, x.nonce, x.most, x.tagLen, x.encrypt, x.input)
  /\ x.mode = "eax" => EaxDataIs(x.c, x.nonce, x.aad, x.least, x.torn, x.encrypt, x.input)

HasTag(x) ==
  x.tag = TagOf(x.mode, x.nonce, Aad(x.aad), x.input,
                IF x.encrypt THEN x.out ELSE Input(x.input),
                IF x.encrypt THEN Input(x.input) ELSE x.out, x.tagLen)

ModesInv(x) ==
  \/ x.step \in {"idle", "refused"}
  \/ InAad(x)
  \/ InData(x)
  \/ x.step = "tagged" /\ x.out = Output(x.mode, x.nonce, x.input) /\ (~x.torn => HasTag(x))

-----------------------------------------------------------------------------
(* The outputs of the three definitions.                                   *)
LEMMA OutputsAre ==
  ASSUME NEW nonce, NEW n
  PROVE  /\ Output("gcm", nonce, n) = OutputOf(GcmKey(nonce), GcmFirst(nonce) + 1, n)
         /\ Output("ccm", nonce, n) = OutputOf(<<nonce>>, 1, n)
         /\ Output("eax", nonce, n) = OutputOf(OmacOf(0, nonce), 0, n)
<1>1. Output("gcm", nonce, n) = OutputOf(GcmKey(nonce), GcmFirst(nonce) + 1, n)
  <2>1. CASE Len(nonce) = PlainNonce
    <3>1. GcmKey(nonce) = <<nonce>> /\ GcmFirst(nonce) + 1 = 2
      BY <2>1 DEF GcmKey, GcmFirst
    <3>2. Output("gcm", nonce, n) = XorBytes(Input(n), Stream(<<nonce>>, 2, n))
      BY <2>1 DEF Output
    <3> QED BY <3>1, <3>2 DEF OutputOf
  <2>2. CASE Len(nonce) # PlainNonce
    <3>1. GcmKey(nonce) = ZeroPadded(nonce) \o GcmLengths(0, Len(nonce)) /\ GcmFirst(nonce) + 1 = 1
      BY <2>2 DEF GcmKey, GcmFirst
    <3>2. Output("gcm", nonce, n) = XorBytes(Input(n), Stream(ZeroPadded(nonce) \o GcmLengths(0, Len(nonce)), 1, n))
      BY <2>2 DEF Output
    <3> QED BY <3>1, <3>2 DEF OutputOf
  <2> QED BY <2>1, <2>2
<1>2. Output("ccm", nonce, n) = OutputOf(<<nonce>>, 1, n) /\ Output("eax", nonce, n) = OutputOf(OmacOf(0, nonce), 0, n)
  BY DEF Output, OutputOf
<1> QED BY <1>1, <1>2

(* Nothing comes out of nothing.                                           *)
LEMMA NoOutput ==
  ASSUME NEW mode \in {"gcm", "ccm", "eax"}, NEW nonce \in Seq(PlainBytes)
  PROVE  Output(mode, nonce, 0) = <<>>
<1>1. \A ctr \in Counters, first \in Int : OutputOf(ctr, first, 0) = <<>>
  <2> TAKE ctr \in Counters, first \in Int
  <2>1. OutputOf(ctr, first, 0) \in Seq(Bytes) /\ Len(OutputOf(ctr, first, 0)) = 0
    BY OutputIs
  <2> QED BY <2>1, EmptySeq
<1>2. GcmKey(nonce) \in Counters /\ GcmFirst(nonce) + 1 \in Int /\ <<nonce>> \in Counters /\ OmacOf(0, nonce) \in Counters
  <2>1. <<nonce>> \in Counters
    BY DEF Counters
  <2> QED BY <2>1, GcmKeyIs, OmacTyped
<1>3. OutputOf(GcmKey(nonce), GcmFirst(nonce) + 1, 0) = <<>> /\ OutputOf(<<nonce>>, 1, 0) = <<>> /\ OutputOf(OmacOf(0, nonce), 0, 0) = <<>>
  BY <1>1, <1>2
<1> QED BY <1>3, OutputsAre

-----------------------------------------------------------------------------
AtStart(y, step, mode, nonce, c, aad, least, most, encrypt, tagLen) ==
  /\ DOMAIN y = AeadFields /\ y.step = step /\ y.mode = mode /\ y.nonce = nonce /\ y.c = c /\ y.aad = aad
  /\ y.least = least /\ y.most = most /\ y.encrypt = encrypt /\ y.tagLen = tagLen
  /\ y.input = 0 /\ y.out = <<>> /\ ~y.torn /\ y.torn \in BOOLEAN

(* The call after a reset.                                                 *)
LEMMA BegunIs ==
  ASSUME NEW mode, NEW nonce, NEW c, NEW aad, NEW least, NEW most, NEW encrypt, NEW tagLen
  PROVE  AtStart(Begun(mode, nonce, c, aad, least, most, encrypt, tagLen), "aad",
                 mode, nonce, c, aad, least, most, encrypt, tagLen)
BY DEF Begun, AeadFields, AtStart

(* It is a call of its mode, of which nothing was output.                  *)
LEMMA GoingAtStart ==
  ASSUME NEW y, NEW step, NEW mode \in {"gcm", "ccm", "eax"}, NEW nonce \in Seq(PlainBytes), NEW c, NEW aad \in Nat, NEW least,
         NEW most, NEW encrypt \in BOOLEAN, NEW tagLen, least.aad \in Nat, least.input \in Nat,
         mode = "ccm" => least = most /\ aad <= most.aad /\ 0 <= most.input,
         AtStart(y, step, mode, nonce, c, aad, least, most, encrypt, tagLen)
  PROVE  Going(y)
<1>1. /\ DOMAIN y = AeadFields /\ y.nonce \in Seq(PlainBytes) /\ y.aad \in Nat /\ y.input \in Nat
      /\ y.mode \in {"gcm", "ccm", "eax"} /\ y.least.aad \in Nat /\ y.least.input \in Nat
      /\ (y.mode = "ccm" => y.least = y.most /\ y.aad <= y.most.aad /\ y.input <= y.most.input)
  BY DEF AtStart
<1>2. y.encrypt \in BOOLEAN /\ y.torn \in BOOLEAN /\ ~y.torn
  BY Zenon DEF AtStart
<1> QED BY <1>1, <1>2, Zenon DEF Going

(* The nonces of the application.                                          *)
LEMMA NonceIs ==
  ASSUME NEW n \in NonceLens
  PROVE  n \in Nat /\ Named("n", n) \in Seq(PlainBytes)
<1>1. n \in Nat /\ "n" \in Names
  BY ModesAssumption DEF Names
<1> QED BY <1>1, NamedAre

(* br_gcm_reset gives the invariant.                                       *)
LEMMA GcmBegins ==
  ASSUME NEW n \in NonceLens, NEW encrypt \in BOOLEAN
  PROVE  InAad(Begun("gcm", Named("n", n), GcmReset(UsedContext, Named("n", n)), 0, NoInput, Unlimited, encrypt, CipherBlock))
<1> DEFINE nonce == Named("n", n)
           c == GcmReset(UsedContext, nonce)
           y == Begun("gcm", nonce, c, 0, NoInput, Unlimited, encrypt, CipherBlock)
<1>1. nonce \in Seq(PlainBytes)
  BY NonceIs
<1> HIDE DEF nonce
<1>2. /\ Context(c) /\ c.ctr = GcmKey(nonce) /\ c.first = GcmFirst(nonce) /\ c.next = GcmFirst(nonce) + 1
      /\ c.countAad = 0 /\ c.countCtr = 0 /\ GatheredIn(Bytes, WithPtr(c, 0), <<>>)
  BY UsedIs, GcmResets
<1> HIDE DEF c
<1>3. AtStart(y, "aad", "gcm", nonce, c, 0, NoInput, Unlimited, encrypt, CipherBlock)
  BY BegunIs
<1> HIDE DEF y
<1>4. 0 % CipherBlock = 0 /\ Aad(0) = <<>>
  <2>1. CipherBlock \in Nat \ {0} /\ Aad(0) = <<>>
    BY ModesAssumption, AadIs
  <2> QED BY <2>1
<1>5. GcmAadIs(c, nonce, 0)
  BY <1>2, <1>4 DEF GcmAadIs, GcmKeyed
<1>6. NoInput.aad \in Nat /\ NoInput.input \in Nat
  BY DEF NoInput
<1>7. Going(y)
  BY <1>1, <1>3, <1>6, GoingAtStart
<1>8. InAad(y)
  BY <1>3, <1>5, <1>7 DEF InAad, AtStart
<1> QED BY <1>8 DEF y, c, nonce

(* So does br_ccm_reset.                                                   *)
LEMMA CcmBegins ==
  ASSUME NEW n \in NonceLens, NEW encrypt \in BOOLEAN, NEW a \in Nat, NEW i \in Nat, NEW tagLen \in TagLens,
         ~CcmRefuses(n, i, tagLen)
  PROVE  InAad(Begun("ccm", Named("n", n), CcmReset(UsedContext, Named("n", n), a, i, tagLen), 0,
                     [aad |-> a, input |-> i], [aad |-> a, input |-> i], encrypt, tagLen))
<1> DEFINE nonce == Named("n", n)
           m == [aad |-> a, input |-> i]
           c == CcmReset(UsedContext, nonce, a, i, tagLen)
           y == Begun("ccm", nonce, c, 0, m, m, encrypt, tagLen)
<1>1. nonce \in Seq(PlainBytes) /\ n \in Nat /\ tagLen \in Nat
  BY NonceIs, ModesAssumption
<1>2. m.aad = a /\ m.input = i
  OBVIOUS
<1> HIDE DEF m
<1>3. CcmAadIs(c, nonce, m, tagLen, 0)
  <2>1. m.aad \in Nat /\ m.input \in Nat /\ ~CcmRefuses(n, m.input, tagLen)
    BY <1>2
  <2>2. CcmAadIs(CcmReset(UsedContext, Named("n", n), m.aad, m.input, tagLen), Named("n", n), m, tagLen, 0)
    BY <1>1, <2>1, UsedIs, CcmResets
  <2> QED BY <1>2, <2>2
<1> HIDE DEF nonce, c
<1>4. AtStart(y, "aad", "ccm", nonce, c, 0, m, m, encrypt, tagLen)
  BY BegunIs
<1> HIDE DEF y
<1>6. Going(y)
  <2>1. m.aad \in Nat /\ m.input \in Nat /\ 0 <= m.aad /\ 0 <= m.input
    BY <1>2
  <2> QED BY <1>1, <1>4, <2>1, GoingAtStart
<1>7. InAad(y)
  BY <1>3, <1>4, <1>6 DEF InAad, AtStart
<1> QED BY <1>7 DEF y, c, nonce, m

(* So do br_eax_reset and br_eax_reset_pre_aad.                            *)
LEMMA EaxBegins ==
  ASSUME NEW n \in NonceLens, NEW encrypt \in BOOLEAN
  PROVE  /\ InAad(Begun("eax", Named("n", n), EaxReset(UsedContext, Named("n", n)), 0, NoInput, Unlimited, encrypt,
                        CipherBlock))
         /\ InAad(Begun("eax", Named("n", n), EaxResetPreAad(UsedContext, EaxCapture, Named("n", n)), 0,
                        [aad |-> 1, input |-> 1], Unlimited, encrypt, CipherBlock))
<1> DEFINE nonce == Named("n", n)
           one == [aad |-> 1, input |-> 1]
<1>1. nonce \in Seq(PlainBytes)
  BY NonceIs
<1>2. one.aad = 1 /\ one.input = 1 /\ NoInput.aad = 0 /\ NoInput.input = 0
  BY DEF NoInput
<1> HIDE DEF nonce, one
<1>3. EaxAadIs(EaxReset(UsedContext, nonce), nonce, 0, NoInput, FALSE)
  BY <1>1, EaxAadBegins
<1>4. EaxAadIs(EaxResetPreAad(UsedContext, EaxCapture, nonce), nonce, 0, one, FALSE)
  BY <1>1, <1>2, EaxAadBegins
<1>5. ASSUME NEW c, NEW least, least.aad \in Nat, least.input \in Nat, EaxAadIs(c, nonce, 0, least, FALSE)
      PROVE  InAad(Begun("eax", nonce, c, 0, least, Unlimited, encrypt, CipherBlock))
  <2> DEFINE y == Begun("eax", nonce, c, 0, least, Unlimited, encrypt, CipherBlock)
  <2>1. AtStart(y, "aad", "eax", nonce, c, 0, least, Unlimited, encrypt, CipherBlock)
    BY BegunIs
  <2> HIDE DEF y
  <2>2. Going(y)
    BY <1>1, <1>5, <2>1, GoingAtStart
  <2>4. y.mode = "eax" /\ y.c = c /\ y.nonce = nonce /\ y.aad = 0 /\ y.least = least /\ y.torn = FALSE
    BY <2>1, Zenon DEF AtStart
  <2>3. InAad(y)
    <3>1. EaxAadIs(y.c, y.nonce, y.aad, y.least, y.torn)
      BY <1>5, <2>4, Zenon
    <3> QED BY <2>1, <2>2, <3>1 DEF InAad, AtStart
  <2> QED BY <2>3 DEF y
<1>6. InAad(Begun("eax", nonce, EaxReset(UsedContext, nonce), 0, NoInput, Unlimited, encrypt, CipherBlock))
  <2>1. NoInput.aad \in Nat /\ NoInput.input \in Nat
    BY <1>2
  <2> QED BY <1>3, <1>5, <2>1
<1>7. InAad(Begun("eax", nonce, EaxResetPreAad(UsedContext, EaxCapture, nonce), 0, one, Unlimited, encrypt, CipherBlock))
  <2>1. one.aad \in Nat /\ one.input \in Nat
    BY <1>2
  <2> QED BY <1>4, <1>5, <2>1
<1> QED BY <1>6, <1>7 DEF nonce, one

(* br_eax_reset_post_aad goes on after the additional data that was        *)
(* captured.                                                               *)
LEMMA EaxBeginsWithData ==
  ASSUME NEW n \in NonceLens, NEW encrypt \in BOOLEAN, NEW a \in Nat
  PROVE  InData([Begun("eax", Named("n", n), EaxResetPostAad(UsedContext, CapturedAad(Aad(a)), Named("n", n)), a,
                       [aad |-> a, input |-> 1], Unlimited, encrypt, CipherBlock) EXCEPT !.step = "data"])
<1> DEFINE nonce == Named("n", n)
           least == [aad |-> a, input |-> 1]
           c == EaxResetPostAad(UsedContext, CapturedAad(Aad(a)), nonce)
           x == Begun("eax", nonce, c, a, least, Unlimited, encrypt, CipherBlock)
           y == [x EXCEPT !.step = "data"]
<1>1. nonce \in Seq(PlainBytes)
  BY NonceIs
<1>2. least.aad = a /\ least.input = 1
  OBVIOUS
<1> HIDE DEF nonce, least
<1>3. EaxDataIs(c, nonce, a, least, FALSE, encrypt, 0)
  BY <1>1, <1>2, EaxDataBegins
<1> HIDE DEF c
<1>4. AtStart(x, "aad", "eax", nonce, c, a, least, Unlimited, encrypt, CipherBlock)
  BY BegunIs
<1> HIDE DEF x
<1>5. AtStart(y, "data", "eax", nonce, c, a, least, Unlimited, encrypt, CipherBlock)
  BY <1>4 DEF AeadFields, AtStart
<1> HIDE DEF y
<1>6. Going(y)
  <2>1. least.aad \in Nat /\ least.input \in Nat
    BY <1>2
  <2> QED BY <1>1, <1>5, <2>1, GoingAtStart
<1>9. y.mode = "eax" /\ y.c = c /\ y.nonce = nonce /\ y.aad = a /\ y.least = least /\ y.torn = FALSE /\ y.encrypt = encrypt
      /\ y.input = 0
  BY <1>5, Zenon DEF AtStart
<1>7. y.out = Output(y.mode, y.nonce, y.input)
  <2>1. Output("eax", nonce, 0) = <<>>
    BY <1>1, NoOutput
  <2> QED BY <1>5, <2>1 DEF AtStart
<1>8. InData(y)
  <2>1. EaxDataIs(y.c, y.nonce, y.aad, y.least, y.torn, y.encrypt, y.input)
    BY <1>3, <1>9, Zenon
  <2> QED BY <1>5, <1>6, <1>7, <2>1 DEF InData, AtStart
<1> QED BY <1>8 DEF y, x, c, least, nonce

(* The call goes on with another context.                                  *)
LEMMA StillGoing ==
  ASSUME NEW x, NEW y, Going(x), SameCall(x, y), y.aad \in Nat, y.input \in Nat, y.torn \in BOOLEAN,
         x.mode # "eax" => ~y.torn,
         x.mode = "ccm" => y.aad <= x.most.aad /\ y.input <= x.most.input
  PROVE  Going(y)
<1>1. /\ DOMAIN y = AeadFields /\ y.nonce \in Seq(PlainBytes) /\ y.aad \in Nat /\ y.input \in Nat
      /\ y.mode \in {"gcm", "ccm", "eax"} /\ y.least.aad \in Nat /\ y.least.input \in Nat
      /\ (y.mode = "ccm" => y.least = y.most /\ y.aad <= y.most.aad /\ y.input <= y.most.input)
  BY DEF SameCall, Going
<1>2. y.encrypt \in BOOLEAN /\ y.torn \in BOOLEAN /\ (y.mode # "eax" => ~y.torn)
  BY Zenon DEF SameCall, Going
<1> QED BY <1>1, <1>2, Zenon DEF Going

(* br_*_aad_inject                                                         *)
LEMMA InjectKeeps ==
  ASSUME InAad(aead), NEW n \in Nat, ModeInject(n)
  PROVE  InAad(aead')
<1> DEFINE x == aead
           y == aead'
           data == Rest(Aad(aead.aad + n), aead.aad)
           torn == aead.torn \/ (aead.mode = "eax" /\ aead.c.ptr < CipherBlock /\ n > CipherBlock - aead.c.ptr)
           c == CASE aead.mode = "gcm" -> GcmInject(aead.c, data)
                  [] aead.mode = "ccm" -> InjectEager(aead.c, data)
                  [] aead.mode = "eax" -> EaxInject(aead.c, data)
<1>1. /\ x.step = "aad" /\ x.aad + n <= x.most.aad
      /\ y = [x EXCEPT !.aad = x.aad + n, !.torn = torn, !.c = c]
  BY DEF ModeInject
<1>2. /\ Going(x) /\ x.input = 0 /\ x.out = <<>>
      /\ (x.mode = "gcm" => GcmAadIs(x.c, x.nonce, x.aad))
      /\ (x.mode = "ccm" => CcmAadIs(x.c, x.nonce, x.most, x.tagLen, x.aad))
      /\ (x.mode = "eax" => EaxAadIs(x.c, x.nonce, x.aad, x.least, x.torn))
  BY DEF InAad
<1>3. x.aad \in Nat /\ x.torn \in BOOLEAN /\ x.mode \in {"gcm", "ccm", "eax"} /\ DOMAIN x = AeadFields
      /\ (x.mode # "eax" => ~x.torn) /\ (x.mode = "ccm" => x.input <= x.most.input)
  BY <1>2 DEF Going
<1>4. AadPart(data, x.aad, n)
  BY <1>3, AadGrows
<1>5. /\ x.mode = "gcm" => c = GcmInject(x.c, data)
      /\ x.mode = "ccm" => c = InjectEager(x.c, data)
      /\ x.mode = "eax" => c = EaxInject(x.c, data)
  OBVIOUS
<1>6. torn \in BOOLEAN /\ (x.mode # "eax" => ~torn) /\ (x.mode = "eax" => torn = (x.torn \/ Tears(x.c, n)))
  BY <1>3, Zenon DEF Tears
<1> HIDE DEF data, torn, c
<1>7. SameCall(x, y) /\ y.step = "aad" /\ y.input = 0 /\ y.out = <<>> /\ y.c = c /\ y.aad = x.aad + n
  BY <1>1, <1>2, <1>3 DEF SameCall, AeadFields
<1>8. y.torn = torn
  BY <1>1, <1>3 DEF AeadFields
<1> HIDE DEF x, y
<1>9. Going(y)
  <2>1. y.aad \in Nat /\ y.input \in Nat /\ (x.mode = "ccm" => y.aad <= x.most.aad /\ y.input <= x.most.input)
    BY <1>1, <1>2, <1>3, <1>7
  <2>2. y.torn \in BOOLEAN /\ (x.mode # "eax" => ~y.torn)
    BY <1>6, <1>8, Zenon
  <2> QED BY <1>2, <1>7, <2>1, <2>2, StillGoing
<1>10. ASSUME x.mode = "gcm" PROVE GcmAadIs(y.c, y.nonce, y.aad)
  <2>1. GcmAadIs(GcmInject(x.c, data), x.nonce, x.aad + n)
    BY <1>2, <1>3, <1>4, <1>10, GcmInjects
  <2> QED BY <1>5, <1>7, <1>10, <2>1 DEF SameCall
<1>11. ASSUME x.mode = "ccm" PROVE CcmAadIs(y.c, y.nonce, y.most, y.tagLen, y.aad)
  <2>1. CcmAadIs(InjectEager(x.c, data), x.nonce, x.most, x.tagLen, x.aad + n)
    BY <1>2, <1>3, <1>4, <1>11, CcmInjects
  <2> QED BY <1>5, <1>7, <1>11, <2>1 DEF SameCall
<1>12. ASSUME x.mode = "eax" PROVE EaxAadIs(y.c, y.nonce, y.aad, y.least, y.torn)
  <2>1. EaxAadIs(EaxInject(x.c, data), x.nonce, x.aad + n, x.least, x.torn \/ Tears(x.c, n))
    BY <1>2, <1>3, <1>4, <1>12, EaxInjectsTo
  <2>2. y.torn = (x.torn \/ Tears(x.c, n)) /\ y.c = EaxInject(x.c, data) /\ y.nonce = x.nonce /\ y.aad = x.aad + n /\ y.least = x.least
    BY <1>5, <1>6, <1>7, <1>8, <1>12, Zenon DEF SameCall
  <2> QED BY <2>1, <2>2, Zenon
<1>13. y.mode = x.mode
  BY <1>7 DEF SameCall
<1>14. InAad(y)
  BY <1>7, <1>9, <1>10, <1>11, <1>12, <1>13 DEF InAad
<1> QED BY <1>14 DEF y

(* br_*_flip                                                               *)
LEMMA FlipKeeps ==
  ASSUME InAad(aead), ModeFlip
  PROVE  InData(aead')
<1> DEFINE x == aead
           y == aead'
           c == CASE aead.mode = "gcm" -> GcmFlip(aead.c)
                  [] aead.mode = "ccm" -> FlipEager(aead.c)
                  [] aead.mode = "eax" -> EaxFlip(aead.c)
<1>1. x.step = "aad" /\ x.aad >= x.least.aad /\ y = [x EXCEPT !.step = "data", !.c = c]
  BY DEF ModeFlip
<1>2. /\ Going(x) /\ x.input = 0 /\ x.out = <<>>
      /\ (x.mode = "gcm" => GcmAadIs(x.c, x.nonce, x.aad))
      /\ (x.mode = "ccm" => CcmAadIs(x.c, x.nonce, x.most, x.tagLen, x.aad))
      /\ (x.mode = "eax" => EaxAadIs(x.c, x.nonce, x.aad, x.least, x.torn))
  BY DEF InAad
<1>3. /\ x.aad \in Nat /\ x.torn \in BOOLEAN /\ x.mode \in {"gcm", "ccm", "eax"} /\ DOMAIN x = AeadFields
      /\ x.nonce \in Seq(PlainBytes) /\ x.encrypt \in BOOLEAN /\ x.least.aad \in Nat
      /\ (x.mode # "eax" => ~x.torn)
      /\ (x.mode = "ccm" => x.least = x.most /\ x.aad <= x.most.aad /\ x.input <= x.most.input)
  BY <1>2 DEF Going
<1>5. /\ x.mode = "gcm" => c = GcmFlip(x.c)
      /\ x.mode = "ccm" => c = FlipEager(x.c)
      /\ x.mode = "eax" => c = EaxFlip(x.c)
  OBVIOUS
<1> HIDE DEF c
<1>7. SameCall(x, y) /\ y.step = "data" /\ y.input = 0 /\ y.out = <<>> /\ y.c = c /\ y.aad = x.aad
  BY <1>1, <1>2, <1>3 DEF SameCall, AeadFields
<1>8. y.torn = x.torn
  BY <1>1, <1>3 DEF AeadFields
<1> HIDE DEF x, y
<1>9. Going(y)
  <2>1. y.aad \in Nat /\ y.input \in Nat /\ (x.mode = "ccm" => y.aad <= x.most.aad /\ y.input <= x.most.input)
    BY <1>2, <1>3, <1>7
  <2>2. y.torn \in BOOLEAN /\ (x.mode # "eax" => ~y.torn)
    BY <1>3, <1>8, Zenon
  <2> QED BY <1>2, <1>7, <2>1, <2>2, StillGoing
<1>10. ASSUME x.mode = "gcm" PROVE GcmDataIs(y.c, y.nonce, y.aad, y.encrypt, y.input)
  <2>1. GcmDataIs(GcmFlip(x.c), x.nonce, x.aad, x.encrypt, 0)
    BY <1>2, <1>3, <1>10, GcmFlips
  <2> QED BY <1>5, <1>7, <1>10, <2>1 DEF SameCall
<1>11. ASSUME x.mode = "ccm" PROVE y.aad = y.most.aad /\ CcmDataIs(y.c, y.nonce, y.most, y.tagLen, y.encrypt, y.input)
  <2>1. x.aad = x.most.aad
    BY <1>1, <1>3, <1>11
  <2>2. CcmDataIs(FlipEager(x.c), x.nonce, x.most, x.tagLen, x.encrypt, 0)
    <3>1. CcmAadIs(x.c, x.nonce, x.most, x.tagLen, x.most.aad)
      BY <1>2, <1>11, <2>1
    <3> QED BY <1>3, <3>1, CcmFlips
  <2> QED BY <1>5, <1>7, <1>11, <2>1, <2>2 DEF SameCall
<1>12. ASSUME x.mode = "eax" PROVE EaxDataIs(y.c, y.nonce, y.aad, y.least, y.torn, y.encrypt, y.input)
  <2>1. EaxDataIs(EaxFlip(x.c), x.nonce, x.aad, x.least, x.torn, x.encrypt, 0)
    <3>1. x.least.aad \in Int /\ x.aad >= x.least.aad
      BY <1>1, <1>3
    <3> QED BY <1>2, <1>3, <1>12, <3>1, EaxFlipsTo
  <2>2. y.torn = x.torn /\ y.c = EaxFlip(x.c) /\ y.nonce = x.nonce /\ y.aad = x.aad /\ y.least = x.least /\ y.encrypt = x.encrypt
        /\ y.input = 0
    BY <1>5, <1>7, <1>8, <1>12, Zenon DEF SameCall
  <2> QED BY <2>1, <2>2, Zenon
<1>13. y.mode = x.mode /\ y.nonce = x.nonce
  BY <1>7 DEF SameCall
<1>14. y.out = Output(y.mode, y.nonce, y.input)
  BY <1>3, <1>7, <1>13, NoOutput
<1>15. InData(y)
  BY <1>7, <1>9, <1>10, <1>11, <1>12, <1>13, <1>14 DEF InData
<1> QED BY <1>15 DEF y

(* br_*_run                                                                *)
LEMMA RunKeeps ==
  ASSUME InData(aead), NEW n \in Nat, ModeRun(n)
  PROVE  InData(aead')
<1> DEFINE x == aead
           y == aead'
           data == Rest(Input(aead.input + n), aead.input)
           r == CASE aead.mode = "gcm" -> GcmRun(aead.c, data, aead.encrypt)
                  [] aead.mode = "ccm" -> RunEager(aead.c, data, ~aead.encrypt)
                  [] aead.mode = "eax" -> EaxRun(aead.c, data, aead.encrypt)
<1>1. x.step = "data" /\ x.input + n <= x.most.input /\ y = [x EXCEPT !.input = x.input + n, !.c = r.c, !.out = x.out \o r.out]
  BY DEF ModeRun
<1>2. /\ Going(x) /\ x.out = Output(x.mode, x.nonce, x.input)
      /\ (x.mode = "gcm" => GcmDataIs(x.c, x.nonce, x.aad, x.encrypt, x.input))
      /\ (x.mode = "ccm" => x.aad = x.most.aad /\ CcmDataIs(x.c, x.nonce, x.most, x.tagLen, x.encrypt, x.input))
      /\ (x.mode = "eax" => EaxDataIs(x.c, x.nonce, x.aad, x.least, x.torn, x.encrypt, x.input))
  BY DEF InData
<1>3. /\ x.aad \in Nat /\ x.input \in Nat /\ x.torn \in BOOLEAN /\ x.mode \in {"gcm", "ccm", "eax"} /\ DOMAIN x = AeadFields
      /\ x.nonce \in Seq(PlainBytes) /\ x.encrypt \in BOOLEAN /\ (x.mode # "eax" => ~x.torn)
      /\ (x.mode = "ccm" => x.aad <= x.most.aad)
  BY <1>2 DEF Going
<1>4. MessagePart(data, x.input, n)
  BY <1>3, InputPart
<1>5. /\ x.mode = "gcm" => r = GcmRun(x.c, data, x.encrypt)
      /\ x.mode = "ccm" => r = RunEager(x.c, data, ~x.encrypt)
      /\ x.mode = "eax" => r = EaxRun(x.c, data, x.encrypt)
  OBVIOUS
<1> HIDE DEF data, r
<1>7. /\ SameCall(x, y) /\ y.step = "data" /\ y.input = x.input + n /\ y.c = r.c /\ y.aad = x.aad
      /\ y.out = x.out \o r.out
  BY <1>1, <1>3 DEF SameCall, AeadFields
<1>8. y.torn = x.torn
  BY <1>1, <1>3 DEF AeadFields
<1> HIDE DEF x, y
<1>9. Going(y)
  <2>1. y.aad \in Nat /\ y.input \in Nat /\ (x.mode = "ccm" => y.aad <= x.most.aad /\ y.input <= x.most.input)
    BY <1>1, <1>3, <1>7
  <2>2. y.torn \in BOOLEAN /\ (x.mode # "eax" => ~y.torn)
    BY <1>3, <1>8, Zenon
  <2> QED BY <1>2, <1>7, <2>1, <2>2, StillGoing
<1>6. /\ Output("gcm", x.nonce, x.input) = OutputOf(GcmKey(x.nonce), GcmFirst(x.nonce) + 1, x.input)
      /\ Output("gcm", x.nonce, x.input + n) = OutputOf(GcmKey(x.nonce), GcmFirst(x.nonce) + 1, x.input + n)
      /\ Output("ccm", x.nonce, x.input) = OutputOf(<<x.nonce>>, 1, x.input)
      /\ Output("ccm", x.nonce, x.input + n) = OutputOf(<<x.nonce>>, 1, x.input + n)
      /\ Output("eax", x.nonce, x.input) = OutputOf(OmacOf(0, x.nonce), 0, x.input)
      /\ Output("eax", x.nonce, x.input + n) = OutputOf(OmacOf(0, x.nonce), 0, x.input + n)
  BY OutputsAre
<1>10. ASSUME x.mode = "gcm"
       PROVE  GcmDataIs(y.c, y.nonce, y.aad, y.encrypt, y.input) /\ y.out = Output(y.mode, y.nonce, y.input)
  <2>1. /\ x.nonce \in Seq(PlainBytes) /\ x.aad \in Nat /\ x.encrypt \in BOOLEAN /\ x.input \in Nat
        /\ GcmDataIs(x.c, x.nonce, x.aad, x.encrypt, x.input) /\ MessagePart(data, x.input, n)
    BY <1>2, <1>3, <1>4, <1>10
  <2>2. GcmRanTo(GcmRun(x.c, data, x.encrypt), x.nonce, x.aad, x.encrypt, x.input, n)
    BY <2>1, GcmRuns
  <2>3. GcmRanTo(r, x.nonce, x.aad, x.encrypt, x.input, n)
    BY <1>5, <1>10, <2>2
  <2> QED BY <1>2, <1>6, <1>7, <1>10, <2>3 DEF SameCall, GcmRanTo, RunOut
<1>11. ASSUME x.mode = "ccm"
       PROVE  /\ y.aad = y.most.aad /\ CcmDataIs(y.c, y.nonce, y.most, y.tagLen, y.encrypt, y.input)
              /\ y.out = Output(y.mode, y.nonce, y.input)
  <2>1. /\ x.nonce \in Seq(PlainBytes) /\ x.encrypt \in BOOLEAN /\ x.input \in Nat
        /\ CcmDataIs(x.c, x.nonce, x.most, x.tagLen, x.encrypt, x.input) /\ MessagePart(data, x.input, n)
    BY <1>2, <1>3, <1>4, <1>11
  <2>2. CcmRanTo(RunEager(x.c, data, ~x.encrypt), x.nonce, x.most, x.tagLen, x.encrypt, x.input, n)
    BY <2>1, CcmRuns
  <2>3. CcmRanTo(r, x.nonce, x.most, x.tagLen, x.encrypt, x.input, n)
    BY <1>5, <1>11, <2>2
  <2> QED BY <1>2, <1>6, <1>7, <1>11, <2>3 DEF SameCall, CcmRanTo, RunOut
<1>12. ASSUME x.mode = "eax"
       PROVE  EaxDataIs(y.c, y.nonce, y.aad, y.least, y.torn, y.encrypt, y.input) /\ y.out = Output(y.mode, y.nonce, y.input)
  <2>0. /\ x.nonce \in Seq(PlainBytes) /\ x.encrypt \in BOOLEAN /\ x.input \in Nat
        /\ EaxDataIs(x.c, x.nonce, x.aad, x.least, x.torn, x.encrypt, x.input) /\ MessagePart(data, x.input, n)
    BY <1>2, <1>3, <1>4, <1>12
  <2>5. EaxRanTo(EaxRun(x.c, data, x.encrypt), x.nonce, x.aad, x.least, x.torn, x.encrypt, x.input, n)
    BY <2>0, EaxRunsTo
  <2>6. EaxRanTo(r, x.nonce, x.aad, x.least, x.torn, x.encrypt, x.input, n)
    BY <1>5, <1>12, <2>5
  <2>1. /\ EaxDataIs(r.c, x.nonce, x.aad, x.least, x.torn, x.encrypt, x.input + n)
        /\ OutputOf(OmacOf(0, x.nonce), 0, x.input) \o r.out = OutputOf(OmacOf(0, x.nonce), 0, x.input + n)
    BY <2>6 DEF EaxRanTo, RunOut
  <2>2. y.torn = x.torn /\ y.c = r.c /\ y.nonce = x.nonce /\ y.aad = x.aad /\ y.least = x.least /\ y.encrypt = x.encrypt
        /\ y.input = x.input + n
    BY <1>7, <1>8, Zenon DEF SameCall
  <2>3. EaxDataIs(y.c, y.nonce, y.aad, y.least, y.torn, y.encrypt, y.input)
    BY <2>1, <2>2, Zenon
  <2>4. y.out = Output(y.mode, y.nonce, y.input)
    BY <1>2, <1>6, <1>7, <1>12, <2>1 DEF SameCall
  <2> QED BY <2>3, <2>4
<1>13. y.mode = x.mode
  BY <1>7 DEF SameCall
<1>15. InData(y)
  BY <1>3, <1>7, <1>9, <1>10, <1>11, <1>12, <1>13 DEF InData
<1> QED BY <1>15 DEF y

TagIs(x, tag) ==
  tag = TagOf(x.mode, x.nonce, Aad(x.aad), x.input,
              IF x.encrypt THEN x.out ELSE Input(x.input),
              IF x.encrypt THEN Input(x.input) ELSE x.out, x.tagLen)

(* What GHASH or the MAC of EAX goes over is the ciphertext, what that of  *)
(* CCM goes over the plaintext.                                            *)
LEMMA CoveredText ==
  ASSUME NEW encrypt \in BOOLEAN, NEW ctr, NEW first, NEW n, NEW out, out = OutputOf(ctr, first, n)
  PROVE  /\ CoveredOf(encrypt, ctr, first, n) = (IF encrypt THEN out ELSE Input(n))
         /\ CoveredOf(~encrypt, ctr, first, n) = (IF encrypt THEN Input(n) ELSE out)
BY DEF CoveredOf

(* The tag that GCM gives in the call.                                     *)
LEMMA GcmTagInCall ==
  ASSUME NEW x, InData(x), x.mode = "gcm"
  PROVE  TagIs(x, GcmTag(x.c))
<1> DEFINE nonce == x.nonce
           aad == x.aad
           encrypt == x.encrypt
           n == x.input
           plain == IF encrypt THEN Input(n) ELSE x.out
           tagLen == x.tagLen
<1>1. /\ GcmDataIs(x.c, nonce, aad, encrypt, n) /\ nonce \in Seq(PlainBytes) /\ aad \in Nat /\ n \in Nat /\ encrypt \in BOOLEAN
      /\ x.out = OutputOf(GcmKey(nonce), GcmFirst(nonce) + 1, n)
  <2>1. /\ GcmDataIs(x.c, nonce, aad, encrypt, n) /\ nonce \in Seq(PlainBytes) /\ aad \in Nat /\ n \in Nat
        /\ encrypt \in BOOLEAN /\ x.out = Output("gcm", nonce, n)
    BY DEF InData, Going
  <2>2. Output("gcm", nonce, n) = OutputOf(GcmKey(nonce), GcmFirst(nonce) + 1, n)
    BY OutputsAre
  <2> QED BY <2>1, <2>2
<1> HIDE DEF nonce, aad, encrypt, n, plain, tagLen
<1>2. GcmTag(x.c) = TagOf("gcm", nonce, Aad(aad), n, CoveredOf(encrypt, GcmKey(nonce), GcmFirst(nonce) + 1, n), plain, tagLen)
  BY <1>1, GcmTagIs
<1>3. CoveredOf(encrypt, GcmKey(nonce), GcmFirst(nonce) + 1, n) = (IF encrypt THEN x.out ELSE Input(n))
  BY <1>1, CoveredText
<1>4. GcmTag(x.c) = TagOf("gcm", nonce, Aad(aad), n, IF encrypt THEN x.out ELSE Input(n), plain, tagLen)
  BY <1>2, <1>3
<1> QED BY <1>4 DEF TagIs, nonce, aad, encrypt, n, plain, tagLen

(* That of CCM, at the end of the message that was announced.              *)
LEMMA CcmTagInCall ==
  ASSUME NEW x, InData(x), x.mode = "ccm", x.input >= x.least.input
  PROVE  TagIs(x, CcmTag(x.c))
<1> DEFINE nonce == x.nonce
           most == x.most
           encrypt == x.encrypt
           n == x.input
           cipher == IF encrypt THEN x.out ELSE Input(n)
           tagLen == x.tagLen
<1>1. /\ CcmDataIs(x.c, nonce, most, tagLen, encrypt, n) /\ nonce \in Seq(PlainBytes) /\ n \in Nat /\ encrypt \in BOOLEAN
      /\ x.out = OutputOf(<<nonce>>, 1, n) /\ x.aad = most.aad
      /\ x.least = most /\ n <= most.input /\ x.least.input \in Nat
  <2>1. /\ CcmDataIs(x.c, nonce, most, tagLen, encrypt, n) /\ nonce \in Seq(PlainBytes) /\ n \in Nat /\ encrypt \in BOOLEAN
        /\ x.out = Output("ccm", nonce, n) /\ x.aad = most.aad
        /\ x.least = most /\ n <= most.input /\ x.least.input \in Nat
    BY DEF InData, Going
  <2>2. Output("ccm", nonce, n) = OutputOf(<<nonce>>, 1, n)
    BY OutputsAre
  <2> QED BY <2>1, <2>2
<1>2. n = most.input
  <2> DEFINE m == most.input
  <2>1. m \in Nat /\ n <= m /\ n >= m
    BY <1>1
  <2> HIDE DEF m, n, most
  <2>2. n \in Nat
    BY <1>1
  <2>3. n = m
    BY <2>1, <2>2
  <2> QED BY <2>3 DEF m
<1> HIDE DEF nonce, most, encrypt, n, cipher, tagLen
<1>3. CcmTag(x.c) = TagOf("ccm", nonce, Aad(most.aad), n, cipher, CoveredOf(~encrypt, <<nonce>>, 1, n), tagLen)
  <2>1. CcmDataIs(x.c, nonce, most, tagLen, encrypt, n) /\ nonce \in Seq(PlainBytes) /\ n \in Nat /\ encrypt \in BOOLEAN
    BY <1>1
  <2>2. CcmWhole(most, n)
    BY <1>2 DEF CcmWhole
  <2>3. CcmTagged(x.c, nonce, most, tagLen, encrypt, n, cipher)
    BY <2>1, <2>2, CcmTagIs
  <2> QED BY <2>3 DEF CcmTagged
<1>4. CoveredOf(~encrypt, <<nonce>>, 1, n) = (IF encrypt THEN Input(n) ELSE x.out)
  BY <1>1, CoveredText
<1>5. CcmTag(x.c) = TagOf("ccm", nonce, Aad(x.aad), n, cipher, IF encrypt THEN Input(n) ELSE x.out, tagLen)
  BY <1>1, <1>3, <1>4
<1> QED BY <1>5 DEF TagIs, nonce, encrypt, n, cipher, tagLen

(* That of EAX, of a message as long as the captured MACs ask for.         *)
LEMMA EaxTagInCall ==
  ASSUME NEW x, InData(x), x.mode = "eax", x.input >= x.least.input, ~x.torn
  PROVE  TagIs(x, EaxTag(x.c))
<1> DEFINE nonce == x.nonce
           aad == x.aad
           least == x.least
           encrypt == x.encrypt
           n == x.input
           plain == IF encrypt THEN Input(n) ELSE x.out
           tagLen == x.tagLen
<1>1. /\ EaxDataIs(x.c, nonce, aad, least, x.torn, encrypt, n) /\ nonce \in Seq(PlainBytes) /\ aad \in Nat /\ n \in Nat
      /\ encrypt \in BOOLEAN /\ x.out = OutputOf(OmacOf(0, nonce), 0, n) /\ least.input \in Int /\ n >= least.input
  <2>1. /\ EaxDataIs(x.c, nonce, aad, least, x.torn, encrypt, n) /\ nonce \in Seq(PlainBytes) /\ aad \in Nat /\ n \in Nat
        /\ encrypt \in BOOLEAN /\ x.out = Output("eax", nonce, n) /\ least.input \in Nat
    BY DEF InData, Going
  <2>2. Output("eax", nonce, n) = OutputOf(OmacOf(0, nonce), 0, n)
    BY OutputsAre
  <2>3. n >= least.input /\ least.input \in Int
    BY <2>1
  <2> QED BY <2>1, <2>2, <2>3
<1>2. x.torn = FALSE
  BY Zenon DEF InData, Going
<1>5. EaxDataIs(x.c, nonce, aad, least, FALSE, encrypt, n)
  BY <1>1, <1>2, Zenon
<1>7. EaxWhole(x.c, nonce, aad, least, encrypt, n)
  BY <1>5, Zenon DEF EaxWhole
<1> HIDE DEF nonce, aad, least, encrypt, n, plain, tagLen
<1>3. EaxTag(x.c) = TagOf("eax", nonce, Aad(aad), n, CoveredOf(encrypt, OmacOf(0, nonce), 0, n), plain, tagLen)
  <2>1. EaxEnough(least, n)
    BY <1>1 DEF EaxEnough
  <2>2. nonce \in Seq(PlainBytes) /\ n \in Nat /\ encrypt \in BOOLEAN
    BY <1>1
  <2>3. EaxTagged(x.c, nonce, aad, encrypt, n, plain, tagLen)
    BY <1>7, <2>1, <2>2, EaxTagIs
  <2> QED BY <2>3 DEF EaxTagged
<1>4. CoveredOf(encrypt, OmacOf(0, nonce), 0, n) = (IF encrypt THEN x.out ELSE Input(n))
  BY <1>1, CoveredText
<1>6. EaxTag(x.c) = TagOf("eax", nonce, Aad(aad), n, IF encrypt THEN x.out ELSE Input(n), plain, tagLen)
  BY <1>3, <1>4
<1> QED BY <1>6 DEF TagIs, nonce, aad, encrypt, n, plain, tagLen

(* br_*_get_tag                                                            *)
LEMMA TagKeeps ==
  ASSUME InData(aead), ModeGetTag
  PROVE  ModesInv(aead')
<1> DEFINE x == aead
           y == aead'
           tag == CASE aead.mode = "gcm" -> GcmTag(aead.c)
                    [] aead.mode = "ccm" -> CcmTag(aead.c)
                    [] aead.mode = "eax" -> EaxTag(aead.c)
<1>1. x.input >= x.least.input /\ y = [x EXCEPT !.step = "tagged", !.tag = tag]
  BY DEF ModeGetTag
<1>2. Going(x) /\ x.out = Output(x.mode, x.nonce, x.input) /\ InData(x)
  BY DEF InData
<1>3. x.mode \in {"gcm", "ccm", "eax"} /\ DOMAIN x = AeadFields
  BY <1>2 DEF Going
<1>4. (x.mode = "gcm" => tag = GcmTag(x.c)) /\ (x.mode = "ccm" => tag = CcmTag(x.c)) /\ (x.mode = "eax" => tag = EaxTag(x.c))
  OBVIOUS
<1> HIDE DEF tag
<1>5. SameCall(x, y) /\ y.step = "tagged" /\ y.tag = tag /\ y.aad = x.aad /\ y.input = x.input /\ y.out = x.out
  BY <1>1, <1>3 DEF SameCall, AeadFields
<1>6. y.torn = x.torn
  BY <1>1, <1>3 DEF AeadFields
<1> HIDE DEF x, y
<1>7. ~x.torn => TagIs(x, tag)
  BY <1>1, <1>2, <1>3, <1>4, GcmTagInCall, CcmTagInCall, EaxTagInCall
<1>8. /\ y.mode = x.mode /\ y.nonce = x.nonce /\ y.encrypt = x.encrypt /\ y.tagLen = x.tagLen
  BY <1>5 DEF SameCall
<1>9. y.tag = tag /\ y.aad = x.aad /\ y.input = x.input /\ y.out = x.out
  BY <1>5
<1>10. TagIs(x, tag) => HasTag(y)
  BY <1>8, <1>9 DEF TagIs, HasTag
<1>11. ~y.torn => HasTag(y)
  BY <1>6, <1>7, <1>10, Zenon
<1>12. y.out = Output(y.mode, y.nonce, y.input)
  BY <1>2, <1>8, <1>9
<1>13. ModesInv(y)
  BY <1>5, <1>11, <1>12 DEF ModesInv
<1> QED BY <1>13 DEF y

(* The resets.                                                             *)
LEMMA ResetKeeps ==
  ASSUME ModeReset
  PROVE  ModesInv(aead')
<1> DEFINE nonce(n) == Named("n", n)
           gcm(n, e) == Begun("gcm", nonce(n), GcmReset(UsedContext, nonce(n)), 0, NoInput, Unlimited, e, CipherBlock)
           ccm(n, e, a, i, t) == Begun("ccm", nonce(n), CcmReset(UsedContext, nonce(n), a, i, t), 0,
                                       [aad |-> a, input |-> i], [aad |-> a, input |-> i], e, t)
           eax(n, e) == Begun("eax", nonce(n), EaxReset(UsedContext, nonce(n)), 0, NoInput, Unlimited, e, CipherBlock)
           pre(n, e) == Begun("eax", nonce(n), EaxResetPreAad(UsedContext, EaxCapture, nonce(n)), 0,
                              [aad |-> 1, input |-> 1], Unlimited, e, CipherBlock)
           post(n, e, a) == [Begun("eax", nonce(n), EaxResetPostAad(UsedContext, CapturedAad(Aad(a)), nonce(n)), a,
                                   [aad |-> a, input |-> 1], Unlimited, e, CipherBlock) EXCEPT !.step = "data"]
<1>1. PICK n \in NonceLens, e \in BOOLEAN :
        \/ aead' = gcm(n, e)
        \/ \E a \in 0 .. MaxAad, i \in 0 .. MaxInput, t \in TagLens :
             aead' = IF CcmRefuses(n, i, t) THEN [step |-> "refused"] ELSE ccm(n, e, a, i, t)
        \/ aead' = eax(n, e)
        \/ aead' = pre(n, e)
        \/ \E a \in 0 .. MaxAad : aead' = post(n, e, a)
  BY DEF ModeReset
<1>2. InAad(gcm(n, e))
  BY GcmBegins
<1>3. InAad(eax(n, e)) /\ InAad(pre(n, e))
  BY EaxBegins
<1>4. ASSUME NEW a \in Nat, NEW i \in Nat, NEW t \in TagLens, ~CcmRefuses(n, i, t)
      PROVE  InAad(ccm(n, e, a, i, t))
  BY <1>4, CcmBegins
<1>5. ASSUME NEW a \in Nat
      PROVE  InData(post(n, e, a))
  BY EaxBeginsWithData
<1>6. 0 .. MaxAad \subseteq Nat /\ 0 .. MaxInput \subseteq Nat
  BY ModesAssumption
<1> HIDE DEF gcm, ccm, eax, pre, post
<1>7. ASSUME NEW a \in 0 .. MaxAad, NEW i \in 0 .. MaxInput, NEW t \in TagLens,
             aead' = IF CcmRefuses(n, i, t) THEN [step |-> "refused"] ELSE ccm(n, e, a, i, t)
      PROVE  ModesInv(aead')
  <2>1. CASE CcmRefuses(n, i, t)
    <3>1. aead'.step = "refused"
      BY <1>7, <2>1
    <3> QED BY <3>1 DEF ModesInv
  <2>2. CASE ~CcmRefuses(n, i, t)
    <3>1. InAad(aead')
      BY <1>4, <1>6, <1>7, <2>2
    <3> QED BY <3>1 DEF ModesInv
  <2> QED BY <2>1, <2>2
<1>8. ASSUME NEW a \in 0 .. MaxAad, aead' = post(n, e, a)
      PROVE  ModesInv(aead')
  <2>1. InData(aead')
    BY <1>5, <1>6, <1>8
  <2> QED BY <2>1 DEF ModesInv
<1>9. InAad(aead') => ModesInv(aead')
  BY DEF ModesInv
<1> QED BY <1>1, <1>2, <1>3, <1>7, <1>8, <1>9

(* The invariant says more than what it is about.                          *)
LEMMA ModesInvImplies ==
  ModesInv(aead) => ModesAsDefined
<1> SUFFICES ASSUME ModesInv(aead), aead.step \in {"aad", "data", "tagged"}
             PROVE  /\ aead.out = Output(aead.mode, aead.nonce, aead.input)
                    /\ aead.step = "tagged" /\ ~aead.torn => TagIsRight
  BY DEF ModesAsDefined
<1>1. CASE InAad(aead)
  <2>1. aead.step = "aad" /\ aead.out = <<>> /\ aead.input = 0 /\ Going(aead)
    BY <1>1 DEF InAad
  <2>2. aead.mode \in {"gcm", "ccm", "eax"} /\ aead.nonce \in Seq(PlainBytes)
    BY <2>1 DEF Going
  <2>3. Output(aead.mode, aead.nonce, 0) = <<>>
    BY <2>2, NoOutput
  <2> QED BY <2>1, <2>3
<1>2. CASE InData(aead)
  BY <1>2 DEF InData
<1>3. CASE aead.step = "tagged" /\ aead.out = Output(aead.mode, aead.nonce, aead.input) /\ (~aead.torn => HasTag(aead))
  BY <1>3 DEF HasTag, TagIsRight
<1> QED BY <1>1, <1>2, <1>3 DEF ModesInv

(* Whatever the lengths of the block, of the nonce, of the tag and of the  *)
(* pieces, and whatever a context was used for before: what br_gcm_run,    *)
(* br_ccm_run and br_eax_run give is the output of counter mode, and the   *)
(* tag that br_gcm_get_tag, br_ccm_get_tag and br_eax_get_tag compute is   *)
(* that of the definition of the mode over all of the additional data and  *)
(* of the message, of EAX if no injection of additional data goes beyond a *)
(* block that was partly there (gcm.c, ccm.c, eax.c).                      *)
THEOREM ModesAreAsDefined == AeadModesSpec => []ModesAsDefined
<1>1. AeadModesInit => ModesInv(aead)
  BY DEF AeadModesInit, NoMode, ModesInv
<1>2. ModesInv(aead) /\ [ModeNext]_aead => ModesInv(aead')
  <2> SUFFICES ASSUME ModesInv(aead), [ModeNext]_aead
               PROVE  ModesInv(aead')
    OBVIOUS
  <2>1. CASE aead.step = "idle" /\ ModeReset
    BY <2>1, ResetKeeps
  <2>2. ASSUME NEW n \in 0 .. MaxPart, ModeInject(n)
        PROVE  ModesInv(aead')
    <3>1. n \in Nat /\ aead.step = "aad"
      BY <2>2, ModesAssumption DEF ModeInject
    <3>2. InAad(aead)
      BY <3>1 DEF ModesInv, InData
    <3>3. InAad(aead')
      BY <2>2, <3>1, <3>2, InjectKeeps
    <3> QED BY <3>3 DEF ModesInv
  <2>3. ASSUME NEW n \in 0 .. MaxPart, ModeRun(n)
        PROVE  ModesInv(aead')
    <3>1. n \in Nat /\ aead.step = "data"
      BY <2>3, ModesAssumption DEF ModeRun
    <3>2. InData(aead)
      BY <3>1 DEF ModesInv, InAad
    <3>3. InData(aead')
      BY <2>3, <3>1, <3>2, RunKeeps
    <3> QED BY <3>3 DEF ModesInv
  <2>4. CASE ModeFlip
    <3>1. aead.step = "aad"
      BY <2>4 DEF ModeFlip
    <3>2. InAad(aead)
      BY <3>1 DEF ModesInv, InData
    <3>3. InData(aead')
      BY <2>4, <3>2, FlipKeeps
    <3> QED BY <3>3 DEF ModesInv
  <2>5. CASE ModeGetTag
    <3>1. aead.step = "data"
      BY <2>5 DEF ModeGetTag
    <3>2. InData(aead)
      BY <3>1 DEF ModesInv, InAad
    <3> QED BY <2>5, <3>2, TagKeeps
  <2>6. CASE UNCHANGED aead
    BY <2>6
  <2> QED BY <2>1, <2>2, <2>3, <2>4, <2>5, <2>6 DEF ModeNext
<1>3. ModesInv(aead) => ModesAsDefined
  BY ModesInvImplies
<1> DEFINE I == ModesInv(aead)
<1>4. AeadModesInit => I
  BY <1>1
<1>5. I /\ [ModeNext]_aead => I'
  BY <1>2
<1>6. I => ModesAsDefined
  BY <1>3
<1> HIDE DEF I
<1> QED BY <1>4, <1>5, <1>6, PTL DEF AeadModesSpec
===========================================================================

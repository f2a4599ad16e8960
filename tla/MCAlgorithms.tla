---------------------------- MODULE MCAlgorithms ----------------------------
(* Parts side by side: a behaviour is one CBC record, a stream of AEAD     *)
(* records, one computation of an AEAD mode, one modular division, one RSA *)
(* operation, the life of a hash object or of a session cache, the         *)
(* decoding of a text, validations of chains or a calendar, with toy hash  *)
(* and word sizes.                                                         *)
EXTENDS X509Minimal, CertificateDates, PemDecoder, CbcRecord, ModularDivision, Rsa, ShaStream, SessionCache, AeadModes,
        AeadRecord

Mix(a, b) == (a * 17 + b + 1) % 251
ToyRound(v, b) == Mix(Mix(Mix(Mix(v, b[1]), b[2]), b[3]), b[4])

(* Three bytes, of whatever state.                                         *)
ToyEncode(v) == LET w == IF v \in Octets THEN v ELSE 0 IN <<w, 255 - w, (w * 7) % 256>>
MCChanges == {1, 2, 254}

NoRecord == cbc = [stage |-> "idle"]
NoDivision == div = [ok |-> "idle"]
NoRsa == rsa = [stage |-> "idle"]
NoText == PemStart(<<>>)
NoStream == RecordsInit /\ sender.suite = "gcm"

(* Records: short and long keys, payloads of every length around a block.  *)
Counted(k, n) == [i \in 1 .. n |-> (i * k + n) % 256]
MacKeysMC == {Counted(91, k) : k \in {0, 2, 5}}
PayloadsMC == {Counted(57, n) : n \in 0 .. MaxPayload + 1}
TypesMC == {22, AppData}

(* Divisions: every pair for the small moduli, boundary values for larger. *)
Small == {n \in 1 .. 63 : n % 2 = 1}
Larger == {255, 257, 365, 449, 511, 3855, 4095}
DivisionInit ==
  \E n \in Small \cup Larger : \E x \in {0, 1, n - 1, n \div 2},
                                 y \in IF n \in Small THEN 0 .. n - 1 ELSE {1, 5, 77, 128, n - 2, n - 1} :
    LET m == Number(n) IN x < n /\ DivStart(m, Residue(x, m), Residue(y, m))

(* RsaKeys with factors of the same and of different lengths, even ones, and  *)
(* leading zeros.                                                          *)
ByteCount(n) == CHOOSE k \in 0 .. 12 : n < 2 ^ (ByteBits * k) /\ (k = 0 \/ n >= 2 ^ (ByteBits * (k - 1)))
RECURSIVE BytesFor(_, _)
BytesFor(n, len) ==
  IF len = 0 THEN <<>> ELSE Append(BytesFor(n \div 2 ^ ByteBits, len - 1), n % 2 ^ ByteBits)
Inverted(a, n) == CHOOSE i \in 0 .. n - 1 : (a * i) % n = 1 % n
RsaKey(p, q, e, zeros) ==
  LET d == Inverted(e, (p - 1) * (q - 1))
      b(n) == BytesFor(n, zeros + ByteCount(n))
  IN  [p |-> b(p), q |-> b(q), n |-> b(p * q), e |-> b(e), d |-> b(d),
       dp |-> b(d % (p - 1)), dq |-> b(d % (q - 1)), iq |-> b(Inverted(q, p))]
RsaKeys == {RsaKey(3, 5, 3, 0), RsaKey(5, 3, 3, 1), RsaKey(11, 47, 3, 0), RsaKey(47, 11, 3, 0), RsaKey(257, 101, 3, 0),
         RsaKey(101, 257, 7, 0), RsaKey(5, 2027, 3, 1), RsaKey(2027, 5, 3, 0), RsaKey(173, 179, 5, 0),
         RsaKey(2, 11, 3, 0), RsaKey(11, 2, 3, 0)}
Inputs(n) ==
  IF n < 600 THEN 0 .. n + 1
  ELSE {0, 1, 2, n - 1, n, n + 1, n \div 2, n \div 3, 1000, n - 1000}
RsaInit ==
  \E key \in RsaKeys : \E x \in Inputs(ValueOfBytes(key.n)), longer \in {0, 1} :
    LET s == BytesFor(x, longer + ByteCount(ValueOfBytes(key.n)))
    IN  PublicStart(key, s) \/ (longer = 0 /\ PrivateStart(key, s))

(* Hash objects: secrets shorter and longer than a block.                  *)
SecretsMC == {<<5, 6, 7>>, <<9, 10, 11, 12, 13>>}
DataMC == {<<1>>, <<2, 3, 4>>}

(* Session caches: stores too small for an entry, of one and of four, and  *)
(* five sessions.  The masks turn the order of the identifiers round, and  *)
(* two of them collide.                                                    *)
FiveSessions == {[id |-> n, secret |-> n] : n \in 1 .. 5}
CollidingMasks == {[n \in 1 .. 5 |-> IF n = 5 THEN 2 ELSE 5 - n]}
NoCache == store_len = 1 /\ CacheInit

-----------------------------------------------------------------------------
(* Texts for the PEM decoder, with banners "--B " and "--E ".              *)
ShortBegin == <<45, 45, 66, 32>>
ShortEnd == <<45, 45, 69, 32>>
Line(chars) == Append(chars, 10)
Lines(rows) == FoldLeft(LAMBDA text, row : text \o Line(row), <<>>, rows)

Whole == <<81, 85, 74, 68>>   \* QUJD

(* Lines of an object, right and wrong: white space, padding of one and of *)
(* two, bits behind the data, quartets that are cut off or go on after the *)
(* padding, other characters, dashes, ends.                                *)
Bodies == {
  <<>>, Whole, Whole \o Whole \o Whole, <<81, 85, 32, 74, 68>>, <<122, 48, 43, 47>>,
  <<81, 85, 73, 61>>, <<81, 81, 61, 61>>, <<81, 82, 61, 61>>, <<81, 85, 74, 61>>,
  <<81, 81, 61>>, <<81, 81, 61, 65>>, <<81, 81, 61, 61, 65>>, <<81, 85, 74>>, <<81, 85, 63, 68>>,
  <<61>>, <<81, 61>>, <<32>>, <<13>>, <<13>> \o ShortEnd, Whole \o <<13>>, Whole \o <<81, 85, 73, 61, 13>>,
  Whole \o <<45>>, Whole \o ShortEnd, <<32>> \o ShortEnd, <<45>>, <<45, 45, 69>>}

Begins == {ShortBegin \o <<65, 45, 45>>, <<45, 45, 98, 32, 97, 45, 98>>}

(* Lines that begin an object or do not: names without and with too many   *)
(* characters, of dashes alone, with a carriage return in the name and in  *)
(* the banner.                                                             *)
OtherLines == {
  <<>>, ShortBegin, ShortBegin \o <<45>>, ShortBegin \o <<65, 66, 67, 68>>,
  ShortBegin \o <<65, 66, 67, 68, 69>>, ShortBegin \o <<65, 66, 67, 68, 69, 70>>,
  ShortBegin \o <<65, 66, 45, 45, 45>>, ShortBegin \o <<65, 45, 13>>, ShortBegin \o <<13>>,
  <<45, 13, 45, 66, 32, 65>>, <<65>> \o ShortBegin \o <<65>>, <<45, 45, 66, 65>>}

Second == <<ShortBegin \o <<65>>, Whole, ShortEnd \o <<45, 45>>>>

MCTexts ==
  {Lines(<<b, x, y, ShortEnd \o <<45>>>> \o Second) : b \in Begins, x \in Bodies, y \in Bodies}
    \cup {Lines(<<b, Whole, <<45, 45, 101, 32>>>> \o Second) : b \in OtherLines}

-----------------------------------------------------------------------------
(* Certificates: a root that is an anchor, an intermediate issuer that     *)
(* also issues for itself, a server, and a second server whose own key is  *)
(* an anchor; every certificate appears once as it should be and once with *)
(* each of the defects that its place in a chain could matter to.          *)
MCDns     == {"root", "inter", "leaf", "pinned"}
MCKeys    == {"kroot", "kinter", "kleaf", "kweak"}
MCKeyType == [key \in MCKeys |-> IF key = "kinter" THEN "ec" ELSE "rsa"]
MCAnchors == {[dn |-> "root", key |-> "kroot", ca |-> TRUE],
              [dn |-> "root", key |-> "kinter", ca |-> TRUE],
              [dn |-> "leaf", key |-> "kroot", ca |-> FALSE],
              [dn |-> "inter", key |-> "kleaf", ca |-> TRUE],
              [dn |-> "pinned", key |-> "kleaf", ca |-> FALSE]}
MCNow     == <<5, 1>>
MCHosts   == {<< >>, <<"a", "org">>}

Plain == [kind |-> "ignored", critical |-> FALSE, plain |-> TRUE,
          ca |-> FALSE, limit |-> NoLimit, bits |-> {}, names |-> {}]
Authority(limit) == [Plain EXCEPT !.kind = "basic", !.ca = TRUE,
                                  !.limit = limit]
NoAuthority      == [Plain EXCEPT !.kind = "basic"]
UsedFor(bits)    == [Plain EXCEPT !.kind = "usage", !.bits = bits]
AltNames(names)  == [Plain EXCEPT !.kind = "names", !.names = names]
Other(critical)  == [Plain EXCEPT !.kind = "other", !.critical = critical]
Policies(plain)  == [Plain EXCEPT !.kind = "policies", !.critical = TRUE,
                                  !.plain = plain]

Leaf ==
    [issuer |-> "inter", subject |-> "leaf",
     notBefore |-> <<5, 0>>, notAfter |-> <<6, 0>>,
     cn |-> {<<"a", "org">>}, key |-> "kleaf", exts |-> << >>,
     sigType |-> "ec", signer |-> "kinter",
     fault |-> NoFault, cut |-> FALSE]
Inter ==
    [Leaf EXCEPT !.issuer = "root", !.subject = "inter", !.key = "kinter",
                 !.cn = {}, !.exts = <<Authority(NoLimit)>>,
                 !.sigType = "rsa", !.signer = "kroot"]
Self   == [Inter EXCEPT !.issuer = "inter", !.sigType = "ec",
                        !.signer = "kinter"]
Pin    == [Leaf EXCEPT !.subject = "pinned"]
Direct == [Leaf EXCEPT !.issuer = "root", !.sigType = "rsa", !.signer = "kroot"]

MCCertificates ==
    {Leaf, Inter, Self, Pin, Direct,
     [Leaf EXCEPT !.exts = <<AltNames({<<"b", "org">>, <<"*", "org">>}),
                             UsedFor({"sign"})>>],
     [Leaf EXCEPT !.cn = {<<"*", "a", "org">>}, !.exts = <<Plain>>],
     [Direct EXCEPT !.cn = {<<"b", "org">>},
                    !.exts = <<AltNames({<<"a", "org">>}),
                               AltNames({<<"b", "org">>})>>],
     [Direct EXCEPT !.exts = <<NoAuthority, UsedFor({"keyx"}),
                               UsedFor({"certSign"})>>],
     [Direct EXCEPT !.exts = <<Other(TRUE)>>],
     [Direct EXCEPT !.exts = <<Other(FALSE), Policies(FALSE)>>],
     [Direct EXCEPT !.key = "kweak"],
     [Direct EXCEPT !.notAfter = <<5, 0>>],
     [Direct EXCEPT !.notBefore = <<5, 2>>],
     [Direct EXCEPT !.sigType = "ec"],
     [Direct EXCEPT !.signer = "kleaf", !.issuer = "inter", !.sigType = "rsa"],
     [Pin EXCEPT !.fault = Signature, !.cut = TRUE],
     [Pin EXCEPT !.key = "kroot"],
     [Leaf EXCEPT !.fault = Signature],
     [Leaf EXCEPT !.fault = Length],
     [Inter EXCEPT !.fault = Signature, !.cut = TRUE],
     [Inter EXCEPT !.fault = Extensions],
     [Inter EXCEPT !.exts = << >>],
     [Inter EXCEPT !.exts = <<Authority(0), UsedFor({"certSign"}),
                              Policies(TRUE)>>],
     [Inter EXCEPT !.exts = <<NoAuthority, Authority(NoLimit)>>],
     [Inter EXCEPT !.exts = <<Authority(NoLimit), UsedFor({"sign"})>>],
     [Inter EXCEPT !.exts = <<Authority(1), Other(TRUE)>>],
     [Inter EXCEPT !.subject = "root"],
     [Inter EXCEPT !.key = "kleaf"],
     [Inter EXCEPT !.key = "kroot", !.sigType = "ec", !.signer = "kinter"],
     [Self EXCEPT !.exts = <<Authority(0)>>]}

(* Dates: the years around a century that is leap and one that is not, and *)
(* from 1970 to past the end of the clock of the client.                   *)
MCStarts == {[year |-> 0, number |-> 0, last |-> 4],
             [year |-> 1601, number |-> 584754, last |-> 1604],
             [year |-> 1970, number |-> 719528, last |-> 2106]}
MCClocks == {<<0, 0, 0>>, <<23, 59, 59>>, <<12, 30, 1>>}

NoCalendar == calendar = [stage |-> "idle"]

-----------------------------------------------------------------------------
VARIABLE what
allVars == <<cbc, div, rsa, svars, cacheVars, aead, recordVars, pem, vars, calendar, what>>

PartsInit ==
  /\ what \in {"record", "division", "rsa", "hash", "cache", "mode", "stream", "text", "chain", "calendar"}
  /\ IF what = "record" THEN CbcInit ELSE NoRecord
  /\ IF what = "division" THEN DivisionInit ELSE NoDivision
  /\ IF what = "rsa" THEN RsaInit ELSE NoRsa
  /\ IF what = "cache" THEN CacheInit ELSE NoCache
  /\ SInit
  /\ AeadModesInit
  /\ IF what = "stream" THEN RecordsInit ELSE NoStream
  /\ IF what = "text" THEN \E text \in Texts : PemStart(text) ELSE NoText
  /\ Init
  /\ IF what = "calendar" THEN CalendarInit ELSE NoCalendar

PartsNext ==
  /\ UNCHANGED what
  /\ \/ what = "record" /\ CbcNext
        /\ UNCHANGED <<div, rsa, svars, cacheVars, aead, recordVars, pem, vars, calendar>>
     \/ what = "division" /\ DivNext
        /\ UNCHANGED <<cbc, rsa, svars, cacheVars, aead, recordVars, pem, vars, calendar>>
     \/ what = "rsa" /\ RsaNext
        /\ UNCHANGED <<cbc, div, svars, cacheVars, aead, recordVars, pem, vars, calendar>>
     \/ what = "hash" /\ SNext
        /\ UNCHANGED <<cbc, div, rsa, cacheVars, aead, recordVars, pem, vars, calendar>>
     \/ what = "cache" /\ CacheNext
        /\ UNCHANGED <<cbc, div, rsa, svars, aead, recordVars, pem, vars, calendar>>
     \/ what = "mode" /\ ModeNext
        /\ UNCHANGED <<cbc, div, rsa, svars, cacheVars, recordVars, pem, vars, calendar>>
     \/ what = "stream" /\ RecordsNext
        /\ UNCHANGED <<cbc, div, rsa, svars, cacheVars, aead, pem, vars, calendar>>
     \/ what = "text" /\ PemNext
        /\ UNCHANGED <<cbc, div, rsa, svars, cacheVars, aead, recordVars, vars, calendar>>
     \/ what = "chain" /\ Next
        /\ UNCHANGED <<cbc, div, rsa, svars, cacheVars, aead, recordVars, pem, calendar>>
     \/ what = "calendar" /\ NextDay
        /\ UNCHANGED <<cbc, div, rsa, svars, cacheVars, aead, recordVars, pem, vars>>

PartsSpec == PartsInit /\ [][PartsNext]_allVars

(* The modes alone; the texts alone.                                       *)
ModesSpec == PartsInit /\ what = "mode" /\ [][PartsNext]_allVars
TextsSpec == PartsInit /\ what = "text" /\ [][PartsNext]_allVars
=============================================================================

----------------------------- MODULE PemDecoder -----------------------------
(***************************************************************************)
(* The PEM decoder (src/src/bearssl/pemdec.c): br_pem_decoder_push and the *)
(* coroutine of T0 words behind it, as BearSSLClient uses them: a text is  *)
(* pushed until it is used up, every event is taken, and the receiver of   *)
(* the data is set at the beginning of an object.                          *)
(*                                                                         *)
(* Characters are their codes.  The two banners are parameters, each with  *)
(* two dashes at least in front.                                           *)
(***************************************************************************)
EXTENDS Integers, Sequences, FiniteSetsExt, SequencesExt

CONSTANTS BeginBanner, EndBanner,  \* "-----BEGIN ", "-----END "
          NameRoom,  \* characters that a name can have (127)
          BufferLen, \* of the buffer of decoded bytes (255)
          Texts      \* what applications decode

ASSUME PemAssumption ==
  /\ NameRoom \in Nat \ {0} /\ BufferLen \in Nat \ {0}
  /\ \A b \in {BeginBanner, EndBanner} : Len(b) > 2 /\ b[1] = 45 /\ b[2] = 45

Newline == 10
Return == 13
Dash == 45
Pad == 61

White(c) == c # Newline /\ c <= 32
Capital(c) == IF c \in 97 .. 122 THEN c - 32 ELSE c
FromBase64(c) ==
  CASE c \in 65 .. 90  -> c - 65
    [] c \in 97 .. 122 -> c - 71
    [] c \in 48 .. 57  -> c + 4
    [] c = 43 -> 62
    [] c = 47 -> 63
    [] OTHER  -> -1

(* The decoder.  place is where the coroutine reads its next character, n  *)
(* how much it has of a banner, a name or a quartet; then is the event at  *)
(* the end of a line that is skipped.                                      *)
DecoderInit ==
  [place |-> "banner", n |-> 0, value |-> 0, rest |-> FALSE, then |-> "none",
   name |-> [i \in 0 .. NameRoom |-> 0], buf |-> <<>>, event |-> "none", received |-> <<>>]

(* write8 and flush-buf                                                    *)
Write8(d, byte) ==
  IF Len(d.buf) + 1 = BufferLen
  THEN [d EXCEPT !.received = (@ \o d.buf) \o <<byte>>, !.buf = <<>>]
  ELSE [d EXCEPT !.buf = Append(@, byte)]
FlushBuf(d) == [d EXCEPT !.received = @ \o d.buf, !.buf = <<>>]

Raise(d, event) ==
  [d EXCEPT !.event = event, !.n = 0, !.place = IF event = "begin" THEN "line" ELSE "banner"]

(* The rest of the line is skipped.                                        *)
Skip(d, event) == [d EXCEPT !.place = "skip", !.then = event]
Skipping(d, c) == IF c = Newline THEN Raise(d, d.then) ELSE d

MatchBegin(d, c) ==
  IF Capital(c) = Newline THEN [d EXCEPT !.n = 0]
  ELSE IF Capital(c) # BeginBanner[d.n + 1] THEN Skip(d, "none")
  ELSE IF d.n + 1 < Len(BeginBanner) THEN [d EXCEPT !.n = @ + 1]
  ELSE [d EXCEPT !.n = 0, !.place = "name"]

(* The name ends before its last dashes.                                   *)
Trimmed(name, len) ==
  LET kept == {k \in 1 .. len : name[k - 1] # Dash}
  IN  [name EXCEPT ![IF kept = {} THEN 0 ELSE Max(kept)] = 0]

ReadName(d, c) ==
  IF d.n = NameRoom THEN Skipping(Skip(d, "none"), c)
  ELSE IF c = Newline THEN IF d.n = 0 THEN Raise(d, "none")
                           ELSE Raise([d EXCEPT !.name = Trimmed(@, d.n)], "begin")
  ELSE IF c = Return THEN [d EXCEPT !.n = @ + 1]
  ELSE [d EXCEPT !.n = @ + 1, !.name[d.n] = Capital(c)]

(* A quartet must be in one line.                                          *)
ReadDigit(d, c) ==
  LET value == d.value * 64 + FromBase64(c)
      more == [d EXCEPT !.value = value, !.n = @ + 1, !.place = "quartet"]
  IN  IF White(c) THEN [d EXCEPT !.place = "quartet"]
      ELSE IF c = Newline THEN IF d.n = 0 THEN [d EXCEPT !.place = "line"] ELSE Raise(d, "error")
      ELSE IF c = Pad /\ d.n = 2 THEN [d EXCEPT !.place = "padding"]
      ELSE IF c = Pad /\ d.n = 3 THEN [d EXCEPT !.place = "rest", !.rest = TRUE]
      ELSE IF FromBase64(c) < 0 THEN Skip(d, "error")
      ELSE IF d.n < 3 THEN more
      ELSE LET first == Write8(Write8(more, value \div 65536), (value \div 256) % 256)
           IN  [Write8(first, value % 256) EXCEPT !.value = 0, !.n = 0]

ReadPadding(d, c) ==
  IF White(c) THEN d
  ELSE IF c = Newline THEN Raise(d, "error")
  ELSE [d EXCEPT !.place = "rest", !.rest = (c = Pad)]

(* After padding only white space may follow in the line, and the bits     *)
(* that are left must be 0.                                                *)
ReadRest(d, c) ==
  LET clean == [d EXCEPT !.n = 0, !.value = 0, !.place = "blank"]
  IN  IF c # Newline THEN [d EXCEPT !.rest = @ /\ White(c)]
      ELSE IF ~d.rest \/ d.value % (IF d.n = 2 THEN 16 ELSE 4) # 0 THEN Raise(d, "error")
      ELSE IF d.n = 2 THEN Write8(clean, d.value \div 16)
      ELSE Write8(Write8(clean, d.value \div 1024), (d.value \div 4) % 256)

(* After it, only empty lines and the end.                                 *)
ReadBlank(d, c) ==
  IF c = Newline THEN d
  ELSE IF c = Dash THEN [d EXCEPT !.n = 1, !.place = "end"]
  ELSE Skip(d, "error")

(* Mutant: the buffer is not flushed at the end of an object.              *)
MatchEndUnflushed(d, c) ==
  IF Capital(c) = Newline THEN Raise(d, "error")
  ELSE IF Capital(c) # EndBanner[d.n + 1] THEN Skip(d, "error")
  ELSE IF d.n + 1 < Len(EndBanner) THEN [d EXCEPT !.n = @ + 1]
  ELSE Skip(d, "end")

MatchEnd(d, c) ==
  IF Capital(c) = Newline THEN Raise(d, "error")
  ELSE IF Capital(c) # EndBanner[d.n + 1] THEN Skip(d, "error")
  ELSE IF d.n + 1 < Len(EndBanner) THEN [d EXCEPT !.n = @ + 1]
  ELSE Skip(FlushBuf(d), "end")

ReadChar(d, c) ==
  CASE d.place = "banner"  -> MatchBegin(d, c)
    [] d.place = "skip"    -> Skipping(d, c)
    [] d.place = "name"    -> ReadName(d, c)
    [] d.place = "line"    -> IF c = Dash THEN [d EXCEPT !.n = 1, !.place = "end"]
                              ELSE ReadDigit([d EXCEPT !.n = 0, !.value = 0], c)
    [] d.place = "quartet" -> ReadDigit(d, c)
    [] d.place = "padding" -> ReadPadding(d, c)
    [] d.place = "rest"    -> ReadRest(d, c)
    [] d.place = "blank"   -> ReadBlank(d, c)
    [] d.place = "end"     -> MatchEnd(d, c)

(* br_pem_decoder_run: until the characters are used up, or an event.      *)
RECURSIVE DecoderRun(_, _)
DecoderRun(d, s) ==
  IF s = <<>> \/ d.event # "none" THEN [d |-> d, left |-> Len(s)]
  ELSE DecoderRun(ReadChar(d, Head(s)), Tail(s))

-----------------------------------------------------------------------------
VARIABLE pem  \* text, characters used, decoder, events taken

NameOf(name) == LET end == {k \in DOMAIN name : name[k] = 0}
                IN  [i \in 1 .. Min(end) |-> name[i - 1]]

PemStart(text) ==
  pem = [text |-> text, used |-> 0, d |-> DecoderInit, log |-> <<>>, total |-> 0, stale |-> FALSE]

(* br_pem_decoder_push, of up to n characters                              *)
Push(n) ==
  /\ pem.d.event = "none" /\ pem.used < Len(pem.text)
  /\ LET s == SubSeq(pem.text, pem.used + 1, Min({pem.used + n, Len(pem.text)}))
         run == DecoderRun(pem.d, s)
     IN  pem' = [pem EXCEPT !.d = run.d, !.used = @ + Len(s) - run.left,
                            !.total = @ + Len(run.d.received) - Len(pem.d.received)]

(* br_pem_decoder_event, and br_pem_decoder_setdest for an object.  stale  *)
(* says that the buffer is not empty then.                                 *)
TakeEvent ==
  LET d == pem.d
  IN  /\ d.event # "none"
      /\ pem' = [pem EXCEPT
           !.d.event = "none",
           !.d.received = IF d.event = "begin" THEN <<>> ELSE @,
           !.stale = IF d.event = "begin" THEN d.buf # <<>> ELSE @,
           !.log = Append(@, CASE d.event = "begin" -> [event |-> "begin", name |-> NameOf(d.name)]
                               [] d.event = "end"   -> [event |-> "end", data |-> d.received,
                                                        stale |-> pem.stale]
                               [] d.event = "error" -> [event |-> "error"])]

PemNext == (\E n \in {1, Len(pem.text)} : Push(n)) \/ TakeEvent

-----------------------------------------------------------------------------
(* The format as bearssl_pem.h states it, line by line, with the points in *)
(* which the decoder is known to read a text in another way.  A reading is *)
(* the set of the points that it settles against the header:               *)
(*   "long"    a name has less than NameRoom characters, its last dashes   *)
(*             included; in the header, NameRoom at most without them      *)
(*   "empty"   a banner without a name begins no object (the header does   *)
(*             not say that a name may be empty)                           *)
(*   "return"  a carriage return is a character of its line                *)
(*   "blank"   after padding, white space alone in a line is an error      *)
(*   "stale"   an object may begin with bytes that one in error left       *)
Points == {"long", "empty", "return", "blank", "stale"}

LinesOf(s) ==
  LET ends == {k \in DOMAIN s : s[k] = Newline}
      end[k \in 0 .. Cardinality(ends)] ==
        IF k = 0 THEN 0 ELSE CHOOSE e \in ends : Cardinality({x \in ends : x <= e}) = k
  IN  [k \in 1 .. Cardinality(ends) |-> SubSeq(s, end[k - 1] + 1, end[k] - 1)]

Banner(line, banner) == Len(line) >= Len(banner) /\ \A i \in DOMAIN banner : Capital(line[i]) = banner[i]

ObjectName(chars) ==
  LET kept == {k \in DOMAIN chars : chars[k] # Dash}
  IN  [k \in 1 .. Max(kept \cup {0}) |-> Capital(chars[k])]
NameAccepted(chars, reading) ==
  /\ "empty" \in reading => chars # <<>>
  /\ Len(IF "long" \in reading THEN Append(chars, Dash) ELSE ObjectName(chars)) <= NameRoom

Digits(line) == SelectSeq(line, LAMBDA c : ~White(c))
Pads(s) == Cardinality({k \in DOMAIN s : s[k] = Pad})
SixBits(c) == IF c = Pad THEN 0 ELSE FromBase64(c)
QuartetOf(s, q) == LET b(i) == SixBits(s[4 * q + i]) IN ((b(1) * 64 + b(2)) * 64 + b(3)) * 64 + b(4)

RightLine(s) ==
  /\ Len(s) % 4 = 0 /\ Pads(s) <= 2
  /\ \A k \in 1 .. Len(s) - Pads(s) : FromBase64(s[k]) >= 0
  /\ Pads(s) > 0 => QuartetOf(s, Len(s) \div 4 - 1) % 256 ^ Pads(s) = 0
LineBytes(s) ==
  [k \in 1 .. 3 * (Len(s) \div 4) - Pads(s) |->
     (QuartetOf(s, (k - 1) \div 3) \div 256 ^ (2 - ((k - 1) % 3))) % 256]
IgnoredLine(line, reading) == (IF "blank" \in reading THEN line ELSE Digits(line)) = <<>>

AfterLine(r, line, reading) ==
  LET chars == SubSeq(line, Len(BeginBanner) + 1, Len(line))
      leave(e) == [r EXCEPT !.part = "text", !.log = Append(@, e)]
  IN  CASE r.part = "text" ->
             IF Banner(line, BeginBanner) /\ NameAccepted(chars, reading)
             THEN [part |-> "object", data |-> <<>>,
                   log |-> Append(r.log, [event |-> "begin", name |-> ObjectName(chars),
                                          plain |-> ~Contains(chars, Return)])]
             ELSE r
        [] r.part # "text" /\ line # <<>> /\ Head(line) = Dash ->
             leave(IF Banner(line, EndBanner) THEN [event |-> "end", data |-> r.data] ELSE [event |-> "error"])
        [] OTHER ->
             IF r.part = "object" /\ RightLine(Digits(line))
             THEN [r EXCEPT !.data = @ \o LineBytes(Digits(line)),
                            !.part = IF Pads(line) > 0 THEN "padded" ELSE "object"]
             ELSE IF IgnoredLine(line, reading) THEN r ELSE leave([event |-> "error"])

EventsOf(s, reading) ==
  LET chars(line) == IF "return" \in reading THEN line ELSE SelectSeq(line, LAMBDA c : c # Return)
  IN  FoldLeft(LAMBDA r, line : AfterLine(r, chars(line), reading),
               [part |-> "text", data |-> <<>>, log |-> <<>>], LinesOf(s)).log

-----------------------------------------------------------------------------
(* What was told, in a reading.  A name with a carriage return in it is    *)
(* left open where that is a character.                                    *)
ToldAs(reading) ==
  LET occurred == EventsOf(SubSeq(pem.text, 1, pem.used), reading)
  IN  /\ Len(pem.log) = Len(occurred)
      /\ \A k \in DOMAIN pem.log :
           LET e == pem.log[k] expected == occurred[k]
           IN  /\ e.event = expected.event
               /\ e.event = "begin" /\ expected.plain => e.name = expected.name
               /\ e.event = "end" => e.data = expected.data \/ ("stale" \in reading /\ e.stale)
Told(points) == pem.d.event = "none" => \E reading \in SUBSET points : ToldAs(reading)

(* In whatever pieces a text is pushed, every object, name, end and error  *)
(* in it is told once, at the end of its line, and the data of an object   *)
(* is what its lines encode, for one reading of the text (what the header  *)
(* and the code disagree about is left open, by one point each); and it    *)
(* has no more bytes than BearSSLClient::setEccSlot allocates, three for   *)
(* four characters (br_pem_decoder_push, write8, flush-buf).               *)
PemAsDefined == 4 * pem.total <= 3 * Len(pem.text) /\ Told(Points)

(* "When an object is entered, the provided function (with opaque context  *)
(* pointer) will be called repeatedly with successive chunks of decoded    *)
(* data for that object" (bearssl_pem.h, br_pem_decoder_setdest).          *)
ObjectsHaveTheirData == Told(Points \ {"stale"})
=============================================================================

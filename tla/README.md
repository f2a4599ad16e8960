# TLA+ models of ArduinoBearSSL

ArduinoBearSSL is an Arduino library around BearSSL. Its main class,
`BearSSLClient`, is a TLS client over any Arduino `Client`; around it are
wrappers for hashes, HMAC and block ciphers. This directory holds TLA+ models of
the parts where state, order or arithmetic are hard to get right: the record
buffers of the SSL engine, the engine with its client and server handshake
processors, the blocking I/O wrapper, the client class and its credentials, the
session cache, the certificate validator, and the algorithms of constant-time
code. TLC checks them on small instances. TLAPS proves, for every value of the
constants, the safety of the record buffers, of the engine with its client handshake
processor, of what the client puts on the wire, of the server handshake
processor, of the sessions that hellos negotiate, of the order of AEAD records
and of the ownership of credentials, and that the certificate validator decides
path validation and reads dates as the days they mean.

Line numbers refer to the sources under `src/src`.

## 1. The system

| Component | State | Operations | Interaction |
|---|---|---|---|
| Record formats (`ssl_rec_*.c`) | keys, sequence number | `max_plaintext`, `encrypt`, `check_length`, `decrypt` | called by the engine with pointers into its buffers, which they move |
| Record buffers (`ssl_engine.c`) | `ixa ixb ixc`, `oxa oxb oxc`, `iomode` | `recvrec_*`, `recvpld_*`, `sendpld_*`, `sendrec_*` | used by the engine's public functions and by the coroutine |
| Engine flow (`ssl_engine.c`) | `application_data`, `shutdown_recv`, `reneg`, `record_type_*`, `err` | `*_ack`, `flush`, `close`, `renegotiate`, reset | calls the coroutine in `jump_handshake` |
| Handshake processors (`ssl_hs_client.c`, `ssl_hs_server.c`, T0 byte code) | program counter, message under way, `can output`; session parameters | run until they need input or output | read and write the record buffers, switch keys; the server calls its session cache and its policy |
| I/O wrapper (`ssl_io.c`) | none of its own | `br_sslio_read/write/flush/close/read_available/peek` | loops over the engine's state, calls the transport |
| `BearSSLClient` | engine, buffers, credentials | `connect`, `write`, `read`, `available`, `peek`, `flush`, `stop` | calls `br_sslio_*`; its callbacks call the Arduino `Client` |
| Credentials (`BearSSLClient.cpp`) | `_ecCert[]`, `_ecCertDynamic`, `_ecKey`, `_skeyDecoder` | `setEccCert`, `setEccChain`, `setEccSlot`, `setKey`, `setEccCertParent`, destructor | PEM decoder callbacks append to the buffers; `connect` hands them to the engine |
| Session cache (`ssl_lru.c`) | list and tree in one byte array | `save`, `load`, `forget` | called by the server side |
| Hash and HMAC objects (`SHA.cpp`) | hash context, digest and secret buffers, position | `beginHash`, `endHash`, `beginHmac`, `endHmac`, `write`, `read` | used as an Arduino `Stream`; call `hmac.c` and `sha1.c` |
| Certificate validator (`x509_minimal.c`, T0 byte code) | name hashes, key, last signature, counters | `start_chain`, `start_cert`, `append`, `end_cert`, `end_chain` | called by the client handshake processor |
| AEAD modes (`gcm.c`, `ccm.c`, `eax.c`) | running MAC, counter, the last block and how much of it is there | `reset`, `aad_inject`, `flip`, `run`, `get_tag` | used by applications; CCM also by the records |
| PEM decoder (`pemdec.c`, T0 byte code) | place in the text, quartet, name, buffer of decoded bytes, event | `init`, `push`, `event`, `setdest`, `name` | fed by `setKey` and `setEccSlot`; calls the receiver of the data |
| Big integers, RSA (`i15_*.c`, `rsa_i15_*.c`) | words in buffers of the caller | `montymul`, `modpow_opt`, `moddiv`, `rsa_public`, `rsa_private` | below signatures and key exchange |
| Random generator, key decoders, cipher wrappers, secure element | see section 5 | | |

There are no threads. What makes the code hard is that automata interleave: the
application's calls, the loop `run_until`, the handshake coroutine, and the
peer. The coroutine gives control back in the middle of a handshake and is only
resumed by certain events (a non-empty record of its own type, the end of a sent
record while application data is off, a close, a renegotiation); the peer may ask
for a renegotiation, warn, close or vanish between any two of them; and the same
few offsets say what every byte of the buffers is at the moment. Buffers and
flags are reused: session parameters are overwritten by a hello that may still be
refused, the buffers of a hash object hold a secret, a digest or both, the
validator keeps hashes of the previous certificate, one flag says who owns two
certificates. The algorithms take no decision that depends on a secret, so that
every step is done and its result kept or dropped: what is right is not what is
seen at any line of the code.

What has to be right, per component:

- *record formats*: no plaintext length makes an assembled record leave the
  buffer; a record accepted by its header fits; a CBC record opens if and only if
  it is the next one of the other side, unchanged; AEAD records come out once and in
  order, and no key meets a nonce twice;
- *record buffers*: gathering and sending exclude each other; bytes are consumed
  exactly once, in whatever pieces they come; a shared buffer is half-duplex;
- *engine and coroutine*: a session opens only after both key changes; messages
  and application data never share a record; the peer gets each record with the
  type and keys it expects; nothing waits for an event that cannot happen;
- *client and server together*: they agree on session and secret before the
  Finished messages, on the best common parameters, resume only what both
  remember, never fail each other, and reach the end of a closure; a client
  certificate that is required was proven;
- *I/O wrapper and client*: data is delivered once and in order across
  renegotiation, closure and reconnection; calls return; errors end the session;
- *credentials*: only what was allocated is freed, once; what `connect` offers is
  whole, in memory, and belongs to the key;
- *session cache*: a map of the most recently used sessions, under any collision
  of masked identifiers;
- *validator*: it accepts exactly the chains with a path to an anchor, and hands
  out the key of the first certificate;
- *PEM decoder*: the same events and data in whatever pieces a text comes, and no more bytes
  than the client allocates for it;
- *hashes, AEAD modes and integers*: what is computed is the function of the
  definition, for inputs in every piece and numbers of every shape.

## 2. Modules

| Module | Models |
|---|---|
| `RecordSizes` | arithmetic of the five record formats: head room, tail, padding, 1/n-1 split, length checks |
| `RecordBuffer` | the offsets and the I/O mode, one action per internal function of `ssl_engine.c` |
| `RecordChannel` | abstract specification: a channel of whole records in each direction |
| `RecordBufferProps` | properties of the buffers, the inductive invariant, the refinement mapping |
| `RecordProofs` | lemmas and theorems about sizes, buffers, AEAD and CBC records, hashes and HMAC |
| `SslEngine` | the engine's flags and the client's handshake coroutine, on whole records and messages |
| `SslIo` | `run_until` and the `br_sslio` functions, the transport below them |
| `TlsServer` | the peer of `BearSSLClient` (not part of the repository): a TLS 1.2 server, or a peer that sends anything |
| `BearSSLClient` | the methods of the class and the application that calls them; composes the three modules before |
| `TlsSession` | abstract specification: a session opened, reopened and closed |
| `SslClientProps` | properties of the composition: data, order, protection, closure, liveness |
| `SslClientProofs` | lemmas and theorems about the engine, its handshake processor and the composition |
| `SslServer` | the server's handshake coroutine, on an instance of `SslEngine` with variables of its own |
| `TlsPair`, `SslServerProofs` | client and server engines with pipes between them, or the server with a peer that sends anything; their properties; theorems about the server |
| `Negotiation`, `NegotiationProofs` | the contents of the hellos: versions, suites, hashes, curves, protocol names, sessions; the policies `ssl_scert_single_*.c`; theorems |
| `Credentials`, `CredentialsProofs` | certificates and keys of `BearSSLClient`, who owns them; theorems |
| `SessionCache`, `LruMap` | list and tree of `ssl_lru.c`, their properties and refinement; abstract map of the most recently used sessions |
| `SessionCacheProofs` | lemmas and theorems about them |
| `PathValidation` | what a trusted chain is, with no order of evaluation |
| `X509Minimal`, `X509MinimalProofs` | calls and coroutine of `x509_minimal.c`; theorems about them and about dates |
| `CertificateDates` | the word `read-date`, and a calendar to compare it with |
| `Hash`, `Hmac` | streaming hashes, HMAC and its constant-time form |
| `DigestStream`, `ShaStream` | abstract hash object; `SHAClass` in every order of its calls |
| `CbcRecord` | MAC and padding of CBC records, both sides |
| `AeadRecord` | a stream of GCM, CCM and ChaCha20 records under changing keys, over a network that alters it |
| `AeadModes`, `AeadModesProofs` | GCM, CCM and EAX in pieces, and their definitions on whole messages; theorem |
| `PemDecoder` | decoding of a text in pieces, and what the format says of its lines |
| `BigIntegers`, `ModularDivision`, `Rsa` | 15-bit integers, binary extended GCD, RSA operations |
| `MCRecordBuffer`, `MCSslClient`, `MCClientMemory`, `MCAlgorithms`, `MCHandshakes` | instances for TLC |

### Record buffers

`ixa`, `ixb`, `ixc`, `oxa`, `oxb`, `oxc`, `iomode` and `max_frag_len` are the
fields of `br_ssl_engine_context`. A format is a record with the lengths that
matter (`Cbc(blen, mac, explicit)`, `Aead(nonce, tag)`, `Clear`). Each action is
an internal function with all it calls, so `recvrec_ack` contains the header
check, the decryption (a choice of payload lengths) and the re-initialisation for
the next record. The amounts acknowledged are any amounts the matching `*_buf`
function offered, which is what `bearssl_ssl.h` asks of the callers.
`ReadChangeCipherSpec` and `WriteChangeCipherSpec` are the two places where the
coroutine changes formats. `rlen`, `taken` and `pay` are history variables.

### Engine, coroutine, I/O and client

`eng` has the flags of the engine, `hs` the coroutine: `hs.pc` names the T0 word
in which it stands and `hs.co` says whether it runs, was just resumed, or is
suspended. The byte code in `ssl_hs_client.c` was read word by word (`wait-co`,
`do-handshake`, `do-close`, `wait-for-close`, `write-CCS-Finished` and so on);
the lines in `PROJECT.json` are those of the byte code of each word, or of the
native operation it ends in. `jump_handshake` is the pair `Jump` and `Suspend`:
the latter calls the processor again when it took all of the input. `hs.can_output`
is `hlen_out > 0`, `hs.action` the argument of `jump_handshake`, and `hs.ate`
records that input was consumed since the coroutine was entered.

Every iteration of `run_until` is a step of `SslIo` of its own, so that the peer
can act between any two. `io` is the `br_sslio` function in progress, `run` the
state of its `run_until`, `ret` the value the function returned. `BearSSLClient`
adds the loops of `write`, the flush behind it, and the loop at the end of
`connectSSL`; `call` is the method in progress.

Abstractions, all of them of data or of steps that commute:

- a handshake message and an alert are atomic and an alert record holds one
  alert; records are transmitted whole here, while `RecordBuffer` has the pieces;
- keys are the number of the handshake they come from, and a record under
  other keys fails as a bad MAC;
- the coroutine runs from resumption to suspension without steps of the peer
  between (they touch disjoint variables), and message contents (versions,
  extensions, certificates) are accepted, except for the session identifier and
  the RFC 5746 extension, which decide the flow;
- a `ChangeCipherSpec` that is read while the record at hand has another type
  fails at once; in the code it fails after reading a byte of it;
- polling a transport that has nothing to say is not a step;
- the branch of `run_until` that returns -1 on unread application data needs a
  shared buffer; `BearSSLClient` uses two buffers, and so do these modules;
- input and output of `connect` on the socket level always succeeds (when it
  fails, `connect` returns before it touches the engine).

### Server, pair and negotiation

`SslServer` has the words of `ssl_hs_server.c` as actions, each named for its
word; what the two processors share (`wait-co`, closure, ChangeCipherSpec, the
buffers) is the instance `E` of `SslEngine`. Whether a hello is refused and
whether its session is resumed are choices of `SslServer` under the conditions
that decide the flow; `Negotiation` computes them.

`TlsPair` puts both engines at the ends of two pipes. The applications use the
engines directly: they move records when a flag of the state allows it, write,
flush, read, close, ask for renegotiations, and may lose the connection and begin
another one, with the session parameters they have, with those they saved, or
with none. `wire` is what the hellos and the key exchange under way say
(RFC 5746 data, session identifier, secret); a secret is the number of the key
exchange it comes from. With `peer = "anything"` the server talks to any program.
`proven` is a history variable: the sessions in which the client has shown that
it owns the key of its certificate.

`Negotiation` has one state per hello: the client offers, the server reads the
hello and chooses through its policy, the client checks the answer and the key
exchange. Both may lose the rest of the handshake, and the server's cache any
session. Suites are records of their key exchange and whether they need TLS 1.2.

### Credentials and session cache

`ecCert` is `_ecCert[]` with the owner of each certificate; `live` are the blocks
that `malloc` has handed out, `misfreed` those that were freed without. A text is
its outcome: decoded, refused, or cut off after a part of it. A failing `malloc`
is left out. `used` is a history variable: the kinds of calls so far. The two
properties are for the calls that keep their promise: certificates given as text
for `BuffersFreedOnce`, texts that decode for `OfferedCredentialsMatch`; the
hazards in `PROJECT.json` say what happens otherwise.

In `SessionCache` an address is an offset in the store, and the fields of an entry
are functions of it (`prev`, `next`, `left`, `right`, and `store` for its key and session). Master secret, version and suite
are one value. The MAC that masks identifiers is a function drawn at the first
`save`, with collisions in one of the instances. `LruMap` knows neither
addresses nor a tree. The searches (`FindNode`, `Furthest`) are loops with as many turns as the
block has entries; that this is enough for them to end is a part of `TreeIndexesEntries`.

### Certificate validation

One action of `X509Minimal` is one call of the engine. `part` and `ext` are the
place of the T0 coroutine in the certificate, and the actions follow its order of
reading: length, version, issuer, dates, subject, key, extensions, signature. Where an
encoding is wrong the certificate has a `fault` at that part; a certificate may
also be cut before its end. A distinguished name stands for its hash, so hashes
do not collide; host names are sequences of lower-case labels; a signature names
the key that made it; an empty key usage counts as a fault; the time is known.
Pieces are appended at every place where the coroutine can stop, one per part.
`CertificateDates` computes the day and second from the fields of a date with the
table of the byte code; a calendar that counts days one at a time walks beside it.

### PEM decoder

`PemDecoder` has the words of `pemdec.c` as operators, one per place where the
coroutine asks for a character (`place`): `ReadChar` is what it does with one.
`Push` is `br_pem_decoder_push` with a piece of the text, `TakeEvent` takes an
event and, at the beginning of an object, sets the receiver. The receiver, the buffer, the
name with its room, and the order of flushes are those of the code. `EventsOf` is the format
of `bearssl_pem.h` (lines 50 to 82) read line by line, with no buffer and no pieces: the empty
reading follows the header in everything it says, and a point in a reading settles one question
otherwise (`Points`). `PemAsDefined` leaves the points open: there is a reading by which the whole
text was told. No point can be done without: with `Told` of fewer points in its place TLC finds a
text of this run that was told in another way. `pem_error` is that for `"stale"`; the header is
silent on `"empty"`; the other three are disagreements with the header, listed in section 3. Where
the header names `-` as a character of Base64, `EventsOf` has `/`, which it means. That bits behind
the data must be 0 is not in the header; `EventsOf` asks it as the code does.

### Algorithms

Round function, word size and byte size are parameters. A hash context holds the
bytes in the block, the state and the count, as the code does. `CbcRecord` keeps
the record bytes between MAC and cipher: padding, MAC taken out by rotation, and
the constant-time HMAC over data of a length known to lie in a window.
`BigIntegers` has words, header and carries; a conditional operation is done and
its result chosen. A state of `ModularDivision` and of `Rsa` is one turn of the
outer loop. `ShaStream` shares its context, digest and secret buffer as
`SHA.cpp` does.

`AeadModes` has a free cipher: a byte is the set of terms whose sum it is, a MAC the
sequence of the blocks that went into it, so that two values are equal exactly if the
same blocks were used in the same places. A context is any that an application has
left behind. What GCM, CCM and EAX share in their code (`InjectEager`, `RunEager`,
`Met`) is one operator. A state is a context after one call, with the pieces so far;
the definitions `Output` and `TagOf` know only the whole.

In `AeadRecord` a tag is the tuple of what it is computed from, and the network puts
together records from parts of those that were sent and from wrong tags. A
ChangeCipherSpec stands for the handshake that gives both ends the next key and a
suite; which of the two sides changes keys when is in `SslEngine`.

## 3. Runs

| Run | Question | Result |
|---|---|---|
| `buffers_separate` | do the offsets stay in bounds, lose no byte and implement a record channel | holds |
| `client_memory` | is a shared buffer half-duplex, does the inductive invariant hold there; every sequence of credential calls: ownership, what is offered | holds |
| `session` | `BearSSLClient` with a server and a failing link, two connections: data, protection, order of records, closure | holds |
| `any_peer` | the `br_sslio` functions with a peer that sends any record: the inductive invariant of the engine, flushes, refinement | holds |
| `calls_come_back` | liveness of `connect`, `write`, `stop`; no insecure renegotiation | holds |
| `handshakes` | the library's client and server, or its server and any peer: agreement, proof of the client, renegotiation, errors, closure, refinement; what the hellos negotiate | holds |
| `algorithms` | CBC and AEAD records, AEAD modes, divisions, RSA, hash objects, session caches and PEM texts against their definitions; chains of up to three certificates: the verdict is path validation, the key is the server's; the calendar | holds |
| `state_zero` | the engine's state is never 0 once it is initialised | violated |
| `write_error` | a transport error is permanent | violated |
| `protocol_name` | `selected_protocol` is 0 or one plus an index of the list | violated |
| `eax_pieces` | EAX gives the tag of its definition, in whatever pieces the additional data comes | violated |
| `pem_error` | the receiver of an object gets the data of that object | violated |

`client_memory`, `algorithms` and `handshakes` are several instances side by side: the
first choice of a behaviour says which part of the system it is about.
`CallsComeBack` is the conjunction of `ConnectComesBack`, `WriteComesBack` and
`StopComesBack`, `EntriesLinked` that of `TreeIndexesEntries` and `ListHoldsEntries`.

The violated properties are sentences of the documentation; each is quoted above
its definition.

- *state_zero*: `stop` (or `br_sslio_close`) while application data is unread.
  `application_data` becomes 2, which hides the data from the application, and the
  data keeps the input buffer; once the `close_notify` is sent, no flag is left and
  `br_sslio_close` loops. `available` followed by `stop` is enough.
- *write_error*: after the peer's `close_notify`, a failing `low_write` ends
  `run_until` with -1 but leaves the engine open. The loops that wait for it to
  close (`br_sslio_close`, `connectSSL`) call `run_until` again, without end.
- *protocol_name*: `read-ClientHello` marks a hello without a common protocol name
  by 65535 in `selected_protocol`, and replaces the mark or refuses the hello after
  the place where a resumed session returns (`ssl_hs_server.c` lines 640 and 650).
  With a resumed session the mark stays, and `write-ServerHello` takes it for an
  index; `bearssl_ssl.h` line 1082 promises 0 or one plus an index.
- *eax_pieces*: `br_eax_aad_inject` (`eax.c` line 288) completes the block that was partly there
  and leaves `ctx->ptr` at the old position; `do_cbcmac_chunk` authenticates the block in
  the buffer only when `ctx->ptr` is 16, and overwrites it. Additional data that goes
  beyond such a block loses it: the tag depends on how the data was cut, and not on
  those bytes. After `br_eax_reset_pre_aad` the position is 0, and data of more than one block
  loses its first block even in one piece. `ModesAsDefined` is about every other use
  (`torn` marks this one).
- *pem_error*: decoded bytes wait in a buffer that is flushed when it is full and at
  the end banner. An error (`pemdec.c`, byte code of lines 124 to 131) goes back to the next banner and
  leaves them there: in a text that goes on with another object, that object begins with
  them. `bearssl_pem.h` line 163 promises the receiver the data of its object.
  `BearSSLClient` stops at the first error. `PemAsDefined` is about every other object
  (`stale` marks these).

Other differences between code and text met on the way, which no run is about:

- a forced flush (`ssl_engine.c` line 838) only looks at `oxa == oxb`. With a shared
  buffer it frames an empty record while an incoming one is in the buffer;
  `HalfDuplex` is checked and proved for callers that do not force;
- `br_sslio_close` (`ssl_io.c` line 319) returns 1 on success and 0 on an error;
  `bearssl_ssl.h` line 4135 says 0 and -1;
- `wait-for-close` (`ssl_hs_client.c` line 682) turns application data off at any alert. A
  warning before the peer's last data makes an orderly closure fail with
  `BR_ERR_UNEXPECTED`, although late data is to be discarded;
- a renegotiation that begins while application data is buffered changes
  `record_type_out` and then waits for the buffer. A closure then sends the data in
  a handshake record (`ssl_hs_client.c` line 494); without one, a flush cannot send it
  because `application_data` is 0 (`ssl_engine.c` line 1246), and everybody waits.
  `BearSSLClient` is not affected, because its `write` always flushes: `DataProtected`,
  `WrittenInOrder` and `ServerUnderstands` hold for it;
- for an integer whose bit length is a multiple of 31, `br_i31_bit_length` returns one
  less than the encoding that `inner.h` describes (and `br_i15_bit_length` for 15);
- the design notes of `x509_minimal.c` speak of an expected key type that the code
  does not have, look for direct trust at the public key of the server (the code
  does it at the end of the certificate), and compute the hash of a name "into the pad";
- names in PEM banners (point `"long"` of `PemDecoder`): `bearssl_pem.h` line 68 accepts "names up to
  127 characters", the name being without trailing dashes. The words of `pemdec.c` lines 159 to 163 have
  room for 127 characters and look at the room before the next character, the newline included: a banner
  with 127 characters behind `BEGIN `, dashes included, is skipped as text. With the usual five dashes
  a name has 121 at most;
- carriage returns in PEM (point `"return"`): `bearssl_pem.h` line 55 says that they are ignored. In a
  banner one ends the match (`pemdec.c` line 152); in a name each counts as a character, keeps the place of
  an earlier one, and, behind the dashes, keeps them from being dropped (lines 159 to 163); after a padded
  quartet, a line with a carriage return alone is an error (line 124). With Windows line ends
  `-----BEGIN X-----` is told with its dashes, and an empty line behind the padding is refused;
- white space in PEM (point `"blank"`): `bearssl_pem.h` line 77 says that it is ignored between the banners.
  After a padded quartet, a line of white space alone is an error: the words of `pemdec.c` lines 121 to 124
  pass over newlines only.

### Bounds

*Buffers.* `MaxPlain` = 16384 and `MaxPad` = 256 in the code are shrunk to a few
bytes, with toy formats that have a nonce, a tag, a MAC, padding and a 1/n-1
split; the lengths in `RecordLens` lie on both sides of each limit (empty, one
byte, exactly the buffer, one more). What depends on the true sizes is proved.

*Client.* `OutCap` = 2 pieces per record and up to 3 pieces written give a full
record, a partial one and a write that needs two. `PipeLen` = 2 makes the
transport block. One `HelloRequest`, one warning, one piece of data from the
server and two connections are each in every position relative to the others;
`MaxEpochs` bounds the renegotiations the application asks for. The arbitrary peer
sends `MaxRecords` = 6 records, enough for a handshake, a renegotiation up to its
`Finished`, and surprises in between. `CHECK_DEADLOCK FALSE` is set because the
system may stop: a silent peer, or an application that makes no more calls.

*Pair.* Messages are atomic and a pipe holds one record (`PipeLen` = 1), so each
end can be one record ahead of the other. `Limits` gives three combinations: two
connections and a renegotiation (a handshake lost at every point, then a new or
resumed one); data, a renegotiation and a closure; and two closures with data.
The combinations are separate because their product says nothing new: a closure
ends what came before it. The arbitrary peer sends five records, some of which hold
several messages: enough for a handshake and a second one that resumes it. Four
configurations of the server ask for a certificate or not, insist or not, use ECDH
or ECDHE, and refuse renegotiations or not.

*Negotiation.* Client and server are chosen from lists with suites in several
orders, hash functions all there or one only, curves in common or not, both kinds of key, and
protocol names in common, partly in common, or absent. Two handshakes are enough
for a session to be established and resumed under another configuration of
what the hello says; `MaxHandshakes` bounds them.

*Credentials.* Two devices and three blocks of memory: two chain places and one
block to be mistaken for either. Symmetry is over blocks and devices, which the
properties treat alike.

*Session cache.* Stores too small for one entry, of one and of four entries, and
five sessions: one more than fits, so that nodes with zero, one and two children
leave the tree, at the root and below it. The masks reverse the order of the identifiers, and two of them collide.

*Certificates.* Chains of up to three certificates (server, issuer that is no
anchor, and one more that may be an anchor or below it), taken from a set in
which each certificate is there once as it should be and once with each defect that its
place could matter to. The theorems are for chains of any length and any set.
The calendar walks from the year 0, from 1601, and from 1970 to 2106, which
covers leap years, a leap and a common century, and the range of the client's clock.

*Algorithms.* Words of 4 bits and bytes of 3, so that carries, estimates of a
quotient and leading zeros occur in every combination: all pairs modulo every odd number
below 64 and boundary values modulo larger ones; RSA with factors of equal and unequal
lengths in either order, even ones, and leading zeros. Blocks of 4 bytes with a length of 2
give messages on each side of every padding boundary; CBC records have payloads of up to
nine bytes in blocks of 2, and the network may change a byte, cut a record short or lose the first of two.

*AEAD.* Cipher blocks of 4 bytes, up to 9 bytes of additional data and of message, in pieces
of every length from none to 9: pieces that end within a block, at its end, and span two.
Nonces are empty, shorter and longer than a block, of the length that GCM takes as it is, and too
short and too long for CCM; tags of allowed and other lengths; `ByteValues` = 3 and the limits
`ShortAad` and `LongAad` make CCM refuse messages and use all of its encodings of a length.
Streams have four records (`MaxSent`), which is enough to change keys, repeat a record of the
old key under the new one and exchange parts of two; the numbers of records do
not wrap (in the code at 2^64).

*Texts.* Banners of four characters, names of up to five, and a buffer of four bytes, so that it is
flushed within an object and on its last byte. Every pair of lines that an object may have, right or
wrong (white space, padding, bits behind the data, quartets that are cut off, other characters, dashes), under
two beginnings, and every kind of line that begins no object, each followed by a sound object.
Pieces are one character or all that is left, in every order, which stops the decoder at every character.

### Fairness

`FairSpec` asks for weak fairness of the client's own steps (one thread of
control, which never stops between two statements) and of the server's answers
(a record that reached the server is processed). It asks nothing of what the
server does of its own accord, nor of the application's calls. Liveness is
checked on a link that stays up: when it is lost, the violated property
`ErrorsArePermanent` shows that calls may loop. `StopComesBack` excludes `stop` with
unread data, which `state_zero` covers.

`PairFairness` asks that both processors run until they suspend themselves, and
that the applications send, receive and read whatever the engines let them, which
is what the engine's documentation asks of its callers. Nothing makes an
application write, close or renegotiate. `ClosesEnd` is about a connection that is
not lost, between ends that did not fail, whose applications have read their data.

## 4. Proofs

*Record buffers.* The theorems of `RecordProofs` about sizes and buffers hold for every value of the
constants that satisfies the named assumptions: `BufferAssumption` (the input buffer is longer than a header; a
shared buffer has one size), `FormatAssumption` (each output format has room in
the buffer for at least some plaintext, which `SuitesFit` shows for the suites of
the library and the 512 + 85 bytes that `br_ssl_engine_set_buffers_bidi`
demands), `LengthAssumption`, and a positive `MaxPlain` and `MaxPad`.

`RegionsInBounds`, `NeverStuck`, `OneUseOfOutput` and `NoByteLost` are not inductive:
that the end of a record fits in the buffer depends on what the header check let
through, and whether `oxc` is a start or an end depends on how `oxa` and `oxb`
compare. `Inv` therefore describes the four shapes of the input offsets
(`AwaitingHeader`, `ClearBody`, `AwaitingBody`, `DecryptedBody`) and the two of the
output offsets (`Gathering`, `Sending`). `Safety` proves `Spec => []Inv` with one lemma
per action (`InvRecvrec`, `InvFlush`, ...); `ReadyArea`, `AssembleKeepsShape`,
`FreshInShape`, `FreshOutShape` say what the helper operators establish. The other
theorems about buffers follow from `Safety`; `HalfDuplexSafety` has its own
induction. `AssembledInBounds` and `PayloadInBody` are the facts about formats that the
induction rests on.

`BufferImplementsChannel` proves the refinement of `RecordChannel` from `Safety`: the
lemmas `...Steps` say which step of the channel each operation is (an
acknowledgement that leaves part of a record is none, the last one is `Transmit`;
a full buffer, a flush and a ChangeCipherSpec are all `Frame`).

*Engine and handshake processor.* The first theorems of `SslClientProofs`, on
the engine alone, use one assumption, that the bound on writes is a number (`CallsAssumption`); they hold for
any peer, honest or not, any fault of the link and any set of methods or of
`br_sslio` functions that are called. What one wants to know is not inductive. That no unfinished message is left behind
(`NoUnfinishedMessage`) depends on where the coroutine can be suspended; that both
key changes of a handshake go together (`ImplementsSession`) depends on which of the
two an abbreviated handshake does first; that there is no renegotiation without
RFC 5746 (`NoInsecureRenegotiation`) depends on every way back to `write_ClientHello`.
`EngineInv` is the strengthening, in parts:

- `Control`: only an open engine runs its coroutine, and the coroutine has an output
  buffer only while no record waits to be sent;
- `Gathered`, `Items`: messages are in the output buffer only inside the last flight,
  which is written without giving up control; everything else there is data;
- `KeysMatch`: how the numbers of key changes of the two directions compare at each
  location, in full and abbreviated handshakes;
- `DataOff`: application data is off at every location of a handshake;
- `FirstHandshake`: a server without RFC 5746 (`reneg = 1`) never gets past its first
  handshake, and nothing takes the coroutine from `main` to a new one.

A lemma `...Keeps` per operation shows that the step keeps `EngineInv`, a lemma
`...Steps` that it is one step of `TlsSession` or none. `EngineSafe`,
`HandshakeMessagesFlushed`, `RenegotiationSecure` and `EngineImplementsSession` are the
theorems.

*What the client puts out.* The other theorems of `SslClientProofs` are about the whole composition
of application, client, I/O wrapper, engine and transport. `FlushDelivers` says something of the moment a function
returns, so its invariant must say what each loop of `br_sslio` waits for and what the output
buffer can hold meanwhile. `ChannelInv` has three parts: `OutputType` (a record in the buffer has
the type that the engine writes), `Buffered` (where application data may be gathered, and that nothing of it is
gathered at the locations `DataFree`) and `InCall` (which function is running, and what
it has returned with). A processor has many words but only few effects on the
output; `Effect` lists them (`Turns`, `Begins`, `Opens`, `Answers`, `Gathers`, `Empties`). Each word has a lemma that
names its effect, and the invariant is shown once per effect. `ChannelSafe` and `FlushAlwaysDelivers` hold for
any peer.

`DataAlwaysProtected` holds for any peer, and for an application that only calls methods of
`BearSSLClient` (`ThroughBearSSLClient`). This assumption is needed: `br_sslio_write` alone may leave data in the buffer when a
renegotiation begins, and a later closure sends it in a handshake record (section 3). The methods flush what they write
before they return (`Held`), so that no data is gathered when a handshake changes the type of record.

`ClosureAlwaysAgreed` is about an honest server. `ClosureInv` follows the two `close_notify` alerts through buffers, pipes and
both ends: what the server has not yet answered (`Unanswered`), where an alert of the engine is
(`NotifyLeaves`), and that an engine that closed without an error has sent its own and read the other one
(`BothNotified`).

`ServerAlwaysUnderstands` assumes both, `Honest` and `ThroughBearSSLClient` (without the second it is false: section 3, data that is
buffered when a renegotiation begins). The server reads a record long after the client wrote it, and may ask for a handshake, send data or close
meanwhile. The invariant therefore does not compare the two ends as they are. `Places` are the states of the server with the keys it
reads under, and one more, `asked`, for a ClientHello that it has not answered. `Leads(a, rec, b)` says that the server
understands a record at place `a` and is at `b` behind it. `Route` says that there is a
path of the server over everything on its way, the sealed record included, that ends at a place which fits the location
of the handshake processor and its keys (`Agrees`: `Meets` for the place, `Expects` for the ServerHello that comes back). The client adds
a record at the end of the path, the server takes one from its beginning, and what the server does on its own (it asks,
answers, closes) is a map of places that keeps every path one. `RouteInv` adds what the server can have said
(`Speech`), that it resumes only a session of a finished handshake (`Remembered`), and that a resumption flushes nothing (`NoFlight`). It is
proved from `EngineInv`, `ChannelInv`, `Held` and `ClosureInv`, once per effect of the processor, per function of
`br_sslio`, and per step of the server.

`DataAlwaysWrittenInOrder` and `DataAlwaysDeliveredInOrder` are about all the data of a connection, in one
direction each. `Line` says that the parts of a direction, one behind the other (what has arrived, the records on
their way, the record that leaves, the buffer), hold the pieces of data from a first to a last one, once and in order. It says so
part by part and pair by pair, so that no proof needs an induction over sequences: every step of the code has one lemma that
moves a part (`LineMore` gathers, `LineSeal` seals, `LineSend` sends, `LineTake` receives, `LineRead` hands out, `LineSkip` drops a
record that holds no data). `Writes` is inductive next to `Held` and `Protected`: a step of the processor writes to, or throws away,
only parts without data, because the methods of `BearSSLClient` have flushed. It assumes `Honest` (a server that
closes after an error reads no more) and `ThroughBearSSLClient`. `Reads` is inductive next to
`EngineInv` and `ChannelInv`, for any calls. It adds that an honest server puts data and messages in records of different types
(`Heard`), so that what the processor reads is no data, and that `br_sslio_close`, whose loop discards what it
reads, has told the processor to close before its first round (`Leaves`).

*Server.* The theorems of `SslServerProofs` hold for the library's client and for a peer that sends anything, for
all limits and all options of the server. `ClientProven` depends on where a session came from,
`RenegotiationSecure` on all ways to a second ClientHello
(the client's and the application's, with `opts.noreneg` and without), and `ServerImplementsSession` on
which key change comes first in an abbreviated handshake. `ServerInv` has the parts
`ServerShape` and `ServerFields` (locations, flags), `ServerControl` (when the coroutine runs, and when it is asked for a
handshake or a closure), `ServerKeys` (how the two numbers of key changes compare at each location), `ServerSecure` (which
locations are reached without RFC 5746, or with renegotiations refused: those of one handshake) and `ServerProven` (which sessions, current or
saved, the client has proven its key for). It says nothing of the contents of buffers, which is why it does not need to know the
peer. Again the words are reduced to few effects (`Greets`, `Refuses`, `Answers`, `Exchanges`, `Finishes`, ...).

*Client and server together.* `FinishedAlwaysAgrees` is about both ends of this library. A Finished is read long after it was
written, and what it must agree with was settled several messages before, some of them perhaps in an earlier connection. The
invariant `PairSafe` therefore follows the messages that decide something: the hello, the answer to it (new session or
resumed), the key exchange, the two ChangeCipherSpecs and the two Finished. `Along` says that one is under way, wherever it is: unread, in a
record in the pipe, in the record that leaves or in the buffer; `Once` that there is only one. `PairShape` has the form of
both ends and of the pipes; `PairFlow` has these parts:

- `OnceEach`: no decisive message is under way twice;
- `InPair`: which locations of the two processors go together, in new and in resumed sessions;
- `OnUp`, `OnDown`, `Arrivals`: given what is under way, where both processors can be;
- `Turns`: while an answer, a key change or a Finished comes down, nothing decisive goes up;
- `Agree`: from which message on identifier and secret are the same on both sides;
- `Known`: identifiers in the cache or with the client, current or saved, are below the next new one, and a secret that the client
  has for a cached identifier is the cached one; so a session that the server opens is one that nobody has yet.

The words of the two processors are reduced to nine effects of the client and twelve of the server (`ClientEffects`, `ServerEndEffects`):
one goes on within a phase and says nothing decisive, or sends or takes one decisive message. That a buffer operation adds at most the message
it is given, and takes the first one that is unread, is proved once for any set of messages (`TakeFewer`, `SealFewer`,
`GatherOneMore`, ...). Each effect has a lemma that it keeps `PairFlow`; a new connection empties everything (`FreshFlow`).
`ServerInv` is used for the form of the server's state only. The theorem speaks of `peer = "client"`, as `FinishedAgrees` does; it assumes nothing else
and leaves the limits of the model free.

*Negotiation.* `SameSession` compares the two ends of one handshake. A session that is resumed was made earlier,
perhaps in a handshake that one of the ends never finished. `NegoInv` therefore adds what both remember: identifiers of sessions are
numbers below the next new one (`Numbered`), the number of a new session is not in the cache before both ends have its secret
(`Unsaved`), and a client that names a cached session has its secret (`Known`). No assumption is made on suites, policies or caches
(the cache may lose any session at any time). `AgreesOnBest` compares what the server leaves over after each of its tests (what is common, usable, chosen)
with one statement of what both can run (`ChoicesAreWorkable`), and each test of the client with those of the server. `BestInv` says that the client's
saved session still fits its configuration, and is the one that the cache has under that number. The theorem assumes
that a client offers ephemeral suites only if it has a hash function other than MD5, a signature algorithm and a curve
(`Equipped`), which the engine does not check: it leaves an extension out when it has nothing to name, the server then takes
SHA-1 or P-256 for granted, and the client refuses what comes of it. That the first suite of a list exists is the
well-founded order of the natural numbers (`LeastIs`).

*AEAD records.* `RecordsInOrderSafety` holds for any record types, payloads, versions and number of
records; it assumes that the suites are those of the library and that ChangeCipherSpec is one
of the types (`RecordsAssumption`). `RecordsInOrder` says nothing of the two contexts, so it is not
inductive. `RecordsInv` adds them: the contexts in which records were sent are
ordered by key and number (`Ordered`), each is the one after the record before
(`Successive`), and the receiver is in the context of the next record until it refuses one
(`InStep`). A tag that opens shows the key and number of its maker (`TagShows`), of which
there is one by `Ordered`, the one that `InStep` names (`OpensNext`).

*Credentials.* `OwnInv` strengthens `BuffersFreedOnce`: no two places hold the same block,
every block in a place is allocated, and, while certificates come as text only, nothing in a place
belongs to the application; with `setEccSlot` alone the one block of the first place is
all there is. `OfferInv` adds which places the length of the chain covers
(`ChainComplete`) and which key goes with the first certificate (`KeyAndCert`), which depend on
every earlier call; hence the history of kinds of calls in it. Assumed is
`CredentialsAssumption` only: blocks, `Null` and `AppMemory` differ, and the chain has at
least one place.

*Certificate validation.* `VerdictCorrect` relates a machine that sees one part of one certificate
at a time with a statement about the whole chain. `IInv` is `TypeOK` with four parts:
`Counting` (which certificates were begun, read and counted), `Behind` (while there is no verdict,
no certificate behind the current one was lost, and every pair of neighbours is linked: the
saved name and the last signature are those of the certificate before), `Current` (what the
coroutine has read of this certificate, and that it found nothing wrong with it), and `Concluded`
(a verdict is right whatever is sent after it; until the chain ends, an error names a certificate
that is lost). Each action has a lemma; the names of the lemmas say which part they keep.
`KeyCorrect` follows from `Current` and `Concluded`. The assumptions are that keys have types
and that certificates and anchors are made of the given names and keys.

*Dates.* `DatesAlwaysTheirDays` holds for every year. `CalendarInv` says what the number of the calendar's day is in terms of
the table and of the days before the year. It is kept because a month's entry is the one before plus its length
(`TableDays`) and because the divisions that round up count one more exactly after a leap year (`YearLength`). `CalendarAssumption` gives the
numbers of three first days of a year: that of the year 0, which is 0, and two that follow from it.

*Session cache.* `EntriesAlwaysLinked` and `CacheImplementsLruMap` hold for a block of any length, any identifiers and
sessions, and any masks; `CacheAssumption` says that an entry has a length and that masked identifiers are numbers, which may
collide. Neither that a search finds each entry nor that the list ends is inductive. `CacheInv` names what the block does not
hold: the sequence `s` of the entries in the order of the list (`Threads`), with `store_ptr` behind as many entries as it has, and
a rank `r` of each entry (`CacheTree`). The tree is the one that grows when entries are inserted in the order of their ranks:
`Lower` is what belongs below an entry on one side, and the child on that side is the `Highest` of it. So keys and ranks say
what every link is (`Tops`), and a search is shown to stay where the key belongs (`Reached`), one rank deeper in each turn, so that the turns
suffice (`AboveGrows`, `FindEnds`). An insertion hangs a node of the last rank in the one place that is free for its key (`InsertTree`). A removal
with two children takes out the neighbour in order, which has one child at most (`ReplacementFound`, `SpliceOut`), and
puts it in the place and rank of the removed entry (`RelabelTree`). The two sides of the tree are one set of lemmas: they speak of
an order of the nodes, which is that of the keys or its reverse (`Opposite`).
`StepsOf` says what each call does to `s`, and this is also the step of `LruMap` (`MapStep`).

*Hashes, HMAC and CBC records.* `CbcOpensExactly` and `HashesImplementDigestStream` hold for any round function, any block and
digest length, any keys, payloads, secrets and data. `HashAssumption`, `CbcAssumption` and `ShaAssumption` say how the lengths
compare (a digest is no longer than a hash block, a block of the cipher no longer than a digest, and the encoded length leaves room for a byte
of padding) and that keys and data are bytes. One hypothesis is about an operator and so stands in the theorems: `EncodesBytes`, that `Encode` gives `DigestLen`
bytes of whatever state it is given. What is collision-free or secret plays no part: MACs are compared, not broken.

The recursions go over positions, so a proof states what holds up to a position and lets it grow (`UpTo`). For the hashes
that is `Holds(cc, m)`: the count of the context is the length of `m`, its value is the rounds over the whole blocks of `m`,
and its buffer starts with what is left. `Update` extends `m`, whatever the pieces, `Out` gives `Digest(m)`, whichever of its two
paddings it takes. HMAC follows with the states after the masked blocks of the key (`HmacIs`, `HmacOutRight`).
The constant-time HMAC reads the same bytes for every length: up to the position `kz`, the bytes it feeds are the payload and its padding
(`RestRight`), and the state it keeps is the one after that block. `RotateBack` turns by the bits of its count, and a window of `MacLen`
places meets each rest modulo `MacLen` once (`Window`), so the MAC that is read is the one in front of the padding. With `LengthsRight`
(a well-formed record has its padding and MAC exactly where `cbc_decrypt` looks) this gives `OpenedRight`: the check accepts what is well-formed,
and nothing else. `cbc_check_length` lets every record through that can be well-formed (`ReadRight`); that it may let `cbc_decrypt` see only whole blocks
is why the invariant `CbcInv` says that the records on the wire fill whole blocks. `CbcInv` also says that the records opened so far were opened exactly
and that, while nothing was changed, those opened and those on the wire carry the payload in its parts.

The hash objects implement `DigestStream` by `SInv`: what the context holds is, for a hash, the message since the begin; for an HMAC, the masked key in
front of it, with the key in the secret buffer; and between 0 and `DigestLen` bytes of the digest buffer have been read. A lemma `...Step` per call shows that it keeps `SInv` and is a step of `DigestStream`, or none.

*AEAD modes.* `ModesAreAsDefined` holds for any block of at least four bytes that is a multiple of four, any nonce and tag lengths, any additional
data and message, and any cut of them into pieces, empty ones included. `ModesAssumption` says this of the constants, and that the lengths are numbers.
The definitions (`TagOf`, `Output`) speak of whole messages; the context knows only a MAC, one block and a counter. `ModesInv` says what
these are in terms of what was fed so far, in two parts, `InAad` before the flip and `InData` after it:

- `Gathered`: the MAC has gone over whole blocks of what was fed, and the rest is at the start of the block. When the
  authenticated data begins a block, when a full block is kept back, and when it is authenticated at once differs between the modes
  (`GcmAadIs`, `CcmAadIs`, `EaxAadIs`); EAX keeps the last block, because it is masked by whether it is full;
- `Keyed`: the bytes of the block that are not used hold the stream for the next bytes of the message, and the counter is
  the one behind them. `CtxRuns` joins the two: the same block holds ciphertext or plaintext in front and stream behind.

`RunPieces` is what the three run functions share: bytes up to the end of the block, whole blocks, and what begins a new one. `EagerRuns`
(GCM and CCM) and `EaxRunsTo` apply it with their own ways to cut a piece. `ChunkGathers` and `PadGathered` do the same for the OMACs of EAX, and
`CapturedNonceIs` shows that a captured state gives the OMAC of the nonce that a reset computes. The lemmas `...TagIs` then fill up what is left in the
block. Of EAX the theorem says nothing after an injection that goes beyond a block that was partly there (`Tears`): there the code is wrong (section 3).

*Only model-checked.* What the other algorithms compute is compared with their definitions by TLC: the PEM decoder, division and RSA rest on recursive
operators and bitwise ones, in modules that the prover cannot use (division and RSA would also need number theory that its library
does not have). `HonestErrors` says of two whole engines, client and server, which errors they can end with; it would need, on top of
what `PairSafe` follows, every other word of both sides (alerts, certificates, data) with the keys it is written under. Liveness is out of the prover's
reach because it does not handle fairness.

## 5. Not modelled

- *Round functions and ciphers*: SHA and MD5 rounds, AES, DES, ChaCha20, GHASH, Poly1305.
  They are straight-line arithmetic on words of fixed width, with test
  vectors as their specification; nothing smaller than the real tables and
  constants would still be the same program.
- *Elliptic curves and ECDSA*: `ec_*.c` work in the fields of three standard curves
  and on their special primes.
- *Other variants*: the 31, 32 and 62-bit integers and the variants of the
  primitives for other processors repeat the 15-bit ones with other word sizes.
- *Random generator of the engine* and HMAC_DRBG: what matters is the quality of the
  output, which a model cannot state.
- *Key decoder* (`skey_decoder.c`) and *`x509_decoder.c`*: coroutines over the bytes of an encoding
  that copy fields; their outcomes are inputs of `Credentials` and of the anchors.
- *Encryption wrappers, secure element callbacks, trust anchors, profiles*: no state of
  their own beyond a key schedule or a table.
- *Of the handshakes*: the encoding of messages, the server name, the maximum fragment length
  in the hellos (its effect on the buffers is in `RecordBuffer`), key derivation, and the signatures of the key
  exchange, which are taken as valid or not.
- *Of the engine*: several alerts in one record and handshake messages in pieces
  (`RecordBuffer` has the pieces of records), and the configuration setters.

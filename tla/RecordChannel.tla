--------------------------- MODULE RecordChannel ---------------------------
(***************************************************************************)
(* What the record buffers of the SSL engine promise, with no offsets: in  *)
(* one direction plaintext becomes available in pieces and each piece is   *)
(* consumed before the next one appears; in the other, plaintext is        *)
(* gathered, then framed, all of it, into one record, which is transmitted *)
(* completely before anything else is gathered.                            *)
(***************************************************************************)
EXTENDS Integers

CONSTANTS InCapacity, OutCapacity  \* bounds on the plaintext held

NoRecord == -1

VARIABLES open,   \* the connection is usable
          avail,  \* plaintext available to the consumer
          gath,   \* plaintext gathered for the next record
          fly     \* plaintext in the record being sent, or NoRecord

chan == <<open, avail, gath, fly>>

Deliver ==
  /\ open /\ avail = 0
  /\ avail' \in 1 .. InCapacity
  /\ UNCHANGED <<open, gath, fly>>

Consume ==
  /\ open /\ avail > 0
  /\ avail' \in 0 .. avail - 1
  /\ UNCHANGED <<open, gath, fly>>

Gather ==
  /\ open /\ fly = NoRecord
  /\ gath' \in gath + 1 .. OutCapacity
  /\ UNCHANGED <<open, avail, fly>>

(* Everything gathered, possibly with some last plaintext, goes into one   *)
(* record.                                                                 *)
Frame ==
  /\ open /\ fly = NoRecord
  /\ fly' \in gath .. OutCapacity
  /\ gath' = 0
  /\ UNCHANGED <<open, avail>>

Transmit ==
  /\ open /\ fly # NoRecord
  /\ fly' = NoRecord
  /\ UNCHANGED <<open, avail, gath>>

Close == open /\ open' = FALSE /\ UNCHANGED <<avail, gath, fly>>

Start == open = TRUE /\ avail = 0 /\ gath = 0 /\ fly = NoRecord

Restart == open' = TRUE /\ avail' = 0 /\ gath' = 0 /\ fly' = NoRecord

ChannelInit == Start
ChannelNext ==
  Deliver \/ Consume \/ Gather \/ Frame \/ Transmit \/ Close \/ Restart
ChannelSpec == ChannelInit /\ [][ChannelNext]_chan

=============================================================================

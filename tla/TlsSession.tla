----------------------------- MODULE TlsSession -----------------------------
(***************************************************************************)
(* What the engine promises, with no records and no messages: a session is *)
(* opened by a handshake that changes the keys of each direction exactly   *)
(* once, may be opened anew by another handshake, and once it is closing   *)
(* it only gets closed.  A reset starts over, whatever was going on.       *)
(***************************************************************************)
EXTENDS Naturals

VARIABLES phase,    \* "closed", "handshake", "open", "closing"
          keys_in,  \* how often the keys for input were changed
          keys_out  \* how often the keys for output were changed

session == <<phase, keys_in, keys_out>>

SessionInit == phase = "closed" /\ keys_in = 0 /\ keys_out = 0

Reset == phase' = "handshake" /\ keys_in' = 0 /\ keys_out' = 0

ChangeKeysIn ==
  /\ phase = "handshake" /\ keys_in <= keys_out
  /\ keys_in' = keys_in + 1 /\ UNCHANGED <<phase, keys_out>>

ChangeKeysOut ==
  /\ phase = "handshake" /\ keys_out <= keys_in
  /\ keys_out' = keys_out + 1 /\ UNCHANGED <<phase, keys_in>>

Open ==
  /\ phase = "handshake" /\ keys_in = keys_out /\ keys_in > 0
  /\ phase' = "open" /\ UNCHANGED <<keys_in, keys_out>>

Reopen == phase = "open" /\ phase' = "handshake" /\ UNCHANGED <<keys_in, keys_out>>

Closing == phase \in {"handshake", "open"} /\ phase' = "closing" /\ UNCHANGED <<keys_in, keys_out>>

Closed == phase # "closed" /\ phase' = "closed" /\ UNCHANGED <<keys_in, keys_out>>

SessionNext ==
  Reset \/ ChangeKeysIn \/ ChangeKeysOut \/ Open \/ Reopen \/ Closing \/ Closed

SessionSpec == SessionInit /\ [][SessionNext]_session

=============================================================================

--------------------------- MODULE MCClientMemory ---------------------------
(* The memory of a client: its one record buffer, used in both directions, *)
(* and the certificates that it has of its own, for two devices and on a   *)
(* heap of three blocks.  A behaviour is about one or the other.           *)
EXTENDS MCRecordBuffer, Credentials, TLC

Symmetric == Permutations(Blocks) \cup Permutations(Devices)

VARIABLE what
allVars == <<vars, credVars, what>>

MCInit == Init /\ CredInit /\ what \in {"records", "credentials"}

(* Credentials end with the client, or with a wrong free.                  *)
MCNext ==
  /\ UNCHANGED what
  /\ \/ what = "records" /\ Next /\ UNCHANGED credVars
     \/ what = "credentials" /\ CredNext /\ UNCHANGED vars
     \/ what = "credentials" /\ (destroyed \/ misfreed # {}) /\ UNCHANGED <<vars, credVars>>

MCSpec == MCInit /\ [][MCNext]_allVars
=============================================================================

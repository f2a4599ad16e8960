------------------------------- MODULE LruMap -------------------------------
(***************************************************************************)
(* What the session cache promises, with no addresses and no tree: a map   *)
(* from keys to sessions that holds the capacity most recently used ones.  *)
(* A key is only written once while it is in the map; a forgotten entry    *)
(* keeps its place until it is the oldest one.                             *)
(***************************************************************************)
EXTENDS Naturals, Sequences

VARIABLES capacity,\* fixed at the start
          recent,  \* entries [key, secret, on], the last used one first
          answer   \* what the last load found

lruMap == <<capacity, recent, answer>>

NotFound == 0

Without(i) == SubSeq(recent, 1, i - 1) \o SubSeq(recent, i + 1, Len(recent))

Save(keys, secrets) ==
  /\ answer' = NotFound
  /\ capacity > 0
  /\ LET kept == IF Len(recent) = capacity THEN Without(capacity) ELSE recent
         absent == keys \ {recent[i].key : i \in DOMAIN recent}
     IN  recent' \in {<<e>> \o kept : e \in [key : absent, secret : secrets, on : {TRUE}]}

(* The entry at place i is looked up, or forgotten.                        *)
Load(i) ==
  /\ recent[i].on /\ answer' = recent[i].secret
  /\ recent' = <<recent[i]>> \o Without(i)

Forget(i) ==
  /\ answer' = NotFound
  /\ recent' = [recent EXCEPT ![i].on = FALSE]

(* A load that finds nothing, a save of a key that is there, a forget of   *)
(* one that is not.                                                        *)
Nothing == answer' = NotFound /\ recent' = recent

LruInit == capacity \in Nat /\ recent = <<>> /\ answer = NotFound
LruNext(keys, secrets) ==
  /\ capacity' = capacity
  /\ \/ Nothing
     \/ \E i \in DOMAIN recent : Load(i) \/ Forget(i)
     \/ Save(keys, secrets)

=============================================================================

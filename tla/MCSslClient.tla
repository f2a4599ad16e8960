---------------------------- MODULE MCSslClient ----------------------------
(* Instances of the client: what TLC explores is chosen in the .cfg files. *)
EXTENDS SslClientProps

=============================================================================

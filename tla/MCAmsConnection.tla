-------------------------- MODULE MCAmsConnection --------------------------
(* Two threads, which share a port or use two. *)
EXTENDS AmsConnection

=============================================================================

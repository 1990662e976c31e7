---------------------------- MODULE MCSessionViews --------------------------
(* Small instances of SessionViews for TLC. *)
EXTENDS SessionViews

CONSTANTS c1, k1, k2

=============================================================================

----------------------------- MODULE MCLifecycle -----------------------------
(* An instance of Lifecycle for TLC. *)
EXTENDS Lifecycle, TLC

CONSTANTS c1, c2, c3

\* Three connections: one may hold the server up while another is served and a
\* third has sent no request yet.
Three == {c1, c2, c3}
=============================================================================

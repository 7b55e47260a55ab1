--------------------------- MODULE MCStatusStream ---------------------------
(* One connection for one payment. *)
EXTENDS StatusStream

MCTarget == [s \in Streams |-> CHOOSE p \in Payments : TRUE]
=============================================================================

--------------------------- MODULE MCRunAsKeys ---------------------------
(* The options of the executor of scheduled functions; a tick is half an hour. *)
EXTENDS RunAsKeys, TLC

CONSTANTS executor, server, r1, r2

MCSymmetry == Permutations({r1, r2})

=============================================================================

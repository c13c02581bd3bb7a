--------------------------- MODULE MCStorageRows ---------------------------
(* Three clients and two items under one path. *)
EXTENDS StorageRows

CONSTANTS c1, c2, c3, i1, i2

=============================================================================

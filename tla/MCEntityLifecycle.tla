------------------------ MODULE MCEntityLifecycle --------------------------
(* Model values and symmetry for TLC. *)
EXTENDS EntityLifecycle, TLC


\* Requests are alike, and so are data that sanitizeEntity accepts.
Alike == Permutations(Req) \cup Permutations(Data \ BadData)
=============================================================================

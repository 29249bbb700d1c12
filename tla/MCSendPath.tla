------------------------------ MODULE MCSendPath ------------------------------
(* Small instances of SendPath: two threads that send and close. *)
EXTENDS SendPath
=============================================================================

------------------------------ MODULE FlbNull ------------------------------
(* The null pointer, shared by the modules of the C headers. *)
CONSTANT NULL
=============================================================================

--------------------------- MODULE MCStreamServer ---------------------------
(* Registrar and stream server on the profiles of MCRegistrar. *)
EXTENDS StreamServer, MCRegistrar
=============================================================================

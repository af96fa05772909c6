--------------------------- MODULE MCEventStream ---------------------------
(* Two connections, one of which may be left behind at the server.            *)
EXTENDS EventStream

=============================================================================

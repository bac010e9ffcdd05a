------------------------------ MODULE MCClient ------------------------------
(* A client of two servers, and a file of two chunks.                      *)
EXTENDS Client

CONSTANTS a, b
TwoServers == {a, b}
Known == {<<>>, <<a>>, <<a, b>>}
=============================================================================

------------------------- MODULE MCRequestRegistry -------------------------
(* Small instances of RequestRegistry for TLC.                             *)
EXTENDS RequestRegistry

CONSTANTS create, query, none

Both == {create, query}
Create == {create}
=============================================================================

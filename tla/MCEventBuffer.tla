---------------------------- MODULE MCEventBuffer ----------------------------
(* Four events, of which two have the same key.                             *)
EXTENDS EventBuffer

MCKey == [e \in Events |-> IF e = "e4" THEN "e1" ELSE e]
==============================================================================

---------------------------- MODULE MCTokenRenewal ----------------------------
(* Calls and instances are interchangeable, but the run checks liveness, for *)
(* which symmetry would not be sound: they are plain model values.           *)
EXTENDS TokenRenewal
===============================================================================

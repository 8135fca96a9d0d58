----------------------------- MODULE MCLocation -----------------------------
(* Small instances of Location: its bounds are its only parameters.        *)
EXTENDS Location
=============================================================================

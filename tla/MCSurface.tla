------------------------------ MODULE MCSurface ------------------------------
(* A small instance of Surface: entries of two inputs or more.             *)
EXTENDS Surface
=============================================================================

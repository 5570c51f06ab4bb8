----------------------------- MODULE MCStoreFile ------------------------------
(* One or two connection threads that save at any moment, and crashes.     *)
EXTENDS StoreFile

CONSTANTS s1, s2
=============================================================================

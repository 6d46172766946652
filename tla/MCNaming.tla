-------------------------------- MODULE MCNaming -------------------------------
(***************************************************************************)
(* Small instances of Naming: two hosts and two names.  The hosts move     *)
(* between two addresses.                                                  *)
(***************************************************************************)
EXTENDS Naming

CONSTANTS A, B

Roaming == [h \in Host |-> Ip]

===============================================================================

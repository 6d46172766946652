------------------------------ MODULE MCInventory ------------------------------
(***************************************************************************)
(* Small instances of Inventory: the configurations give it one or two     *)
(* certificates, one or two file names and two contents.                   *)
(***************************************************************************)
EXTENDS Inventory

\* The serial numbers of the files; enough for every upload to insert a row
\* for every name.
TwoFiles == {1, 2}
ThreeFiles == {1, 2, 3}

Nothing == [k \in Kind |-> 0]

\* Two archives with a DELETE request and an expiry, one archive with a DELETE
\* request and a failure, or three archives, enough for the old versions to be
\* pruned.
Removals == {[Nothing EXCEPT !.upload = 2, !.delete = 1, !.expiry = 1],
             [Nothing EXCEPT !.upload = 1, !.delete = 1, !.failure = 1],
             [Nothing EXCEPT !.upload = 3]}

\* A failure with either a restart or a renewal.
Failures == {[Nothing EXCEPT !.upload = 1, !.failure = 1, !.restart = 1],
             [Nothing EXCEPT !.upload = 1, !.failure = 1, !.renewal = 1]}

OneRenewal == {[Nothing EXCEPT !.upload = 1, !.renewal = 1]}
OneExpiry == {[Nothing EXCEPT !.upload = 2, !.expiry = 1]}

===============================================================================

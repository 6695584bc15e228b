------------------------------- MODULE MCSync -------------------------------
(* Small instances of Sync for TLC. *)
EXTENDS Sync

CONSTANTS e1, e2

OnePerPage == <<{e1}, {e2}>>
=============================================================================

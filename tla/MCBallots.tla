----------------------------- MODULE MCBallots -----------------------------
(* Small instances of Ballots for TLC. *)
EXTENDS Ballots
=============================================================================

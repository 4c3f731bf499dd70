---------------------------- MODULE MCConnection ----------------------------
(* Instances of Connection for TLC. *)
EXTENDS Connection

CONSTANTS p1, p2

TwoPasswords == {p1, p2}
OnePassword == {p1}

EveryConf == AllSettings
=============================================================================

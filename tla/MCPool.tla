------------------------------- MODULE MCPool -------------------------------
(* Values of Pool's constants for TLC. *)
EXTENDS Pool

Plain      == [transaction |-> FALSE, no_error |-> FALSE]
InTx       == [transaction |-> TRUE,  no_error |-> FALSE]
QuietInTx  == [transaction |-> TRUE,  no_error |-> TRUE]

OnlyTx     == {InTx}
BothTx     == {InTx, QuietInTx}
PlainAndBothTx == {Plain, InTx, QuietInTx}

Symmetry == Permutations(Threads) \cup Permutations(Conns)
=============================================================================

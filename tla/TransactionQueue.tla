-------------------------- MODULE TransactionQueue --------------------------
(***************************************************************************)
(* What a pool promises about the order of its transactions, without       *)
(* connections, threads or locks.                                          *)
(*                                                                         *)
(* Transactions are numbered in the order they begin.  One that finishes   *)
(* while an older one is still there only waits; one that finishes as the  *)
(* oldest leaves, and takes along every waiting one that is older than the *)
(* oldest still running.  An operator may withdraw a waiting transaction.  *)
(***************************************************************************)
EXTENDS Naturals

VARIABLES
  issued,    \* number of transactions begun so far
  running,   \* transactions whose statement is not over
  waiting    \* finished, behind an older one

vars == <<issued, running, waiting>>

Init == issued = 0 /\ running = {} /\ waiting = {}

Begin ==
  /\ issued' = issued + 1
  /\ running' = running \cup {issued + 1}
  /\ UNCHANGED waiting

Wait(x) ==
  /\ x \in running
  /\ \E y \in running \cup waiting : y < x
  /\ running' = running \ {x}
  /\ waiting' = waiting \cup {x}
  /\ UNCHANGED issued

Leave(x) ==
  /\ x \in running
  /\ \A y \in running \cup waiting : x <= y
  /\ running' = running \ {x}
  /\ waiting' = {y \in waiting : \E r \in running' : r < y}
  /\ UNCHANGED issued

Withdraw(x) ==
  /\ x \in waiting
  /\ waiting' = waiting \ {x}
  /\ UNCHANGED <<issued, running>>

Next ==
  \/ Begin
  \/ \E x \in running : Wait(x) \/ Leave(x)
  \/ \E x \in waiting : Withdraw(x)

Spec == Init /\ [][Next]_vars
=============================================================================

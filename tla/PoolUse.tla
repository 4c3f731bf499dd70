------------------------------ MODULE PoolUse -------------------------------
(***************************************************************************)
(* How statements use one pool, as its store sees it: who has a connection *)
(* of it and how many connections are active, without connections, order   *)
(* or broker.                                                              *)
(*                                                                         *)
(* A statement that ends while another one runs may leave its connection   *)
(* behind (a deferred commit); a statement that ends takes some of those   *)
(* along and hands them back, and the last one running takes all.          *)
(***************************************************************************)
EXTENDS Naturals

CONSTANTS
  Users,   \* threads
  Limit    \* active connections the pool allows

VARIABLES
  running,   \* users whose statement may still send
  closing,   \* users that commit and hand back
  taken,     \* per user: connections left behind that it has yet to hand back
  waiting,   \* connections left behind that nobody has taken
  active     \* pool::active_size()

vars == <<running, closing, taken, waiting, active>>

Init ==
  /\ running = {} /\ closing = {}
  /\ taken = [u \in Users |-> 0]
  /\ waiting = 0 /\ active = 0

Begin(u) ==
  /\ u \notin running \cup closing
  /\ active < Limit
  /\ running' = running \cup {u}
  /\ active' = active + 1
  /\ UNCHANGED <<closing, taken, waiting>>

LeaveBehind(u) ==
  /\ u \in running /\ running # {u}
  /\ running' = running \ {u}
  /\ waiting' = waiting + 1
  /\ UNCHANGED <<closing, taken, active>>

Take(u) ==
  /\ u \in running
  /\ running' = running \ {u}
  /\ closing' = closing \cup {u}
  /\ \E n \in 0..waiting :
       /\ running' = {} => n = waiting
       /\ taken' = [taken EXCEPT ![u] = n]
       /\ waiting' = waiting - n
  /\ UNCHANGED active

HandBack(u) ==
  /\ taken[u] > 0
  /\ taken' = [taken EXCEPT ![u] = @ - 1]
  /\ active' = active - 1
  /\ UNCHANGED <<running, closing, waiting>>

End(u) ==
  /\ u \in closing /\ taken[u] = 0
  /\ closing' = closing \ {u}
  /\ active' = active - 1
  /\ UNCHANGED <<running, taken, waiting>>

\* A statement without a transaction, or one that never began its own.
EndPlain(u) ==
  /\ u \in running
  /\ running' = running \ {u}
  /\ running' = {} => waiting = 0
  /\ active' = active - 1
  /\ UNCHANGED <<closing, taken, waiting>>

\* pool::force_commit
Withdraw ==
  /\ waiting > 0 /\ running # {}
  /\ waiting' = waiting - 1
  /\ active' = active - 1
  /\ UNCHANGED <<running, closing, taken>>

Next ==
  \/ \E u \in Users :
       Begin(u) \/ LeaveBehind(u) \/ Take(u) \/ HandBack(u) \/ End(u)
         \/ EndPlain(u)
  \/ Withdraw

Spec == Init /\ [][Next]_vars
=============================================================================

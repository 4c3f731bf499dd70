------------------------------- MODULE Limits -------------------------------
(***************************************************************************)
(* One pool's two lists of connections (pool.cpp) while the limits that    *)
(* bound them are changed at run time through module Conf.  A connection   *)
(* is only counted here; module Pool tells who uses it, under limits that  *)
(* stay as they are.                                                       *)
(***************************************************************************)
EXTENDS Conf, FiniteSets

CONSTANTS
  Users,   \* threads that run statements on the pool
  Nobody   \* no thread

ASSUME UsersAssumption == IsFiniteSet(Users) /\ Nobody \notin Users

VARIABLES
  active,     \* number of connections in active_
  ready,      \* number of connections in ready_
  holder,     \* the user that holds the pool's mutex across steps, or Nobody
  phase,      \* per user: where its statement stands
  limit,      \* per user: the limit it has read and not yet compared
  most,       \* the largest max_pool_sockets there has been
  mostKept    \* the largest pool_sockets there has been

pool == <<active, ready, holder, phase, limit>>
allVars == <<vars, pool, most, mostKept>>

PoolTypeOK ==
  /\ active \in Nat /\ ready \in Nat
  /\ holder \in Users \cup {Nobody}
  /\ phase \in [Users -> {"idle", "get", "using", "release"}]
  /\ limit \in [Users -> Size]
  /\ most \in Size /\ mostKept \in Size

PoolInit ==
  /\ active = 0 /\ ready = 0
  /\ holder = Nobody
  /\ phase = [u \in Users |-> "idle"]
  /\ limit = [u \in Users |-> 0]
  /\ most = Default["max_pool_sockets"]
  /\ mostKept = Default["pool_sockets"]

Enter(u, f, n) ==
  /\ phase' = [phase EXCEPT ![u] = f]
  /\ limit' = [limit EXCEPT ![u] = n]

\* pool::get reads the limit and then waits for the mutex.
GetBegin(u) ==
  /\ phase[u] = "idle"
  /\ Enter(u, "get", value["max_pool_sockets"])
  /\ UNCHANGED <<active, ready, holder>>

\* Mutant: ready_ is not asked whether it is empty.
GetReadyAny(u) ==
  /\ phase[u] = "get" /\ holder = Nobody
  /\ ready' = ready - 1 /\ active' = active + 1
  /\ Enter(u, "using", 0)
  /\ UNCHANGED holder

\* A ready connection is taken whatever the limit is.
GetReady(u) ==
  /\ phase[u] = "get" /\ holder = Nobody
  /\ ready > 0
  /\ ready' = ready - 1 /\ active' = active + 1
  /\ Enter(u, "using", 0)
  /\ UNCHANGED holder

\* Mutant: active_.size() is compared with > instead of >=.
GetNewAlways(u) ==
  /\ phase[u] = "get" /\ holder = Nobody
  /\ ready = 0 /\ active <= limit[u]
  /\ active' = active + 1
  /\ Enter(u, "using", 0)
  /\ UNCHANGED <<ready, holder>>

GetNew(u) ==
  /\ phase[u] = "get" /\ holder = Nobody
  /\ ready = 0 /\ active < limit[u]
  /\ active' = active + 1
  /\ Enter(u, "using", 0)
  /\ UNCHANGED <<ready, holder>>

GetExhausted(u) ==
  /\ phase[u] = "get" /\ holder = Nobody
  /\ ready = 0 /\ active >= limit[u]
  /\ Enter(u, "idle", 0)
  /\ UNCHANGED <<active, ready, holder>>

\* pool::release holds the mutex when release_connection reads the limit.
ReleaseBegin(u) ==
  /\ phase[u] = "using" /\ holder = Nobody
  /\ holder' = u
  /\ Enter(u, "release", value["pool_sockets"])
  /\ UNCHANGED <<active, ready>>

\* Mutant: the number of connections kept is not compared.
KeepAlways(u) ==
  /\ phase[u] = "release"
  /\ ready' = ready + 1 /\ active' = active - 1
  /\ holder' = Nobody
  /\ Enter(u, "idle", 0)

\* good() and fewer are kept than pool_sockets.
Keep(u) ==
  /\ phase[u] = "release"
  /\ ready < limit[u]
  /\ ready' = ready + 1 /\ active' = active - 1
  /\ holder' = Nobody
  /\ Enter(u, "idle", 0)

\* The connection is erased: enough are kept, or its socket is closed.
Erase(u) ==
  /\ phase[u] = "release"
  /\ active' = active - 1
  /\ holder' = Nobody
  /\ Enter(u, "idle", 0)
  /\ UNCHANGED ready

Use(u) ==
  \/ GetBegin(u) \/ GetReady(u) \/ GetNew(u) \/ GetExhausted(u)
  \/ ReleaseBegin(u) \/ Keep(u) \/ Erase(u)

Larger(m, n) == IF m > n THEN m ELSE n

\* A step of Conf, with what the pool sees of it.
Configure ==
  /\ Next
  /\ most' = Larger(most, value'["max_pool_sockets"])
  /\ mostKept' = Larger(mostKept, value'["pool_sockets"])
  /\ UNCHANGED pool

LimitsNext ==
  \/ Configure
  \/ \E u \in Users : Use(u) /\ UNCHANGED <<vars, most, mostKept>>

LimitsStart == Init /\ PoolInit

LimitsSpec == LimitsStart /\ [][LimitsNext]_allVars
-----------------------------------------------------------------------------
(***************************************************************************)
(* Properties                                                              *)
(***************************************************************************)

(* However the limits change, and however old the limit is that a thread   *)
(* compares after it waited for the mutex, the sockets of the pool never   *)
(* outnumber the largest limit there was, although pool::get compares only *)
(* the active ones and takes a ready one without comparing (pool.cpp:70,   *)
(* 74-97).                                                                 *)
SocketsBounded == active + ready <= most

(* The connections kept never outnumber the largest pool_sockets there was *)
(* (pool.cpp:134-136).                                                     *)
KeptBounded == ready <= mostKept

(* A lowered limit holds for new sockets: once no thread is left that read *)
(* the old one, no socket is added to a pool that is at the limit or above *)
(* it (pool.cpp:70, 91-97).                                                *)
GrowsBelowLimit ==
  [][ /\ active' + ready' > active + ready
      /\ \A u \in Users :
           phase[u] = "get" => limit[u] <= value["max_pool_sockets"]
      => active + ready < value["max_pool_sockets"] ]_allVars
=============================================================================

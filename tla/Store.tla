-------------------------------- MODULE Store -------------------------------
(***************************************************************************)
(* capst::store (store.cpp): the table of pools, the statements that reach *)
(* a pool through it and the administration functions (capstomp_store_*,   *)
(* capstomp_status, capstomp_max_pool_count).                              *)
(*                                                                         *)
(* A step ends where another thread can move: at every acquisition of      *)
(* store::mutex_ or of a pool's mutex, between the two locked halves of    *)
(* store::get, and between two exchanges of store::commit.  A pool is what *)
(* module PoolUse says of it; module Pool implements that.                 *)
(***************************************************************************)
EXTENDS Naturals, FiniteSets

CONSTANTS
  Threads,         \* server threads, of statements and of operators alike
  Uris,            \* uris of the statements
  NoPort,          \* port of a uri that names none
  None,            \* no thread, no uri
  CountLimits,     \* values conf::max_pool_count() takes
  MaxPoolSockets,  \* conf::max_pool_sockets()
  Calls,           \* administration functions in use
  Careful          \* the operator erases an endpoint only while no statement
                   \* is about to use it, and clears only while none runs

UriParts == [login : {u.login : u \in Uris}, host : {u.host : u \in Uris},
             port : {u.port : u \in Uris}, path : {u.path : u \in Uris},
             fragment : {u.fragment : u \in Uris},
             passcode : {u.passcode : u \in Uris}]

ASSUME StoreAssumption ==
  /\ IsFiniteSet(Threads)
  /\ Uris \subseteq UriParts
  /\ CountLimits \subseteq Nat /\ CountLimits # {}
  /\ MaxPoolSockets \in Nat \ {0}
  /\ Calls \subseteq {"commit", "erase", "clear", "status", "max_pool_count"}
  /\ Careful \in BOOLEAN
  /\ None \notin Threads \cup Uris

StompPort == 61613

\* endpoint(): the name of a pool.
Endpoint(u) ==
  [login |-> u.login,
   addr |-> <<u.host, IF u.port = NoPort THEN StompPort ELSE u.port>>,
   path |-> u.path, fragment |-> u.fragment]

Endpoints == {Endpoint(u) : u \in Uris}

VARIABLES
  table,    \* store_: the endpoints that have a pool
  active,   \* per pool: pool::active_size()
  waiting,  \* per pool: connections of deferred transactions, in its store
  count,    \* conf::max_pool_count()
  lock,     \* the thread that holds mutex_ across steps, or None
  pc,       \* per thread: where its statement or its call stands
  uri,      \* per thread: the uri of its statement
  name,     \* per thread: the endpoint of its statement or the one it names
  limit,    \* per thread: pool_max in select_pool
  taken,    \* per thread: deferred connections it has yet to hand back
  todo,     \* pools store::json has yet to visit
  gone      \* threads whose pool was destroyed under them

vars == <<table, active, waiting, count, lock, pc, uri, name, limit, taken,
          todo, gone>>

InPool == {"running", "closing"}
Phase == {"idle", "select", "selected", "erase", "commit", "status"} \cup InPool

TypeOK ==
  /\ table \subseteq Endpoints
  /\ active \in [Endpoints -> 0..MaxPoolSockets]
  /\ waiting \in [Endpoints -> 0..MaxPoolSockets]
  /\ count \in CountLimits
  /\ lock \in Threads \cup {None}
  /\ pc \in [Threads -> Phase]
  /\ uri \in [Threads -> Uris \cup {None}]
  /\ name \in [Threads -> Endpoints \cup {None}]
  /\ limit \in [Threads -> CountLimits \cup {0}]
  /\ taken \in [Threads -> 0..MaxPoolSockets]
  /\ todo \subseteq Endpoints
  /\ gone \subseteq Threads

Init ==
  /\ table = {}
  /\ active = [e \in Endpoints |-> 0] /\ waiting = [e \in Endpoints |-> 0]
  /\ count \in CountLimits
  /\ lock = None
  /\ pc = [t \in Threads |-> "idle"]
  /\ uri = [t \in Threads |-> None] /\ name = [t \in Threads |-> None]
  /\ limit = [t \in Threads |-> 0] /\ taken = [t \in Threads |-> 0]
  /\ todo = {} /\ gone = {}

Goto(t, phase) == pc' = [pc EXCEPT ![t] = phase]

\* Thread t is done with its call or statement.
Retire(t) ==
  /\ Goto(t, "idle")
  /\ uri' = [uri EXCEPT ![t] = None]
  /\ name' = [name EXCEPT ![t] = None]
  /\ limit' = [limit EXCEPT ![t] = 0]

ThreadsAt(e, phases) ==
  {t \in Threads \ gone : name[t] = e /\ pc[t] \in phases}

\* store::commit keeps the mutex of the pool it commits.
PoolUnlocked(e) == ThreadsAt(e, {"commit"}) = {}

-----------------------------------------------------------------------------
(***************************************************************************)
(* Statements: store::get, then the use of the pool as in PoolUse          *)
(***************************************************************************)

\* select_pool reads the limit before it takes the mutex.
Begin(t, u) ==
  /\ pc[t] = "idle"
  /\ Goto(t, "select")
  /\ uri' = [uri EXCEPT ![t] = u]
  /\ name' = [name EXCEPT ![t] = Endpoint(u)]
  /\ limit' = [limit EXCEPT ![t] = count]
  /\ UNCHANGED <<table, active, waiting, count, lock, taken, todo, gone>>

UseExisting(t) ==
  /\ pc[t] = "select" /\ lock = None
  /\ name[t] \in table
  /\ Goto(t, "selected")
  /\ UNCHANGED <<table, active, waiting, count, lock, uri, name, limit,
                 taken, todo, gone>>

\* Mutant: the limit is not compared.
CreatePoolAlways(t) ==
  /\ pc[t] = "select" /\ lock = None
  /\ name[t] \notin table
  /\ table' = table \cup {name[t]}
  /\ Goto(t, "selected")
  /\ UNCHANGED <<active, waiting, count, lock, uri, name, limit, taken, todo,
                 gone>>

CreatePool(t) ==
  /\ pc[t] = "select" /\ lock = None
  /\ name[t] \notin table /\ Cardinality(table) <= limit[t]
  /\ table' = table \cup {name[t]}
  /\ Goto(t, "selected")
  /\ UNCHANGED <<active, waiting, count, lock, uri, name, limit, taken, todo,
                 gone>>

\* capstomp_init returns 1.
TooManyPools(t) ==
  /\ pc[t] = "select" /\ lock = None
  /\ name[t] \notin table /\ Cardinality(table) > limit[t]
  /\ Retire(t)
  /\ UNCHANGED <<table, active, waiting, count, lock, taken, todo, gone>>

\* Mutant: the limit of a pool is compared with > instead of >=.
LeaseBeyond(t) ==
  LET e == name[t] IN
  /\ pc[t] = "selected" /\ t \notin gone /\ PoolUnlocked(e)
  /\ active[e] <= MaxPoolSockets
  /\ active' = [active EXCEPT ![e] = @ + 1]
  /\ Goto(t, "running")
  /\ UNCHANGED <<table, waiting, count, lock, uri, name, limit, taken, todo, gone>>

\* pool::get through the reference select_pool returned.
Lease(t) ==
  LET e == name[t] IN
  /\ pc[t] = "selected" /\ t \notin gone /\ PoolUnlocked(e)
  /\ active[e] < MaxPoolSockets
  /\ active' = [active EXCEPT ![e] = @ + 1]
  /\ Goto(t, "running")
  /\ UNCHANGED <<table, waiting, count, lock, uri, name, limit, taken, todo,
                 gone>>

Exhausted(t) ==
  /\ pc[t] = "selected" /\ t \notin gone /\ PoolUnlocked(name[t])
  /\ active[name[t]] >= MaxPoolSockets
  /\ Retire(t)
  /\ UNCHANGED <<table, active, waiting, count, lock, taken, todo, gone>>

\* connection::commit behind an older transaction: the connection stays
\* active and the statement is over.
Defer(t) ==
  LET e == name[t] IN
  /\ pc[t] = "running" /\ t \notin gone /\ PoolUnlocked(e)
  /\ ThreadsAt(e, {"running"}) # {t}
  /\ waiting' = [waiting EXCEPT ![e] = @ + 1]
  /\ Retire(t)
  /\ UNCHANGED <<table, active, count, lock, taken, todo, gone>>

\* connection::commit as the oldest transaction.
Take(t) ==
  LET e == name[t] IN
  /\ pc[t] = "running" /\ t \notin gone /\ PoolUnlocked(e)
  /\ \E n \in 0..waiting[e] :
       /\ ThreadsAt(e, {"running"}) = {t} => n = waiting[e]
       /\ waiting' = [waiting EXCEPT ![e] = @ - n]
       /\ taken' = [taken EXCEPT ![t] = n]
  /\ Goto(t, "closing")
  /\ UNCHANGED <<table, active, count, lock, uri, name, limit, todo, gone>>

\* pool::release of a deferred connection.
HandBack(t) ==
  /\ pc[t] = "closing" /\ t \notin gone /\ PoolUnlocked(name[t])
  /\ taken[t] > 0
  /\ taken' = [taken EXCEPT ![t] = @ - 1]
  /\ active' = [active EXCEPT ![name[t]] = @ - 1]
  /\ UNCHANGED <<table, waiting, count, lock, pc, uri, name, limit, todo,
                 gone>>

\* connection::release; the first disjunct is a statement that has no
\* transaction to commit.
Release(t) ==
  LET e == name[t] IN
  /\ t \notin gone /\ PoolUnlocked(e)
  /\ \/ pc[t] = "running" /\ (ThreadsAt(e, {"running"}) = {t} => waiting[e] = 0)
     \/ pc[t] = "closing" /\ taken[t] = 0
  /\ active' = [active EXCEPT ![e] = @ - 1]
  /\ Retire(t)
  /\ UNCHANGED <<table, waiting, count, lock, taken, todo, gone>>

-----------------------------------------------------------------------------
(***************************************************************************)
(* Administration functions                                                *)
(***************************************************************************)

\* The pools of endpoints E are destroyed; whoever still refers to one of
\* them has lost it.
Destroy(E) ==
  /\ table' = table \ E
  /\ active' = [e \in Endpoints |-> IF e \in E THEN 0 ELSE active[e]]
  /\ waiting' = [e \in Endpoints |-> IF e \in E THEN 0 ELSE waiting[e]]
  /\ gone' = gone \cup UNION {ThreadsAt(e, InPool \cup {"selected", "status"}) : e \in E}

\* Mutant: erase does not ask whether connections are active.
EraseCountAny(t, e) ==
  /\ "erase" \in Calls /\ pc[t] = "idle" /\ lock = None
  /\ e \in table
  /\ Careful => ThreadsAt(e, {"selected"}) = {}
  /\ lock' = t /\ name' = [name EXCEPT ![t] = e]
  /\ Goto(t, "erase")
  /\ UNCHANGED <<table, active, waiting, count, uri, limit, taken, todo,
                 gone>>

\* store::erase finds the pool idle: active_size() has taken the pool's
\* mutex and given it back.
EraseCount(t, e) ==
  /\ "erase" \in Calls /\ pc[t] = "idle" /\ lock = None
  /\ e \in table /\ active[e] = 0
  /\ Careful => ThreadsAt(e, {"selected"}) = {}
  /\ lock' = t /\ name' = [name EXCEPT ![t] = e]
  /\ Goto(t, "erase")
  /\ UNCHANGED <<table, active, waiting, count, uri, limit, taken, todo,
                 gone>>

\* "not found" and "has N running"
EraseRefused(t, e) ==
  /\ "erase" \in Calls /\ pc[t] = "idle" /\ lock = None
  /\ e \notin table \/ active[e] > 0
  /\ UNCHANGED vars

EraseDestroy(t) ==
  /\ pc[t] = "erase"
  /\ Destroy({name[t]})
  /\ lock' = None
  /\ Retire(t)
  /\ UNCHANGED <<count, taken, todo>>

\* store::clear asks nothing.
Clear(t) ==
  /\ "clear" \in Calls /\ pc[t] = "idle" /\ lock = None
  /\ Careful => \A e \in table : ThreadsAt(e, InPool \cup {"selected"}) = {}
  /\ Destroy(table)
  /\ UNCHANGED <<count, lock, pc, uri, name, limit, taken, todo>>

\* store::commit, with mutex_ and the pool's mutex for all of force_commit.
CommitStart(t, e) ==
  /\ "commit" \in Calls /\ pc[t] = "idle" /\ lock = None
  /\ e \in table
  /\ lock' = t /\ name' = [name EXCEPT ![t] = e]
  /\ Goto(t, "commit")
  /\ UNCHANGED <<table, active, waiting, count, uri, limit, taken, todo,
                 gone>>

CommitNotFound(t, e) ==
  /\ "commit" \in Calls /\ pc[t] = "idle" /\ lock = None
  /\ e \notin table
  /\ UNCHANGED vars

\* Mutant: the transaction is not erased from the pool's store.
CommitOneKeeps(t) ==
  LET e == name[t] IN
  /\ pc[t] = "commit" /\ waiting[e] > 0 /\ active[e] > 0
  /\ active' = [active EXCEPT ![e] = @ - 1]
  /\ UNCHANGED <<table, waiting, count, lock, pc, uri, name, limit, taken, todo,
                 gone>>

\* One ready transaction is committed and its connection released.
CommitOne(t) ==
  LET e == name[t] IN
  /\ pc[t] = "commit" /\ waiting[e] > 0
  /\ waiting' = [waiting EXCEPT ![e] = @ - 1]
  /\ active' = [active EXCEPT ![e] = @ - 1]
  /\ UNCHANGED <<table, count, lock, pc, uri, name, limit, taken, todo, gone>>

\* Mutant: an exchange that fails is tried again.
CommitEndNever(t) ==
  /\ pc[t] = "commit" /\ waiting[name[t]] = 0
  /\ UNCHANGED vars

CommitEnd(t) ==
  /\ pc[t] = "commit" /\ waiting[name[t]] = 0
  /\ lock' = None
  /\ Retire(t)
  /\ UNCHANGED <<table, active, waiting, count, taken, todo, gone>>

\* store::json (capstomp_status_init) holds mutex_ and takes the mutex of
\* one pool after the other.
StatusStart(t) ==
  /\ "status" \in Calls /\ pc[t] = "idle" /\ lock = None
  /\ lock' = t /\ todo' = table
  /\ Goto(t, "status")
  /\ UNCHANGED <<table, active, waiting, count, uri, name, limit, taken,
                 gone>>

StatusPool(t) ==
  /\ pc[t] = "status"
  /\ \E e \in todo : PoolUnlocked(e) /\ todo' = todo \ {e}
  /\ UNCHANGED <<table, active, waiting, count, lock, pc, uri, name, limit,
                 taken, gone>>

StatusEnd(t) ==
  /\ pc[t] = "status" /\ todo = {}
  /\ lock' = None
  /\ Retire(t)
  /\ UNCHANGED <<table, active, waiting, count, taken, todo, gone>>

\* capstomp_max_pool_count(n)
SetMaxPoolCount(n) ==
  /\ "max_pool_count" \in Calls
  /\ count' = n
  /\ UNCHANGED <<table, active, waiting, lock, pc, uri, name, limit, taken,
                 todo, gone>>

-----------------------------------------------------------------------------
\* What a thread does once its statement or its call has begun.
Proceed(t) ==
  \/ UseExisting(t) \/ CreatePool(t) \/ TooManyPools(t)
  \/ Lease(t) \/ Exhausted(t)
  \/ Defer(t) \/ Take(t) \/ HandBack(t) \/ Release(t)
  \/ EraseDestroy(t) \/ CommitOne(t) \/ CommitEnd(t)
  \/ StatusPool(t) \/ StatusEnd(t)

Call(t) ==
  \/ \E e \in Endpoints : EraseCount(t, e) \/ EraseRefused(t, e)
                           \/ CommitStart(t, e) \/ CommitNotFound(t, e)
  \/ Clear(t) \/ StatusStart(t)

Next ==
  \/ \E t \in Threads : \/ \E u \in Uris : Begin(t, u)
                       \/ Proceed(t) \/ Call(t)
  \/ \E n \in CountLimits : SetMaxPoolCount(n)

Spec == Init /\ [][Next]_vars

(***************************************************************************)
(* The server calls capstomp_deinit for every statement, each exchange     *)
(* with the broker ends (Connection!CallReturns says when), and operators  *)
(* do not take mutex_ for ever.                                            *)
(***************************************************************************)
Fairness ==
  /\ \A t \in Threads : WF_vars(Proceed(t))
  /\ <>[][\A t \in Threads : ~Call(t)]_vars

FairSpec == Spec /\ Fairness
-----------------------------------------------------------------------------
(***************************************************************************)
(* Properties                                                              *)
(***************************************************************************)

(* A reference to a pool is used only while the pool is there: by a        *)
(* statement after the mutex is gone, through all its deferrals, and by    *)
(* capstomp_status.  It holds while erase and clear are called with the    *)
(* care the constant asks for, and then because erase refuses a pool with  *)
(* active connections (store.cpp:79, 90-104, 119-122).                     *)
PoolOutlivesUse == gone = {} /\ todo \subseteq table

(* The table never holds more than one pool above the largest limit, with  *)
(* threads that read the limit before they wait for the mutex and a limit  *)
(* that changes meanwhile (store.cpp:34, 54).                              *)
TableBounded == \E n \in CountLimits : Cardinality(table) <= n + 1

(* For its statements an endpoint is one pool, however often it is created *)
(* and erased: nobody's connection and no deferred transaction goes with a *)
(* pool that is destroyed (store.cpp:111-125, 148-152).                    *)
Use(e) == INSTANCE PoolUse WITH
  Users   <- Threads,
  Limit   <- MaxPoolSockets,
  running <- ThreadsAt(e, {"running"}),
  closing <- ThreadsAt(e, {"closing"}),
  taken   <- [t \in Threads |-> IF name[t] = e THEN taken[t] ELSE 0],
  waiting <- waiting[e],
  active  <- active[e]

EndpointIsOnePool ==
  /\ \A e \in Endpoints : Use(e)!Init
  /\ [][\A e \in Endpoints : Use(e)!Next \/ UNCHANGED Use(e)!vars]_vars

(* Every statement and every call returns, although one thread holds       *)
(* mutex_ over all the exchanges of a commit and the others wait for it.   *)
CallReturns == \A t \in Threads : pc[t] # "idle" ~> pc[t] = "idle"

(* store.cpp:119-122 lets erase fail with "has N running": a pool with     *)
(* connections in use would not be erased.                                 *)
EraseRefusesRunning ==
  [][\A e \in table \ table' : active[e] = 0]_vars
=============================================================================

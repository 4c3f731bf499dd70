-------------------------------- MODULE Pool --------------------------------
(***************************************************************************)
(* One capst::pool and the server threads that use it: each thread runs    *)
(* statements that call the capstomp() function, i.e. capstomp_init,       *)
(* capstomp once per row, capstomp_deinit (udf.cpp).                       *)
(*                                                                         *)
(* A step ends where another thread can observe or disturb the pool: at    *)
(* every acquisition of pool::mutex_ and at every exchange with the        *)
(* broker.  What happens inside an exchange is module Connection's         *)
(* business; here an exchange has the outcomes its code can produce for    *)
(* the state of the socket.                                                *)
(***************************************************************************)
EXTENDS Naturals, Sequences, FiniteSets, SequencesExt

CONSTANTS
  Threads,          \* server threads that run statements
  Conns,            \* identities of connection objects
  None,             \* no connection
  Settings,         \* settings a statement's uri may carry
  PoolSockets,      \* conf::pool_sockets(): how many ready connections are kept
  MaxPoolSockets,   \* conf::max_pool_sockets(): how many may be active
  MaxTransactions   \* bound of the model on transaction_seq_

AllSettings == [transaction : BOOLEAN, no_error : BOOLEAN]

ASSUME PoolAssumption ==
  /\ Settings \subseteq AllSettings
  /\ PoolSockets \in Nat \ {0}
  /\ MaxPoolSockets \in Nat \ {0}
  /\ MaxTransactions \in Nat
  /\ IsFiniteSet(Conns) /\ Cardinality(Conns) >= MaxPoolSockets
  /\ None \notin Conns

VARIABLES
  active,   \* active_: connections in use
  ready,    \* ready_: connections to reuse, the front is taken first
  store,    \* transaction_store_: transactions begun and not yet taken away
  seq,      \* transaction_seq_: number of the last transaction created
  tx,       \* per connection: transaction_id_/transaction_, 0 for the empty id
  link,     \* per connection: its socket
  pc,       \* per thread: where its statement stands
  conn,     \* per thread: initid->ptr, the connection of its statement
  conf,     \* per thread: the settings of its statement
  result,   \* per thread: what its current or last statement reported
  batch,    \* per thread: what get_uncommited returned and is not yet done
  force,    \* position of force_commit in store while it holds mutex_, or 0
  log,      \* COMMIT frames written to a live session, in that order
  lossy     \* transactions of which some message did not reach the broker

vars == <<active, ready, store, seq, tx, link, pc, conn, conf, result,
          batch, force, log, lossy>>

Txn == [id : Nat, conn : Conns, ready : BOOLEAN]

(***************************************************************************)
(* "closed": socket_.good() is false.  "lost": the peer is gone and the    *)
(* descriptor is still open, so good() is true.                            *)
(***************************************************************************)
Link == {"closed", "up", "lost"}

Phase == {"idle", "connect", "create", "begin", "rows", "finish",
          "commit", "handback"}

NoSettings == [transaction |-> FALSE, no_error |-> FALSE]

TypeOK ==
  /\ active \in SUBSET Conns
  /\ ready \in Seq(Conns)
  /\ store \in Seq(Txn)
  /\ seq \in 0..MaxTransactions
  /\ tx \in [Conns -> Nat]
  /\ link \in [Conns -> Link]
  /\ pc \in [Threads -> Phase]
  /\ conn \in [Threads -> Conns \cup {None}]
  /\ conf \in [Threads -> AllSettings]
  /\ result \in [Threads -> {"ok", "error"}]
  /\ batch \in [Threads -> Seq(Txn)]
  /\ force \in Nat
  /\ log \in Seq(Nat)
  /\ lossy \in SUBSET Nat

Init ==
  /\ active = {} /\ ready = <<>> /\ store = <<>> /\ seq = 0
  /\ tx = [c \in Conns |-> 0]
  /\ link = [c \in Conns |-> "closed"]
  /\ pc = [t \in Threads |-> "idle"]
  /\ conn = [t \in Threads |-> None]
  /\ conf = [t \in Threads |-> NoSettings]
  /\ result = [t \in Threads |-> "ok"]
  /\ batch = [t \in Threads |-> <<>>]
  /\ force = 0 /\ log = <<>> /\ lossy = {}

Goto(t, phase) == pc' = [pc EXCEPT ![t] = phase]

\* mutex_ is held across steps only by force_commit.
Unlocked == force = 0

-----------------------------------------------------------------------------
(***************************************************************************)
(* capstomp_init: store::get, pool::get                                    *)
(***************************************************************************)

\* The bound: transactions created or about to be.
Budget(s) ==
  s.transaction =>
    seq + Cardinality({u \in Threads : pc[u] \in {"connect", "create"}
                                         /\ conf[u].transaction})
      < MaxTransactions

\* Mutant: connection::init leaves transaction_id_ as it was.
LeaseKeepsId(t, s, c) ==
  /\ active' = active \cup {c}
  /\ conn' = [conn EXCEPT ![t] = c]
  /\ conf' = [conf EXCEPT ![t] = s]
  /\ result' = [result EXCEPT ![t] = "ok"]
  /\ Goto(t, "connect")
  /\ UNCHANGED <<store, seq, tx, link, batch, force, log, lossy>>

\* The end of pool::get: the connection is active, set() and init(conf).
Lease(t, s, c) ==
  /\ active' = active \cup {c}
  /\ tx' = [tx EXCEPT ![c] = 0]
  /\ conn' = [conn EXCEPT ![t] = c]
  /\ conf' = [conf EXCEPT ![t] = s]
  /\ result' = [result EXCEPT ![t] = "ok"]
  /\ Goto(t, "connect")
  /\ UNCHANGED <<store, seq, link, batch, force, log, lossy>>

GetReady(t, s) ==
  /\ pc[t] = "idle" /\ Unlocked /\ Budget(s)
  /\ ready # <<>>
  /\ ready' = Tail(ready)
  /\ Lease(t, s, Head(ready))

\* Mutant: the limit is compared with > instead of >=.
GetNewBeyond(t, s) ==
  /\ pc[t] = "idle" /\ Unlocked /\ Budget(s)
  /\ ready = <<>> /\ Cardinality(active) <= MaxPoolSockets
  /\ \E c \in Conns \ active : Lease(t, s, c)
  /\ UNCHANGED ready

GetNew(t, s) ==
  /\ pc[t] = "idle" /\ Unlocked /\ Budget(s)
  /\ ready = <<>> /\ Cardinality(active) < MaxPoolSockets
  /\ \E c \in Conns \ active : Lease(t, s, c)
  /\ UNCHANGED ready

\* pool::get throws before there is a connection: capstomp_init returns 1.
GetExhausted(t, s) ==
  /\ pc[t] = "idle" /\ Unlocked /\ Budget(s)
  /\ ready = <<>> /\ Cardinality(active) >= MaxPoolSockets
  /\ conf' = [conf EXCEPT ![t] = s]
  /\ result' = [result EXCEPT ![t] = "error"]
  /\ UNCHANGED <<active, ready, store, seq, tx, link, pc, conn, batch,
                 force, log, lossy>>

-----------------------------------------------------------------------------
(***************************************************************************)
(* capstomp_init: connection::connect and connection::begin                *)
(***************************************************************************)

\* The catch block of capstomp_init once it has a connection: close(), then
\* return 0 under no_error, else commit() and return 1.
InitFails(t) ==
  /\ link' = [link EXCEPT ![conn[t]] = "closed"]
  /\ IF conf[t].no_error
       THEN Goto(t, "rows") /\ UNCHANGED result
       ELSE Goto(t, "finish") /\ result' = [result EXCEPT ![t] = "error"]

\* A new object opens its session.  A reused one keeps its socket, a loss it
\* cannot see yet included, or closes it and logs on again; a disconnect while
\* read() waits for that logon closes the socket without an error, and
\* stomplay still holds the session of the earlier logon.
ConnectOk(t) ==
  LET c == conn[t] IN
  /\ pc[t] = "connect"
  /\ \/ link' = [link EXCEPT ![c] = "up"]
     \/ link[c] # "closed" /\ UNCHANGED link
     \/ link[c] # "closed" /\ link' = [link EXCEPT ![c] = "closed"]
  /\ Goto(t, IF conf[t].transaction THEN "create" ELSE "rows")
  /\ UNCHANGED <<active, ready, store, seq, tx, conn, conf, result, batch,
                 force, log, lossy>>

ConnectFail(t) ==
  /\ pc[t] = "connect"
  /\ InitFails(t)
  /\ UNCHANGED <<active, ready, store, seq, tx, conn, conf, batch, force,
                 log, lossy>>

\* The mutant leaves self_ unset in pool::get.
NewTxnDetached(id, c) == [id |-> id, conn |-> None, ready |-> FALSE]
NewTxn(id, c) == [id |-> id, conn |-> c, ready |-> FALSE]

\* Mutant: the transaction is put in front of the store.
CreateTransactionFirst(t) ==
  /\ pc[t] = "create" /\ Unlocked
  /\ seq < MaxTransactions
  /\ seq' = seq + 1
  /\ store' = <<NewTxn(seq + 1, conn[t])>> \o store
  /\ tx' = [tx EXCEPT ![conn[t]] = seq + 1]
  /\ Goto(t, "begin")
  /\ UNCHANGED <<active, ready, link, conn, conf, result, batch, force, log,
                 lossy>>

\* pool::create_transaction and connection::set(transaction_id_type)
CreateTransaction(t) ==
  /\ pc[t] = "create" /\ Unlocked
  /\ seq < MaxTransactions
  /\ seq' = seq + 1
  /\ store' = Append(store, NewTxn(seq + 1, conn[t]))
  /\ tx' = [tx EXCEPT ![conn[t]] = seq + 1]
  /\ Goto(t, "begin")
  /\ UNCHANGED <<active, ready, link, conn, conf, result, batch, force, log,
                 lossy>>

\* send(BEGIN) and read(); a loss noticed while a receipt is awaited only
\* closes the socket.
BeginOk(t) ==
  LET c == conn[t] IN
  /\ pc[t] = "begin" /\ link[c] # "closed"
  /\ \/ UNCHANGED link
     \/ link[c] = "lost" /\ link' = [link EXCEPT ![c] = "closed"]
  /\ Goto(t, "rows")
  /\ UNCHANGED <<active, ready, store, seq, tx, conn, conf, result, batch,
                 force, log, lossy>>

BeginFail(t) ==
  /\ pc[t] = "begin"
  /\ InitFails(t)
  /\ UNCHANGED <<active, ready, store, seq, tx, conn, conf, batch, force,
                 log, lossy>>

-----------------------------------------------------------------------------
(***************************************************************************)
(* capstomp, once per row: capstomp_content and connection::send_content   *)
(***************************************************************************)

\* The message of this row did not reach the broker.
Undelivered(t) == lossy' = lossy \cup ({tx[conn[t]]} \ {0})

RowDelivered(t) ==
  /\ pc[t] = "rows" /\ link[conn[t]] = "up"
  /\ UNCHANGED vars

\* Mutant: a loss that is noticed within a transaction is mended.
RowLostReconnects(t) ==
  LET c == conn[t] IN
  /\ pc[t] = "rows" /\ link[c] = "lost"
  /\ Undelivered(t)
  /\ link' = [link EXCEPT ![c] = "up"]
  /\ UNCHANGED <<active, ready, store, seq, tx, pc, conn, conf, result,
                 batch, force, log>>

\* Written to a socket whose peer is gone.  Outside a transaction the
\* receipt may be awaited: the disconnect closes the socket, no error.
RowLost(t) ==
  LET c == conn[t] IN
  /\ pc[t] = "rows" /\ link[c] = "lost"
  /\ Undelivered(t)
  /\ \/ UNCHANGED link
     \/ tx[c] = 0 /\ link' = [link EXCEPT ![c] = "closed"]
  /\ UNCHANGED <<active, ready, store, seq, tx, pc, conn, conf, result,
                 batch, force, log>>

\* A closed socket under no_error: capstomp returns 0 and sends nothing.
RowSkipped(t) ==
  /\ pc[t] = "rows" /\ link[conn[t]] = "closed" /\ conf[t].no_error
  /\ Undelivered(t)
  /\ UNCHANGED <<active, ready, store, seq, tx, link, pc, conn, conf, result,
                 batch, force, log>>

\* Mutant: capstomp_content does not close the connection.
RowFailOpen(t) ==
  /\ pc[t] = "rows"
  /\ ~(link[conn[t]] = "closed" /\ conf[t].no_error)
  /\ Undelivered(t)
  /\ result' = [result EXCEPT ![t] = "error"]
  /\ Goto(t, "finish")
  /\ UNCHANGED <<active, ready, store, seq, tx, link, conn, conf, batch, force,
                 log>>

\* An exception in send_content: *error = 1 and close().  The server calls
\* capstomp for no further row of the statement.
RowFail(t) ==
  LET c == conn[t] IN
  /\ pc[t] = "rows"
  /\ ~(link[c] = "closed" /\ conf[t].no_error)
  /\ Undelivered(t)
  /\ link' = [link EXCEPT ![c] = "closed"]
  /\ result' = [result EXCEPT ![t] = "error"]
  /\ Goto(t, "finish")
  /\ UNCHANGED <<active, ready, store, seq, tx, conn, conf, batch, force, log>>

-----------------------------------------------------------------------------
(***************************************************************************)
(* connection::commit: pool::get_uncommited                                *)
(***************************************************************************)

\* commit() runs in capstomp_deinit or at the end of a failed capstomp_init.
Finishing(t) == pc[t] \in {"rows", "finish"}

\* Mutant: initid->ptr is used after the connection was given away.
RetireHolding(t) ==
  /\ Goto(t, "idle")
  /\ conf' = [conf EXCEPT ![t] = NoSettings]
  /\ UNCHANGED conn

\* The statement is over; what is left of the connection is not its concern.
Retire(t) ==
  /\ Goto(t, "idle")
  /\ conn' = [conn EXCEPT ![t] = None]
  /\ conf' = [conf EXCEPT ![t] = NoSettings]

\* transaction::set(true) for the i-th transaction of s
Marked(s, i) ==
  [s EXCEPT ![i] = [id |-> s[i].id, conn |-> s[i].conn, ready |-> TRUE]]

\* A transaction that is not the first of the store is only marked: the
\* thread that takes the older ones commits it and returns its connection.
Defer(t) ==
  /\ Finishing(t) /\ Unlocked /\ tx[conn[t]] # 0
  /\ \E i \in DOMAIN store :
       /\ i # 1
       /\ store[i].id = tx[conn[t]]
       /\ store' = Marked(store, i)
  /\ Retire(t)
  /\ UNCHANGED <<active, ready, seq, tx, link, result, batch, force, log,
                 lossy>>

\* Mutant: a thread takes its own transaction only.
ReadyRunOwn(s, n) == n = 1

\* The first n transactions of s are ready and no longer such prefix exists.
ReadyRun(s, n) ==
  /\ \A i \in 1..n : s[i].ready
  /\ n + 1 \in DOMAIN s => ~s[n + 1].ready

\* The first transaction of the store leaves with the ready ones behind it.
\* The loop reads i->ready() on end() before it compares: whatever that read
\* yields, the loop stops there.
TakeBatch(t) ==
  /\ Finishing(t) /\ Unlocked /\ tx[conn[t]] # 0
  /\ store # <<>> /\ store[1].id = tx[conn[t]]
  /\ LET marked == Marked(store, 1) IN
     \E n \in 1..Len(store) :
       /\ ReadyRun(marked, n)
       /\ batch' = [batch EXCEPT ![t] = SubSeq(marked, 1, n)]
       /\ store' = SubSeq(marked, n + 1, Len(store))
  /\ Goto(t, "commit")
  /\ UNCHANGED <<active, ready, seq, tx, link, conn, conf, result, force,
                 log, lossy>>

-----------------------------------------------------------------------------
(***************************************************************************)
(* connection::commit_transaction and pool::release_connection             *)
(***************************************************************************)

\* What commit_transaction can make of a socket.  Every exception is caught
\* there and leaves the socket as it is; a disconnect seen by read(),
\* connected() or send() closes it.
CommitOutcomes(l) ==
  {o \in [sent : BOOLEAN, link : {l, "closed"}] : o.sent => l = "up"}

LogCommit(id, sent) == log' = IF sent THEN Append(log, id) ELSE log

Front1(t) == Head(batch[t])

SendCommit(t) ==
  /\ pc[t] = "commit" /\ batch[t] # <<>>
  /\ \E o \in CommitOutcomes(link[Front1(t).conn]) :
       /\ link' = [link EXCEPT ![Front1(t).conn] = o.link]
       /\ LogCommit(Front1(t).id, o.sent)
  /\ IF Front1(t).conn = conn[t]
       THEN UNCHANGED pc /\ batch' = [batch EXCEPT ![t] = Tail(@)]
       ELSE Goto(t, "handback") /\ UNCHANGED batch
  /\ UNCHANGED <<active, ready, store, seq, tx, conn, conf, result, force,
                 lossy>>

\* Mutant: a connection that is not kept is not erased from active_.
ReleaseLeaks(c, l, id) ==
  LET kept == l # "closed" /\ Len(ready) < PoolSockets IN
  /\ active' = IF kept THEN active \ {c} ELSE active
  /\ ready' = IF kept THEN <<c>> \o ready ELSE ready
  /\ link' = [link EXCEPT ![c] = IF kept THEN l ELSE "closed"]
  /\ tx' = [tx EXCEPT ![c] = IF kept THEN id ELSE 0]

\* A connection whose socket is l is kept for reuse, or erased: the object is
\* destroyed and its identity is free again.
ReleaseConnection(c, l, id) ==
  LET kept == l # "closed" /\ Len(ready) < PoolSockets IN
  /\ active' = active \ {c}
  /\ ready' = IF kept THEN <<c>> \o ready ELSE ready
  /\ link' = [link EXCEPT ![c] = IF kept THEN l ELSE "closed"]
  /\ tx' = [tx EXCEPT ![c] = IF kept THEN id ELSE 0]

\* The connection of a deferred transaction is returned by the thread that
\* committed it; transaction_id_ is not cleared.
HandBack(t) ==
  LET c == Front1(t).conn IN
  /\ pc[t] = "handback" /\ Unlocked
  /\ ReleaseConnection(c, link[c], tx[c])
  /\ batch' = [batch EXCEPT ![t] = Tail(@)]
  /\ Goto(t, "commit")
  /\ UNCHANGED <<store, seq, conn, conf, result, force, log, lossy>>

\* connection::release of the thread's own connection.
Release(t) ==
  LET c == conn[t] IN
  /\ \/ pc[t] = "commit" /\ batch[t] = <<>>
     \/ Finishing(t) /\ tx[c] = 0
  /\ Unlocked
  /\ ReleaseConnection(c, link[c], 0)
  /\ Retire(t)
  /\ UNCHANGED <<store, seq, result, batch, force, log, lossy>>

-----------------------------------------------------------------------------
(***************************************************************************)
(* pool::force_commit (capstomp_store_commit) holds mutex_ over the whole  *)
(* list, the exchanges with the broker included.                           *)
(***************************************************************************)
ForceStart ==
  /\ Unlocked
  /\ force' = 1
  /\ UNCHANGED <<active, ready, store, seq, tx, link, pc, conn, conf, result,
                 batch, log, lossy>>

\* Mutant: the transaction is not erased from the store.
ForceCommitKeeps ==
  /\ force \in DOMAIN store /\ store[force].ready
  /\ LET c == store[force].conn IN
     \E o \in CommitOutcomes(link[c]) :
       /\ LogCommit(store[force].id, o.sent)
       /\ ReleaseConnection(c, o.link, tx[c])
  /\ force' = force + 1
  /\ UNCHANGED <<store, seq, pc, conn, conf, result, batch, lossy>>

ForceCommit ==
  /\ force \in DOMAIN store /\ store[force].ready
  /\ LET c == store[force].conn IN
     \E o \in CommitOutcomes(link[c]) :
       /\ LogCommit(store[force].id, o.sent)
       /\ ReleaseConnection(c, o.link, tx[c])
  /\ store' = RemoveAt(store, force)
  /\ UNCHANGED <<seq, pc, conn, conf, result, batch, force, lossy>>

ForceSkip ==
  /\ force \in DOMAIN store /\ ~store[force].ready
  /\ force' = force + 1
  /\ UNCHANGED <<active, ready, store, seq, tx, link, pc, conn, conf, result,
                 batch, log, lossy>>

\* Mutant: mutex_ is not released.
ForceEndHolds == UNCHANGED vars

ForceEnd ==
  /\ force > Len(store)
  /\ force' = 0
  /\ UNCHANGED <<active, ready, store, seq, tx, link, pc, conn, conf, result,
                 batch, log, lossy>>

\* pool::clear destroys the connections that wait for reuse (an operation of
\* the pool's interface that no function of the library calls yet).
Clear ==
  /\ Unlocked /\ ready # <<>>
  /\ ready' = <<>>
  /\ link' = [c \in Conns |-> IF c \in ToSet(ready) THEN "closed" ELSE link[c]]
  /\ tx' = [c \in Conns |-> IF c \in ToSet(ready) THEN 0 ELSE tx[c]]
  /\ UNCHANGED <<active, store, seq, pc, conn, conf, result, batch, force,
                 log, lossy>>

\* The peer or the network ends a session; the socket does not know yet.
Drop(c) ==
  /\ link[c] = "up"
  /\ link' = [link EXCEPT ![c] = "lost"]
  /\ UNCHANGED <<active, ready, store, seq, tx, pc, conn, conf, result,
                 batch, force, log, lossy>>

-----------------------------------------------------------------------------
\* A statement that has its connection, up to the return of that connection
\* or to the point where another thread answers for it.
Proceed(t) ==
  \/ ConnectOk(t) \/ ConnectFail(t)
  \/ CreateTransaction(t) \/ BeginOk(t) \/ BeginFail(t)
  \/ RowDelivered(t) \/ RowLost(t) \/ RowSkipped(t) \/ RowFail(t)
  \/ Defer(t) \/ TakeBatch(t)
  \/ SendCommit(t) \/ HandBack(t) \/ Release(t)

ForceProceed == ForceCommit \/ ForceSkip \/ ForceEnd

Next ==
  \/ \E t \in Threads, s \in Settings :
       GetReady(t, s) \/ GetNew(t, s) \/ GetExhausted(t, s)
  \/ \E t \in Threads : Proceed(t)
  \/ ForceStart \/ ForceProceed \/ Clear
  \/ \E c \in Conns : Drop(c)

Spec == Init /\ [][Next]_vars

(***************************************************************************)
(* Each exchange with the broker ends (Connection!CallReturns says when),  *)
(* the server calls capstomp_deinit for every statement whose init         *)
(* returned 0, and calls of capstomp_store_commit do not follow one        *)
(* another for ever.                                                       *)
(***************************************************************************)
Fairness ==
  /\ \A t \in Threads : WF_vars(Proceed(t))
  /\ WF_vars(ForceProceed)
  /\ <>[][~ForceStart]_vars

FairSpec == Spec /\ Fairness
-----------------------------------------------------------------------------
(***************************************************************************)
(* Properties                                                              *)
(***************************************************************************)

\* Connections that wait for another thread to commit their transaction.
Deferred == {store[i].conn : i \in {j \in DOMAIN store : store[j].ready}}

\* Connections thread t may still touch.
Held(t) == ({conn[t]} \ {None})
             \cup {batch[t][i].conn : i \in DOMAIN batch[t]}

(* A connection object is used without a lock, so it must have one user:   *)
(* no two threads touch the same connection, none touches one whose        *)
(* transaction is deferred or that waits for reuse (pool.cpp:235-260,      *)
(* connection.cpp:426-438).                                                *)
ExclusiveUse ==
  /\ \A t, u \in Threads : t # u => Held(t) \cap Held(u) = {}
  /\ \A t \in Threads : Held(t) \cap (Deferred \cup ToSet(ready)) = {}
  /\ Deferred \cap ToSet(ready) = {}

(* No connection is lost and none is released twice: active_ holds exactly *)
(* the connections some thread uses or will return, and each ready         *)
(* connection is in ready_ once.                                           *)
ActiveIsAccountedFor ==
  /\ active = Deferred \cup UNION {Held(t) : t \in Threads}
  /\ IsInjective(ready)

(* The limits of pool::get and release_connection bound the sockets of the *)
(* pool: the ones kept for reuse, and all of them together although        *)
(* pool::get only counts active_ (pool.cpp:91-97, 136).                    *)
SocketLimits ==
  /\ Len(ready) <= PoolSockets
  /\ Cardinality(active) + Len(ready) <= MaxPoolSockets

(* A deferred transaction always has an older one that is still running    *)
(* and whose thread will commit it: nobody else would, and its connection  *)
(* would stay in active_ for ever (pool.cpp:228-286).                      *)
DeferredBehindRunning ==
  \A i \in DOMAIN store : store[i].ready => \E j \in 1..(i - 1) : ~store[j].ready

(* The iterators between a connection and its transaction are valid when   *)
(* they are followed.  By commit(): a connection whose transaction_id_ is  *)
(* set is in the store exactly once and not ready, and every transaction   *)
(* that is not ready has a thread at work on it.  By force_commit: the     *)
(* connection of a transaction still points back at it, so that            *)
(* commit_transaction finds itself and does not lock mutex_ again          *)
(* (connection.cpp:91-96, 426-438, 537-541, 580).                          *)
TransactionPointerValid ==
  /\ \A t \in Threads :
       pc[t] \in {"begin", "rows", "finish"} /\ tx[conn[t]] # 0 =>
         \E i \in DOMAIN store :
           /\ store[i] = [id |-> tx[conn[t]], conn |-> conn[t], ready |-> FALSE]
           /\ \A j \in DOMAIN store : store[j].id = store[i].id => j = i
  /\ \A i \in DOMAIN store : ~store[i].ready =>
       \E t \in Threads : /\ conn[t] = store[i].conn
                          /\ pc[t] \in {"begin", "rows", "finish"}
                          /\ tx[conn[t]] = store[i].id
  /\ \A i \in DOMAIN store : tx[store[i].conn] = store[i].id

(* A transaction of which one message did not reach the broker is never    *)
(* committed there: closing the socket is what aborts it (udf.cpp:343,     *)
(* 126).                                                                   *)
NoPartialCommit == \A i \in DOMAIN log : log[i] \notin lossy

\* Transactions in the store, or taken from it, whose COMMIT is not sent yet.
Uncommitted ==
  ToSet(store) \cup
    UNION {ToSet(IF pc[t] = "handback" THEN Tail(batch[t]) ELSE batch[t])
           : t \in Threads}

(* A connection on which something failed does not come to life again: it  *)
(* is closed as long as the statement that reported the error has it, and  *)
(* where a message was lost it stays down through the rest of the          *)
(* statement, its deferral and the batch of the thread that takes the      *)
(* transaction (udf.cpp:126-134, 283-289, 341-343, connection.cpp:540-568, *)
(* pool.cpp:226-300).                                                      *)
FailedStaysClosed ==
  /\ \A t \in Threads :
       result[t] = "error" /\ conn[t] # None => link[conn[t]] = "closed"
  /\ \A x \in Uncommitted : x.id \in lossy => link[x.conn] # "up"

(* No transaction is committed twice, by the thread that took it and by    *)
(* force_commit, or by two threads.                                        *)
CommitOnce == IsInjective(log)

(* commit() never sends the COMMIT of a transaction while an older one of  *)
(* the pool is still running, beside a force_commit that takes from the    *)
(* middle of the store neither (pool.cpp:230-260).                         *)
NoOvertakingRunning ==
  [][ \A t \in Threads : SendCommit(t) /\ log' # log =>
        \A i \in DOMAIN store : ~store[i].ready => Last(log') < store[i].id ]_vars

\* Numbers of the transactions of s that are ready, or that are not.
Ids(s, is_ready) == {s[i].id : i \in {j \in DOMAIN s : s[j].ready = is_ready}}

(* The pool implements the order promised by TransactionQueue: a finished  *)
(* transaction waits while an older one is there, and leaves with the      *)
(* oldest (pool.cpp:207-300).                                              *)
Queue == INSTANCE TransactionQueue WITH
  issued  <- seq,
  running <- Ids(store, FALSE),
  waiting <- Ids(store, TRUE)

ImplementsQueue == Queue!Spec

(* Towards its store the pool is what PoolUse says: the last statement     *)
(* running leaves no connection behind, and the number of active           *)
(* connections never passes the limit (pool.hpp:47, store.cpp:119).        *)
Use == INSTANCE PoolUse WITH
  Users   <- Threads,
  Limit   <- MaxPoolSockets,
  running <- {t \in Threads : conn[t] # None /\ pc[t] \notin {"commit", "handback"}},
  closing <- {t \in Threads : pc[t] \in {"commit", "handback"}},
  taken   <- [t \in Threads |->
                Cardinality({i \in DOMAIN batch[t] : batch[t][i].conn # conn[t]})],
  waiting <- Cardinality(Ids(store, TRUE)),
  active  <- Cardinality(active)

ImplementsUse == Use!Spec

(* Every statement gives its thread back.                                  *)
StatementEnds == \A t \in Threads : pc[t] # "idle" ~> pc[t] = "idle"

(* The connection of a deferred transaction is returned to the pool.       *)
DeferredReturned == \A c \in Conns : c \in Deferred ~> c \notin active

(* connection.hpp:84 says of force_commit that it commits "without         *)
(* checking the sequence"; commit() would then send COMMITs in the         *)
(* sequence of the pool: never while an older transaction, taken by        *)
(* another thread, still waits for its own.                                *)
CommitsInSequence ==
  [][ log' # log /\ force = 0 =>
        \A t \in Threads : \A i \in DOMAIN batch[t] :
          batch[t][i].id >= Last(log') ]_vars
=============================================================================

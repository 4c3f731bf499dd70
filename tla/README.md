# A TLA+ model of capstomp

capstomp is a MySQL user-defined function that sends messages to a STOMP broker.
Every server thread that runs a statement with `capstomp(...)` takes a connection
from a shared pool, sends one message per row and gives the connection back.
This directory holds a model of that machinery in TLA+, the TLC configurations
that check it and proofs about it for TLAPS. Paths such as `pool.cpp:207` are
files of the repository's `src/` directory.

## 1. The system

| Component | State | Operations | Hard behaviour |
|---|---|---|---|
| udf (`udf.cpp`) | `initid->ptr`, one connection per statement | `capstomp_init`, `capstomp_content` per row, `capstomp_deinit` | what is done after which failure, with and without `no_error` |
| header arguments (`udf.cpp:145-265`) | pointers into the argument, `custom_content_type` | split `k=v&k=v` | the edges of the scan, a flag carried through three loops |
| pool (`pool.cpp`) | `active_`, `ready_`, `transaction_store_`, `transaction_seq_`, `mutex_` | `get`, `release`, `create_transaction`, `get_uncommited`, `force_commit`, `clear` | threads interleave; a thread may finish the work of another |
| transaction (`transaction.hpp`) | id, ready flag, iterator to its connection | `set(true)` | iterators across splices |
| connection (`connection.cpp`) | socket, STOMP session, `transaction_id_`, `transaction_`, `receipt_received_`, `error_`, `passhash_`, `request_count_` | `connect`, `connected`, `begin`, `send`, `read`, `send_content`, `commit`, `force_commit`, `release`, `close` | late, lost, partial and unexpected answers; reuse after failures |
| store (`store.cpp`) | pools by endpoint, `mutex_` | `get`, `erase`, `commit`, `clear`, `json` | a pool used after the lock is gone; long calls under the lock |
| conf (`conf.cpp`) | five limits and `verbose_`, the journal's mask | the `capstomp_*` functions that set and read them | conversions of 64-bit numbers; limits that change while used |
| settings (`settings.cpp`) | five flags | parse of the query string | several pairs, and two names, for one flag |
| status report, journal, packaging | none a property is about, but for locks taken | | |

How they interact. `capstomp_init` calls `store::get`, which picks the pool of the
uri's endpoint and calls `pool::get`; then `connection::connect` reuses the
session or opens one, and `connection::begin` enters the transaction into the
pool's store. Each row is `connection::send_content`. `capstomp_deinit` calls
`connection::commit`, which asks the pool what is to be committed:

* the transaction is not the first of the store: it is only marked ready. The
  statement ends, and *its connection stays in `active_` until another thread
  commits the transaction and returns the connection* (a deferred commit);
* it is the first: it leaves the store with all the ready ones right behind it,
  and this thread commits them in turn, outside the lock, each on its own
  connection, returning every connection after its COMMIT.

An operator can call `capstomp_store_commit`, which commits every ready
transaction of a pool under the pool's lock, whatever is in front of it;
`capstomp_store_erase`, which destroys a pool it has found idle;
`capstomp_store_clear`, which destroys all of them; and the functions of conf, which
change a limit at once, without a lock, for threads that may already have read it.

What makes it correct: a connection has one user at a time although nobody locks
it; connections are neither lost nor returned twice; the limits hold, also
while they change; nothing deferred is stranded; the iterators between connections
and transactions, and the references to pools, are valid when used; transactions commit
once, in order, and never in part; every call returns; a session belongs to the
passcode of its statement; a receipt that was awaited was received, and none is left for the
next statement; a message has the headers its statement names. `PROJECT.json` lists the hazards line by line with
the properties that guard them, or with the reason why none does (section 7).

## 2. The modules

```
    Store        the table of pools, statements, administration functions
      |  every endpoint implements
    PoolUse      what a pool owes the store: who uses it, how many are active
      |  implemented by
    Pool --------implements--> TransactionQueue  the order of transactions
      |  assumes of each connection
    Session      the outcomes of each exchange with the broker
      |  implemented by
    Connection   one connection, its socket and the broker

    Conf  <-EXTENDS-  Limits      limits that change under a pool
    KvHeaders <-EXTENDS- Message -INSTANCE-> Settings    from strings to a frame
```

`MCPool`, `MCStore`, `MCConnection`, `MCLimits` and `MCMessage` give the
constants their values. `PoolProofs`, `OwnershipProofs`, `CommitProofs`, `StoreProofs`,
`LimitsProofs`, `ConnectionProofs`, `MessageProofs` and `SettingsProofs` hold the proofs.

### Pool

One `capst::pool`, threads that run statements on it, and an operator. A step
ends where another thread can see or disturb the pool: at each acquisition of
`mutex_` and each exchange with the broker. The phases of a thread:

| phase (`pc`) | where the code is | actions |
|---|---|---|
| `idle` | no statement, or init failed before it had a connection | `GetReady`, `GetNew`, `GetExhausted` (`pool::get`) |
| `connect` | `connection::connect` | `ConnectOk`, `ConnectFail` |
| `create` | `pool::create_transaction` | `CreateTransaction` |
| `begin` | BEGIN is sent and read | `BeginOk`, `BeginFail` |
| `rows` | between two calls of `capstomp` | `RowDelivered`, `RowLost`, `RowSkipped`, `RowFail` |
| `rows`, `finish` | `connection::commit`, `pool::get_uncommited` | `Defer`, `TakeBatch`, `Release` |
| `commit`, `handback` | the loop over the batch, `pool::release` | `SendCommit`, `HandBack`, `Release` |

`ForceStart`, `ForceCommit`, `ForceSkip`, `ForceEnd` are `pool::force_commit`; while
`force` is not 0 the mutex is held and every action that locks it waits
(`Unlocked`). `Clear` is `pool::clear`. `Drop` is the network.

Data. A connection object is a member of `Conns`; a destroyed object frees its
identity for reuse, which is why every per-connection value is reset by
`ReleaseConnection`. A socket is `closed` (`socket_.good()` is false), `up`, or
`lost` (the peer is gone, the descriptor open, so `good()` is still true).
Messages have no content; `lossy` remembers the transactions of which one message
did not reach the broker and `log` the COMMITs written to a live session.
`transaction_` and `transaction_id_` are one value, `tx`, the number of the
transaction: `connection::set` assigns both and the code tests only the id. An
iterator is followed by looking that number up in the store.

The loop of `get_uncommited` evaluates `i->ready()` before `i != e`
(`pool.cpp:269`), so it reads the list's end node. Whatever that read gives, the
second test ends the loop there, and the model has the same outcome for both.

### TransactionQueue and PoolUse

Two views of a pool, each implemented by it under a refinement mapping. `TransactionQueue`
is the order: how many transactions were issued, and the sets of those that run and
that wait. One that finishes behind an older one waits; the oldest leaves and takes
along the waiting ones that are older than the oldest still running; an operator
withdraws a waiting one. `PoolUse` is the account: which users run or close a
statement, how many connections were left behind, how many are active; the last
statement running leaves nothing behind. Neither has a connection, a broker or a lock.

### Connection and Session

`Connection` is one `capst::connection`, the statement that uses it and the broker. A
step is one `poll()` or `recv()` or a decision between two of them, so the broker can
answer, refuse (ERROR, then it closes) or vanish anywhere. `socket.out` and `socket.in`
are the two directions of the stream; `socket.peer` says how the stream ends
(`eof`: `recv` gives 0; `reset`: it fails). One `recv` may take any number of
replies, whose handlers run together (`Parsed`). What no handler sees (a piece of a frame, a
heart-beat, a MESSAGE) is a `part`: the broker sends it in `Trickle`, and a `recv` that gives
nothing else leaves `receipt_received_` as it is, so `read()` polls again with the whole
timeout.

`Asks` is the `receipt` argument of `send` for each operation, `IsReceipt` is
`is_receipt()`, `Connected` is `connected()`, and `Throw` collects the catch blocks: those of
`capstomp_init` and `capstomp_content` close the connection, that of
`commit_transaction` does not. `Finish` leaves to a choice what the pool decides
for this connection: it commits alone, in a batch (all with receipts), or another
thread commits it, and then `request_count_` is not reset on return. Field
`fresh` of a frame marks the answer to the last frame written, and `seen` holds
history for the properties only.

`std::hash` of a passcode is taken as injective. A frame is written whole:
`data.write` may write a part, and a timeout in the middle is then
`SendTimeout` with nothing written. A frame whose pieces come in several `recv` is some parts and
then the whole reply; a piece the parser still holds when the socket is closed is left
out, since the parser is the library's.

`Session` joins the two levels. Its actions are those of `Pool` for one connection
(`ConnectOk`, `InitFails`, `BeginOk`, `RowOk`, `RowFail`, the outcomes of a COMMIT,
`Release`), and `Connection` implements it: no reply, loss or timeout leads
to an outcome that `Pool` leaves out.

### Store

The table `store_`, statements that reach a pool through it, and the administration
functions. `store::get` is two locked steps: `select_pool` under the store's mutex
(`UseExisting`, `CreatePool`, `TooManyPools`, with the limit read before the wait by
`Begin`), then `pool::get` through the returned reference, with the store's mutex
already released (`Lease`, `Exhausted`). `EraseCount` and `EraseDestroy` are the two
halves of `erase`; `CommitStart`, `CommitOne`, `CommitEnd` are `commit`, which keeps
both mutexes over all exchanges; `StatusStart`, `StatusPool`, `StatusEnd` are `json`. A pool is
what `PoolUse` says of it. `Destroy` records in `gone` every thread that still refers
to the pool.

The constant `Careful` is how operators behave. If it is TRUE, `erase` is called only
while no statement stands between `select_pool` and `pool::get` for that endpoint, and
`clear` only while no statement runs. Statements with a connection need no care from
`erase`: it refuses them. With FALSE both are called at any time.

### Conf and Limits

`Conf` has the six options and the functions `capstomp_timeout`,
`capstomp_max_pool_count`, `capstomp_max_pool_sockets`, `capstomp_pool_sockets`,
`capstomp_request_limit` and `capstomp_verbose`, one load or store per step: the
argument is cast to `size_t` (`ToSize`), clamped and stored, the value is read back into
`initid->ptr`, and the function casts it out again (`ToSigned`). Numbers have `W` bits.

`Limits` puts one pool under it. Users read `max_pool_sockets` before they wait for
the mutex and `pool_sockets` with it in hand, and the options may change in between.
Connections are only counted.

### KvHeaders, Settings and Message

`KvHeaders` is `capstomp_fill_headers` with its two loops, one turn per step; the
pointers `ptr`, `curr` and `end` are positions. `Given` says without a loop which
headers arguments name. `Settings` is the parse of the query, pair by pair. `Message`
composes them with `connection::send_content`: from the strings of a statement to the
headers of the frame and to whether it asks for a receipt.


## 3. The runs

| run | question | instance | states |
|---|---|---|---|
| `pool` | ownership, accounting, iterators, limits, no partial commit | 3 threads, 3 identities, 1 kept, 2 active at most, 3 transactions and any number of plain statements, with and without `no_error` | 0.52 million |
| `pool_order` | deep batches, order, commit once, both refinements | 3 threads, 3 connections, 2 kept, 3 active, 3 transactions | 0.30 million |
| `pool_live` | statements end, deferred connections come back | 2 threads, 2 connections, 2 transactions, no symmetry | 44 thousand |
| `connection` | session, whole commits, receipts, nothing left for the next statement, return of calls, refinement of Session | 2 passcodes, all 8 settings, limit 2, 2 frames in flight each way | 0.58 million |
| `store` | use of pools that are gone, bound of the table, each endpoint one pool, return of calls | 2 threads, 4 uris of 3 endpoints, limits 0 and 1, 3 sockets, all functions, operators with care | 18 thousand |
| `limits` | conversions and answers, sockets under changing limits | 1 caller of the functions, 3 users, numbers of 4 bits | 0.32 million |
| `message` | scans, headers, options | all arguments of up to 6 characters, all queries of up to 3 pairs | 0.81 million |
| `pool_sequence`, `connection_receipt`, `connection_own`, `connection_limit`, `store_erase` | see section 6 | | violated |

Why the bounds are enough for what they ask.

* Pool. Three transactions are the fewest where a batch can take a ready one and stop at
  a running one, and where a deferred transaction has both an older and a younger
  neighbour. A third thread is needed for a connection to pass from its statement to the
  committing thread and on to a new statement. Plain statements may take a connection
  that comes back from a deferred commit with its transaction id still set.
  `PoolSockets` below `MaxPoolSockets` lets a connection be erased because enough are kept;
  in `pool` there is one identity more than the limit, so the limit and not the size of
  `Conns` stops `pool::get`. `MaxTransactions` bounds `transaction_seq_` (`Budget`
  stops new transactional statements, never a running one, so the bound makes nobody wait).
* Connection. Two frames in flight let a late answer meet the answer to the next frame, a
  limit of two lets `request_count_` pass, reach and leave the limit, and two passcodes
  let one session follow another. `MaxInFlight` is the only bound.
* Store. Three endpoints and limits 0 and 1 let the table reach, exceed and be
  refused by the limit, with a limit read before it is lowered. Two threads suffice because
  a deferred statement frees its thread: three connections of one pool can be in
  use, by a running statement, by a closing one or by none. One endpoint is
  named by two uris, with its default port written or not and another passcode.
* Limits. Four bits keep every case of the real clamps apart: an argument below, between
  and above the bounds, and numbers that are negative as signed. The arguments 0 and -1
  set the least and the largest value of each limit, so a limit goes up and down under
  three users. One caller sets and reads; the proofs have any number.
* Message. Six characters hold two pairs with a key, `=` and `&` missing, doubled or at
  any edge; two arguments let a content type stand in the first or the second. Three
  pairs let an option be set, changed and set under its second name.

Every state space is finite without further constraints. `Threads` and `Conns` are
symmetric in the safety runs of Pool, `Users` in that of Limits; runs with liveness
properties use no symmetry. Every run checks for deadlock but `message`, whose function
returns.

### Fairness

`Pool!FairSpec`: weak fairness of each thread's next step and of the steps of a
`force_commit` under way, and calls of `capstomp_store_commit` eventually cease.
The code justifies the first two: each exchange with the broker ends, which is `CallReturns` of
Connection, under the condition stated there; `mutex_` is released by every path,
and the server calls `capstomp_deinit` for every statement whose init returned 0. The
rows of a statement are finite in number: `RowDelivered` changes nothing in the model and
so cannot stand in for progress. The third is an
assumption about the operator: `std::mutex` is not fair, and somebody who calls
`capstomp_store_commit` for ever may keep it for ever.

`Connection!FairSpec`: weak fairness of a call of the library as a whole
(`InCall`): a call that can move moves, since each `poll` ends with its timeout (`PollEnds`
proves `conf::timeout()` positive). Nothing is assumed of the broker, which
may stay silent, and nothing of the server between two calls. The timeout is that of one `poll`,
not of an answer: a broker that for ever sends what no handler sees holds a call for ever, and
`CallReturns` excepts it (`[]<><<Trickle>>_vars`).

`Store!FairSpec`: weak fairness of what each thread does once its statement or
call has begun, and administration calls eventually cease, for the same reasons as in
Pool. New statements may begin for ever.

`Message!FairMessageSpec`: weak fairness of the one thread that runs the loops.

## 4. The properties

The comment above each property says what it means and which lines it is about.

* Pool: `ExclusiveUse`, `ActiveIsAccountedFor`, `SocketLimits`,
  `DeferredBehindRunning`, `TransactionPointerValid`, `NoPartialCommit`,
  `FailedStaysClosed`, `CommitOnce` (invariants), `NoOvertakingRunning` (what a step may never do),
  `ImplementsQueue`, `ImplementsUse` (refinement), `StatementEnds`, `DeferredReturned` (liveness).
* Connection: `OwnSession`, `CommitIsWhole`, `ConfirmedWhileUp`, `IdleOwesNothing`, `CallReturns`,
  `ImplementsSession`.
* Store: `PoolOutlivesUse`, `TableBounded`, `EndpointIsOnePool`, `CallReturns`.
* Conf and Limits: `PollEnds`, `AnswersAreValid`, `SocketsBounded`,
  `KeptBounded`, `GrowsBelowLimit`.
* KvHeaders, Settings, Message: `InBounds`, `FrameIsGiven`, `ContentTypeOnce`,
  `LastPairDecides`, `MessageIsAsked`, `EveryRowIsWritten`.

`CommitIsWhole` and `NoPartialCommit` are two halves: the first, inside one
connection, that a COMMIT is written only when BEGIN and all rows were written to
the same session; the second, among threads, that whoever sends the COMMIT finds
the socket of a broken transaction closed. `ImplementsUse` and `EndpointIsOnePool`
meet in `PoolUse`: what the store concludes from `active_size()` is what a pool gives.

For every property of a passing run a mutated form of a definition stands in front
of it ("Mutant: ..."): a bug of the kind the property is there for, which TLC finds
with that definition replaced.

## 5. What is proved

Each theorem holds for every value of the constants its module's assumption allows: any
number of threads, connections, endpoints, numbers and limits.

| module | theorem | statement | rests on |
|---|---|---|---|
| `PoolProofs` | `TypeCorrect` | `[]TypeOK` | `Typed` |
| | `NoneStranded` | `[]DeferredBehindRunning` | `HeadRuns` |
| | `CommitsBehindNoRunning` | `NoOvertakingRunning` | `StoreOrdered`, `BatchBelowStore` |
| | `PoolImplementsQueue` | `ImplementsQueue` | all of them |
| `OwnershipProofs` | `OneUserEach` | `[]ExclusiveUse` | `Ownership` |
| | `NothingLeaks` | `[]ActiveIsAccountedFor` | `Ownership` |
| | `PointersAreValid` | `[]TransactionPointerValid` | `Ownership` |
| | `LimitsHold` | `[]SocketLimits` | `Ownership` |
| | `PoolImplementsUse` | `ImplementsUse` | `Ownership`, `HeadRuns`, `LimitsHold` |
| `CommitProofs` | `EachCommittedOnce` | `[]CommitOnce` | `Commits` |
| | `NoneCommittedInPart` | `[]NoPartialCommit` | `Commits` |
| | `FailedNeverReopens` | `[]FailedStaysClosed` | `Hopeful`, `Ownership`, `Commits` |
| `ConnectionProofs` | `ConnectionTypes` | `[]TypeOK` | |
| | `NoForeignSession` | `[]OwnSession` | `Authentic`, `StreamInv` |
| | `OnlyWholeIsCommitted` | `CommitIsWhole` | `WholeInv`, `StreamInv` |
| | `SuccessIsConfirmed` | `ConfirmedWhileUp` | `ConfirmInv`, `StreamInv` |
| | `NoReceiptIsLeft` | `[]IdleOwesNothing` | `ConfirmInv`, `StreamInv` |
| | `ConnectionImplementsSession` | `ImplementsSession` | `Fresh`, `Rows`, `StreamInv` |
| `LimitsProofs` | `ConfTypes`, `EveryPollEnds`, `EveryAnswerIsValid` | `[]TypeOK`, `[]PollEnds`, `AnswersAreValid` of Conf | `ConfInv` |
| | `LimitsRunConf` | `LimitsSpec => Spec` | |
| | `PoolTypes`, `SocketsAreBounded`, `KeptAreBounded` | `[]PoolTypeOK`, `[]SocketsBounded`, `[]KeptBounded` | `LimitsInv` |
| | `PoolGrowsBelowLimit` | `GrowsBelowLimit` | `LimitsInv` |
| `StoreProofs` | `StoreTypes`, `PoolsOutliveTheirUse` | `Careful => []TypeOK`, `Careful => []PoolOutlivesUse` | `StoreInv` |
| | `TableIsBounded` | `[]TableBounded` | `TableInv` |
| | `EndpointsAreOnePool` | `Careful => EndpointIsOnePool` | `StoreInv` |
| `MessageProofs` | `LoopStaysInBounds` | `[]InBounds` | `SplitInv` |
| | `FrameIsAlwaysGiven`, `ContentTypeIsOnce` | `[]FrameIsGiven`, `[]ContentTypeOnce` | `FillInv` |
| | `OptionsOfTheUri` | `[]LastPairDecides` | `LastPairAlwaysDecides` |
| | `MessageIsAlwaysAsked` | `[]MessageIsAsked` | `FillInv`, `SentInv`, `OptionsOfTheUri` |
| `SettingsProofs` | `LastPairAlwaysDecides` | `[]LastPairDecides` | `SettingsInv` |

Each inductive invariant is shown to hold initially and to be preserved with one step
per action; it was first checked with TLC. What is in them and why:

**Pool.** `Typed` is `TypeOK` with `AtWork`: a thread that is not idle has a connection.
`TypeOK` alone is not inductive, since `link[conn[t]]` says nothing when `conn[t]` may be
`None`. `HeadRuns`: the first transaction of the store is not ready. It is stronger than
`DeferredBehindRunning`, which says nothing about a store after its head has left; it is preserved because
`get_uncommited` takes a maximal ready prefix, `Defer` marks only behind the head
and `force_commit` removes only ready ones. `StoreOrdered`: the store is sorted by number, and
nothing in it exceeds `transaction_seq_`. `BatchBelowStore`: what a thread has taken is older
than all that is in the store, because a batch is a prefix of a sorted store and new
transactions enter at the end.

`PoolImplementsQueue` maps `CreateTransaction` to `Begin`, `Defer` to `Wait`,
`TakeBatch` to `Leave`, `ForceCommit` to `Withdraw` and every other step to a stutter.

**Ownership.** `ExclusiveUse` is not inductive: when `commit()` marks a transaction, only
the iterator says that the connection that becomes deferred is the thread's own. The
invariant `Ownership` therefore has four parts that need each other:

* `Phased` says what a phase implies: an idle thread has no connection, only a thread in
  the loop over its batch has one, the connection handed back is not the thread's own, and
  a connection that was just leased has no transaction;
* `BatchesDistinct`: a batch is sorted, and no two of its transactions share a connection;
* `Pointers`: the iterators. A running thread's transaction is in the store, not ready, with
  its connection; a transaction that is not ready has a thread at work; a transaction in the
  store is the one its connection names. `OwnConnection` follows: the transaction of a
  connection in use is the user's;
* `Partition`: the connections threads hold, the deferred ones and the ready ones are
  apart, and the first two together are `active_`. Five lemmas (`LendKeeps`, `ReturnKeeps`,
  `LeaveKeeps`, `TakeKeeps`, `WithdrawKeeps`) say how a connection moves between the parts;
  the lemma of each action says which move it is.

`SocketLimits` rests on it: a connection that is returned leaves `active_` and enters
`ready_`, so the sum of the two does not grow, and a new one enters only below the limit.

`PoolImplementsUse` maps a connection's lease to `Begin`, `Defer` to `LeaveBehind`,
`TakeBatch` to `Take`, `HandBack` to itself, `Release` to `End` or, for a statement that has
no transaction in the store, to `EndPlain`, `ForceCommit` to `Withdraw` and every other step to a
stutter. What a thread has taken is counted in `PoolUse` and a set of connections in the pool,
so the proof rests on `BatchesDistinct` and `Partition`: each is handed back once. That the last
statement running leaves nothing behind is `HeadRuns`. Together with `EndpointsAreOnePool`
it closes the chain: the store's endpoints behave as `PoolUse`, and so does a pool.

**Commits.** `CommitOnce` says that a transaction that was written is not written again, but not
who could write it. `Commits` adds that a transaction is owed a COMMIT on at most one
connection (`OwedOnce`: as long as it is in the store, or in a batch and not yet sent),
that what is owed is not in the log (`OwedUnsent`), that the log names no lossy
transaction (`LogSound`) and that the socket of a lossy transaction is not up (`LossyDown`).
`LossyDown` is preserved because only `connect()` opens a socket (`OnlyConnectOpens`) and on
a connection that was just leased nothing is owed (`LeasedOwesNothing`). For
`FailedStaysClosed`, `Hopeful` says that a thread still to connect, to create its
transaction or to begin it has not failed; what it says of transactions in the store and in
batches is `LossyDown`.

**Connection.** All of its invariants rest on `StreamInv`: a socket that is not open holds
nothing, only an operation that sends has written, and a session the peer has ended
takes nothing more. With it, a lemma per action says what the action leaves alone
(`CheckLeaves`, `WriteLeaves`, `FailureLeaves`, ...), and each invariant is preserved by
citing them; the six ways an exchange can fail are one case, `Failure`.

* `Authentic` adds to `OwnSession` what holds while `connect()` logs on: the connection
  belongs to no passcode, and as soon as the frame is out the broker has been told the
  statement's. Without it nothing says that the `passhash_` set after the
  CONNECTED is the one that was sent.
* `WholeInv`: a statement that lost a message has no open socket or is at its end. The
  `no_error` path of `capstomp_init` is why this needs a proof: the statement goes on to
  rows and to its COMMIT, and only the closed socket keeps it from being written.
* `ConfirmInv`, as long as no receipt was given up on the session: of the frames and replies in
  flight, at most one asks or answers, only while `read()` waits for it, and only parts are in
  front of the answer (`AskedOnce`, `AnsweredOnce`); a wait that ends on an open
  socket without its receipt ends with an error (`EndsWithReceipt`). They relate every frame
  and reply in flight to `seen`, so a lemma says for each operation on the two
  streams (append, parse a prefix, answer the head) what it does to them. `IdleOwesNothing`
  follows, since a connection in the pool waits for nothing.
* `Fresh` and `Rows` say what the refinement mapping needs of states `Session` does not
  see: only a connection that was open before can pass a logon whose socket the broker has
  closed (`stomplay_` keeps its session, `close()` does not reset it); the COMMIT is written
  once; a row in a transaction waits for nothing, so its socket is not closed below it.

`ImplementsSession` maps `Check`, `Open` and the logon to `Reconnect`, `Start` to `ConnectOk`,
a failure to `InitFails`, `RowFail` or `CommitEnd` by the phase it is caught in, the write of
the COMMIT to `SendCommit`, the end of each operation to `BeginOk`, `RowOk` or `CommitEnd`,
`Refuse` and `Disconnect` to `Drop` and what remains to a stutter. It replaces the assumption
`Pool` makes about a connection by a theorem about `connection.cpp`.

**Conf and Limits.** `ConfInv`: every option, and the number a caller has put into `initid->ptr`
and not yet returned, is within the bounds of its setter. `LimitsInv` adds to `ConfInv` that
`active_` counts the users that hold a connection (`ActiveIsHeld`) and that a limit a thread has
read is at most the largest there was (`LimitsSeen`): without it a thread that read an old limit
could take a socket nobody accounts for.

**Store.** `StoreInv` is `TypeOK`, `Control` (who holds a mutex is where the code holds it,
whoever refers to a pool names one that is in the table, and between the count and the
destruction of `erase` nobody comes to the pool) and `Account` (`active_size()` is the sum of the
statements that use the pool, the connections left behind and those taken and not handed
back). The latter is why a count of zero means that nobody refers to the pool. It needs
`Careful`, the assumption on operators: without it `erase` and `clear` destroy pools that are
referred to, which run `store_erase` shows. `TableInv` needs no such assumption.

**KvHeaders, Message and Settings.** `SplitInv`: between two turns of the loop nothing was
found yet, or `ptr` is one past the end of the pair found last and that end is an `&`. So `ptr` is
where a pair may start (`TurnBegins`), a turn finds the pair that starts there if there is one
(`TurnFinds`, `FoundIsPair`), and no pair is passed over. `FillInv` says that the frame is
`Filled` with the pairs read so far: as many headers as pairs, each at the place that
the number of pairs before it gives it. `Given` defines what the arguments mean by the same
places, without an order of reading: a frame filled with all pairs is `Given`
(`FilledIsGiven`), whose length and order need no induction over the argument, since the loop
of the code builds the set one pair at a time.

`SettingsInv`: each flag is what the last of the pairs read so far says; its assumption
`QueriesTyped` says that keys are strings and that `Number`, which stands for `std::atoi`, gives
integers. `Message` runs that loop under other names; the theorem of `SettingsProofs` is
instantiated for it (`UriProofs`), and `SentInv` says that what was written was made of a frame and
of options that no longer change.

Only model-checked is liveness under fairness, which TLAPS cannot reason about (`ENABLED`):
`CallReturns` of Connection and of Store, `StatementEnds` and `DeferredReturned` of Pool,
and `EveryRowIsWritten`.

## 6. Where the code and its comments disagree

Each is shown by a run that violates the property named.

* `CommitsInSequence` (`pool_sequence`): the batch leaves the store under the lock
  but its COMMITs are sent outside it (`connection.cpp:466`); a younger
  transaction, first in the store by then, can be committed before them.
  `connection.hpp:84` names `force_commit` as the operation that ignores the sequence.
* `ReceiptConfirms` (`connection_receipt`): `settings.hpp:10` "wait rabbitmq
  receipts", but a disconnect during the wait is reported as success, because
  `close()` empties `error_` before it is tested (`connection.cpp:490-501`).
* `ReceiptIsOwn` (`connection_own`): a COMMIT whose receipt timed out keeps its
  socket (`connection.cpp:403-424`); the late RECEIPT then confirms a later row.
  `ConfirmedWhileUp` shows that on a socket still open no other way leads there.
* `RequestLimitAsks` (`connection_limit`): `conf.hpp:31` "request conunt, before we
  ask delivery confirm", but the count restarts even if the statement at the limit had
  nothing confirmed (`connection.cpp:604`).
* `EraseRefusesRunning` (`store_erase`): `erase` fails with "has N running"
  (`store.cpp:119-122`), but a statement that has its pool from `select_pool` and not
  yet a connection of it is not counted, and the pool it refers to is destroyed.

Remarks that no run of its own shows:

* `settings.hpp:19` "always return ok": an exhausted pool fails `capstomp_init` under
  `no_error` too, and a failed row sets `*error` (`GetExhausted`, `RowFail`;
  `udf.cpp:341`).
* `store.cpp:54` compares with `>` before it adds, so the table holds one pool more than
  `max_pool_count`: `TableBounded` is the bound that does hold.
* `conf.hpp:26` speaks of `pool_sockets` as the sockets simultaneously connected to the broker;
  it bounds the connections kept for reuse (`pool.cpp:136`), and `max_pool_sockets` bounds all:
  `KeptBounded`, `SocketsBounded`.
* `store.cpp:13` says that a changed password leads to a new pool; `endpoint()` leaves the
  password out. One pool serves all passcodes of an endpoint, and it is `OwnSession` that keeps
  their sessions apart.
* `README.md:102` says `capstomp_json` adds a content type; it does so only if no argument
  names one (`udf.cpp:300`), which is `ContentTypeOnce`.

## 7. Not modelled

* A frame torn by a timeout in the middle of `data.write` (`connection.cpp:723`): Connection writes
  a frame in one step, and a torn one needs the bytes of the stream. No property is about it.
* `store::clear` under running statements (`store.cpp:151`): the code has no guard that could be
  checked, and `Careful` assumes that operators do not do it.
* The level of the journal against `verbose_` (`conf.cpp:95`): two stores that nothing orders, so
  those of two callers cross, in `Conf` as in the code. It decides only what is logged, and no
  property is about it.
* The text of the status report and of the journal, failed memory allocation, build and
  packaging: they hold no state a property is about.
* The libraries (btpro, stompconn, stomptalk, libevent) are modelled from how the code
  uses them, among them the parse of a uri and the split of its query; the broker's
  actions and `Drop` are external.
* A run of Pool and Connection together: `Session` is the interface through which each is
  checked instead.

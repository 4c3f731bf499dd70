----------------------------- MODULE Connection -----------------------------
(***************************************************************************)
(* One capst::connection (connection.cpp), the statement that uses it      *)
(* through capstomp_init, capstomp and capstomp_deinit (udf.cpp), its      *)
(* socket and the broker.                                                  *)
(*                                                                         *)
(* A step of the client is one poll() or recv() of the code, or a decision *)
(* between two of them; the broker and the network move in between.        *)
(* Addresses, headers and payloads are left out; the pool is the source of *)
(* the choices it makes for this connection.                               *)
(***************************************************************************)
EXTENDS Naturals, Sequences

CONSTANTS
  Passwords,     \* passcodes of the uris (std::hash of a passcode is the passcode)
  NoPassword,    \* passhash_ of a closed connection
  Settings,      \* settings a statement's uri may carry
  RequestLimit,  \* conf::request_limit()
  MaxInFlight    \* bound of the model: frames each direction of a socket holds

AllSettings == [transaction : BOOLEAN, receipt : BOOLEAN, no_error : BOOLEAN]

ASSUME ConnectionAssumption ==
  /\ Settings \subseteq AllSettings
  /\ NoPassword \notin Passwords
  /\ RequestLimit \in Nat \ {0}
  /\ MaxInFlight \in Nat \ {0}

VARIABLES
  pc,       \* where the statement stands
  written,  \* send() has written the frame of pc and read() has begun
  stmt,     \* conf_ and the passcode of the statement's uri
  turn,     \* how the transaction is committed: by whom, with a receipt or not
  result,   \* what the statement reported: *error and capstomp_init's value
  conn,     \* the fields of the connection
  socket,   \* socket_ and what the two directions of the stream hold
  seen      \* history of the session and of the statement, for the properties

vars == <<pc, written, stmt, turn, result, conn, socket, seen>>

Frame == [kind : {"logon", "begin", "content", "commit"},
          receipt : BOOLEAN, fresh : BOOLEAN]
\* What one recv() may return: a reply with a handler, or a "part", bytes that
\* complete no such reply.
Reply == [kind : {"connected", "receipt", "error", "part"}, fresh : BOOLEAN]

InitPhases == {"check", "open", "logon", "start", "begin"}
Operations == {"logon", "begin", "content", "commit"}
Phases == InitPhases \cup Operations
            \cup {"pooled", "rows", "finish", "drain", "release"}

NewConnection ==
  [tx |-> FALSE, received |-> TRUE, error |-> FALSE, passhash |-> NoPassword,
   session |-> FALSE, count |-> 0]

NoSocket == [good |-> FALSE, peer |-> "alive", out |-> <<>>, in |-> <<>>]

UpTo(n, S) == UNION {[1..k -> S] : k \in 0..n}

TypeOK ==
  /\ pc \in Phases /\ written \in BOOLEAN /\ result \in {"ok", "error"}
  /\ stmt \in [conf : AllSettings, pw : Passwords]
  /\ turn \in [own : BOOLEAN, receipt : BOOLEAN]
  /\ conn \in [tx : BOOLEAN, received : BOOLEAN, error : BOOLEAN,
               passhash : Passwords \cup {NoPassword}, session : BOOLEAN,
               count : 0..RequestLimit]
  /\ socket \in [good : BOOLEAN, peer : {"alive", "eof", "reset"},
                 out : UpTo(MaxInFlight, Frame), in : UpTo(MaxInFlight, Reply)]
  /\ seen \in [auth : Passwords \cup {NoPassword}, late : BOOLEAN,
               unconfirmed : 0..(RequestLimit + 1), sent : BOOLEAN,
               whole : BOOLEAN, awaited : {"none", "sent", "done"},
               reused : BOOLEAN, committed : BOOLEAN]

Init ==
  /\ pc = "pooled" /\ written = FALSE /\ result = "ok"
  /\ stmt \in [conf : Settings, pw : Passwords]
  /\ turn = [own |-> TRUE, receipt |-> FALSE]
  /\ conn = NewConnection /\ socket = NoSocket
  /\ seen = [auth |-> NoPassword, late |-> FALSE, unconfirmed |-> 0,
             sent |-> FALSE, whole |-> TRUE, awaited |-> "none",
             reused |-> FALSE, committed |-> FALSE]

-----------------------------------------------------------------------------
(***************************************************************************)
(* Helpers                                                                 *)
(***************************************************************************)

\* connection::close; stomplay_ is not reset and keeps its session.
Closed(k) == [k EXCEPT !.passhash = NoPassword, !.count = 0, !.error = FALSE]

\* poll() reports POLLIN: there are bytes, or recv() would return 0 or fail.
Input == socket.in # <<>> \/ socket.peer # "alive"
AtEnd(how) == socket.in = <<>> /\ socket.peer = how

\* poll() reports POLLOUT.  The mutant writes without asking.
RoomAlways == TRUE
Room == Len(socket.out) < MaxInFlight

\* read_stomp with the first n replies in the buffer of recv(): the handlers
\* of on_logon, on_error and add_handler run, for a part none does.
Kinds(n) == {socket.in[i].kind : i \in 1..n}
Parsed(n) == [conn EXCEPT !.received = @ \/ Kinds(n) \ {"part"} # {},
                          !.error   = @ \/ "error" \in Kinds(n),
                          !.session = @ \/ "connected" \in Kinds(n)]
Unread(n) == [socket EXCEPT !.in = SubSeq(@, n + 1, Len(@))]

\* connection::is_receipt
IsReceipt == stmt.conf.receipt \/ conn.count >= RequestLimit

\* The receipt argument of send for the frame of this phase.
Asks ==
  CASE pc = "logon"   -> TRUE
    [] pc = "begin"   -> IsReceipt
    [] pc = "content" -> IsReceipt /\ ~conn.tx
    [] pc = "commit"  -> turn.receipt

\* Mutant: capstomp_content does not close the connection.
ThrowOpen(k, s) ==
  /\ written' = FALSE
  /\ UNCHANGED <<stmt, turn>>
  /\ IF pc \in {"drain", "commit", "content"}
       THEN /\ conn' = k /\ socket' = s
            /\ pc' = IF pc = "content" THEN "finish" ELSE "release"
            /\ UNCHANGED result
       ELSE /\ conn' = Closed(k) /\ socket' = NoSocket
            /\ pc' = IF stmt.conf.no_error THEN "rows" ELSE "finish"
            /\ UNCHANGED result

\* An exception that leaves the connection as k and the socket as s: the
\* catch blocks of capstomp_init, of capstomp_content and of
\* commit_transaction.  Only the last one does not close().
Throw(k, s) ==
  /\ written' = FALSE
  /\ UNCHANGED <<stmt, turn>>
  /\ IF pc \in {"drain", "commit"}
       THEN /\ conn' = k /\ socket' = s /\ pc' = "release"
            /\ UNCHANGED result
       ELSE /\ conn' = Closed(k) /\ socket' = NoSocket
            /\ IF pc \in InitPhases /\ stmt.conf.no_error
                 THEN pc' = "rows" /\ UNCHANGED result
                 ELSE pc' = "finish" /\ result' = "error"

Incomplete == seen' = [seen EXCEPT !.whole = FALSE]

-----------------------------------------------------------------------------
(***************************************************************************)
(* capstomp_init                                                           *)
(***************************************************************************)

\* pool::get and connection::init
Take(s, pw) ==
  /\ pc = "pooled"
  /\ pc' = "check" /\ stmt' = [conf |-> s, pw |-> pw] /\ result' = "ok"
  /\ conn' = [conn EXCEPT !.tx = FALSE, !.error = FALSE]
  /\ seen' = [seen EXCEPT !.whole = TRUE, !.sent = FALSE, !.awaited = "none",
                          !.reused = socket.good, !.committed = FALSE]
  /\ UNCHANGED <<written, turn, socket>>

\* connection::connected reads all there is: in connect(), and before a
\* COMMIT without a receipt.
Connected(alive, dead) ==
  \/ \E n \in 1..Len(socket.in) :
       /\ conn' = Parsed(n) /\ socket' = Unread(n)
       /\ UNCHANGED <<pc, written, stmt, turn, result, seen>>
  \/ /\ AtEnd("eof")
     /\ conn' = Closed(conn) /\ socket' = NoSocket /\ pc' = dead
     /\ UNCHANGED <<written, stmt, turn, result, seen>>
  \/ /\ AtEnd("reset")
     /\ Throw(conn, socket) /\ Incomplete
  \/ /\ ~Input
     /\ pc' = IF socket.good THEN alive ELSE dead
     /\ UNCHANGED <<written, stmt, turn, result, conn, socket, seen>>

\* Mutant: passhash_ is not compared.
CheckAny == pc = "check" /\ Connected("start", "open")

\* The first half of connection::connect.
Check ==
  /\ pc = "check"
  /\ Connected(IF conn.passhash = stmt.pw THEN "start" ELSE "open", "open")

\* close() of the old socket and create_connection
Open ==
  /\ pc = "open"
  /\ pc' = "logon" /\ socket' = [NoSocket EXCEPT !.good = TRUE]
  /\ seen' = [seen EXCEPT !.auth = NoPassword, !.late = FALSE,
                          !.unconfirmed = 0]
  /\ conn' = Closed(conn)
  /\ UNCHANGED <<written, stmt, turn, result>>

OpenFail ==
  /\ pc = "open"
  /\ Throw(conn, socket) /\ Incomplete

\* connection::begin; request_count_ is only compared with the limit.
Start ==
  /\ pc = "start"
  /\ conn' = [conn EXCEPT !.count = IF @ < RequestLimit THEN @ + 1 ELSE @,
                          !.tx = stmt.conf.transaction]
  /\ pc' = IF stmt.conf.transaction THEN "begin" ELSE "rows"
  /\ UNCHANGED <<written, stmt, turn, result, socket, seen>>

-----------------------------------------------------------------------------
(***************************************************************************)
(* connection::send                                                        *)
(***************************************************************************)

Sending == pc \in Operations /\ ~written

\* Mutant: of the two send only that of the logon begins to wait.
WriteOn ==
  /\ Sending /\ socket.good /\ ~Input /\ Room
  /\ written' = TRUE
  /\ socket' = [socket EXCEPT !.out =
       Append(@, [kind |-> pc, receipt |-> Asks, fresh |-> TRUE])]
  /\ conn' = [conn EXCEPT !.received = pc # "logon"]
  /\ seen' = [seen EXCEPT !.auth = IF pc = "logon" THEN stmt.pw ELSE @]
  /\ UNCHANGED <<pc, stmt, turn, result>>

\* A frame that asks for no receipt leaves receipt_received_ set: read()
\* returns at once.  Replies to earlier frames are not fresh any more.
Write ==
  /\ Sending /\ socket.good /\ ~Input /\ Room
  /\ written' = TRUE
  /\ conn' = [conn EXCEPT !.received = ~Asks]
  /\ socket' = [socket EXCEPT !.out =
       Append([i \in DOMAIN @ |-> [@[i] EXCEPT !.fresh = FALSE]],
              [kind |-> pc, receipt |-> Asks, fresh |-> TRUE])]
  /\ LET first == pc = "content" /\ ~seen.sent
         more  == IF seen.unconfirmed > RequestLimit THEN seen.unconfirmed
                                                     ELSE seen.unconfirmed + 1
     IN seen' = [seen EXCEPT
          !.auth = IF pc = "logon" THEN stmt.pw ELSE @,
          !.awaited = IF Asks THEN "sent" ELSE "none",
          !.sent = @ \/ pc = "content",
          !.committed = @ \/ pc = "commit",
          !.unconfirmed = IF first THEN more ELSE @]
  /\ UNCHANGED <<pc, stmt, turn, result>>

\* Nothing is expected from the broker before the frame is written: input is
\* parsed and then "protocol error" whatever it was.
SendInput ==
  /\ Sending
  /\ \/ \E n \in 1..Len(socket.in) : Throw(Parsed(n), Unread(n))
     \/ AtEnd("eof") /\ Throw(Closed(conn), NoSocket)
     \/ AtEnd("reset") /\ Throw(conn, socket)
  /\ Incomplete

\* The peer does not read, or the descriptor is -1 and poll() ignores it.
SendTimeout ==
  /\ Sending /\ ~Input
  /\ socket.good => ~Room
  /\ Throw([conn EXCEPT !.received = ~Asks], socket)
  /\ Incomplete

-----------------------------------------------------------------------------
(***************************************************************************)
(* connection::read                                                        *)
(***************************************************************************)

Reading == pc \in Operations /\ written /\ ~conn.received

\* The answer to a frame that asks for one.
Confirms(r) == r.kind \in {"connected", "receipt"}

\* Without a handled reply the loop polls again, with the whole timeout.
ReadReply ==
  /\ Reading
  /\ \E n \in 1..Len(socket.in) :
       /\ conn' = Parsed(n) /\ socket' = Unread(n)
       /\ IF \E i \in 1..n : socket.in[i].fresh /\ Confirms(socket.in[i])
            THEN seen' = [seen EXCEPT !.awaited = "done", !.unconfirmed = 0]
            ELSE UNCHANGED seen
  /\ UNCHANGED <<pc, written, stmt, turn, result>>

\* recv() returns 0: close() empties error_, so the test of error_ that
\* follows never replaces it, and the wait is over.
ReadDisconnect ==
  /\ Reading /\ AtEnd("eof")
  /\ conn' = [Closed(conn) EXCEPT !.received = TRUE]
  /\ socket' = NoSocket
  /\ UNCHANGED <<pc, written, stmt, turn, result, seen>>

ReadFail ==
  /\ Reading /\ AtEnd("reset")
  /\ Throw(conn, socket) /\ Incomplete

\* Mutants: the wait has no timeout; a timeout is taken for the receipt.
ReadForever == FALSE
ReadGivesUp ==
  /\ Reading /\ ~Input
  /\ conn' = [conn EXCEPT !.received = TRUE]
  /\ UNCHANGED <<pc, written, stmt, turn, result, socket, seen>>

ReadTimeout ==
  /\ Reading /\ ~Input
  /\ Throw(conn, socket)
  /\ seen' = [seen EXCEPT !.whole = FALSE, !.late = TRUE]

\* The end of read(), and of the operation that called it.
Done == pc \in Operations /\ written /\ conn.received

Refused(k) == k.error \/ (pc = "logon" /\ ~k.session)

ReadError ==
  /\ Done /\ Refused(conn)
  /\ Throw(conn, socket) /\ Incomplete

ReadReturn ==
  /\ Done /\ ~Refused(conn)
  /\ written' = FALSE
  /\ pc' = CASE pc = "logon"   -> "start"
             [] pc = "begin"   -> "rows"
             [] pc = "content" -> "rows"
             [] pc = "commit"  -> "release"
  /\ conn' = IF pc = "logon" THEN [conn EXCEPT !.passhash = stmt.pw] ELSE conn
  /\ UNCHANGED <<stmt, turn, result, socket, seen>>

-----------------------------------------------------------------------------
(***************************************************************************)
(* capstomp and capstomp_deinit                                            *)
(***************************************************************************)

\* No row follows the one that set *error: Throw has left "rows".
Row ==
  /\ pc = "rows" /\ (socket.good \/ ~stmt.conf.no_error)
  /\ pc' = "content"
  /\ UNCHANGED <<written, stmt, turn, result, conn, socket, seen>>

RowSkipped ==
  /\ pc = "rows" /\ ~socket.good /\ stmt.conf.no_error
  /\ Incomplete
  /\ UNCHANGED <<pc, written, stmt, turn, result, conn, socket>>

Deinit ==
  /\ pc = "rows"
  /\ pc' = "finish"
  /\ UNCHANGED <<written, stmt, turn, result, conn, socket, seen>>

\* connection::commit.  Its transaction is the only one of the batch, or one
\* of several, which are all confirmed; or another thread commits it.
Finish ==
  /\ pc = "finish"
  /\ IF conn.tx
       THEN \E own \in BOOLEAN, several \in BOOLEAN :
              /\ ~own => several
              /\ turn' = [own |-> own, receipt |-> several \/ IsReceipt]
              /\ pc' = IF several \/ IsReceipt THEN "commit" ELSE "drain"
       ELSE pc' = "release" /\ turn' = [turn EXCEPT !.own = TRUE]
  /\ UNCHANGED <<written, stmt, result, conn, socket, seen>>

\* commit_transaction without a receipt asks connected() first.
Drain ==
  /\ pc = "drain"
  /\ Connected("commit", "release")

\* connection::release and pool::release_connection.  The thread that
\* commits a deferred transaction calls only the second.
Release ==
  /\ pc = "release"
  /\ pc' = "pooled"
  /\ \/ /\ socket.good
        /\ conn' = [conn EXCEPT !.count =
                      IF turn.own /\ @ >= RequestLimit THEN 0 ELSE @]
        /\ UNCHANGED socket
     \/ conn' = NewConnection /\ socket' = NoSocket
  /\ UNCHANGED <<written, stmt, turn, result, seen>>

-----------------------------------------------------------------------------
(***************************************************************************)
(* The broker and the network                                              *)
(***************************************************************************)

Up == socket.good /\ socket.peer = "alive"

\* CONNECTED for a logon, RECEIPT for a frame that asks for one.
Answer ==
  /\ Up /\ socket.out # <<>>
  /\ LET f == Head(socket.out) IN
     IF f.receipt
       THEN /\ Len(socket.in) < MaxInFlight
            /\ socket' = [socket EXCEPT !.out = Tail(@), !.in = Append(@,
                 [kind |-> IF f.kind = "logon" THEN "connected" ELSE "receipt",
                  fresh |-> f.fresh])]
       ELSE socket' = [socket EXCEPT !.out = Tail(@)]
  /\ UNCHANGED <<pc, written, stmt, turn, result, conn, seen>>

\* ERROR, after which the broker closes the connection.
Refuse ==
  /\ Up /\ socket.out # <<>> /\ Len(socket.in) < MaxInFlight
  /\ socket' = [socket EXCEPT !.out = <<>>, !.peer = "eof",
                  !.in = Append(@, [kind |-> "error",
                                    fresh |-> Head(socket.out).fresh])]
  /\ UNCHANGED <<pc, written, stmt, turn, result, conn, seen>>

\* A piece of a frame, a heart-beat, a MESSAGE: bytes no handler sees.
Trickle ==
  /\ Up /\ Len(socket.in) < MaxInFlight
  /\ socket' = [socket EXCEPT !.in = Append(@, [kind |-> "part", fresh |-> FALSE])]
  /\ UNCHANGED <<pc, written, stmt, turn, result, conn, seen>>

Disconnect ==
  /\ Up
  /\ \E how \in {"eof", "reset"} :
       socket' = [socket EXCEPT !.out = <<>>, !.peer = how]
  /\ UNCHANGED <<pc, written, stmt, turn, result, conn, seen>>

-----------------------------------------------------------------------------
\* What runs inside one call of the server.
InCall ==
  \/ Check \/ Open \/ OpenFail \/ Start
  \/ Write \/ SendInput \/ SendTimeout
  \/ ReadReply \/ ReadDisconnect \/ ReadFail \/ ReadTimeout
  \/ ReadError \/ ReadReturn
  \/ Finish \/ Drain \/ Release

Next ==
  \/ \E s \in Settings, pw \in Passwords : Take(s, pw)
  \/ InCall
  \/ Row \/ RowSkipped \/ Deinit
  \/ Answer \/ Refuse \/ Trickle \/ Disconnect

Spec == Init /\ [][Next]_vars

\* A call that can move moves: every poll() has a timeout.  Nothing is asked of
\* the broker.
FairSpec == Spec /\ WF_vars(InCall)
-----------------------------------------------------------------------------
(***************************************************************************)
(* Properties                                                              *)
(***************************************************************************)

(* A statement never uses a session that another passcode opened, however  *)
(* the connection was reused, and whatever failed in between: the cached   *)
(* passhash_ always tells the truth about the open socket                  *)
(* (connection.cpp:239-252).                                               *)
OwnSession ==
  /\ socket.good /\ pc \in Phases \ {"pooled", "check", "open", "logon"}
       => seen.auth = stmt.pw
  /\ conn.passhash # NoPassword /\ socket.good => conn.passhash = seen.auth

(* A COMMIT is written only when the BEGIN and every row of the statement  *)
(* were written to the same session, under no_error and after any failure  *)
(* too (udf.cpp:123-135, 283-289, 340-345).                                *)
CommitIsWhole ==
  [][pc = "commit" /\ ~written /\ written' => seen.whole]_vars

(* A row that asks for a receipt and reports success on a socket that is   *)
(* still open was confirmed by its own RECEIPT, as long as no receipt      *)
(* timed out on that session before (connection.cpp:482-510).              *)
ConfirmedWhileUp ==
  [][pc = "content" /\ pc' = "rows" /\ socket.good /\ ~seen.late
       => seen.awaited # "sent"]_vars

(* A session goes back to the pool with no receipt or CONNECTED on its way *)
(* that a later statement would take for its own, whatever it was used     *)
(* for, as long as no wait on it timed out (connection.cpp:482-510,        *)
(* connection.hpp:165-192, pool.cpp:72-88).                                *)
IdleOwesNothing ==
  pc = "pooled" /\ ~seen.late =>
    /\ \A i \in DOMAIN socket.out : ~socket.out[i].receipt
    /\ \A i \in DOMAIN socket.in : ~Confirms(socket.in[i])

(* Every call of the server returns, through refusals, losses, silence and *)
(* whatever is left of an earlier exchange, unless the broker sends for    *)
(* ever what no handler sees: the timeout of read() is that of one poll(), *)
(* and connected() reads while there is input (connection.cpp:277-284,     *)
(* 484-505).                                                               *)
CallReturns ==
  \/ []<><<Trickle>>_vars
  \/ pc \notin {"pooled", "rows"} ~> pc \in {"pooled", "rows"}

\* The phases and the socket as Pool sees them.  A socket that read() has
\* closed is closed for Pool when the exchange is over.
PoolPhase ==
  CASE pc \in {"check", "open", "logon", "start"} -> "connect"
    [] pc = "content" -> "rows"
    [] pc = "drain"   -> "commit"
    [] OTHER          -> pc

PoolLink ==
  CASE socket.good /\ socket.peer = "alive" -> "up"
    [] socket.good /\ socket.peer # "alive" -> "lost"
    [] ~socket.good -> IF written /\ pc \in {"begin", "content", "commit"}
                         THEN "lost" ELSE "closed"

Outcomes == INSTANCE Session WITH
  AllSettings <- [transaction : BOOLEAN, no_error : BOOLEAN],
  phase  <- PoolPhase,
  link   <- PoolLink,
  conf   <- [transaction |-> stmt.conf.transaction,
             no_error |-> stmt.conf.no_error],
  tx     <- conn.tx,
  reused <- seen.reused,
  sent   <- seen.committed

(* Every exchange of a connection with the broker has one of the outcomes  *)
(* Pool allows it, in every interleaving with answers, refusals and losses *)
(* (connection.cpp:232-470, udf.cpp:67-371).                               *)
ImplementsSession == Outcomes!Spec

(* settings.hpp:10 says of receipt "wait rabbitmq receipts": a row sent    *)
(* under it would report success only when its RECEIPT is there.           *)
ReceiptConfirms ==
  [][pc = "content" /\ pc' = "rows" /\ stmt.conf.receipt
       => seen.awaited # "sent"]_vars

(* The same where the socket did not close: the receipt a row is given is  *)
(* its own.                                                                *)
ReceiptIsOwn ==
  [][pc = "content" /\ pc' = "rows" /\ stmt.conf.receipt /\ socket.good
       => seen.awaited # "sent"]_vars

(* conf.hpp:31 says of request_limit "request conunt, before we ask        *)
(* delivery confirm": a row goes out without asking only while fewer       *)
(* statements than the limit are unconfirmed.                              *)
RequestLimitAsks ==
  [][pc = "content" /\ ~written /\ written' /\ ~conn.tx /\ ~Asks
       => seen'.unconfirmed < RequestLimit]_vars
=============================================================================

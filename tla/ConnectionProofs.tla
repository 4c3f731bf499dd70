-------------------------- MODULE ConnectionProofs --------------------------
(***************************************************************************)
(* Proofs about one connection, its socket and the broker, for every       *)
(* number of passcodes, every set of settings, every request limit and any *)
(* number of frames in flight.                                             *)
(***************************************************************************)
EXTENDS Connection, SequenceTheorems, TLAPS

(***************************************************************************)
(* Types                                                                   *)
(***************************************************************************)

Statements == [conf : AllSettings, pw : Passwords]
Fields ==
  [tx : BOOLEAN, received : BOOLEAN, error : BOOLEAN,
   passhash : Passwords \cup {NoPassword}, session : BOOLEAN,
   count : 0..RequestLimit]
Sockets ==
  [good : BOOLEAN, peer : {"alive", "eof", "reset"},
   out : UpTo(MaxInFlight, Frame), in : UpTo(MaxInFlight, Reply)]
History ==
  [auth : Passwords \cup {NoPassword}, late : BOOLEAN,
   unconfirmed : 0..(RequestLimit + 1), sent : BOOLEAN,
   whole : BOOLEAN, awaited : {"none", "sent", "done"},
   reused : BOOLEAN, committed : BOOLEAN]

LEMMA Types ==
  TypeOK <=> /\ pc \in Phases /\ written \in BOOLEAN /\ result \in {"ok", "error"}
             /\ stmt \in Statements /\ turn \in [own : BOOLEAN, receipt : BOOLEAN]
             /\ conn \in Fields /\ socket \in Sockets /\ seen \in History
BY DEF TypeOK, Statements, Fields, Sockets, History

LEMMA TypesNext ==
  TypeOK' <=>
    /\ pc' \in Phases /\ written' \in BOOLEAN /\ result' \in {"ok", "error"}
    /\ stmt' \in Statements /\ turn' \in [own : BOOLEAN, receipt : BOOLEAN]
    /\ conn' \in Fields /\ socket' \in Sockets /\ seen' \in History
BY DEF TypeOK, Statements, Fields, Sockets, History

\* A direction of a socket is a sequence of bounded length.
LEMMA UpToIsSeq ==
  ASSUME NEW S, NEW n \in Nat, NEW s
  PROVE  s \in UpTo(n, S) <=> s \in Seq(S) /\ Len(s) <= n
<1>1. ASSUME s \in UpTo(n, S) PROVE s \in Seq(S) /\ Len(s) <= n
  <2>1. PICK k \in 0..n : s \in [1..k -> S]
    BY <1>1 DEF UpTo
  <2>2. s \in Seq(S)
    BY <2>1, SeqDef
  <2>3. DOMAIN s = 1..k /\ DOMAIN s = 1..Len(s) /\ Len(s) \in Nat
    BY <2>1, <2>2
  <2>4. Len(s) = k
    BY <2>3
  <2>5. QED
    BY <2>1, <2>2, <2>4
<1>2. ASSUME s \in Seq(S), Len(s) <= n PROVE s \in UpTo(n, S)
  <2>1. s \in [1..Len(s) -> S] /\ Len(s) \in 0..n
    BY <1>2
  <2>2. QED
    BY <2>1 DEF UpTo
<1>3. QED
  BY <1>1, <1>2

LEMMA Streams ==
  ASSUME socket \in Sockets
  PROVE  /\ socket.out \in Seq(Frame) /\ socket.in \in Seq(Reply)
         /\ Len(socket.out) \in 0..MaxInFlight /\ Len(socket.in) \in 0..MaxInFlight
<1>1. /\ socket.out \in UpTo(MaxInFlight, Frame)
      /\ socket.in \in UpTo(MaxInFlight, Reply) /\ MaxInFlight \in Nat
  BY ConnectionAssumption DEF Sockets
<1>2. /\ socket.out \in Seq(Frame) /\ Len(socket.out) <= MaxInFlight
      /\ socket.in \in Seq(Reply) /\ Len(socket.in) <= MaxInFlight
  BY <1>1, UpToIsSeq
<1>3. QED
  BY <1>2

\* A stream within the bound is one of the streams.
LEMMA StreamIn ==
  ASSUME NEW S, NEW s \in Seq(S), Len(s) <= MaxInFlight
  PROVE  s \in UpTo(MaxInFlight, S)
BY UpToIsSeq, ConnectionAssumption

LEMMA NoSocketTyped == NoSocket \in Sockets
<1>1. <<>> \in UpTo(MaxInFlight, Frame) /\ <<>> \in UpTo(MaxInFlight, Reply)
  <2>1. <<>> \in Seq(Frame) /\ <<>> \in Seq(Reply) /\ Len(<<>>) <= MaxInFlight
    BY ConnectionAssumption
  <2>2. QED
    BY <2>1, StreamIn
<1>2. QED
  BY <1>1 DEF NoSocket, Sockets

LEMMA ClosedTyped ==
  ASSUME NEW k \in Fields
  PROVE  Closed(k) \in Fields
<1>1. 0 \in 0..RequestLimit
  BY ConnectionAssumption
<1>2. QED
  BY <1>1 DEF Closed, Fields

\* The first n replies are read.
LEMMA ReadTyped ==
  ASSUME conn \in Fields, socket \in Sockets, NEW n \in 1..Len(socket.in)
  PROVE  Parsed(n) \in Fields /\ Unread(n) \in Sockets
<1>1. socket.in \in Seq(Reply) /\ Len(socket.in) \in 0..MaxInFlight
  BY Streams
<1>2. Parsed(n) \in Fields
  BY DEF Parsed, Fields
<1> DEFINE rest == SubSeq(socket.in, n + 1, Len(socket.in))
<1>3. rest \in Seq(Reply) /\ Len(rest) <= MaxInFlight
  BY <1>1, ConnectionAssumption
<1>4. rest \in UpTo(MaxInFlight, Reply)
  BY <1>3, StreamIn
<1>5. Unread(n) = [socket EXCEPT !.in = rest]
  BY DEF Unread
<1>6. Unread(n) \in Sockets
  <2> HIDE DEF rest
  <2>1. QED
    BY <1>4, <1>5 DEF Sockets
<1>7. QED
  BY <1>2, <1>6

LEMMA ThrowTyped ==
  ASSUME TypeOK, NEW k \in Fields, NEW s \in Sockets, Throw(k, s)
  PROVE  /\ pc' \in Phases /\ written' \in BOOLEAN /\ result' \in {"ok", "error"}
         /\ stmt' \in Statements /\ turn' \in [own : BOOLEAN, receipt : BOOLEAN]
         /\ conn' \in Fields /\ socket' \in Sockets
<1>1. Closed(k) \in Fields /\ NoSocket \in Sockets
  BY ClosedTyped, NoSocketTyped
<1>2. QED
  BY <1>1, Types DEF Throw, Phases, InitPhases, Operations

LEMMA IncompleteTyped ==
  ASSUME seen \in History, Incomplete
  PROVE  seen' \in History
BY DEF Incomplete, History

LEMMA AsksTyped ==
  ASSUME TypeOK, pc \in Operations
  PROVE  Asks \in BOOLEAN
<1>1. stmt \in Statements /\ conn \in Fields /\ turn \in [own : BOOLEAN, receipt : BOOLEAN]
  BY Types
<1>2. IsReceipt \in BOOLEAN /\ turn.receipt \in BOOLEAN
  BY <1>1 DEF IsReceipt, Statements, AllSettings
<1>3. QED
  BY <1>2 DEF Asks, Operations

LEMMA ConnectedTyped ==
  ASSUME TypeOK, NEW alive \in Phases, NEW dead \in Phases, Connected(alive, dead)
  PROVE  TypeOK'
<1>0. conn \in Fields /\ socket \in Sockets /\ seen \in History
  BY Types
<1>1. ASSUME NEW n \in 1..Len(socket.in),
             conn' = Parsed(n), socket' = Unread(n),
             UNCHANGED <<pc, written, stmt, turn, result, seen>>
      PROVE  TypeOK'
  BY <1>0, <1>1, ReadTyped, Types, TypesNext
<1>2. CASE /\ conn' = Closed(conn) /\ socket' = NoSocket /\ pc' = dead
           /\ UNCHANGED <<written, stmt, turn, result, seen>>
  BY <1>0, <1>2, ClosedTyped, NoSocketTyped, Types, TypesNext
<1>3. CASE Throw(conn, socket) /\ Incomplete
  BY <1>0, <1>3, ThrowTyped, IncompleteTyped, Types, TypesNext
<1>4. CASE /\ pc' = IF socket.good THEN alive ELSE dead
           /\ UNCHANGED <<written, stmt, turn, result, conn, socket, seen>>
  BY <1>4, Types, TypesNext
<1>5. QED
  BY <1>1, <1>2, <1>3, <1>4 DEF Connected

\* The frames in front of a new one are not fresh any more.
LEMMA StaleTyped ==
  ASSUME NEW s \in Seq(Frame)
  PROVE  LET old == [k \in DOMAIN s |-> [s[k] EXCEPT !.fresh = FALSE]]
         IN  old \in Seq(Frame) /\ Len(old) = Len(s)
<1> DEFINE old == [k \in DOMAIN s |-> [s[k] EXCEPT !.fresh = FALSE]]
<1>1. ASSUME NEW g \in Frame PROVE [g EXCEPT !.fresh = FALSE] \in Frame
  BY DEF Frame
<1>2. \A k \in DOMAIN s : s[k] \in Frame
  OBVIOUS
<1>3. old \in [1..Len(s) -> Frame] /\ Len(s) \in Nat
  BY <1>1, <1>2
<1> HIDE DEF old
<1>4. old \in Seq(Frame) /\ Len(old) = Len(s)
  BY <1>3
<1>5. QED
  BY <1>4 DEF old

LEMMA WriteTyped == TypeOK /\ Write => TypeOK'
<1> SUFFICES ASSUME TypeOK, Write PROVE TypeOK'
  OBVIOUS
<1>0. /\ conn \in Fields /\ socket \in Sockets /\ seen \in History
      /\ stmt \in Statements
  BY Types
<1>1. pc \in Operations /\ Asks \in BOOLEAN
  BY AsksTyped DEF Write, Sending
<1>2. conn' \in Fields
  BY <1>0, <1>1 DEF Write, Fields
<1>3. seen' \in History
  <2> DEFINE more == IF seen.unconfirmed > RequestLimit THEN seen.unconfirmed
                                                        ELSE seen.unconfirmed + 1
             auth == IF pc = "logon" THEN stmt.pw ELSE seen.auth
             awaited == IF Asks THEN "sent" ELSE "none"
             sent == seen.sent \/ pc = "content"
             committed == seen.committed \/ pc = "commit"
             count == IF pc = "content" /\ ~seen.sent THEN more ELSE seen.unconfirmed
  <2>1. more \in 0..(RequestLimit + 1) /\ count \in 0..(RequestLimit + 1)
    BY <1>0, ConnectionAssumption DEF History
  <2>2. /\ auth \in Passwords \cup {NoPassword} /\ awaited \in {"none", "sent", "done"}
        /\ sent \in BOOLEAN /\ committed \in BOOLEAN
    BY <1>0 DEF Statements, History
  <2>3. seen' = [seen EXCEPT !.auth = auth, !.awaited = awaited, !.sent = sent,
                             !.committed = committed, !.unconfirmed = count]
    BY DEF Write
  <2> HIDE DEF more, auth, awaited, sent, committed, count
  <2>4. QED
    BY <1>0, <2>1, <2>2, <2>3 DEF History
<1>4. socket' \in Sockets
  <2> DEFINE old == [k \in DOMAIN socket.out |-> [socket.out[k] EXCEPT !.fresh = FALSE]]
             f == [kind |-> pc, receipt |-> Asks, fresh |-> TRUE]
  <2>1. socket.out \in Seq(Frame) /\ Len(socket.out) < MaxInFlight
    BY <1>0, Streams DEF Write, Room
  <2>2. old \in Seq(Frame) /\ Len(old) = Len(socket.out)
    BY <2>1, StaleTyped
  <2>3. f \in Frame
    BY <1>1 DEF Frame, Operations
  <2>4. socket' = [socket EXCEPT !.out = Append(old, f)]
    BY DEF Write
  <2> HIDE DEF old, f
  <2>5. Append(old, f) \in Seq(Frame) /\ Len(Append(old, f)) <= MaxInFlight
    BY <2>1, <2>2, <2>3, AppendProperties, ConnectionAssumption
  <2>6. Append(old, f) \in UpTo(MaxInFlight, Frame)
    BY <2>5, StreamIn
  <2>7. QED
    BY <1>0, <2>4, <2>6 DEF Sockets
<1>5. QED
  BY <1>2, <1>3, <1>4, Types, TypesNext DEF Write

\* The broker takes a frame and may answer it.
LEMMA BrokerTyped ==
  ASSUME TypeOK, Answer \/ Refuse \/ Trickle \/ Disconnect
  PROVE  TypeOK'
<1>0. socket \in Sockets
  BY Types
<1>1. /\ socket.out \in Seq(Frame) /\ socket.in \in Seq(Reply)
      /\ Len(socket.out) \in 0..MaxInFlight /\ Len(socket.in) \in 0..MaxInFlight
  BY <1>0, Streams
<1>2. ASSUME socket.out # <<>>
      PROVE  Head(socket.out) \in Frame /\ Tail(socket.out) \in UpTo(MaxInFlight, Frame)
  <2>1. /\ Head(socket.out) \in Frame /\ Tail(socket.out) \in Seq(Frame)
        /\ Len(Tail(socket.out)) <= MaxInFlight
    BY <1>1, <1>2, HeadTailProperties, ConnectionAssumption
  <2>2. QED
    BY <2>1, StreamIn
<1>3. ASSUME NEW r \in Reply, Len(socket.in) < MaxInFlight
      PROVE  Append(socket.in, r) \in UpTo(MaxInFlight, Reply)
  <2>1. Append(socket.in, r) \in Seq(Reply) /\ Len(Append(socket.in, r)) <= MaxInFlight
    BY <1>1, <1>3, AppendProperties, ConnectionAssumption
  <2>2. QED
    BY <2>1, StreamIn
<1>4. <<>> \in UpTo(MaxInFlight, Frame)
  BY NoSocketTyped DEF NoSocket, Sockets
<1>5. CASE Answer
  <2> DEFINE f == Head(socket.out)
             r == [kind |-> IF f.kind = "logon" THEN "connected" ELSE "receipt",
                   fresh |-> f.fresh]
  <2>1. f \in Frame /\ Tail(socket.out) \in UpTo(MaxInFlight, Frame)
    BY <1>2, <1>5 DEF Answer
  <2>2. r \in Reply
    BY <2>1 DEF Frame, Reply
  <2> HIDE DEF r
  <2>3. CASE f.receipt
    <3>1. /\ Len(socket.in) < MaxInFlight
          /\ socket' = [socket EXCEPT !.out = Tail(@), !.in = Append(@, r)]
      BY <1>5, <2>3 DEF Answer, r
    <3>2. Append(socket.in, r) \in UpTo(MaxInFlight, Reply)
      BY <1>3, <2>2, <3>1
    <3>3. socket' \in Sockets
      BY <1>0, <2>1, <3>1, <3>2 DEF Sockets
    <3>4. QED
      BY <1>5, <3>3, Types, TypesNext DEF Answer
  <2>4. CASE ~f.receipt
    <3>1. socket' = [socket EXCEPT !.out = Tail(@)]
      BY <1>5, <2>4 DEF Answer
    <3>2. socket' \in Sockets
      BY <1>0, <2>1, <3>1 DEF Sockets
    <3>3. QED
      BY <1>5, <3>2, Types, TypesNext DEF Answer
  <2>5. QED
    BY <2>3, <2>4
<1>6. CASE Refuse
  <2> DEFINE r == [kind |-> "error", fresh |-> Head(socket.out).fresh]
  <2>1. Head(socket.out) \in Frame
    BY <1>2, <1>6 DEF Refuse
  <2>2. r \in Reply
    BY <2>1 DEF Frame, Reply
  <2>3. Len(socket.in) < MaxInFlight
        /\ socket' = [socket EXCEPT !.out = <<>>, !.peer = "eof", !.in = Append(@, r)]
    BY <1>6 DEF Refuse
  <2> HIDE DEF r
  <2>4. Append(socket.in, r) \in UpTo(MaxInFlight, Reply)
    BY <1>3, <2>2, <2>3
  <2>5. socket' \in Sockets
    BY <1>0, <1>4, <2>3, <2>4 DEF Sockets
  <2>6. QED
    BY <1>6, <2>5, Types, TypesNext DEF Refuse
<1>7. CASE Disconnect
  <2>1. PICK how \in {"eof", "reset"} :
          socket' = [socket EXCEPT !.out = <<>>, !.peer = how]
    BY <1>7 DEF Disconnect
  <2>2. socket' \in Sockets
    BY <1>0, <1>4, <2>1 DEF Sockets
  <2>3. QED
    BY <1>7, <2>2, Types, TypesNext DEF Disconnect
<1>8. CASE Trickle
  <2> DEFINE r == [kind |-> "part", fresh |-> FALSE]
  <2>1. r \in Reply
    BY DEF Reply
  <2>2. Len(socket.in) < MaxInFlight /\ socket' = [socket EXCEPT !.in = Append(@, r)]
    BY <1>8 DEF Trickle
  <2> HIDE DEF r
  <2>3. Append(socket.in, r) \in UpTo(MaxInFlight, Reply)
    BY <1>3, <2>1, <2>2
  <2>4. socket' \in Sockets
    BY <1>0, <2>2, <2>3 DEF Sockets
  <2>5. QED
    BY <1>8, <2>4, Types, TypesNext DEF Trickle
<1>9. QED
  BY <1>5, <1>6, <1>7, <1>8

\* A step of send() or read() that ends in an exception.
Failure ==
  \/ OpenFail \/ SendInput \/ SendTimeout
  \/ ReadFail \/ ReadTimeout \/ ReadError

LEMMA FailureTyped ==
  ASSUME TypeOK, Failure
  PROVE  TypeOK'
<1>0. /\ conn \in Fields /\ socket \in Sockets /\ seen \in History
      /\ Closed(conn) \in Fields /\ NoSocket \in Sockets
  BY Types, ClosedTyped, NoSocketTyped
<1>1. seen' \in History
  BY <1>0, IncompleteTyped
     DEF Failure, OpenFail, SendInput, SendTimeout, ReadFail, ReadTimeout,
         ReadError, History
<1>2. \E k \in Fields, s \in Sockets : Throw(k, s)
  <2>1. CASE OpenFail \/ ReadFail \/ ReadTimeout \/ ReadError
    BY <1>0, <2>1 DEF OpenFail, ReadFail, ReadTimeout, ReadError
  <2>2. CASE SendInput
    BY <1>0, <2>2, ReadTyped DEF SendInput
  <2>3. CASE SendTimeout
    <3>1. Asks \in BOOLEAN
      BY <2>3, AsksTyped DEF SendTimeout, Sending
    <3>2. [conn EXCEPT !.received = ~Asks] \in Fields
      BY <1>0, <3>1 DEF Fields
    <3>3. QED
      BY <1>0, <2>3, <3>2 DEF SendTimeout
  <2>4. QED
    BY <2>1, <2>2, <2>3 DEF Failure
<1>3. QED
  BY <1>1, <1>2, ThrowTyped, TypesNext

LEMMA PoolTyped ==
  ASSUME TypeOK, (\E s \in Settings, pw \in Passwords : Take(s, pw)) \/ Release
  PROVE  TypeOK'
<1>0. /\ conn \in Fields /\ socket \in Sockets /\ seen \in History
      /\ socket.good \in BOOLEAN /\ NoSocket \in Sockets
      /\ 0 \in 0..RequestLimit /\ NewConnection \in Fields
  <2>1. 0 \in 0..RequestLimit
    BY ConnectionAssumption
  <2>2. QED
    BY <2>1, Types, NoSocketTyped DEF Sockets, NewConnection, Fields
<1>1. ASSUME NEW s \in Settings, NEW pw \in Passwords, Take(s, pw)
      PROVE  TypeOK'
  <2>1. conn' \in Fields /\ seen' \in History
    BY <1>0, <1>1 DEF Take, Fields, History
  <2>2. stmt' \in Statements
    BY <1>1, ConnectionAssumption DEF Take, Statements
  <2>3. QED
    BY <1>1, <2>1, <2>2, Types, TypesNext DEF Take, Phases, InitPhases
<1>2. CASE Release
  <2>1. conn' \in Fields /\ socket' \in Sockets
    BY <1>0, <1>2 DEF Release, Fields
  <2>2. QED
    BY <1>2, <2>1, Types, TypesNext DEF Release, Phases
<1>3. QED
  BY <1>1, <1>2

LEMMA StatementTyped ==
  ASSUME TypeOK,
         \/ Check \/ Open \/ Start \/ ReadReply \/ ReadDisconnect \/ ReadReturn
         \/ Row \/ RowSkipped \/ Deinit \/ Finish \/ Drain
  PROVE  TypeOK'
<1>0. /\ conn \in Fields /\ socket \in Sockets /\ seen \in History
      /\ stmt \in Statements /\ turn \in [own : BOOLEAN, receipt : BOOLEAN]
      /\ Closed(conn) \in Fields
  BY Types, ClosedTyped
<1>1. CASE Check \/ Drain
  <2>1. {"start", "open", "commit", "release"} \subseteq Phases
    BY DEF Phases, InitPhases, Operations
  <2>2. QED
    BY <1>1, <2>1, ConnectedTyped DEF Check, Drain
<1>2. CASE Open
  <2>1. socket' \in Sockets
    BY <1>2, NoSocketTyped DEF Open, Sockets
  <2>2. 0 \in 0..(RequestLimit + 1)
    BY ConnectionAssumption
  <2>3. seen' \in History
    BY <1>0, <1>2, <2>2 DEF Open, History
  <2>4. QED
    BY <1>0, <1>2, <2>1, <2>3, Types, TypesNext DEF Open, Phases, InitPhases
<1>3. CASE Start
  <2>1. conn.count < RequestLimit => conn.count + 1 \in 0..RequestLimit
    BY <1>0, ConnectionAssumption DEF Fields
  <2>2. conn' \in Fields
    BY <1>0, <1>3, <2>1 DEF Start, Fields, Statements, AllSettings
  <2>3. QED
    BY <1>3, <2>2, Types, TypesNext DEF Start, Phases, InitPhases
<1>4. CASE ReadReply
  <2>1. PICK n \in 1..Len(socket.in) : conn' = Parsed(n) /\ socket' = Unread(n)
    BY <1>4 DEF ReadReply
  <2>2. conn' \in Fields /\ socket' \in Sockets
    BY <1>0, <2>1, ReadTyped
  <2>3. seen' \in History
    <3>1. 0 \in 0..(RequestLimit + 1)
      BY ConnectionAssumption
    <3>2. \/ seen' = [seen EXCEPT !.awaited = "done", !.unconfirmed = 0]
          \/ seen' = seen
      BY <1>4 DEF ReadReply
    <3>3. QED
      BY <1>0, <3>1, <3>2 DEF History
  <2>4. QED
    BY <1>4, <2>2, <2>3, Types, TypesNext DEF ReadReply
<1>5. CASE ReadDisconnect
  <2>1. conn' \in Fields
    BY <1>0, <1>5 DEF ReadDisconnect, Fields
  <2>2. QED
    BY <1>5, <2>1, NoSocketTyped, Types, TypesNext DEF ReadDisconnect
<1>6. CASE ReadReturn
  <2>1. conn' \in Fields
    BY <1>0, <1>6 DEF ReadReturn, Fields, Statements
  <2>2. pc' \in {"start", "rows", "release"}
    BY <1>6 DEF ReadReturn, Done, Operations
  <2>3. QED
    BY <1>6, <2>1, <2>2, Types, TypesNext DEF ReadReturn, Phases, InitPhases
<1>7. CASE Row \/ Deinit
  BY <1>7, Types, TypesNext DEF Row, Deinit, Phases, Operations
<1>8. CASE RowSkipped
  BY <1>8, <1>0, IncompleteTyped, Types, TypesNext DEF RowSkipped
<1>9. CASE Finish
  <2>1. IsReceipt \in BOOLEAN
    BY <1>0 DEF IsReceipt, Statements, AllSettings
  <2>2. turn' \in [own : BOOLEAN, receipt : BOOLEAN]
    <3>1. CASE conn.tx
      <4>1. PICK own \in BOOLEAN, several \in BOOLEAN :
              turn' = [own |-> own, receipt |-> several \/ IsReceipt]
        BY <1>9, <3>1 DEF Finish
      <4>2. (several \/ IsReceipt) \in BOOLEAN
        BY <2>1
      <4>3. QED
        BY <4>1, <4>2, Zenon
    <3>2. CASE ~conn.tx
      BY <1>0, <1>9, <3>2 DEF Finish
    <3>3. QED
      BY <3>1, <3>2
  <2>3. pc' \in {"commit", "drain", "release"}
    BY <1>9 DEF Finish
  <2>4. QED
    BY <1>9, <2>2, <2>3, Types, TypesNext DEF Finish, Phases, Operations
<1>10. QED
  BY <1>1, <1>2, <1>3, <1>4, <1>5, <1>6, <1>7, <1>8, <1>9

LEMMA TypeStep == TypeOK /\ [Next]_vars => TypeOK'
<1> SUFFICES ASSUME TypeOK, [Next]_vars PROVE TypeOK'
  OBVIOUS
<1>1. CASE UNCHANGED vars
  BY <1>1 DEF vars, TypeOK
<1>2. QED
  BY <1>1, PoolTyped, StatementTyped, WriteTyped, FailureTyped, BrokerTyped
     DEF Next, InCall, Failure

LEMMA InitTyped == Init => TypeOK
<1> SUFFICES ASSUME Init PROVE TypeOK
  OBVIOUS
<1>1. 0 \in 0..RequestLimit /\ 0 \in 0..(RequestLimit + 1)
  BY ConnectionAssumption
<1>2. conn \in Fields /\ seen \in History
  BY <1>1 DEF Init, NewConnection, Fields, History
<1>3. stmt \in Statements
  BY ConnectionAssumption DEF Init, Statements
<1>4. QED
  BY <1>2, <1>3, NoSocketTyped, Types DEF Init, Phases

(* Every field of the connection, the frames in flight and what the        *)
(* statement reports have their types, whatever the broker does            *)
(* (connection.hpp).                                                       *)
THEOREM ConnectionTypes == Spec => []TypeOK
  BY InitTyped, TypeStep, PTL DEF Spec

-----------------------------------------------------------------------------
(***************************************************************************)
(* What the helpers leave alone                                            *)
(***************************************************************************)

LEMMA ReadLeaves ==
  ASSUME conn \in Fields, socket \in Sockets, NEW n
  PROVE  /\ Parsed(n).tx = conn.tx
         /\ Parsed(n).received <=> (conn.received \/ Kinds(n) \ {"part"} # {})
         /\ Parsed(n).passhash = conn.passhash
         /\ Parsed(n).error <=> (conn.error \/ "error" \in Kinds(n))
         /\ Parsed(n).session <=> (conn.session \/ "connected" \in Kinds(n))
         /\ Unread(n).good = socket.good /\ Unread(n).peer = socket.peer
         /\ Unread(n).out = socket.out
         /\ Unread(n).in = SubSeq(socket.in, n + 1, Len(socket.in))
<1>1. /\ Parsed(n).tx = conn.tx
      /\ Parsed(n).received = (conn.received \/ Kinds(n) \ {"part"} # {})
      /\ Parsed(n).passhash = conn.passhash
      /\ Parsed(n).error = (conn.error \/ "error" \in Kinds(n))
      /\ Parsed(n).session = (conn.session \/ "connected" \in Kinds(n))
  BY DEF Parsed, Fields
<1>2. /\ Unread(n).good = socket.good /\ Unread(n).peer = socket.peer
      /\ Unread(n).out = socket.out
      /\ Unread(n).in = SubSeq(socket.in, n + 1, Len(socket.in))
  BY DEF Unread, Sockets
<1>3. QED
  BY <1>1, <1>2

LEMMA ClosedLeaves ==
  ASSUME NEW k \in Fields
  PROVE  /\ Closed(k).tx = k.tx /\ Closed(k).received = k.received
         /\ Closed(k).session = k.session /\ Closed(k).error = FALSE
         /\ Closed(k).passhash = NoPassword
BY DEF Closed, Fields

LEMMA NoSocketIs ==
  /\ NoSocket.good = FALSE /\ NoSocket.peer = "alive"
  /\ NoSocket.out = <<>> /\ NoSocket.in = <<>>
BY DEF NoSocket

\* An exception leaves the rest of the statement a closed connection, or it
\* is the end of a COMMIT.
LEMMA ThrowLeaves ==
  ASSUME NEW k \in Fields, NEW s \in Sockets, Throw(k, s)
  PROVE  /\ ~written' /\ UNCHANGED <<stmt, turn>>
         /\ conn'.tx = k.tx /\ conn'.session = k.session
         /\ \/ /\ pc \in {"drain", "commit"} /\ pc' = "release"
               /\ conn' = k /\ socket' = s /\ result' = result
            \/ /\ pc \notin {"drain", "commit"} /\ pc' \in {"rows", "finish"}
               /\ IF pc \in InitPhases /\ stmt.conf.no_error
                    THEN pc' = "rows" /\ result' = result
                    ELSE pc' = "finish" /\ result' = "error"
               /\ conn' = Closed(k) /\ socket' = NoSocket
BY ClosedLeaves DEF Throw

(***************************************************************************)
(* The connection and its socket                                           *)
(***************************************************************************)

(* A closed socket holds nothing, a frame is under way only in an          *)
(* operation, and what was sent to a peer that is gone is lost.            *)
StreamInv ==
  /\ ~socket.good => socket = NoSocket
  /\ written => pc \in Operations
  /\ socket.peer # "alive" => socket.out = <<>>

LEMMA WithRead ==
  ASSUME TypeOK, StreamInv, NEW n \in 1..Len(socket.in)
  PROVE  /\ socket.good /\ Unread(n).good
         /\ Unread(n).peer # "alive" => Unread(n).out = <<>>
         /\ Parsed(n) \in Fields /\ Unread(n) \in Sockets
<1>1. conn \in Fields /\ socket \in Sockets
  BY Types
<1>2. socket.in # <<>>
  BY <1>1, Streams
<1>3. socket.good
  BY <1>2, NoSocketIs DEF StreamInv
<1>4. QED
  BY <1>1, <1>3, ReadLeaves, ReadTyped DEF StreamInv

\* Only an open socket ends.
LEMMA WithEnd ==
  ASSUME TypeOK, StreamInv, NEW how \in {"eof", "reset"}, AtEnd(how)
  PROVE  socket.good /\ socket.in = <<>> /\ socket.out = <<>> /\ socket.peer = how
BY NoSocketIs DEF StreamInv, AtEnd

\* How one step of connection::connected leaves the connection.
LEMMA ConnectedLeaves ==
  ASSUME TypeOK, StreamInv, NEW alive, NEW dead, Connected(alive, dead),
         pc \in {"check", "drain"}
  PROVE  /\ UNCHANGED <<stmt, turn>> /\ ~written'
         /\ conn'.tx = conn.tx
         /\ \/ /\ \E n \in 1..Len(socket.in) : conn' = Parsed(n) /\ socket' = Unread(n)
               /\ pc' = pc /\ seen' = seen /\ result' = result
            \/ /\ AtEnd("eof") /\ conn' = Closed(conn) /\ socket' = NoSocket
               /\ pc' = dead /\ seen' = seen /\ result' = result
            \/ AtEnd("reset") /\ Throw(conn, socket) /\ Incomplete
            \/ /\ ~Input /\ pc' = IF socket.good THEN alive ELSE dead
               /\ UNCHANGED <<conn, socket, seen, result>>
<1>1. conn \in Fields /\ socket \in Sockets /\ ~written
  BY Types DEF StreamInv, Operations
<1>2. CASE \E n \in 1..Len(socket.in) :
             /\ conn' = Parsed(n) /\ socket' = Unread(n)
             /\ UNCHANGED <<pc, written, stmt, turn, result, seen>>
  <2>1. PICK n \in 1..Len(socket.in) :
          /\ conn' = Parsed(n) /\ socket' = Unread(n)
          /\ UNCHANGED <<pc, written, stmt, turn, result, seen>>
    BY <1>2
  <2>2. conn'.tx = conn.tx
    BY <1>1, <2>1, ReadLeaves
  <2>3. QED
    BY <1>1, <2>1, <2>2
<1>3. CASE /\ AtEnd("eof")
           /\ conn' = Closed(conn) /\ socket' = NoSocket /\ pc' = dead
           /\ UNCHANGED <<written, stmt, turn, result, seen>>
  BY <1>1, <1>3, ClosedLeaves
<1>4. CASE AtEnd("reset") /\ Throw(conn, socket) /\ Incomplete
  BY <1>1, <1>4, ThrowLeaves
<1>5. CASE /\ ~Input
           /\ pc' = IF socket.good THEN alive ELSE dead
           /\ UNCHANGED <<written, stmt, turn, result, conn, socket, seen>>
  BY <1>1, <1>5
<1>6. QED
  BY <1>2, <1>3, <1>4, <1>5 DEF Connected

LEMMA StreamStep == TypeOK /\ StreamInv /\ [Next]_vars => StreamInv'
<1> SUFFICES ASSUME TypeOK, StreamInv, [Next]_vars PROVE StreamInv'
  OBVIOUS
<1>0. conn \in Fields /\ socket \in Sockets
  BY Types
<1>1. ASSUME NEW k \in Fields, NEW s \in Sockets, Throw(k, s),
             ~s.good => s = NoSocket, s.peer # "alive" => s.out = <<>>
      PROVE  StreamInv'
  BY <1>1, ThrowLeaves, NoSocketIs DEF StreamInv
<1>2. ASSUME UNCHANGED socket, written' => pc' \in Operations
      PROVE  StreamInv'
  BY <1>2 DEF StreamInv
<1>3. ASSUME NEW alive, NEW dead, Connected(alive, dead), pc \in {"check", "drain"}
      PROVE  StreamInv'
  <2>1. CASE \E n \in 1..Len(socket.in) : socket' = Unread(n) /\ ~written'
    BY <2>1, WithRead DEF StreamInv
  <2>2. CASE socket' = NoSocket /\ ~written'
    BY <2>2, NoSocketIs DEF StreamInv
  <2>3. CASE AtEnd("reset") /\ Throw(conn, socket)
    BY <1>0, <1>1, <2>3 DEF StreamInv
  <2>4. CASE UNCHANGED socket /\ ~written'
    BY <2>4, <1>2
  <2>5. QED
    BY <1>3, <2>1, <2>2, <2>3, <2>4, ConnectedLeaves
<1>4. CASE \E s \in Settings, pw \in Passwords : Take(s, pw)
  BY <1>2, <1>4 DEF Take, StreamInv, Operations
<1>5. CASE Check \/ Drain
  BY <1>3, <1>5 DEF Check, Drain
<1>6. CASE Open
  <2>1. socket'.good
    BY <1>6 DEF Open, NoSocket
  <2>2. socket'.peer = "alive" /\ ~written'
    BY <1>6 DEF Open, NoSocket, StreamInv, Operations
  <2>3. QED
    BY <2>1, <2>2 DEF StreamInv
<1>7. CASE OpenFail \/ ReadFail \/ ReadTimeout \/ ReadError
  <2>1. Throw(conn, socket)
    BY <1>7 DEF OpenFail, ReadFail, ReadTimeout, ReadError
  <2>2. QED
    BY <1>0, <1>1, <2>1 DEF StreamInv
<1>8. CASE Start \/ Row \/ RowSkipped \/ Deinit \/ Finish
  BY <1>2, <1>8 DEF Start, Row, RowSkipped, Deinit, Finish, StreamInv, Operations
<1>9. CASE Write
  <2>1. /\ socket.peer = "alive" /\ socket.good /\ pc' \in Operations
    BY <1>9 DEF Write, Input, Sending
  <2>2. socket'.good /\ socket'.peer = "alive"
    BY <1>0, <1>9, <2>1 DEF Write, Sockets
  <2>3. QED
    BY <2>1, <2>2 DEF StreamInv
<1>10. CASE SendInput
  <2>1. CASE \E n \in 1..Len(socket.in) : Throw(Parsed(n), Unread(n))
    <3>1. PICK n \in 1..Len(socket.in) : Throw(Parsed(n), Unread(n))
      BY <2>1
    <3>2. QED
      BY <1>1, <3>1, WithRead
  <2>2. CASE Throw(Closed(conn), NoSocket)
    BY <1>0, <1>1, <2>2, ClosedTyped, NoSocketTyped, NoSocketIs
  <2>3. CASE Throw(conn, socket)
    BY <1>0, <1>1, <2>3 DEF StreamInv
  <2>4. QED
    BY <1>10, <2>1, <2>2, <2>3 DEF SendInput
<1>11. CASE SendTimeout
  <2>1. pc \in Operations
    BY <1>11 DEF SendTimeout, Sending
  <2>2. Asks \in BOOLEAN
    BY <2>1, AsksTyped
  <2>3. [conn EXCEPT !.received = ~Asks] \in Fields
    BY <1>0, <2>2 DEF Fields
  <2>4. QED
    BY <1>0, <1>1, <1>11, <2>3 DEF SendTimeout, StreamInv
<1>12. CASE ReadReply
  <2>1. PICK n \in 1..Len(socket.in) : socket' = Unread(n)
    BY <1>12 DEF ReadReply
  <2>2. QED
    BY <1>12, <2>1, WithRead DEF ReadReply, StreamInv
<1>13. CASE ReadDisconnect
  BY <1>13, NoSocketIs DEF ReadDisconnect, StreamInv
<1>14. CASE ReadReturn
  BY <1>2, <1>14 DEF ReadReturn
<1>15. CASE Release
  <2>1. ~written'
    BY <1>15 DEF Release, StreamInv, Operations
  <2>2. QED
    BY <1>15, <2>1, NoSocketIs DEF Release, StreamInv
<1>16. CASE Answer \/ Trickle
  <2>1. socket'.good /\ socket'.peer = "alive"
    BY <1>0, <1>16 DEF Answer, Trickle, Up, Sockets
  <2>2. QED
    BY <1>16, <2>1 DEF Answer, Trickle, StreamInv
<1>17. CASE Refuse \/ Disconnect
  <2>1. socket'.good /\ socket'.out = <<>>
    BY <1>0, <1>17 DEF Refuse, Disconnect, Up, Sockets
  <2>2. QED
    BY <1>17, <2>1 DEF Refuse, Disconnect, StreamInv
<1>18. CASE UNCHANGED vars
  BY <1>18 DEF vars, StreamInv
<1>19. QED
  BY <1>4, <1>5, <1>6, <1>7, <1>8, <1>9, <1>10, <1>11, <1>12, <1>13, <1>14,
     <1>15, <1>16, <1>17, <1>18 DEF Next, InCall

(***************************************************************************)
(* What a step does, action by action, to the parts the invariants are     *)
(* about                                                                   *)
(***************************************************************************)

Known == TypeOK /\ StreamInv

LEMMA KnownTypes ==
  ASSUME Known
  PROVE  /\ conn \in Fields /\ socket \in Sockets /\ seen \in History
         /\ stmt \in Statements /\ pc \in Phases
         /\ NoSocket \in Sockets /\ Closed(conn) \in Fields
BY Types, NoSocketTyped, ClosedTyped DEF Known

LEMMA IncompleteLeaves ==
  ASSUME Known, Incomplete
  PROVE  /\ seen'.whole = FALSE /\ seen'.auth = seen.auth /\ seen'.late = seen.late
         /\ seen'.awaited = seen.awaited /\ seen'.reused = seen.reused
         /\ seen'.committed = seen.committed
BY KnownTypes DEF Incomplete, History

\* A step that fails leaves the connection closed, or ends a COMMIT and reads
\* at most what was there.
LEMMA FailureLeaves ==
  ASSUME Known, Failure
  PROVE  /\ pc \in Operations \cup {"open"} /\ ~written' /\ UNCHANGED <<stmt, turn>>
         /\ conn'.tx = conn.tx
         /\ seen'.whole = FALSE /\ seen'.auth = seen.auth
         /\ seen'.reused = seen.reused /\ seen'.committed = seen.committed
         /\ seen.late => seen'.late
         /\ \/ /\ pc = "commit" /\ pc' = "release" /\ result' = result
               /\ socket'.good => socket.good
               /\ \/ socket' = NoSocket
                  \/ (socket'.good = socket.good /\ socket'.peer = socket.peer)
               /\ conn'.passhash \in {conn.passhash, NoPassword}
            \/ /\ pc # "commit" /\ pc' \in {"rows", "finish"}
               /\ IF pc \in InitPhases /\ stmt.conf.no_error
                    THEN pc' = "rows" /\ result' = result
                    ELSE pc' = "finish" /\ result' = "error"
               /\ socket' = NoSocket /\ conn'.passhash = NoPassword
<1>0. /\ conn \in Fields /\ socket \in Sockets /\ seen \in History
      /\ TypeOK /\ StreamInv /\ NoSocket \in Sockets /\ Closed(conn) \in Fields
  BY KnownTypes DEF Known
<1>1. /\ seen'.whole = FALSE /\ seen'.auth = seen.auth
      /\ seen'.reused = seen.reused /\ seen'.committed = seen.committed
      /\ seen.late => seen'.late
  <2>1. CASE Incomplete
    BY <2>1, IncompleteLeaves
  <2>2. CASE seen' = [seen EXCEPT !.whole = FALSE, !.late = TRUE]
    BY <1>0, <2>2 DEF History
  <2>3. QED
    BY <2>1, <2>2
       DEF Failure, OpenFail, SendInput, SendTimeout, ReadFail, ReadTimeout, ReadError
<1>2. \E k \in Fields, s \in Sockets :
        /\ Throw(k, s)
        /\ k.tx = conn.tx /\ k.passhash \in {conn.passhash, NoPassword}
        /\ s.good => socket.good
        /\ s = NoSocket \/ (s.good = socket.good /\ s.peer = socket.peer)
  <2>1. CASE OpenFail \/ ReadFail \/ ReadTimeout \/ ReadError
    BY <1>0, <2>1 DEF OpenFail, ReadFail, ReadTimeout, ReadError
  <2>2. CASE SendInput
    <3>1. CASE \E n \in 1..Len(socket.in) : Throw(Parsed(n), Unread(n))
      <4>1. PICK n \in 1..Len(socket.in) : Throw(Parsed(n), Unread(n))
        BY <3>1
      <4>2. Parsed(n) \in Fields /\ Unread(n) \in Sockets /\ socket.good
        BY <1>0, WithRead
      <4>3. Parsed(n).tx = conn.tx /\ Parsed(n).passhash = conn.passhash
            /\ Unread(n).good = socket.good /\ Unread(n).peer = socket.peer
        BY <1>0, ReadLeaves
      <4>4. QED
        BY <4>1, <4>2, <4>3
    <3>2. CASE Throw(Closed(conn), NoSocket)
      BY <1>0, <3>2, ClosedLeaves, NoSocketIs
    <3>3. CASE Throw(conn, socket)
      BY <1>0, <3>3
    <3>4. QED
      BY <2>2, <3>1, <3>2, <3>3 DEF SendInput
  <2>3. CASE SendTimeout
    <3>1. Asks \in BOOLEAN
      BY <1>0, <2>3, AsksTyped DEF SendTimeout, Sending
    <3> DEFINE k == [conn EXCEPT !.received = ~Asks]
    <3>2. k \in Fields /\ k.tx = conn.tx /\ k.passhash = conn.passhash
      BY <1>0, <3>1 DEF Fields
    <3>3. Throw(k, socket)
      BY <2>3 DEF SendTimeout
    <3> HIDE DEF k
    <3>4. QED
      BY <1>0, <3>2, <3>3
  <2>4. QED
    BY <2>1, <2>2, <2>3 DEF Failure
<1>3. pc # "drain" /\ pc \in Operations \cup {"open"}
  BY DEF Failure, OpenFail, SendInput, SendTimeout, ReadFail, ReadTimeout,
         ReadError, Sending, Reading, Done, Operations
<1>4. QED
  BY <1>1, <1>2, <1>3, ThrowLeaves, ClosedLeaves

\* connected() finds replies, the end of the stream, a reset or nothing.
LEMMA ConnectedMoves ==
  ASSUME Known, NEW alive, NEW dead, Connected(alive, dead), pc \in {"check", "drain"}
  PROVE  /\ ~written' /\ UNCHANGED <<stmt, turn>> /\ conn'.tx = conn.tx
         /\ seen'.auth = seen.auth /\ seen'.late = seen.late
         /\ seen'.reused = seen.reused /\ seen'.committed = seen.committed
         /\ socket'.good => socket.good
         /\ \/ /\ pc' = pc /\ seen' = seen /\ result' = result
               /\ conn'.passhash = conn.passhash /\ socket.good
               /\ socket'.good /\ socket'.peer = socket.peer
            \/ /\ pc' = dead /\ seen' = seen /\ result' = result
               /\ conn'.passhash = NoPassword /\ conn'.session = conn.session
               /\ socket' = NoSocket /\ socket.good /\ socket.peer = "eof"
            \/ /\ pc = "check" /\ Throw(conn, socket) /\ pc' \in {"rows", "finish"}
               /\ conn'.passhash = NoPassword /\ socket' = NoSocket /\ seen'.whole = FALSE
            \/ /\ pc = "drain" /\ pc' = "release" /\ result' = result
               /\ conn' = conn /\ socket' = socket /\ seen'.whole = FALSE
            \/ /\ pc' = IF socket.good THEN alive ELSE dead
               /\ UNCHANGED <<conn, socket, seen, result>>
<1>0. /\ conn \in Fields /\ socket \in Sockets /\ TypeOK /\ StreamInv
  BY KnownTypes DEF Known
<1>1. UNCHANGED <<stmt, turn>> /\ ~written' /\ conn'.tx = conn.tx
  BY <1>0, ConnectedLeaves
<1>2. CASE /\ \E n \in 1..Len(socket.in) : conn' = Parsed(n) /\ socket' = Unread(n)
           /\ pc' = pc /\ seen' = seen /\ result' = result
  <2>1. PICK n \in 1..Len(socket.in) : conn' = Parsed(n) /\ socket' = Unread(n)
    BY <1>2
  <2>2. socket.good /\ Unread(n).good
    BY <1>0, WithRead
  <2>3. Parsed(n).passhash = conn.passhash /\ Unread(n).peer = socket.peer
    BY <1>0, ReadLeaves
  <2>4. QED
    BY <1>1, <1>2, <2>1, <2>2, <2>3
<1>3. CASE /\ AtEnd("eof") /\ conn' = Closed(conn) /\ socket' = NoSocket
           /\ pc' = dead /\ seen' = seen /\ result' = result
  BY <1>0, <1>1, <1>3, WithEnd, ClosedLeaves, NoSocketIs
<1>4. CASE AtEnd("reset") /\ Throw(conn, socket) /\ Incomplete
  BY <1>0, <1>1, <1>4, ThrowLeaves, IncompleteLeaves, ClosedLeaves, NoSocketIs
<1>5. CASE /\ ~Input /\ pc' = IF socket.good THEN alive ELSE dead
           /\ UNCHANGED <<conn, socket, seen, result>>
  BY <1>1, <1>5
<1>6. \/ /\ \E n \in 1..Len(socket.in) : conn' = Parsed(n) /\ socket' = Unread(n)
         /\ pc' = pc /\ seen' = seen /\ result' = result
      \/ /\ AtEnd("eof") /\ conn' = Closed(conn) /\ socket' = NoSocket
         /\ pc' = dead /\ seen' = seen /\ result' = result
      \/ AtEnd("reset") /\ Throw(conn, socket) /\ Incomplete
      \/ /\ ~Input /\ pc' = IF socket.good THEN alive ELSE dead
         /\ UNCHANGED <<conn, socket, seen, result>>
  BY <1>0, ConnectedLeaves
<1>7. QED
  BY <1>2, <1>3, <1>4, <1>5, <1>6, Zenon

\* The same for the two places that call it.
LEMMA CheckLeaves ==
  ASSUME Known, Check
  PROVE  /\ pc = "check" /\ ~written' /\ UNCHANGED <<stmt, turn>>
         /\ conn'.tx = conn.tx
         /\ seen'.auth = seen.auth /\ seen'.late = seen.late
         /\ seen'.reused = seen.reused /\ seen'.committed = seen.committed
         /\ socket'.good => socket.good
         /\ \/ /\ pc' = "check" /\ seen' = seen /\ result' = result
               /\ conn'.passhash = conn.passhash /\ socket.good
               /\ socket'.good /\ socket'.peer = socket.peer
            \/ /\ pc' = "open" /\ seen' = seen /\ result' = result
               /\ conn'.passhash = NoPassword /\ conn'.session = conn.session
               /\ socket' = NoSocket /\ socket.good /\ socket.peer = "eof"
            \/ /\ Throw(conn, socket) /\ pc' \in {"rows", "finish"}
               /\ conn'.passhash = NoPassword /\ socket' = NoSocket
               /\ seen'.whole = FALSE
            \/ /\ pc' = "start" /\ socket.good /\ conn.passhash = stmt.pw
               /\ UNCHANGED <<conn, socket, seen, result>>
            \/ /\ pc' = "open" /\ UNCHANGED <<conn, socket, seen, result>>
<1> DEFINE alive == IF conn.passhash = stmt.pw THEN "start" ELSE "open"
<1>1. Connected(alive, "open") /\ pc = "check"
  BY DEF Check
<1>2. alive = "start" => conn.passhash = stmt.pw
  OBVIOUS
<1>3. alive \in {"start", "open"}
  OBVIOUS
<1> HIDE DEF alive
<1>4. QED
  BY <1>1, <1>2, <1>3, ConnectedMoves

LEMMA DrainLeaves ==
  ASSUME Known, Drain
  PROVE  /\ pc = "drain" /\ ~written' /\ UNCHANGED <<stmt, turn>>
         /\ conn'.tx = conn.tx
         /\ seen'.auth = seen.auth /\ seen'.late = seen.late
         /\ seen'.reused = seen.reused /\ seen'.committed = seen.committed
         /\ socket'.good => socket.good
         /\ result' = result
         /\ \/ /\ pc' = "drain" /\ seen' = seen
               /\ conn'.passhash = conn.passhash /\ socket.good
               /\ socket'.good /\ socket'.peer = socket.peer
            \/ /\ pc' = "release" /\ seen' = seen
               /\ conn'.passhash = NoPassword /\ conn'.session = conn.session
               /\ socket' = NoSocket /\ socket.good /\ socket.peer = "eof"
            \/ /\ pc' = "release" /\ conn' = conn /\ socket' = socket
               /\ seen'.whole = FALSE
            \/ /\ pc' = IF socket.good THEN "commit" ELSE "release"
               /\ UNCHANGED <<conn, socket, seen>>
<1>1. Connected("commit", "release") /\ pc = "drain"
  BY DEF Drain
<1>2. QED
  BY <1>1, ConnectedMoves

\* Writing a frame.
LEMMA WriteLeaves ==
  ASSUME Known, Write
  PROVE  /\ pc \in Operations /\ ~written /\ written'
         /\ socket.good /\ socket.peer = "alive" /\ socket.in = <<>>
         /\ UNCHANGED <<pc, stmt, turn, result>>
         /\ socket'.good /\ socket'.peer = "alive" /\ socket'.in = socket.in
         /\ conn'.tx = conn.tx /\ conn'.passhash = conn.passhash
         /\ conn'.session = conn.session /\ conn'.error = conn.error
         /\ conn'.received = ~Asks
         /\ seen'.whole = seen.whole /\ seen'.late = seen.late
         /\ seen'.reused = seen.reused
         /\ seen'.auth = IF pc = "logon" THEN stmt.pw ELSE seen.auth
         /\ seen'.awaited = IF Asks THEN "sent" ELSE "none"
         /\ seen'.committed <=> (seen.committed \/ pc = "commit")
<1>0. conn \in Fields /\ socket \in Sockets /\ seen \in History
  BY KnownTypes
<1>1. /\ pc \in Operations /\ ~written /\ written'
      /\ socket.good /\ socket.peer = "alive" /\ socket.in = <<>>
      /\ UNCHANGED <<pc, stmt, turn, result>>
  BY DEF Write, Sending, Input
<1>2. socket'.good /\ socket'.peer = "alive" /\ socket'.in = socket.in
  BY <1>0, <1>1 DEF Write, Sockets
<1>3. /\ conn'.tx = conn.tx /\ conn'.passhash = conn.passhash
      /\ conn'.session = conn.session /\ conn'.error = conn.error
      /\ conn'.received = ~Asks
  BY <1>0 DEF Write, Fields
<1>4. /\ seen'.whole = seen.whole /\ seen'.late = seen.late
      /\ seen'.reused = seen.reused
      /\ seen'.auth = IF pc = "logon" THEN stmt.pw ELSE seen.auth
      /\ seen'.awaited = IF Asks THEN "sent" ELSE "none"
      /\ seen'.committed = (seen.committed \/ pc = "commit")
  BY <1>0 DEF Write, History
<1>5. QED
  BY <1>1, <1>2, <1>3, <1>4

\* Reading replies.
LEMMA ReplyLeaves ==
  ASSUME Known, ReadReply
  PROVE  /\ pc \in Operations /\ written /\ ~conn.received
         /\ UNCHANGED <<pc, written, stmt, turn, result>>
         /\ socket.good /\ socket'.good /\ socket'.peer = socket.peer
         /\ conn'.tx = conn.tx /\ conn'.passhash = conn.passhash
         /\ conn'.session => conn.session \/ conn'.received
         /\ seen'.whole = seen.whole /\ seen'.late = seen.late
         /\ seen'.reused = seen.reused /\ seen'.auth = seen.auth
         /\ seen'.committed = seen.committed
<1>0. /\ conn \in Fields /\ socket \in Sockets /\ seen \in History
      /\ TypeOK /\ StreamInv
  BY KnownTypes DEF Known
<1>1. PICK n \in 1..Len(socket.in) : conn' = Parsed(n) /\ socket' = Unread(n)
  BY DEF ReadReply
<1>2. /\ socket.good /\ socket'.good /\ socket'.peer = socket.peer
      /\ conn'.tx = conn.tx /\ conn'.passhash = conn.passhash
      /\ conn'.session => conn.session \/ conn'.received
  BY <1>0, <1>1, WithRead, ReadLeaves
<1>3. \/ seen' = [seen EXCEPT !.awaited = "done", !.unconfirmed = 0]
      \/ seen' = seen
  BY DEF ReadReply
<1>4. /\ seen'.whole = seen.whole /\ seen'.late = seen.late
      /\ seen'.reused = seen.reused /\ seen'.auth = seen.auth
      /\ seen'.committed = seen.committed
  BY <1>0, <1>3 DEF History
<1>5. QED
  BY <1>2, <1>4 DEF ReadReply, Reading

LEMMA DisconnectLeaves ==
  ASSUME Known, ReadDisconnect
  PROVE  /\ pc \in Operations /\ written /\ ~conn.received
         /\ UNCHANGED <<pc, written, stmt, turn, result, seen>>
         /\ socket.good /\ socket.peer = "eof" /\ socket' = NoSocket
         /\ conn'.tx = conn.tx /\ conn'.passhash = NoPassword
         /\ conn'.session = conn.session /\ conn'.received
<1>1. conn \in Fields /\ socket.good /\ socket.peer = "eof"
  BY KnownTypes, WithEnd DEF Known, ReadDisconnect
<1>2. QED
  BY <1>1 DEF ReadDisconnect, Reading, Closed, Fields

LEMMA ReturnLeaves ==
  ASSUME Known, ReadReturn
  PROVE  /\ written /\ conn.received /\ ~written' /\ ~Refused(conn)
         /\ UNCHANGED <<stmt, turn, result, socket, seen>>
         /\ \/ pc = "logon" /\ pc' = "start" /\ conn'.passhash = stmt.pw
            \/ pc \in {"begin", "content"} /\ pc' = "rows" /\ conn' = conn
            \/ pc = "commit" /\ pc' = "release" /\ conn' = conn
         /\ conn'.tx = conn.tx /\ conn'.session = conn.session
BY KnownTypes DEF ReadReturn, Done, Operations, Fields

LEMMA StartLeaves ==
  ASSUME Known, Start
  PROVE  /\ pc = "start" /\ ~written'
         /\ pc' = IF stmt.conf.transaction THEN "begin" ELSE "rows"
         /\ conn'.tx = stmt.conf.transaction /\ conn'.passhash = conn.passhash
         /\ UNCHANGED <<stmt, turn, result, socket, seen>>
BY KnownTypes DEF Start, Fields, Known, StreamInv, Operations

LEMMA OpenLeaves ==
  ASSUME Known, Open
  PROVE  /\ pc = "open" /\ pc' = "logon" /\ ~written'
         /\ socket'.good /\ socket'.peer = "alive"
         /\ socket'.out = <<>> /\ socket'.in = <<>>
         /\ conn'.tx = conn.tx /\ conn'.passhash = NoPassword
         /\ conn'.session = conn.session
         /\ seen'.whole = seen.whole /\ seen'.late = FALSE
         /\ seen'.reused = seen.reused /\ seen'.committed = seen.committed
         /\ UNCHANGED <<stmt, turn, result>>
BY KnownTypes, ClosedLeaves
   DEF Open, NoSocket, History, Known, StreamInv, Operations

LEMMA TakeLeaves ==
  ASSUME Known, NEW s \in Settings, NEW pw \in Passwords, Take(s, pw)
  PROVE  /\ pc = "pooled" /\ pc' = "check" /\ ~written'
         /\ UNCHANGED <<turn, socket>> /\ result' = "ok"
         /\ conn'.tx = FALSE /\ conn'.passhash = conn.passhash
         /\ conn'.session = conn.session
         /\ seen'.whole = TRUE /\ seen'.committed = FALSE
         /\ seen'.reused = socket.good
         /\ seen'.auth = seen.auth /\ seen'.late = seen.late
BY KnownTypes DEF Take, History, Fields, Known, StreamInv, Operations

LEMMA BrokerLeaves ==
  ASSUME Known, Answer \/ Refuse \/ Trickle \/ Disconnect
  PROVE  /\ UNCHANGED <<pc, written, stmt, turn, result, conn, seen>>
         /\ socket.good /\ socket.peer = "alive" /\ socket'.good
         /\ Answer \/ Trickle => socket'.peer = "alive"
         /\ Refuse \/ Disconnect => socket'.peer # "alive"
<1>1. socket \in Sockets
  BY KnownTypes
<1>2. /\ UNCHANGED <<pc, written, stmt, turn, result, conn, seen>>
      /\ socket.good /\ socket.peer = "alive" /\ socket'.good
  BY <1>1 DEF Answer, Refuse, Trickle, Disconnect, Up, Sockets
<1>3. Answer \/ Trickle => socket'.peer = "alive"
  BY <1>1 DEF Answer, Trickle, Up, Sockets
<1>4. Refuse \/ Disconnect => socket'.peer # "alive"
  BY <1>1 DEF Refuse, Disconnect, Sockets
<1>5. QED
  BY <1>2, <1>3, <1>4

LEMMA QuietLeaves ==
  ASSUME Known, Row \/ RowSkipped \/ Deinit \/ Finish
  PROVE  /\ ~written /\ ~written' /\ UNCHANGED <<stmt, result, conn, socket>>
         /\ seen'.auth = seen.auth /\ seen'.late = seen.late
         /\ seen'.reused = seen.reused /\ seen'.committed = seen.committed
         /\ \/ pc = "rows" /\ pc' = "content" /\ seen' = seen
               /\ (socket.good \/ ~stmt.conf.no_error)
            \/ pc = "rows" /\ pc' = "rows" /\ ~socket.good /\ seen'.whole = FALSE
            \/ pc = "rows" /\ pc' = "finish" /\ seen' = seen
            \/ /\ pc = "finish" /\ seen' = seen
               /\ \/ conn.tx /\ pc' \in {"commit", "drain"}
                  \/ ~conn.tx /\ pc' = "release"
<1>1. ~written /\ ~written'
  BY DEF Row, RowSkipped, Deinit, Finish, Known, StreamInv, Operations
<1>2. CASE Row \/ Deinit
  BY <1>1, <1>2 DEF Row, Deinit
<1>3. CASE RowSkipped
  BY <1>1, <1>3, IncompleteLeaves DEF RowSkipped
<1>4. CASE Finish
  BY <1>1, <1>4 DEF Finish
<1>5. QED
  BY <1>2, <1>3, <1>4

LEMMA ReleaseLeaves ==
  ASSUME Known, Release
  PROVE  /\ pc = "release" /\ pc' = "pooled" /\ ~written'
         /\ UNCHANGED <<stmt, turn, result, seen>>
         /\ \/ /\ socket.good /\ socket' = socket
               /\ conn'.tx = conn.tx /\ conn'.passhash = conn.passhash
            \/ /\ socket' = NoSocket /\ conn' = NewConnection
BY KnownTypes DEF Release, Fields, Known, StreamInv, Operations

-----------------------------------------------------------------------------
(***************************************************************************)
(* The session a statement uses                                            *)
(***************************************************************************)

(* While connect() logs on, the connection belongs to no passcode, and the *)
(* broker has been told the one of the statement.                          *)
Authentic ==
  /\ OwnSession
  /\ pc = "logon" => /\ conn.passhash = NoPassword
                     /\ written /\ socket.good => seen.auth = stmt.pw

Own == pc \notin {"pooled", "check", "open", "logon"}

LEMMA OwnSessionIs ==
  ASSUME Known
  PROVE  OwnSession <=>
           /\ socket.good /\ Own => seen.auth = stmt.pw
           /\ conn.passhash # NoPassword /\ socket.good => conn.passhash = seen.auth
BY KnownTypes DEF OwnSession, Own, Phases

LEMMA AuthenticStep == Known /\ Known' /\ Authentic /\ [Next]_vars => Authentic'
<1> SUFFICES ASSUME Known, Known', Authentic, [Next]_vars PROVE Authentic'
  OBVIOUS
<1> DEFINE Uses == socket.good /\ Own => seen.auth = stmt.pw
           Cached == conn.passhash # NoPassword /\ socket.good
                       => conn.passhash = seen.auth
           Logging == pc = "logon" =>
                        /\ conn.passhash = NoPassword
                        /\ written /\ socket.good => seen.auth = stmt.pw
<1>0. Uses /\ Cached /\ Logging
  BY OwnSessionIs DEF Authentic
<1> SUFFICES Uses' /\ Cached' /\ Logging'
  BY DEF Authentic, OwnSession, Own
<1>1. CASE UNCHANGED vars
  BY <1>0, <1>1 DEF vars, Own
<1>2. ASSUME NEW s \in Settings, NEW pw \in Passwords, Take(s, pw)
      PROVE  Uses' /\ Cached' /\ Logging'
  BY <1>0, <1>2, TakeLeaves DEF Own
<1>3. CASE Check
  <2>1. stmt.pw # NoPassword
    BY KnownTypes, ConnectionAssumption DEF Statements
  <2>2. QED
    BY <1>0, <1>3, <2>1, CheckLeaves, NoSocketIs DEF Own
<1>4. CASE Drain
  BY <1>0, <1>4, DrainLeaves, NoSocketIs DEF Own
<1>5. CASE Open
  BY <1>0, <1>5, OpenLeaves DEF Own
<1>6. CASE Start
  BY <1>0, <1>6, StartLeaves DEF Own
<1>7. CASE Write
  BY <1>0, <1>7, WriteLeaves DEF Own
<1>8. CASE Failure
  BY <1>0, <1>8, FailureLeaves, NoSocketIs DEF Own
<1>9. CASE ReadReply
  BY <1>0, <1>9, ReplyLeaves DEF Own
<1>10. CASE ReadDisconnect
  BY <1>0, <1>10, DisconnectLeaves, NoSocketIs DEF Own
<1>11. CASE ReadReturn
  BY <1>0, <1>11, ReturnLeaves DEF Own
<1>12. CASE Row \/ RowSkipped \/ Deinit \/ Finish
  BY <1>0, <1>12, QuietLeaves DEF Own
<1>13. CASE Release
  BY <1>0, <1>13, ReleaseLeaves, NoSocketIs DEF Own
<1>14. CASE Answer \/ Refuse \/ Trickle \/ Disconnect
  BY <1>0, <1>14, BrokerLeaves DEF Own
<1>15. QED
  BY <1>1, <1>2, <1>3, <1>4, <1>5, <1>6, <1>7, <1>8, <1>9, <1>10, <1>11, <1>12,
     <1>13, <1>14 DEF Next, InCall, Failure

LEMMA InitStream == Init => StreamInv
  BY DEF Init, StreamInv, NoSocket

LEMMA AlwaysKnown == Spec => []Known
<1>1. Known /\ [Next]_vars => Known'
  BY TypeStep, StreamStep DEF Known
<1>2. Init => Known
  BY InitTyped, InitStream DEF Known
<1>3. QED
  BY <1>1, <1>2, PTL DEF Spec

LEMMA InitAuthentic == Init => Authentic
  BY DEF Init, Authentic, OwnSession, NewConnection, NoSocket

(* No statement uses a session another passcode opened: passhash_ is what  *)
(* the broker was told on the socket that is open, through every failure,  *)
(* reconnection and reuse (connection.cpp:239-252).                        *)
THEOREM NoForeignSession == Spec => []OwnSession
<1>1. Spec => []Authentic
  BY InitAuthentic, AuthenticStep, AlwaysKnown, PTL DEF Spec
<1>2. Authentic => OwnSession
  BY DEF Authentic
<1>3. QED
  BY <1>1, <1>2, PTL

-----------------------------------------------------------------------------
(***************************************************************************)
(* What is committed                                                       *)
(***************************************************************************)

(* A statement that lost a message has no socket to commit it on, or is at *)
(* its end; connect() opens one only for a statement that lost none.       *)
WholeInv ==
  /\ pc \in {"check", "open"} => seen.whole
  /\ ~seen.whole => ~socket.good \/ pc \in {"pooled", "release"}

LEMMA WholeStep == Known /\ WholeInv /\ [Next]_vars => WholeInv'
<1> SUFFICES ASSUME Known, WholeInv, [Next]_vars PROVE WholeInv'
  OBVIOUS
<1>0. seen.whole \in BOOLEAN
  BY KnownTypes DEF History
<1>1. CASE UNCHANGED vars
  BY <1>1 DEF vars, WholeInv
<1>2. ASSUME NEW s \in Settings, NEW pw \in Passwords, Take(s, pw)
      PROVE  WholeInv'
  BY <1>2, TakeLeaves DEF WholeInv
<1>3. CASE Check
  BY <1>0, <1>3, CheckLeaves, NoSocketIs DEF WholeInv
<1>4. CASE Drain
  BY <1>0, <1>4, DrainLeaves, NoSocketIs DEF WholeInv
<1>5. CASE Open
  BY <1>0, <1>5, OpenLeaves DEF WholeInv
<1>6. CASE Start
  BY <1>0, <1>6, StartLeaves DEF WholeInv
<1>7. CASE Write
  BY <1>0, <1>7, WriteLeaves DEF WholeInv, Operations
<1>8. CASE Failure
  BY <1>0, <1>8, FailureLeaves, NoSocketIs DEF WholeInv
<1>9. CASE ReadReply
  BY <1>0, <1>9, ReplyLeaves DEF WholeInv
<1>10. CASE ReadDisconnect
  BY <1>0, <1>10, DisconnectLeaves, NoSocketIs DEF WholeInv
<1>11. CASE ReadReturn
  BY <1>0, <1>11, ReturnLeaves DEF WholeInv
<1>12. CASE Row \/ RowSkipped \/ Deinit \/ Finish
  BY <1>0, <1>12, QuietLeaves DEF WholeInv
<1>13. CASE Release
  BY <1>0, <1>13, ReleaseLeaves, NoSocketIs DEF WholeInv
<1>14. CASE Answer \/ Refuse \/ Trickle \/ Disconnect
  BY <1>0, <1>14, BrokerLeaves DEF WholeInv
<1>15. QED
  BY <1>1, <1>2, <1>3, <1>4, <1>5, <1>6, <1>7, <1>8, <1>9, <1>10, <1>11, <1>12,
     <1>13, <1>14 DEF Next, InCall, Failure

\* Only Write makes a frame of what was none.
LEMMA OnlyWriteWrites ==
  ASSUME Known, [Next]_vars, ~written, written'
  PROVE  Write
<1>1. CASE UNCHANGED vars
  BY <1>1 DEF vars
<1>2. CASE Failure
  BY <1>2, FailureLeaves
<1>3. CASE Check \/ Drain
  BY <1>3, CheckLeaves, DrainLeaves
<1>4. QED
  BY <1>1, <1>2, <1>3
     DEF Next, InCall, Failure, Take, Open, Start, ReadReply, ReadDisconnect,
         ReadReturn, Row, RowSkipped, Deinit, Finish, Release, Answer, Refuse,
         Trickle, Disconnect

(* A COMMIT is written only to the session that has the BEGIN and every    *)
(* row of the statement, after whatever failures and under no_error too    *)
(* (udf.cpp:123-135, 283-289, 340-345).                                    *)
THEOREM OnlyWholeIsCommitted == Spec => CommitIsWhole
<1>1. Init => WholeInv
  BY DEF Init, WholeInv
<1>2. Known /\ WholeInv /\ [Next]_vars
        => [pc = "commit" /\ ~written /\ written' => seen.whole]_vars
  BY OnlyWriteWrites, WriteLeaves DEF WholeInv
<1>3. QED
  BY <1>1, <1>2, WholeStep, AlwaysKnown, PTL DEF Spec, CommitIsWhole

-----------------------------------------------------------------------------
(***************************************************************************)
(* What a receipt confirms                                                 *)
(***************************************************************************)

\* read() waits for the receipt of the frame just written.
Waiting == pc \in Operations /\ written /\ ~conn.received

(* While no receipt was given up on a session, a frame that asks for one   *)
(* or a reply that confirms is in flight only while read() waits for it,   *)
(* and then there is one of them: a receipt is always the own one of the   *)
(* frame at hand.                                                          *)
AskedOnce ==
  \A k \in DOMAIN socket.out : socket.out[k].receipt =>
    /\ socket.out[k].fresh /\ Waiting
    /\ \A l \in DOMAIN socket.in : socket.in[l].kind = "part"
    /\ \A l \in DOMAIN socket.out : socket.out[l].receipt => l = k

AnsweredOnce ==
  \A k \in DOMAIN socket.in : Confirms(socket.in[k]) =>
    /\ socket.in[k].fresh /\ Waiting
    /\ \A l \in DOMAIN socket.in : l < k => socket.in[l].kind = "part"

\* A wait that ends on an open socket without the receipt ends with an error.
EndsWithReceipt ==
  Done /\ seen.awaited = "sent" /\ socket.good => conn.error

ConfirmInv == ~seen.late => AskedOnce /\ AnsweredOnce /\ EndsWithReceipt

\* Steps that neither write nor read keep it if they do not begin or end a
\* wait.
LEMMA NothingInFlight ==
  ASSUME socket.out = <<>>, socket.in = <<>>
  PROVE  AskedOnce /\ AnsweredOnce
BY DEF AskedOnce, AnsweredOnce

LEMMA SameInFlight ==
  ASSUME AskedOnce, AnsweredOnce, UNCHANGED socket, Waiting <=> Waiting'
  PROVE  AskedOnce' /\ AnsweredOnce'
BY DEF AskedOnce, AnsweredOnce

LEMMA EmptiedInFlight ==
  ASSUME socket' = NoSocket
  PROVE  AskedOnce' /\ AnsweredOnce' /\ EndsWithReceipt'
BY NoSocketIs DEF AskedOnce, AnsweredOnce, EndsWithReceipt

\* A part is neither a receipt nor the end of a wait.
LEMMA OnlyParts ==
  ASSUME Known, NEW n \in 1..Len(socket.in)
  PROVE  /\ \A k \in 1..n : k \in DOMAIN socket.in /\ socket.in[k] \in Reply
         /\ (Kinds(n) \ {"part"} # {}) <=> \E k \in 1..n : socket.in[k].kind # "part"
<1>1. socket.in \in Seq(Reply)
  BY KnownTypes, Streams
<1>2. \A k \in 1..n : k \in DOMAIN socket.in /\ socket.in[k] \in Reply
  BY <1>1
<1>3. (Kinds(n) \ {"part"} # {}) <=> \E k \in 1..n : socket.in[k].kind # "part"
  <2>1. Kinds(n) = {socket.in[k].kind : k \in 1..n}
    BY DEF Kinds
  <2>2. QED
    BY <2>1, Zenon
<1>4. QED
  BY <1>2, <1>3

\* Without a wait, reading replies leaves nothing but errors and parts; in a
\* wait that goes on, only parts were read.
LEMMA ReadInFlight ==
  ASSUME Known, AskedOnce, AnsweredOnce, NEW n \in 1..Len(socket.in),
         socket' = Unread(n),
         \/ ~Waiting
         \/ Waiting' \/ \E k \in 1..n : socket.in[k].kind # "part"
  PROVE  AskedOnce' /\ AnsweredOnce'
<1>1. /\ socket.out \in Seq(Frame) /\ socket.in \in Seq(Reply)
      /\ socket'.out = socket.out
      /\ socket'.in = SubSeq(socket.in, n + 1, Len(socket.in))
  BY KnownTypes, Streams, ReadLeaves
<1>2. \A k \in DOMAIN socket'.in :
        k + n \in DOMAIN socket.in /\ socket'.in[k] = socket.in[k + n] /\ k + n > n
  BY <1>1
<1>3. AskedOnce'
  BY <1>1, <1>2, OnlyParts DEF AskedOnce
<1>5. AnsweredOnce'
  <2> SUFFICES ASSUME NEW k \in DOMAIN socket'.in, Confirms(socket'.in[k])
               PROVE  /\ socket'.in[k].fresh /\ Waiting'
                      /\ \A l \in DOMAIN socket'.in : l < k => socket'.in[l].kind = "part"
    BY DEF AnsweredOnce
  <2>1. k + n \in DOMAIN socket.in /\ Confirms(socket.in[k + n])
    BY <1>2
  <2>2. /\ socket.in[k + n].fresh /\ Waiting
        /\ \A l \in DOMAIN socket.in : l < k + n => socket.in[l].kind = "part"
    BY <2>1 DEF AnsweredOnce
  <2>3. \A l \in 1..n : l \in DOMAIN socket.in /\ l < k + n
    <3>1. k \in Nat /\ n \in Nat /\ k >= 1
      BY <1>1
    <3>2. QED
      BY <3>1, OnlyParts
  <2>4. Waiting'
    BY <2>2, <2>3
  <2>5. \A l \in DOMAIN socket'.in : l < k => l + n < k + n
    BY <1>1
  <2>6. QED
    BY <1>2, <2>2, <2>4, <2>5
<1>6. QED
  BY <1>3, <1>5

LEMMA WriteConfirms ==
  ASSUME Known, AskedOnce, AnsweredOnce, Write
  PROVE  AskedOnce' /\ AnsweredOnce' /\ EndsWithReceipt'
<1> DEFINE old == [k \in DOMAIN socket.out |-> [socket.out[k] EXCEPT !.fresh = FALSE]]
           f == [kind |-> pc, receipt |-> Asks, fresh |-> TRUE]
<1>1. socket.out \in Seq(Frame) /\ socket \in Sockets
  BY KnownTypes, Streams
<1>2. socket'.out = Append(old, f) /\ socket'.in = <<>>
  BY <1>1, WriteLeaves DEF Write, Sockets
<1>3. Asks \in BOOLEAN /\ f.receipt = Asks /\ f.fresh
  BY AsksTyped, WriteLeaves DEF Known
<1>4. /\ Len(old) = Len(socket.out) /\ DOMAIN old = 1..Len(socket.out)
      /\ Len(socket.out) \in Nat /\ old \in Seq(Frame)
  BY <1>1, StaleTyped
<1>5. \A k \in DOMAIN socket.out : old[k].receipt = socket.out[k].receipt
  <2>1. \A g \in Frame : [g EXCEPT !.fresh = FALSE].receipt = g.receipt
    BY DEF Frame
  <2>2. \A k \in DOMAIN socket.out : socket.out[k] \in Frame
    BY <1>1
  <2>3. QED
    BY <2>1, <2>2
<1>6. \A k \in DOMAIN socket.out : ~socket.out[k].receipt
  BY WriteLeaves DEF AskedOnce, Waiting
<1> HIDE DEF old, f
<1>7. /\ DOMAIN socket'.out = 1..(Len(socket.out) + 1)
      /\ socket'.out[Len(socket.out) + 1] = f
      /\ \A k \in 1..Len(socket.out) : socket'.out[k] = old[k]
  BY <1>2, <1>4
<1>8. \A k \in DOMAIN socket'.out :
        socket'.out[k].receipt => k = Len(socket.out) + 1 /\ Asks
  BY <1>1, <1>3, <1>4, <1>5, <1>6, <1>7
<1>9. Asks => Waiting'
  BY <1>3, WriteLeaves DEF Waiting
<1>10. AskedOnce'
  BY <1>2, <1>3, <1>7, <1>8, <1>9 DEF AskedOnce
<1>11. AnsweredOnce'
  BY <1>2 DEF AnsweredOnce
<1>12. EndsWithReceipt'
  BY <1>3, WriteLeaves DEF EndsWithReceipt, Done
<1>13. QED
  BY <1>10, <1>11, <1>12

LEMMA ReplyConfirms ==
  ASSUME Known, AskedOnce, AnsweredOnce, ReadReply
  PROVE  AskedOnce' /\ AnsweredOnce' /\ EndsWithReceipt'
<1>1. PICK n \in 1..Len(socket.in) :
        /\ conn' = Parsed(n) /\ socket' = Unread(n)
        /\ IF \E k \in 1..n : socket.in[k].fresh /\ Confirms(socket.in[k])
             THEN seen' = [seen EXCEPT !.awaited = "done", !.unconfirmed = 0]
             ELSE UNCHANGED seen
  BY DEF ReadReply
<1> DEFINE handled == \E k \in 1..n : socket.in[k].kind # "part"
<1>0. conn'.received => handled
  BY <1>1, KnownTypes, ReadLeaves, OnlyParts DEF ReadReply, Reading
<1>2. AskedOnce' /\ AnsweredOnce'
  <2>1. pc' = pc /\ written' = written
    BY DEF ReadReply
  <2>2. CASE conn'.received
    BY <1>0, <1>1, <2>2, ReadInFlight
  <2>3. CASE ~conn'.received
    <3>1. Waiting <=> Waiting'
      BY <2>1, <2>3 DEF ReadReply, Reading, Waiting
    <3>2. QED
      BY <1>1, <3>1, ReadInFlight
  <2>4. QED
    BY <2>2, <2>3
<1>3. CASE \E k \in 1..n : socket.in[k].fresh /\ Confirms(socket.in[k])
  <2>1. seen'.awaited = "done"
    BY <1>1, <1>3, KnownTypes DEF History
  <2>2. QED
    BY <1>2, <2>1 DEF EndsWithReceipt
<1>4. CASE ~\E k \in 1..n : socket.in[k].fresh /\ Confirms(socket.in[k])
  <2> SUFFICES ASSUME handled PROVE EndsWithReceipt'
    BY <1>0, <1>2 DEF EndsWithReceipt, Done
  <2>1. PICK k \in 1..n : socket.in[k].kind # "part"
    OBVIOUS
  <2>2. k \in DOMAIN socket.in /\ socket.in[k] \in Reply
    BY OnlyParts
  <2>3. socket.in[k].kind = "error"
    BY <1>4, <2>1, <2>2 DEF AnsweredOnce, Confirms, Reply
  <2>4. "error" \in Kinds(n)
    BY <2>3 DEF Kinds
  <2>5. conn'.error
    BY <1>1, <2>4, KnownTypes, ReadLeaves
  <2>6. QED
    BY <2>5 DEF EndsWithReceipt
<1>5. QED
  BY <1>3, <1>4

LEMMA BrokerConfirms ==
  ASSUME Known, AskedOnce, AnsweredOnce, EndsWithReceipt,
         Answer \/ Refuse \/ Trickle \/ Disconnect
  PROVE  AskedOnce' /\ AnsweredOnce' /\ EndsWithReceipt'
<1>1. /\ socket \in Sockets /\ socket.out \in Seq(Frame)
      /\ socket.in \in Seq(Reply)
  BY KnownTypes, Streams
<1>2. UNCHANGED <<pc, written, conn, seen>> /\ socket.good
  BY BrokerLeaves
<1>3. EndsWithReceipt' /\ (Waiting <=> Waiting')
  BY <1>2 DEF EndsWithReceipt, Done, Waiting
<1>4. CASE Answer
  <2> DEFINE f == Head(socket.out)
             r == [kind |-> IF f.kind = "logon" THEN "connected" ELSE "receipt",
                   fresh |-> f.fresh]
  <2>1. socket.out # <<>> /\ 1 \in DOMAIN socket.out /\ f = socket.out[1]
    BY <1>1, <1>4 DEF Answer
  <2>2. \A k \in DOMAIN Tail(socket.out) :
          k + 1 \in DOMAIN socket.out /\ Tail(socket.out)[k] = socket.out[k + 1] /\ k + 1 # 1
    BY <1>1, <2>1
  <2>3. \A k, l \in DOMAIN Tail(socket.out) : k + 1 = l + 1 => k = l
    BY <1>1, <2>1
  <2>4. r.fresh = f.fresh
    OBVIOUS
  <2> HIDE DEF f, r
  <2>5. CASE f.receipt
    <3>1. /\ Len(socket.in) < MaxInFlight
          /\ socket' = [socket EXCEPT !.out = Tail(@), !.in = Append(@, r)]
      BY <1>4, <2>5 DEF Answer, f, r
    <3>2. /\ f.fresh /\ Waiting
          /\ \A l \in DOMAIN socket.in : socket.in[l].kind = "part"
          /\ \A l \in DOMAIN socket.out : socket.out[l].receipt => l = 1
      BY <2>1, <2>5 DEF AskedOnce
    <3>3. socket'.out = Tail(socket.out) /\ socket'.in = Append(socket.in, r)
      BY <1>1, <3>1 DEF Sockets
    <3>4. \A k \in DOMAIN socket'.in :
            \/ k \in DOMAIN socket.in /\ socket'.in[k] = socket.in[k]
            \/ /\ k = Len(socket.in) + 1 /\ socket'.in[k] = r
               /\ \A l \in DOMAIN socket'.in : l < k =>
                    l \in DOMAIN socket.in /\ socket'.in[l] = socket.in[l]
      BY <1>1, <3>3
    <3>5. AnsweredOnce'
      BY <1>3, <2>4, <3>2, <3>4 DEF AnsweredOnce, Confirms
    <3>6. \A k \in DOMAIN socket'.out : ~socket'.out[k].receipt
      BY <2>2, <3>2, <3>3
    <3>7. AskedOnce'
      BY <3>6 DEF AskedOnce
    <3>8. QED
      BY <1>3, <3>5, <3>7
  <2>6. CASE ~f.receipt
    <3>1. socket' = [socket EXCEPT !.out = Tail(@)]
      BY <1>4, <2>6 DEF Answer, f
    <3>2. socket'.out = Tail(socket.out) /\ socket'.in = socket.in
      BY <1>1, <3>1 DEF Sockets
    <3>3. AnsweredOnce'
      BY <1>3, <3>2 DEF AnsweredOnce
    <3>4. AskedOnce'
      BY <1>3, <2>2, <2>3, <3>2 DEF AskedOnce
    <3>5. QED
      BY <1>3, <3>3, <3>4
  <2>7. QED
    BY <2>5, <2>6
<1>5. ASSUME NEW r, ~Confirms(r), socket'.in = Append(socket.in, r),
             \/ r.kind = "part" /\ socket'.out = socket.out
             \/ socket'.out = <<>>
      PROVE  AskedOnce' /\ AnsweredOnce'
  <2>1. \A k \in DOMAIN socket'.in :
          \/ k \in DOMAIN socket.in /\ socket'.in[k] = socket.in[k]
             /\ \A l \in DOMAIN socket'.in : l < k =>
                  l \in DOMAIN socket.in /\ socket'.in[l] = socket.in[l]
          \/ socket'.in[k] = r
    BY <1>1, <1>5
  <2>2. AskedOnce'
    BY <1>3, <1>5, <2>1 DEF AskedOnce
  <2>3. AnsweredOnce'
    BY <1>3, <1>5, <2>1 DEF AnsweredOnce
  <2>4. QED
    BY <2>2, <2>3
<1>6. CASE Refuse
  <2> DEFINE r == [kind |-> "error", fresh |-> Head(socket.out).fresh]
  <2>1. socket'.out = <<>> /\ socket'.in = Append(socket.in, r) /\ r.kind = "error"
    BY <1>1, <1>6 DEF Refuse, Sockets
  <2> HIDE DEF r
  <2>2. QED
    BY <1>3, <1>5, <2>1 DEF Confirms
<1>7. CASE Trickle
  <2> DEFINE r == [kind |-> "part", fresh |-> FALSE]
  <2>1. socket'.out = socket.out /\ socket'.in = Append(socket.in, r) /\ r.kind = "part"
    BY <1>1, <1>7 DEF Trickle, Sockets
  <2> HIDE DEF r
  <2>2. QED
    BY <1>3, <1>5, <2>1 DEF Confirms
<1>8. CASE Disconnect
  <2>1. socket'.out = <<>> /\ socket'.in = socket.in
    BY <1>1, <1>8 DEF Disconnect, Sockets
  <2>2. AskedOnce' /\ AnsweredOnce'
    BY <1>3, <2>1 DEF AskedOnce, AnsweredOnce
  <2>3. QED
    BY <1>3, <2>2
<1>9. QED
  BY <1>4, <1>6, <1>7, <1>8

LEMMA ConnectedConfirms ==
  ASSUME Known, AskedOnce, AnsweredOnce, Check \/ Drain
  PROVE  AskedOnce' /\ AnsweredOnce' /\ EndsWithReceipt'
<1>1. pc \in {"check", "drain"} /\ ~written'
  BY CheckLeaves, DrainLeaves
<1>2. ~Waiting /\ ~Waiting' /\ EndsWithReceipt'
  BY <1>1 DEF Waiting, Operations, EndsWithReceipt, Done
<1>3. \E alive, dead : Connected(alive, dead)
  BY DEF Check, Drain
<1>4. CASE \E n \in 1..Len(socket.in) : socket' = Unread(n)
  BY <1>2, <1>4, ReadInFlight
<1>5. CASE socket' = NoSocket
  BY <1>2, <1>5, EmptiedInFlight
<1>6. CASE socket' = socket
  BY <1>2, <1>6, SameInFlight
<1>7. Throw(conn, socket) => socket' \in {NoSocket, socket}
  BY DEF Throw
<1>8. QED
  BY <1>3, <1>4, <1>5, <1>6, <1>7 DEF Connected

LEMMA FailureConfirms ==
  ASSUME Known, ConfirmInv, Failure
  PROVE  ConfirmInv'
<1>1. ~written' /\ ~Waiting' /\ EndsWithReceipt' /\ (seen.late => seen'.late)
  BY FailureLeaves DEF Waiting, EndsWithReceipt, Done
<1> SUFFICES ASSUME ~seen'.late PROVE AskedOnce' /\ AnsweredOnce'
  BY <1>1 DEF ConfirmInv
<1>2. AskedOnce /\ AnsweredOnce
  BY <1>1 DEF ConfirmInv
<1>3. CASE pc # "commit"
  BY <1>3, FailureLeaves, EmptiedInFlight
<1>4. CASE pc = "commit" /\ (SendInput \/ SendTimeout)
  <2>1. ~Waiting
    BY <1>4 DEF SendInput, SendTimeout, Sending, Waiting
  <2>2. \/ \E n \in 1..Len(socket.in) : socket' = Unread(n)
        \/ socket' = NoSocket \/ socket' = socket
    BY <1>4 DEF SendInput, SendTimeout, Throw
  <2>3. QED
    BY <1>1, <1>2, <2>1, <2>2, ReadInFlight, EmptiedInFlight, SameInFlight
<1>5. CASE pc = "commit" /\ ReadFail
  <2>1. socket' = socket /\ socket.in = <<>> /\ socket.out = <<>>
    BY <1>5, WithEnd DEF ReadFail, Throw, Known
  <2>2. QED
    BY <2>1 DEF AskedOnce, AnsweredOnce
<1>6. CASE ReadTimeout
  <2>1. seen'.late
    BY <1>6, KnownTypes DEF ReadTimeout, History
  <2>2. QED
    BY <2>1
<1>7. CASE pc = "commit" /\ ReadError
  <2>1. socket' = socket /\ ~Waiting
    BY <1>7 DEF ReadError, Throw, Done, Waiting
  <2>2. QED
    BY <1>1, <1>2, <2>1, SameInFlight
<1>8. QED
  BY <1>3, <1>4, <1>5, <1>6, <1>7 DEF Failure, OpenFail

LEMMA ConfirmStep == Known /\ ConfirmInv /\ [Next]_vars => ConfirmInv'
<1> SUFFICES ASSUME Known, ConfirmInv, [Next]_vars PROVE ConfirmInv'
  OBVIOUS
<1>1. CASE Failure
  BY <1>1, FailureConfirms
<1>2. CASE Open \/ ReadDisconnect
  <2>1. socket'.out = <<>> /\ socket'.in = <<>>
    BY <1>2, OpenLeaves, DisconnectLeaves, NoSocketIs
  <2>2. EndsWithReceipt'
    BY <1>2, OpenLeaves, DisconnectLeaves, NoSocketIs DEF EndsWithReceipt, Done
  <2>3. QED
    BY <2>1, <2>2 DEF AskedOnce, AnsweredOnce, ConfirmInv
<1>3. CASE Write
  BY <1>3, WriteLeaves, WriteConfirms DEF ConfirmInv
<1>4. CASE ReadReply
  BY <1>4, ReplyLeaves, ReplyConfirms DEF ConfirmInv
<1>5. CASE Check \/ Drain
  BY <1>5, CheckLeaves, DrainLeaves, ConnectedConfirms DEF ConfirmInv
<1>6. CASE Answer \/ Refuse \/ Trickle \/ Disconnect
  BY <1>6, BrokerLeaves, BrokerConfirms DEF ConfirmInv
<1>7. CASE \/ \E s \in Settings, pw \in Passwords : Take(s, pw)
           \/ Start \/ ReadReturn \/ Row \/ RowSkipped \/ Deinit \/ Finish \/ Release
  <2> DEFINE Kept == /\ socket' = socket \/ socket' = NoSocket
                     /\ ~written'
                     /\ seen'.late = seen.late /\ ~Waiting
  <2>0. ASSUME NEW s \in Settings, NEW pw \in Passwords, Take(s, pw) PROVE Kept
    BY <2>0, TakeLeaves DEF Waiting, Operations
  <2>1. ASSUME Start \/ ReadReturn \/ Release PROVE Kept
    BY <2>1, StartLeaves, ReturnLeaves, ReleaseLeaves DEF Waiting, Operations
  <2>2. ASSUME Row \/ RowSkipped \/ Deinit \/ Finish PROVE Kept
    <3>1. ~written /\ ~written' /\ socket' = socket /\ seen'.late = seen.late
      BY <2>2, QuietLeaves
    <3>2. QED
      BY <3>1 DEF Waiting
  <2>3. Kept
    BY <1>7, <2>0, <2>1, <2>2
  <2>4. EndsWithReceipt' /\ ~Waiting'
    BY <2>3 DEF EndsWithReceipt, Done, Waiting
  <2>5. QED
    BY <2>3, <2>4, SameInFlight, EmptiedInFlight DEF ConfirmInv
<1>8. CASE UNCHANGED vars
  BY <1>8 DEF vars, ConfirmInv, AskedOnce, AnsweredOnce, EndsWithReceipt, Done, Waiting
<1>9. QED
  BY <1>1, <1>2, <1>3, <1>4, <1>5, <1>6, <1>7, <1>8 DEF Next, InCall, Failure

LEMMA AlwaysConfirm == Spec => []ConfirmInv
<1>1. Init => ConfirmInv
  BY NoSocketIs DEF Init, ConfirmInv, AskedOnce, AnsweredOnce, EndsWithReceipt, Done
<1>2. QED
  BY <1>1, ConfirmStep, AlwaysKnown, PTL DEF Spec

(* A session goes back to the pool with no receipt on its way, whatever it *)
(* was used for, as long as no wait on it timed out                        *)
(* (connection.cpp:482-510, connection.hpp:165-192).                       *)
THEOREM NoReceiptIsLeft == Spec => []IdleOwesNothing
<1>1. ConfirmInv => IdleOwesNothing
  BY DEF ConfirmInv, AskedOnce, AnsweredOnce, Waiting, Operations, IdleOwesNothing
<1>2. QED
  BY <1>1, AlwaysConfirm, PTL

(* A row that reports success on a socket that is open and asked for a     *)
(* receipt has read its own, as long as no receipt timed out on that       *)
(* session: no reply of an earlier frame is taken for it                   *)
(* (connection.cpp:482-510).                                               *)
THEOREM SuccessIsConfirmed == Spec => ConfirmedWhileUp
<1>1. ASSUME Known, ConfirmInv, [Next]_vars,
             pc = "content", pc' = "rows", socket.good, ~seen.late
      PROVE  seen.awaited # "sent"
  <2>1. ReadReturn
    <3>1. CASE UNCHANGED vars
      BY <1>1, <3>1 DEF vars
    <3>2. CASE Failure
      <4>1. pc' # "rows"
        BY <1>1, <3>2
           DEF Failure, OpenFail, SendInput, SendTimeout, ReadFail, ReadTimeout,
               ReadError, Throw, InitPhases
      <4>2. QED
        BY <1>1, <4>1
    <3>3. QED
      BY <1>1, <3>1, <3>2, CheckLeaves, DrainLeaves
         DEF Next, InCall, Failure, Take, Open, Start, Write, ReadReply,
             ReadDisconnect, Row, RowSkipped, Deinit, Finish, Release, Answer,
             Refuse, Trickle, Disconnect
  <2>2. QED
    BY <1>1, <2>1 DEF ReadReturn, Refused, ConfirmInv, EndsWithReceipt
<1>2. Known /\ ConfirmInv /\ [Next]_vars
        => [pc = "content" /\ pc' = "rows" /\ socket.good /\ ~seen.late
              => seen.awaited # "sent"]_vars
  BY <1>1
<1>3. QED
  BY <1>2, AlwaysConfirm, AlwaysKnown, PTL DEF Spec, ConfirmedWhileUp

-----------------------------------------------------------------------------
(***************************************************************************)
(* The outcomes the pool is promised                                       *)
(***************************************************************************)

(* Only a connection that was open before may be CONNECTED from before,    *)
(* and so pass a logon whose socket the broker closed.                     *)
Fresh ==
  /\ pc = "pooled" /\ ~socket.good => ~conn.session
  /\ pc = "check" /\ socket.good => seen.reused
  /\ pc \in {"check", "open"} /\ ~seen.reused => ~conn.session
  /\ pc = "logon" /\ ~seen.reused /\ conn.session
       => written /\ conn.received /\ socket.good
  /\ pc = "start" /\ ~seen.reused => socket.good

(* The COMMIT is written once, a row is not sent to a socket that no_error *)
(* ignores, and within a transaction no row waits for an answer.           *)
Rows ==
  /\ seen.committed => \/ pc \in {"pooled", "release"}
                       \/ pc = "commit" /\ written
  /\ pc = "content" /\ ~written /\ ~socket.good => ~stmt.conf.no_error
  /\ pc = "content" /\ written /\ conn.tx => socket.good /\ conn.received

LEMMA FreshStep == Known /\ Fresh /\ [Next]_vars => Fresh'
<1> SUFFICES ASSUME Known, Fresh, [Next]_vars PROVE Fresh'
  OBVIOUS
<1>0. seen.reused \in BOOLEAN /\ socket.good \in BOOLEAN /\ conn.session \in BOOLEAN
  BY KnownTypes DEF History, Sockets, Fields
<1>1. CASE UNCHANGED vars
  BY <1>1 DEF vars, Fresh
<1>2. ASSUME NEW s \in Settings, NEW pw \in Passwords, Take(s, pw)
      PROVE  Fresh'
  BY <1>0, <1>2, TakeLeaves DEF Fresh
<1>3. CASE Check
  BY <1>0, <1>3, CheckLeaves, NoSocketIs DEF Fresh
<1>4. CASE Drain
  BY <1>0, <1>4, DrainLeaves DEF Fresh
<1>5. CASE Open
  BY <1>0, <1>5, OpenLeaves DEF Fresh
<1>6. CASE Start
  BY <1>0, <1>6, StartLeaves DEF Fresh
<1>7. CASE Write
  BY <1>0, <1>7, WriteLeaves DEF Fresh, Operations
<1>8. CASE Failure
  BY <1>0, <1>8, FailureLeaves DEF Fresh
<1>9. CASE ReadReply
  BY <1>0, <1>9, ReplyLeaves DEF Fresh, Operations
<1>10. CASE ReadDisconnect
  BY <1>0, <1>10, DisconnectLeaves DEF Fresh, Operations
<1>11. CASE ReadReturn
  BY <1>0, <1>11, ReturnLeaves DEF Fresh, Refused
<1>12. CASE Row \/ RowSkipped \/ Deinit \/ Finish
  BY <1>0, <1>12, QuietLeaves DEF Fresh
<1>13. CASE Release
  <2>1. NewConnection.session = FALSE
    BY DEF NewConnection
  <2>2. QED
    BY <1>0, <1>13, <2>1, ReleaseLeaves DEF Fresh
<1>14. CASE Answer \/ Refuse \/ Trickle \/ Disconnect
  BY <1>0, <1>14, BrokerLeaves DEF Fresh
<1>15. QED
  BY <1>1, <1>2, <1>3, <1>4, <1>5, <1>6, <1>7, <1>8, <1>9, <1>10, <1>11, <1>12,
     <1>13, <1>14 DEF Next, InCall, Failure

LEMMA RowsStep == Known /\ Rows /\ [Next]_vars => Rows'
<1> SUFFICES ASSUME Known, Rows, [Next]_vars PROVE Rows'
  OBVIOUS
<1>0. seen.committed \in BOOLEAN /\ socket.good \in BOOLEAN /\ conn.tx \in BOOLEAN
  BY KnownTypes DEF History, Sockets, Fields
<1>1. CASE UNCHANGED vars
  BY <1>1 DEF vars, Rows
<1>2. ASSUME NEW s \in Settings, NEW pw \in Passwords, Take(s, pw)
      PROVE  Rows'
  BY <1>0, <1>2, TakeLeaves DEF Rows
<1>3. CASE Check
  BY <1>0, <1>3, CheckLeaves, NoSocketIs DEF Rows
<1>4. CASE Drain
  BY <1>0, <1>4, DrainLeaves DEF Rows
<1>5. CASE Open
  BY <1>0, <1>5, OpenLeaves DEF Rows
<1>6. CASE Start
  BY <1>0, <1>6, StartLeaves DEF Rows
<1>7. CASE Write
  <2>1. pc = "content" /\ conn.tx => ~Asks
    BY DEF Asks
  <2>2. QED
    BY <1>0, <1>7, <2>1, WriteLeaves DEF Rows, Operations
<1>8. CASE Failure
  BY <1>0, <1>8, FailureLeaves DEF Rows, Operations
<1>9. CASE ReadReply
  BY <1>0, <1>9, ReplyLeaves DEF Rows, Operations
<1>10. CASE ReadDisconnect
  BY <1>0, <1>10, DisconnectLeaves DEF Rows, Operations
<1>11. CASE ReadReturn
  BY <1>0, <1>11, ReturnLeaves DEF Rows
<1>12. CASE Row \/ RowSkipped \/ Deinit \/ Finish
  <2>1. /\ ~written /\ ~written' /\ UNCHANGED <<stmt, conn, socket>>
        /\ seen'.committed = seen.committed
    BY <1>12, QuietLeaves
  <2>2. pc \in {"rows", "finish"}
    BY <1>12, QuietLeaves
  <2>3. pc' = "content" => (socket.good \/ ~stmt.conf.no_error)
    BY <1>12, QuietLeaves
  <2>4. QED
    BY <1>0, <2>1, <2>2, <2>3 DEF Rows
<1>13. CASE Release
  BY <1>0, <1>13, ReleaseLeaves DEF Rows
<1>14. CASE Answer \/ Refuse \/ Trickle \/ Disconnect
  BY <1>0, <1>14, BrokerLeaves DEF Rows
<1>15. QED
  BY <1>1, <1>2, <1>3, <1>4, <1>5, <1>6, <1>7, <1>8, <1>9, <1>10, <1>11, <1>12,
     <1>13, <1>14 DEF Next, InCall, Failure

\* The phases and the socket as the pool sees them, before and after a step.
LEMMA PhaseIs ==
  /\ pc \in {"check", "open", "logon", "start"} => PoolPhase = "connect"
  /\ pc = "content" => PoolPhase = "rows"
  /\ pc = "drain" => PoolPhase = "commit"
  /\ pc \in {"pooled", "begin", "rows", "finish", "commit", "release"} => PoolPhase = pc
BY DEF PoolPhase

LEMMA PhaseNext ==
  /\ pc' \in {"check", "open", "logon", "start"} => PoolPhase' = "connect"
  /\ pc' = "content" => PoolPhase' = "rows"
  /\ pc' = "drain" => PoolPhase' = "commit"
  /\ pc' \in {"pooled", "begin", "rows", "finish", "commit", "release"}
       => PoolPhase' = pc'
BY DEF PoolPhase

LEMMA LinkIs ==
  ASSUME Known
  PROVE  /\ socket.good /\ socket.peer = "alive" => PoolLink = "up"
         /\ socket.good /\ socket.peer # "alive" => PoolLink = "lost"
         /\ ~socket.good /\ written /\ pc \in {"begin", "content", "commit"}
              => PoolLink = "lost"
         /\ ~socket.good /\ ~(written /\ pc \in {"begin", "content", "commit"})
              => PoolLink = "closed"
BY KnownTypes DEF PoolLink, Sockets

LEMMA LinkNext ==
  ASSUME Known'
  PROVE  /\ socket'.good /\ socket'.peer = "alive" => PoolLink' = "up"
         /\ socket'.good /\ socket'.peer # "alive" => PoolLink' = "lost"
         /\ ~socket'.good /\ written' /\ pc' \in {"begin", "content", "commit"}
              => PoolLink' = "lost"
         /\ ~socket'.good /\ ~(written' /\ pc' \in {"begin", "content", "commit"})
              => PoolLink' = "closed"
<1>1. socket' \in Sockets
  BY TypesNext DEF Known
<1>2. QED
  BY <1>1 DEF PoolLink, Sockets

Promised == Known /\ Fresh /\ Rows

\* The step is one of Session's, or changes nothing the pool sees.
SessionMove == Outcomes!Next \/ UNCHANGED Outcomes!vars

LEMMA NothingSeen ==
  ASSUME PoolPhase' = PoolPhase, PoolLink' = PoolLink, stmt' = stmt, conn'.tx = conn.tx,
         seen'.reused = seen.reused, seen'.committed = seen.committed, result' = result
  PROVE  SessionMove
BY DEF SessionMove, Outcomes!vars

LEMMA TakeMove ==
  ASSUME Promised, Promised', NEW s \in Settings, NEW pw \in Passwords, Take(s, pw)
  PROVE  SessionMove
<1>0. Known /\ Known'
  BY DEF Promised
<1>1. PoolPhase = "pooled" /\ PoolPhase' = "connect"
  BY <1>0, TakeLeaves, PhaseIs, PhaseNext
<1>2. PoolLink' = PoolLink /\ (socket.good <=> PoolLink # "closed")
  BY <1>0, TakeLeaves, LinkIs, LinkNext
<1>3. seen'.reused = (PoolLink # "closed")
  <2>1. seen'.reused = socket.good /\ socket.good \in BOOLEAN
    BY <1>0, TakeLeaves, KnownTypes DEF Sockets
  <2>2. QED
    BY <1>2, <2>1
<1>4. stmt'.conf \in AllSettings
  BY <1>0, TypesNext DEF Known, Statements
<1>5. [transaction |-> stmt'.conf.transaction, no_error |-> stmt'.conf.no_error]
        \in [transaction : BOOLEAN, no_error : BOOLEAN]
  BY <1>4 DEF AllSettings
<1>6. conn'.tx = FALSE /\ seen'.committed = FALSE /\ result' = "ok"
  BY <1>0, TakeLeaves
<1>7. Outcomes!Lease
  BY <1>1, <1>2, <1>3, <1>5, <1>6 DEF Outcomes!Lease
<1>8. QED
  BY <1>7 DEF SessionMove, Outcomes!Next

\* connect(): the session is kept, closed or opened.
LEMMA ConnectMove ==
  ASSUME Promised, Promised', Check \/ Open \/ Start
  PROVE  SessionMove
<1>0. Known /\ Known'
  BY DEF Promised
<1>1. PoolPhase = "connect"
  BY <1>0, CheckLeaves, OpenLeaves, StartLeaves, PhaseIs
<1>2. PoolLink' \in Outcomes!Link
  BY <1>0, LinkNext DEF Outcomes!Link
<1>3. ASSUME PoolPhase' = "connect", stmt' = stmt, conn'.tx = conn.tx,
             seen'.reused = seen.reused, seen'.committed = seen.committed,
             result' = result
      PROVE  SessionMove
  <2>1. Outcomes!Reconnect
    BY <1>1, <1>2, <1>3 DEF Outcomes!Reconnect
  <2>2. QED
    BY <2>1 DEF SessionMove, Outcomes!Next
<1>4. CASE Check /\ pc' \in {"check", "open", "start"}
  <2>1. PoolPhase' = "connect"
    BY <1>4, PhaseNext
  <2>2. /\ stmt' = stmt /\ conn'.tx = conn.tx
        /\ seen'.reused = seen.reused /\ seen'.committed = seen.committed
        /\ result' = result
    BY <1>0, <1>4, CheckLeaves
  <2>3. QED
    BY <1>3, <2>1, <2>2
<1>5. CASE Check /\ pc' \notin {"check", "open", "start"}
  <2>1. /\ pc = "check" /\ Throw(conn, socket) /\ socket' = NoSocket
        /\ ~written' /\ stmt' = stmt /\ conn'.tx = conn.tx
        /\ seen'.reused = seen.reused /\ seen'.committed = seen.committed
    BY <1>0, <1>5, CheckLeaves
  <2>2. IF stmt.conf.no_error THEN pc' = "rows" /\ result' = result
                              ELSE pc' = "finish" /\ result' = "error"
    BY <2>1 DEF Throw, InitPhases
  <2>3. PoolLink' = "closed"
    BY <1>0, <2>1, LinkNext, NoSocketIs
  <2>4. PoolPhase' = pc'
    BY <2>2, PhaseNext
  <2>5. Outcomes!InitFails
    BY <1>1, <2>1, <2>2, <2>3, <2>4 DEF Outcomes!InitFails
  <2>6. QED
    BY <2>5 DEF SessionMove, Outcomes!Next
<1>6. CASE Open
  BY <1>0, <1>3, <1>6, OpenLeaves, PhaseNext
<1>7. CASE Start
  <2>1. /\ pc = "start" /\ ~written /\ ~written' /\ UNCHANGED <<stmt, result, socket, seen>>
        /\ conn'.tx = stmt.conf.transaction
        /\ pc' = IF stmt.conf.transaction THEN "begin" ELSE "rows"
    BY <1>0, <1>7, StartLeaves DEF Known, StreamInv, Operations
  <2>2. PoolLink' = PoolLink /\ (PoolLink = "closed" => seen.reused)
    BY <1>0, <2>1, LinkIs, LinkNext DEF Promised, Fresh
  <2>3. PoolPhase' = IF stmt.conf.transaction THEN "begin" ELSE "rows"
    BY <2>1, PhaseNext
  <2>4. Outcomes!ConnectOk
    BY <1>1, <2>1, <2>2, <2>3 DEF Outcomes!ConnectOk
  <2>5. QED
    BY <2>4 DEF SessionMove, Outcomes!Next
<1>8. QED
  BY <1>4, <1>5, <1>6, <1>7

LEMMA WriteMove ==
  ASSUME Promised, Promised', Write
  PROVE  SessionMove
<1>0. Known /\ Known'
  BY DEF Promised
<1>1. /\ pc' = pc /\ pc \in Operations /\ stmt' = stmt /\ result' = result
      /\ conn'.tx = conn.tx /\ seen'.reused = seen.reused
      /\ ~written
  BY <1>0, WriteLeaves
<1>2. PoolLink = "up" /\ PoolLink' = "up"
  BY <1>0, WriteLeaves, LinkIs, LinkNext
<1>3. PoolPhase' = PoolPhase
  BY <1>1 DEF PoolPhase
<1>4. seen.committed \in BOOLEAN /\ seen'.committed \in BOOLEAN
  BY <1>0, KnownTypes, TypesNext DEF Known, History
<1>5. CASE pc = "commit"
  <2>1. PoolPhase = "commit" /\ ~seen.committed /\ seen'.committed = TRUE
    BY <1>0, <1>1, <1>4, <1>5, WriteLeaves, PhaseIs DEF Promised, Rows
  <2>2. Outcomes!SendCommit
    BY <1>1, <1>2, <1>3, <2>1 DEF Outcomes!SendCommit
  <2>3. QED
    BY <2>2 DEF SessionMove, Outcomes!Next
<1>6. CASE pc # "commit"
  <2>1. seen'.committed = seen.committed
    BY <1>0, <1>4, <1>6, WriteLeaves
  <2>2. QED
    BY <1>1, <1>2, <1>3, <2>1, NothingSeen
<1>7. QED
  BY <1>5, <1>6

LEMMA FailureMove ==
  ASSUME Promised, Promised', Failure
  PROVE  SessionMove
<1>0. Known /\ Known'
  BY DEF Promised
<1>1. /\ pc \in Operations \cup {"open"} /\ ~written' /\ stmt' = stmt
      /\ conn'.tx = conn.tx
      /\ seen'.reused = seen.reused /\ seen'.committed = seen.committed
  BY <1>0, FailureLeaves
<1>2. CASE pc = "commit"
  <2>1. /\ pc' = "release" /\ result' = result
        /\ \/ socket' = NoSocket
           \/ (socket'.good = socket.good /\ socket'.peer = socket.peer)
    BY <1>0, <1>2, FailureLeaves
  <2>2. PoolPhase = "commit" /\ PoolPhase' = "release"
    BY <1>2, <2>1, PhaseIs, PhaseNext
  <2>3. PoolLink' \in {PoolLink, "closed"}
    BY <1>0, <1>1, <2>1, LinkIs, LinkNext, NoSocketIs
  <2>4. Outcomes!CommitEnd
    BY <1>1, <2>1, <2>2, <2>3 DEF Outcomes!CommitEnd
  <2>5. QED
    BY <2>4 DEF SessionMove, Outcomes!Next
<1>3. ASSUME pc # "commit"
      PROVE  /\ socket' = NoSocket /\ pc' \in {"rows", "finish"}
             /\ IF pc \in InitPhases /\ stmt.conf.no_error
                  THEN pc' = "rows" /\ result' = result
                  ELSE pc' = "finish" /\ result' = "error"
             /\ PoolLink' = "closed" /\ PoolPhase' = pc'
  <2>1. /\ socket' = NoSocket /\ pc' \in {"rows", "finish"}
        /\ IF pc \in InitPhases /\ stmt.conf.no_error
             THEN pc' = "rows" /\ result' = result
             ELSE pc' = "finish" /\ result' = "error"
    BY <1>0, <1>3, FailureLeaves
  <2>2. PoolLink' = "closed"
    BY <1>0, <1>1, <2>1, LinkNext, NoSocketIs
  <2>3. PoolPhase' = pc'
    BY <2>1, PhaseNext
  <2>4. QED
    BY <2>1, <2>2, <2>3
<1>4. CASE pc \in {"open", "logon", "begin"}
  <2>1. PoolPhase \in {"connect", "begin"} /\ pc # "commit" /\ pc \in InitPhases
    BY <1>4, PhaseIs DEF InitPhases
  <2>2. Outcomes!InitFails
    BY <1>1, <1>3, <2>1 DEF Outcomes!InitFails
  <2>3. QED
    BY <2>2 DEF SessionMove, Outcomes!Next
<1>5. CASE pc = "content"
  <2>1. PoolPhase = "rows" /\ pc # "commit" /\ pc \notin InitPhases
    BY <1>5, PhaseIs DEF InitPhases
  <2>2. ~(PoolLink = "closed" /\ stmt.conf.no_error)
    BY <1>0, <1>5, LinkIs DEF Promised, Rows
  <2>3. Outcomes!RowFail
    BY <1>1, <1>3, <2>1, <2>2 DEF Outcomes!RowFail
  <2>4. QED
    BY <2>3 DEF SessionMove, Outcomes!Next
<1>6. QED
  BY <1>1, <1>2, <1>4, <1>5 DEF Operations

LEMMA ReadMove ==
  ASSUME Promised, Promised', ReadReply \/ ReadDisconnect
  PROVE  SessionMove
<1>0. Known /\ Known'
  BY DEF Promised
<1>1. /\ pc \in Operations /\ written /\ written' /\ pc' = pc /\ stmt' = stmt
      /\ result' = result /\ conn'.tx = conn.tx
      /\ seen'.reused = seen.reused /\ seen'.committed = seen.committed
  <2>1. CASE ReadReply
    BY <1>0, <2>1, ReplyLeaves
  <2>2. CASE ReadDisconnect
    BY <1>0, <2>2, DisconnectLeaves
  <2>3. QED
    BY <2>1, <2>2
<1>2. PoolPhase' = PoolPhase
  BY <1>1 DEF PoolPhase
<1>3. CASE ReadReply
  <2>1. PoolLink' = PoolLink
    BY <1>0, <1>3, ReplyLeaves, LinkIs, LinkNext
  <2>2. QED
    BY <1>1, <1>2, <2>1, NothingSeen
<1>4. CASE ReadDisconnect /\ pc \in {"begin", "content", "commit"}
  <2>1. PoolLink' = PoolLink
    BY <1>0, <1>1, <1>4, DisconnectLeaves, LinkIs, LinkNext, NoSocketIs
  <2>2. QED
    BY <1>1, <1>2, <2>1, NothingSeen
<1>5. CASE ReadDisconnect /\ pc = "logon"
  <2>1. PoolPhase = "connect" /\ PoolPhase' = "connect"
    BY <1>2, <1>5, PhaseIs
  <2>2. PoolLink' \in Outcomes!Link
    BY <1>0, LinkNext DEF Outcomes!Link
  <2>3. Outcomes!Reconnect
    BY <1>1, <2>1, <2>2 DEF Outcomes!Reconnect
  <2>4. QED
    BY <2>3 DEF SessionMove, Outcomes!Next
<1>6. QED
  BY <1>1, <1>3, <1>4, <1>5 DEF Operations

\* The end of an operation.
LEMMA ReturnMove ==
  ASSUME Promised, Promised', ReadReturn
  PROVE  SessionMove
<1>0. Known /\ Known'
  BY DEF Promised
<1>1. /\ written /\ ~written' /\ UNCHANGED <<stmt, result, socket, seen>>
      /\ conn'.tx = conn.tx
  BY <1>0, ReturnLeaves
<1>2. socket'.good = socket.good /\ socket'.peer = socket.peer
  BY <1>1
<1>3. CASE pc = "logon" /\ pc' = "start"
  <2>1. PoolPhase' = PoolPhase
    BY <1>3, PhaseIs, PhaseNext
  <2>2. PoolLink' = PoolLink
    BY <1>0, <1>2, <1>3, LinkIs, LinkNext
  <2>3. QED
    BY <1>1, <2>1, <2>2, NothingSeen
<1>4. CASE pc = "begin" /\ pc' = "rows"
  <2>1. PoolPhase = "begin" /\ PoolPhase' = "rows"
    BY <1>4, PhaseIs, PhaseNext
  <2>2. /\ PoolLink # "closed"
        /\ PoolLink' = PoolLink \/ (PoolLink = "lost" /\ PoolLink' = "closed")
    BY <1>0, <1>1, <1>2, <1>4, LinkIs, LinkNext
  <2>3. Outcomes!BeginOk
    BY <1>1, <2>1, <2>2 DEF Outcomes!BeginOk
  <2>4. QED
    BY <2>3 DEF SessionMove, Outcomes!Next
<1>5. CASE pc = "content" /\ pc' = "rows"
  <2>1. PoolPhase = "rows" /\ PoolPhase' = "rows"
    BY <1>5, PhaseIs, PhaseNext
  <2>2. CASE socket.good
    <3>1. PoolLink' = PoolLink
      BY <1>0, <1>2, <2>2, LinkIs, LinkNext
    <3>2. QED
      BY <1>1, <2>1, <3>1, NothingSeen
  <2>3. CASE ~socket.good
    <3>1. PoolLink = "lost" /\ PoolLink' = "closed"
      BY <1>0, <1>1, <1>2, <1>5, <2>3, LinkIs, LinkNext
    <3>2. ~conn.tx
      BY <1>1, <1>5, <2>3 DEF Promised, Rows
    <3>3. Outcomes!RowOk
      BY <1>1, <2>1, <3>1, <3>2 DEF Outcomes!RowOk
    <3>4. QED
      BY <3>3 DEF SessionMove, Outcomes!Next
  <2>4. QED
    BY <2>2, <2>3
<1>6. CASE pc = "commit" /\ pc' = "release"
  <2>1. PoolPhase = "commit" /\ PoolPhase' = "release"
    BY <1>6, PhaseIs, PhaseNext
  <2>2. PoolLink' \in {PoolLink, "closed"}
    BY <1>0, <1>1, <1>2, <1>6, LinkIs, LinkNext
  <2>3. Outcomes!CommitEnd
    BY <1>1, <2>1, <2>2 DEF Outcomes!CommitEnd
  <2>4. QED
    BY <2>3 DEF SessionMove, Outcomes!Next
<1>7. QED
  BY <1>0, <1>3, <1>4, <1>5, <1>6, ReturnLeaves

\* Rows that send nothing, and the end of the statement.
LEMMA QuietMove ==
  ASSUME Promised, Promised', Row \/ RowSkipped \/ Deinit \/ Finish
  PROVE  SessionMove
<1>0. Known /\ Known'
  BY DEF Promised
<1>1. /\ ~written /\ ~written' /\ UNCHANGED <<stmt, result, conn, socket>>
      /\ conn'.tx = conn.tx
      /\ seen'.reused = seen.reused /\ seen'.committed = seen.committed
  BY <1>0, QuietLeaves
<1>2. PoolLink' = PoolLink
  BY <1>1 DEF PoolLink
<1>3. CASE pc = "rows" /\ pc' \in {"content", "rows"}
  <2>1. PoolPhase' = PoolPhase
    BY <1>3, PhaseIs, PhaseNext
  <2>2. QED
    BY <1>1, <1>2, <2>1, NothingSeen
<1>4. CASE pc = "rows" /\ pc' = "finish"
  <2>1. PoolPhase = "rows" /\ PoolPhase' = "finish"
    BY <1>4, PhaseIs, PhaseNext
  <2>2. Outcomes!Deinit
    BY <1>1, <1>2, <2>1 DEF Outcomes!Deinit
  <2>3. QED
    BY <2>2 DEF SessionMove, Outcomes!Next
<1>5. CASE pc = "finish"
  <2>1. \/ conn.tx /\ pc' \in {"commit", "drain"}
        \/ ~conn.tx /\ pc' = "release"
    BY <1>0, <1>5, QuietLeaves
  <2>2. PoolPhase = "finish" /\ PoolPhase' = IF conn.tx THEN "commit" ELSE "release"
    BY <1>5, <2>1, PhaseIs, PhaseNext
  <2>3. Outcomes!Finish
    BY <1>1, <1>2, <2>2 DEF Outcomes!Finish
  <2>4. QED
    BY <2>3 DEF SessionMove, Outcomes!Next
<1>6. QED
  BY <1>0, <1>3, <1>4, <1>5, QuietLeaves

\* connected() before a COMMIT without a receipt.
LEMMA DrainMove ==
  ASSUME Promised, Promised', Drain
  PROVE  SessionMove
<1>0. Known /\ Known'
  BY DEF Promised
<1>1. /\ pc = "drain" /\ ~written' /\ stmt' = stmt /\ result' = result
      /\ conn'.tx = conn.tx
      /\ seen'.reused = seen.reused /\ seen'.committed = seen.committed
  BY <1>0, DrainLeaves
<1>2. PoolPhase = "commit"
  BY <1>1, PhaseIs
<1>3. ASSUME pc' \in {"drain", "commit"}, socket'.good = socket.good,
             socket'.peer = socket.peer
      PROVE  SessionMove
  <2>1. PoolPhase' = PoolPhase /\ PoolLink' = PoolLink
    BY <1>0, <1>1, <1>2, <1>3, PhaseNext, LinkIs, LinkNext
  <2>2. QED
    BY <1>1, <2>1, NothingSeen
<1>4. ASSUME pc' = "release",
             \/ socket' = NoSocket
             \/ socket'.good = socket.good /\ socket'.peer = socket.peer
      PROVE  SessionMove
  <2>1. PoolPhase' = "release"
    BY <1>4, PhaseNext
  <2>2. PoolLink' \in {PoolLink, "closed"}
    BY <1>0, <1>1, <1>4, LinkIs, LinkNext, NoSocketIs
  <2>3. Outcomes!CommitEnd
    BY <1>1, <1>2, <2>1, <2>2 DEF Outcomes!CommitEnd
  <2>4. QED
    BY <2>3 DEF SessionMove, Outcomes!Next
<1>5. \/ /\ pc' \in {"drain", "commit"}
         /\ socket'.good = socket.good /\ socket'.peer = socket.peer
      \/ /\ pc' = "release"
         /\ \/ socket' = NoSocket
            \/ socket'.good = socket.good /\ socket'.peer = socket.peer
  <2>0. socket.good \in BOOLEAN /\ socket'.good \in BOOLEAN
    BY <1>0, KnownTypes, TypesNext DEF Known, Sockets
  <2>1. QED
    BY <1>0, <2>0, DrainLeaves
<1>6. QED
  BY <1>3, <1>4, <1>5

\* The connection goes back to the pool, or a new one does.
LEMMA ReleaseMove ==
  ASSUME Promised, Promised', Release
  PROVE  SessionMove
<1>0. Known /\ Known'
  BY DEF Promised
<1>1. /\ pc = "release" /\ pc' = "pooled" /\ ~written'
      /\ UNCHANGED <<stmt, result, seen>>
  BY <1>0, ReleaseLeaves
<1>2. PoolPhase = "release" /\ PoolPhase' = "pooled"
  BY <1>1, PhaseIs, PhaseNext
<1>3. /\ conn'.tx \in {conn.tx, FALSE}
      /\ \/ socket' = NoSocket
         \/ socket' = socket /\ socket.good
  <2>1. NewConnection.tx = FALSE
    BY DEF NewConnection
  <2>2. QED
    BY <1>0, <2>1, ReleaseLeaves
<1>4. PoolLink' \in {PoolLink, "closed"}
  BY <1>0, <1>1, <1>3, LinkIs, LinkNext, NoSocketIs
<1>5. Outcomes!Release
  BY <1>1, <1>2, <1>3, <1>4 DEF Outcomes!Release
<1>6. QED
  BY <1>5 DEF SessionMove, Outcomes!Next

\* The broker answers unseen; what ends the session is seen as a loss.
LEMMA BrokerMove ==
  ASSUME Promised, Promised', Answer \/ Refuse \/ Trickle \/ Disconnect
  PROVE  SessionMove
<1>0. Known /\ Known'
  BY DEF Promised
<1>1. UNCHANGED <<pc, written, stmt, turn, result, conn, seen>>
  BY <1>0, BrokerLeaves
<1>2. PoolPhase' = PoolPhase
  BY <1>1 DEF PoolPhase
<1>3. PoolLink = "up" /\ (Answer \/ Trickle => PoolLink' = "up")
      /\ (Refuse \/ Disconnect => PoolLink' = "lost")
  BY <1>0, BrokerLeaves, LinkIs, LinkNext
<1>4. CASE Answer \/ Trickle
  BY <1>1, <1>2, <1>3, <1>4, NothingSeen
<1>5. CASE Refuse \/ Disconnect
  <2>1. Outcomes!Drop
    BY <1>1, <1>2, <1>3, <1>5 DEF Outcomes!Drop
  <2>2. QED
    BY <2>1 DEF SessionMove, Outcomes!Next
<1>6. QED
  BY <1>4, <1>5

LEMMA StepIsOutcome == Promised /\ Promised' /\ [Next]_vars => SessionMove
<1> SUFFICES ASSUME Promised, Promised', [Next]_vars PROVE SessionMove
  OBVIOUS
<1>1. CASE UNCHANGED vars
  <2>1. /\ PoolPhase' = PoolPhase /\ PoolLink' = PoolLink
        /\ UNCHANGED <<stmt, conn, seen, result>>
    BY <1>1 DEF vars, PoolPhase, PoolLink
  <2>2. QED
    BY <2>1, NothingSeen
<1>2. CASE Failure
  BY <1>2, FailureMove
<1>3. CASE Check \/ Open \/ Start
  BY <1>3, ConnectMove
<1>4. CASE ReadReply \/ ReadDisconnect
  BY <1>4, ReadMove
<1>5. CASE Row \/ RowSkipped \/ Deinit \/ Finish
  BY <1>5, QuietMove
<1>6. CASE Answer \/ Refuse \/ Trickle \/ Disconnect
  BY <1>6, BrokerMove
<1>7. QED
  BY <1>1, <1>2, <1>3, <1>4, <1>5, <1>6, TakeMove, WriteMove, ReturnMove,
     DrainMove, ReleaseMove DEF Next, InCall, Failure

LEMMA InitOutcome == Init => Promised /\ Outcomes!Init
<1> SUFFICES ASSUME Init PROVE Promised /\ Outcomes!Init
  OBVIOUS
<1>1. Known
  BY InitTyped, InitStream DEF Known
<1>2. /\ pc = "pooled" /\ written = FALSE /\ result = "ok"
      /\ conn.session = FALSE /\ conn.tx = FALSE
      /\ seen.reused = FALSE /\ seen.committed = FALSE /\ ~socket.good
  BY DEF Init, NewConnection, NoSocket
<1>3. Fresh /\ Rows
  BY <1>2 DEF Fresh, Rows
<1>4. stmt.conf \in AllSettings
  BY <1>1, KnownTypes DEF Statements
<1>5. [transaction |-> stmt.conf.transaction, no_error |-> stmt.conf.no_error]
        \in [transaction : BOOLEAN, no_error : BOOLEAN]
  BY <1>4 DEF AllSettings
<1>6. PoolPhase = "pooled" /\ PoolLink = "closed"
  BY <1>1, <1>2, PhaseIs, LinkIs
<1>7. Outcomes!Init
  BY <1>2, <1>5, <1>6 DEF Outcomes!Init
<1>8. QED
  BY <1>1, <1>3, <1>7 DEF Promised

(* Every exchange of a connection with the broker has one of the outcomes  *)
(* the pool allows it, in every interleaving with answers, refusals and    *)
(* losses (connection.cpp:232-470, udf.cpp:67-371).                        *)
THEOREM ConnectionImplementsSession == Spec => ImplementsSession
<1>1. Promised /\ [Next]_vars => Promised'
  BY TypeStep, StreamStep, FreshStep, RowsStep DEF Promised, Known
<1>2. Promised /\ Promised' /\ [Next]_vars => [Outcomes!Next]_(Outcomes!vars)
  BY StepIsOutcome DEF SessionMove
<1>3. QED
  BY <1>1, <1>2, InitOutcome, PTL DEF Spec, ImplementsSession, Outcomes!Spec
=============================================================================

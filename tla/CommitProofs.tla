---------------------------- MODULE CommitProofs ----------------------------
(***************************************************************************)
(* Proofs about module Pool that follow the COMMITs: each transaction is   *)
(* owed one until somebody writes it, and a connection on which something  *)
(* went wrong does not come back to life before it is leased again.        *)
(***************************************************************************)
EXTENDS OwnershipProofs

\* What thread t has taken and not yet sent the COMMIT of.
Unsent(t) == IF pc[t] = "handback" THEN ToSet(Tail(batch[t])) ELSE Taken(t)

\* The COMMIT of transaction n is still to be sent, on connection c.
Owes(n, c) ==
  \/ \E x \in Txns : x.id = n /\ x.conn = c
  \/ \E t \in Threads : \E x \in Unsent(t) : x.id = n /\ x.conn = c

\* A transaction is owed on one connection, and none is owed that was sent.
OwedOnce ==
  \A n \in Nat : \A c, d \in Conns : Owes(n, c) /\ Owes(n, d) => c = d

OwedUnsent ==
  \A n \in Nat : \A c \in Conns :
    Owes(n, c) => n <= seq /\ \A k \in DOMAIN log : log[k] # n

LogSound == \A k \in DOMAIN log : log[k] <= seq /\ log[k] \notin lossy

\* A transaction that lost a message cannot be committed any more.
LossyDown ==
  /\ \A n \in lossy : n <= seq
  /\ \A n \in lossy : \A c \in Conns : Owes(n, c) => link[c] # "up"

Commits == OwedOnce /\ OwedUnsent /\ CommitOnce /\ LogSound /\ LossyDown

LEMMA UnsentTyped ==
  ASSUME Known, NEW t \in Threads
  PROVE  /\ Unsent(t) \subseteq Taken(t) /\ Unsent(t) \subseteq Txn
         /\ pc[t] \notin {"commit", "handback"} /\ Phased => Unsent(t) = {}
         /\ pc[t] = "commit" => Unsent(t) = Taken(t)
<1>1. batch[t] \in Seq(Txn) /\ Taken(t) \subseteq Txn
  BY KnownFacts
<1>2. Unsent(t) \subseteq Taken(t)
  <2>1. CASE pc[t] = "handback"
    <3>1. batch[t] # <<>>
      BY <2>1 DEF Known, Typed, AtWork
    <3>2. ToSet(Tail(batch[t])) \subseteq Taken(t)
      BY <1>1, <3>1, TailSet DEF Taken
    <3>3. QED
      BY <2>1, <3>2 DEF Unsent
  <2>2. CASE pc[t] # "handback"
    BY <2>2 DEF Unsent
  <2>3. QED
    BY <2>1, <2>2
<1>3. pc[t] \notin {"commit", "handback"} /\ Phased => Taken(t) = {}
  BY DEF Phased, Taken, ToSet
<1>4. QED
  BY <1>1, <1>2, <1>3 DEF Unsent

\* Whoever is in the store or taken is numbered and has a connection.
LEMMA OwedHas ==
  ASSUME Known, NEW x, x \in Txns \/ \E t \in Threads : x \in Unsent(t)
  PROVE  x.id \in Nat /\ x.conn \in Conns /\ Owes(x.id, x.conn)
<1>1. x \in Txn
  BY UnsentTyped, KnownFacts
<1>2. QED
  BY <1>1 DEF Txn, Owes

\* A connection that nobody owes a COMMIT on.
LEMMA OwesNothing ==
  ASSUME Known, Ownership, NEW t \in Threads, NEW c \in Held(t),
         \A x \in Txns : x.conn # c, \A x \in Unsent(t) : x.conn # c
  PROVE  \A n : ~Owes(n, c)
<1> SUFFICES ASSUME NEW u \in Threads, NEW x \in Unsent(u), x.conn = c
             PROVE  FALSE
  BY DEF Owes
<1>1. c \in Held(u)
  BY UnsentTyped, HeldSet
<1>2. u = t
  BY <1>1, LentValue DEF Ownership, Owned, Partition
<1>3. QED
  BY <1>2

-----------------------------------------------------------------------------
(***************************************************************************)
(* What a step does to what is owed                                        *)
(***************************************************************************)
NoneNew ==
  seq' = seq /\ \A n \in Nat : \A c \in Conns : Owes(n, c)' => Owes(n, c)

LEMMA SameOwed ==
  ASSUME UNCHANGED <<store, batch, seq>>,
         \A t \in Threads : pc'[t] = "handback" <=> pc[t] = "handback"
  PROVE  NoneNew
<1>1. Txns' = Txns /\ \A t \in Threads : Unsent(t)' = Unsent(t)
  BY DEF Txns, Unsent, Taken
<1>2. QED
  BY <1>1 DEF NoneNew, Owes

LEMMA DeferOwes ==
  ASSUME Known, Ownership, NEW t \in Threads, Defer(t)
  PROVE  NoneNew
<1>1. /\ Finishing(t) /\ pc' = [pc EXCEPT ![t] = "idle"]
      /\ UNCHANGED <<seq, batch>>
  BY DEF Defer, Retire, Goto
<1>2. PICK i \in DOMAIN store : store' = Marked(store, i)
  BY DEF Defer
<1> DEFINE y == [id |-> store[i].id, conn |-> store[i].conn, ready |-> TRUE]
<1>3. Txns' = (Txns \ {store[i]}) \cup {y} /\ store[i] \in Txns
  <2>1. ToSet(store') = (ToSet(store) \ {store[i]}) \cup {y}
    BY <1>2, KnownFacts, MarkedSet
  <2>2. QED
    BY <2>1 DEF Txns, ToSet
<1>4. y.id = store[i].id /\ y.conn = store[i].conn
  OBVIOUS
<1> HIDE DEF y
<1>5. \A u \in Threads : Unsent(u)' = Unsent(u)
  BY <1>1, KnownFacts DEF Unsent, Taken, Finishing
<1>6. QED
  BY <1>1, <1>3, <1>4, <1>5 DEF NoneNew, Owes

LEMMA TakeOwes ==
  ASSUME Known, Ownership, NEW t \in Threads, TakeBatch(t)
  PROVE  NoneNew
<1>1. /\ Finishing(t) /\ tx[conn[t]] # 0 /\ seq' = seq
      /\ pc' = [pc EXCEPT ![t] = "commit"]
  BY DEF TakeBatch, Goto
<1>2. PICK T \in SUBSET (Txns \ {Mine(t, FALSE)}) :
        /\ Txns' = Txns \ ({Mine(t, FALSE)} \cup T)
        /\ Taken(t)' = {Mine(t, TRUE)} \cup T
        /\ \A u \in Threads \ {t} : batch'[u] = batch[u]
  BY TakeEffect
<1>3. Mine(t, FALSE) \in Txns
  BY <1>1, FinishingFacts
<1>4. pc'[t] = "commit" /\ \A u \in Threads \ {t} : pc'[u] = pc[u]
  BY <1>1, KnownFacts
<1>5. Unsent(t)' = {Mine(t, TRUE)} \cup T
  BY <1>2, <1>4 DEF Unsent
<1>6. \A u \in Threads \ {t} : Unsent(u)' = Unsent(u)
  BY <1>2, <1>4 DEF Unsent, Taken
<1>7. /\ Mine(t, TRUE).id = Mine(t, FALSE).id
      /\ Mine(t, TRUE).conn = Mine(t, FALSE).conn
  BY DEF Mine
<1>8. ASSUME NEW n \in Nat, NEW c \in Conns, Owes(n, c)' PROVE Owes(n, c)
  <2>1. CASE \E x \in Txns' : x.id = n /\ x.conn = c
    BY <1>2, <2>1 DEF Owes
  <2>2. CASE \E x \in Unsent(t)' : x.id = n /\ x.conn = c
    BY <1>2, <1>3, <1>5, <1>7, <2>2 DEF Owes
  <2>3. CASE \E u \in Threads \ {t} : \E x \in Unsent(u)' : x.id = n /\ x.conn = c
    BY <1>6, <2>3 DEF Owes
  <2>4. QED
    BY <1>8, <2>1, <2>2, <2>3 DEF Owes
<1>9. QED
  BY <1>1, <1>8 DEF NoneNew

LEMMA HandBackOwes ==
  ASSUME Known, Ownership, NEW t \in Threads, HandBack(t)
  PROVE  NoneNew
<1>1. /\ pc[t] = "handback" /\ UNCHANGED <<store, seq>>
      /\ pc' = [pc EXCEPT ![t] = "commit"]
      /\ batch' = [batch EXCEPT ![t] = Tail(batch[t])]
  BY DEF HandBack, Goto
<1>2. /\ pc'[t] = "commit" /\ batch'[t] = Tail(batch[t])
      /\ \A u \in Threads \ {t} : pc'[u] = pc[u] /\ batch'[u] = batch[u]
  BY <1>1, KnownFacts
<1>3. Txns' = Txns /\ \A u \in Threads : Unsent(u)' = Unsent(u)
  BY <1>1, <1>2 DEF Txns, Unsent, Taken
<1>4. QED
  BY <1>1, <1>3 DEF NoneNew, Owes

LEMMA CreateOwes ==
  ASSUME Known, Ownership, NEW t \in Threads, CreateTransaction(t)
  PROVE  /\ seq' = seq + 1 /\ conn[t] \in Conns
         /\ \A n \in Nat : \A c \in Conns :
              Owes(n, c)' => Owes(n, c) \/ (n = seq + 1 /\ c = conn[t])
<1> DEFINE x == NewTxn(seq + 1, conn[t])
<1>1. /\ store' = Append(store, x) /\ seq' = seq + 1 /\ batch' = batch
      /\ pc[t] = "create" /\ pc' = [pc EXCEPT ![t] = "begin"]
  BY DEF CreateTransaction, Goto
<1>2. x.id = seq + 1 /\ x.conn = conn[t] /\ x \in Txn /\ conn[t] \in Conns
  BY <1>1, KnownFacts DEF NewTxn, Txn
<1> HIDE DEF x
<1>3. Txns' = Txns \cup {x}
  BY <1>1, <1>2, KnownFacts, AppendSet DEF Txns
<1>4. \A u \in Threads : Unsent(u)' = Unsent(u)
  BY <1>1, KnownFacts DEF Unsent, Taken
<1>5. QED
  BY <1>1, <1>2, <1>3, <1>4 DEF Owes

\* The step in which transaction n is committed on connection c.
Settles(n, c) ==
  /\ Owes(n, c) /\ ~Owes(n, c)'
  /\ NoneNew /\ lossy' = lossy
  /\ log' = log \/ (log' = Append(log, n) /\ link[c] = "up")

LEMMA SendSettles ==
  ASSUME Known, Ownership, NEW t \in Threads, SendCommit(t)
  PROVE  \E n \in Nat : \E c \in Conns : Settles(n, c)
<1>0. PICK x \in Txn : x = Front1(t)
  BY FrontFacts DEF SendCommit
<1>1. /\ pc[t] = "commit" /\ batch[t] # <<>>
      /\ UNCHANGED <<store, seq, conn, active, lossy>>
      /\ log' = log \/ (log' = Append(log, x.id) /\ link[x.conn] = "up")
      /\ \/ pc' = pc /\ batch' = [batch EXCEPT ![t] = Tail(batch[t])]
         \/ batch' = batch /\ pc' = [pc EXCEPT ![t] = "handback"]
  BY <1>0 DEF SendCommit, Goto, LogCommit, CommitOutcomes
<1>2. /\ x \in Taken(t) /\ x \in Txn /\ x.conn \in Held(t) /\ x.conn \in Conns
      /\ ToSet(Tail(batch[t])) = Taken(t) \ {x}
      /\ \A y \in ToSet(Tail(batch[t])) : y.conn # x.conn
  BY <1>0, <1>1, FrontFacts
<1>3. x.id \in Nat
  BY <1>2 DEF Txn
<1>4. Unsent(t) = Taken(t) /\ Unsent(t)' = Taken(t) \ {x}
  BY <1>1, <1>2, KnownFacts DEF Unsent, Taken
<1>5. \A u \in Threads \ {t} : Unsent(u)' = Unsent(u)
  BY <1>1, KnownFacts DEF Unsent, Taken
<1>6. Txns' = Txns
  BY <1>1 DEF Txns
<1>7. NoneNew
  BY <1>1, <1>4, <1>5, <1>6 DEF NoneNew, Owes
<1>8. Owes(x.id, x.conn)
  BY <1>2, <1>4 DEF Owes
<1>9. ~Owes(x.id, x.conn)'
  <2>1. \A y \in Txns : y.conn # x.conn
    BY <1>1, <1>2, CommitterHasNone DEF Running
  <2>2. ASSUME NEW u \in Threads, NEW y \in Unsent(u)', y.conn = x.conn
        PROVE  FALSE
    <3>1. CASE u = t
      BY <1>2, <1>4, <2>2, <3>1
    <3>2. CASE u # t
      <4>1. x.conn \in Held(u)
        BY <1>5, <2>2, <3>2, UnsentTyped, HeldSet
      <4>2. QED
        BY <1>2, <3>2, <4>1, LentValue DEF Ownership, Owned, Partition
    <3>3. QED
      BY <3>1, <3>2
  <2>3. QED
    BY <1>6, <2>1, <2>2 DEF Owes
<1>10. Settles(x.id, x.conn)
  BY <1>1, <1>7, <1>8, <1>9 DEF Settles
<1>11. QED
  BY <1>2, <1>3, <1>10

LEMMA ForceSettles ==
  ASSUME Known, Ownership, ForceCommit
  PROVE  \E n \in Nat : \E c \in Conns : Settles(n, c)
<1>0. PICK x \in Txns : x = store[force]
  BY DEF ForceCommit, Txns, ToSet
<1>1. /\ force \in DOMAIN store /\ x.ready
      /\ store' = RemoveAt(store, force)
      /\ UNCHANGED <<seq, pc, conn, batch, lossy>>
      /\ log' = log \/ (log' = Append(log, x.id) /\ link[x.conn] = "up")
  BY <1>0 DEF ForceCommit, LogCommit, CommitOutcomes
<1>2. x \in Txns
  BY <1>0
<1>3. Txns' = Txns \ {x} /\ \A u \in Threads : Unsent(u)' = Unsent(u)
  BY <1>0, <1>1, KnownFacts, RemoveAtSet DEF Txns, Unsent, Taken
<1>4. x.id \in Nat /\ x.conn \in Conns /\ Owes(x.id, x.conn)
  BY <1>2, OwedHas
<1>5. NoneNew
  BY <1>1, <1>3 DEF NoneNew, Owes
<1>6. ~Owes(x.id, x.conn)'
  <2>1. \A y \in Txns' : y.conn # x.conn
    BY <1>2, <1>3, KnownFacts DEF Ownership, Pointers, PointsBack
  <2>2. x.conn \in Deferred
    BY <1>1, <1>2, DeferredSet
  <2>3. ASSUME NEW u \in Threads, NEW y \in Unsent(u), y.conn = x.conn
        PROVE  FALSE
    <3>1. x.conn \in Held(u)
      BY <2>3, UnsentTyped, HeldSet
    <3>2. QED
      BY <2>2, <3>1, LentValue DEF Ownership, Owned, Partition
  <2>4. QED
    BY <1>3, <2>1, <2>3 DEF Owes
<1>7. Settles(x.id, x.conn)
  BY <1>1, <1>4, <1>5, <1>6 DEF Settles
<1>8. QED
  BY <1>4, <1>7

\* Every other step leaves what is owed and what was sent alone.
LEMMA OtherOwes ==
  ASSUME Known, Ownership, [Next]_vars,
         ~\E t \in Threads : CreateTransaction(t) \/ SendCommit(t), ~ForceCommit
  PROVE  NoneNew /\ log' = log
<1>1. CASE \E t \in Threads : Defer(t) \/ TakeBatch(t) \/ HandBack(t)
  BY <1>1, DeferOwes, TakeOwes, HandBackOwes DEF Defer, TakeBatch, HandBack
<1>2. ASSUME NEW t \in Threads, NEW s \in Settings,
             GetReady(t, s) \/ GetNew(t, s) \/ GetExhausted(t, s)
      PROVE  NoneNew /\ log' = log
  <2>1. UNCHANGED <<store, batch, seq, log>>
    BY <1>2 DEF GetReady, GetNew, GetExhausted, Lease
  <2>2. \A u \in Threads : pc'[u] = "handback" <=> pc[u] = "handback"
    BY <1>2, KnownFacts DEF GetReady, GetNew, GetExhausted, Lease, Goto
  <2>3. QED
    BY <2>1, <2>2, SameOwed
<1>3. ASSUME NEW t \in Threads,
             ConnectOk(t) \/ ConnectFail(t) \/ BeginOk(t) \/ BeginFail(t)
      PROVE  NoneNew /\ log' = log
  <2>1. UNCHANGED <<store, batch, seq, log>>
    BY <1>3 DEF ConnectOk, ConnectFail, BeginOk, BeginFail
  <2>2. \A u \in Threads : pc'[u] = "handback" <=> pc[u] = "handback"
    BY <1>3, KnownFacts DEF ConnectOk, ConnectFail, BeginOk, BeginFail,
                            InitFails, Goto
  <2>3. QED
    BY <2>1, <2>2, SameOwed
<1>4. ASSUME NEW t \in Threads, RowFail(t) \/ Release(t)
      PROVE  NoneNew /\ log' = log
  <2>1. UNCHANGED <<store, batch, seq, log>>
    BY <1>4 DEF RowFail, Release
  <2>2. \A u \in Threads : pc'[u] = "handback" <=> pc[u] = "handback"
    BY <1>4, KnownFacts DEF RowFail, Release, Finishing, Retire, Goto
  <2>3. QED
    BY <2>1, <2>2, SameOwed
<1>5. CASE UNCHANGED <<store, batch, seq, log, pc>>
  BY <1>5, SameOwed
<1>6. QED
  BY <1>1, <1>2, <1>3, <1>4, <1>5
     DEF Next, Proceed, ForceProceed, RowDelivered, RowLost, RowSkipped,
         ForceStart, ForceSkip, ForceEnd, Clear, Drop, vars

-----------------------------------------------------------------------------
(***************************************************************************)
(* What a step does to sockets and statements                              *)
(***************************************************************************)
LEMMA ReleaseCloses ==
  ASSUME Known, NEW d \in Conns, NEW l, NEW id, l = link[d] \/ l = "closed",
         ReleaseConnection(d, l, id)
  PROVE  \A c \in Conns : link'[c] = link[c] \/ link'[c] = "closed"
<1>1. link \in [Conns -> Link]
  BY DEF Known, Typed, TypeOK
<1>2. QED
  BY <1>1 DEF ReleaseConnection

\* Only connect() opens a socket.
LEMMA OnlyConnectOpens ==
  ASSUME Known, Ownership, [Next]_vars, NEW c \in Conns
  PROVE  \/ \E t \in Threads : pc[t] = "connect" /\ conn[t] = c /\ ConnectOk(t)
         \/ /\ link'[c] = "up" => link[c] = "up"
            /\ link[c] = "closed" => link'[c] = "closed"
<1>0. link \in [Conns -> Link]
  BY DEF Known, Typed, TypeOK
<1> DEFINE Shut == /\ link'[c] = "up" => link[c] = "up"
                   /\ link[c] = "closed" => link'[c] = "closed"
<1>1. ASSUME NEW t \in Threads, ConnectOk(t), conn[t] # c PROVE Shut
  BY <1>0, <1>1, KnownFacts DEF ConnectOk
<1>2. ASSUME NEW t \in Threads, ConnectFail(t) \/ BeginFail(t) \/ RowFail(t)
      PROVE  Shut
  BY <1>0, <1>2 DEF ConnectFail, BeginFail, InitFails, RowFail
<1>3. ASSUME NEW t \in Threads, BeginOk(t) \/ RowLost(t) PROVE Shut
  BY <1>0, <1>3 DEF BeginOk, RowLost
<1>4. ASSUME NEW t \in Threads, SendCommit(t) PROVE Shut
  <2>1. PICK d \in Conns : \E o \in CommitOutcomes(link[d]) :
          link' = [link EXCEPT ![d] = o.link]
    BY <1>4, FrontFacts DEF SendCommit
  <2>2. PICK l : (l = link[d] \/ l = "closed") /\ link' = [link EXCEPT ![d] = l]
    BY <2>1 DEF CommitOutcomes
  <2>3. QED
    BY <1>0, <2>2
<1>5. ASSUME NEW t \in Threads, HandBack(t) \/ Release(t) PROVE Shut
  <2>1. PICK d \in Conns : \E id : ReleaseConnection(d, link[d], id)
    <3>1. CASE HandBack(t)
      <4>1. Front1(t).conn \in Conns
        BY <3>1, FrontFacts DEF HandBack, Known, Typed, AtWork
      <4>2. QED
        BY <3>1, <4>1 DEF HandBack
    <3>2. CASE Release(t)
      <4>1. conn[t] \in Conns
        BY <3>2, KnownFacts DEF Release, Finishing
      <4>2. QED
        BY <3>2, <4>1 DEF Release
    <3>3. QED
      BY <1>5, <3>1, <3>2
  <2>2. link'[c] = link[c] \/ link'[c] = "closed"
    BY <2>1, ReleaseCloses
  <2>3. QED
    BY <2>2
<1>6. ASSUME ForceCommit PROVE Shut
  <2>1. PICK x \in Txns : x = store[force]
    BY <1>6 DEF ForceCommit, Txns, ToSet
  <2>2. x.conn \in Conns
    BY <2>1, OwedHas
  <2>3. PICK o \in CommitOutcomes(link[x.conn]) :
          ReleaseConnection(x.conn, o.link, tx[x.conn])
    BY <1>6, <2>1 DEF ForceCommit
  <2>4. o.link = link[x.conn] \/ o.link = "closed"
    BY DEF CommitOutcomes
  <2>5. link'[c] = link[c] \/ link'[c] = "closed"
    BY <2>2, <2>3, <2>4, ReleaseCloses
  <2>6. QED
    BY <2>5
<1>7. ASSUME Clear PROVE Shut
  BY <1>0, <1>7 DEF Clear
<1>8. ASSUME NEW d \in Conns, Drop(d) PROVE Shut
  BY <1>0, <1>8 DEF Drop
<1>9. CASE link' = link
  BY <1>9
<1>10. QED
  BY <1>1, <1>2, <1>3, <1>4, <1>5, <1>6, <1>7, <1>8, <1>9
     DEF Next, Proceed, ForceProceed, GetReady, GetNew, GetExhausted, Lease,
         ConnectOk, CreateTransaction, RowDelivered, RowSkipped, Defer,
         TakeBatch, ForceStart, ForceSkip, ForceEnd, vars

\* Nothing is owed on a connection that was just leased.
LEMMA LeasedOwesNothing ==
  ASSUME Known, Ownership, NEW t \in Threads, pc[t] = "connect"
  PROVE  \A n : ~Owes(n, conn[t])
<1>1. conn[t] \in Held(t) /\ tx[conn[t]] = 0
  BY OwnConnection DEF Ownership, Phased
<1>2. \A x \in Txns : x.conn # conn[t]
  BY <1>1, CommitterHasNone
<1>3. Unsent(t) = {}
  BY UnsentTyped DEF Ownership
<1>4. QED
  BY <1>1, <1>2, <1>3, OwesNothing

\* A transaction that loses a message is one that runs, and its socket is
\* not up.
LEMMA LossEffect ==
  ASSUME Known, Ownership, [Next]_vars, NEW n \in lossy', n \notin lossy
  PROVE  \E c \in Conns : Owes(n, c) /\ link'[c] # "up" /\ n \in Nat
<1>0. link \in [Conns -> Link]
  BY DEF Known, Typed, TypeOK
<1>1. PICK t \in Threads : RowLost(t) \/ RowSkipped(t) \/ RowFail(t)
  BY DEF Next, Proceed, ForceProceed, GetReady, GetNew, GetExhausted, Lease,
         ConnectOk, ConnectFail, CreateTransaction, BeginOk, BeginFail,
         RowDelivered, Defer, TakeBatch, SendCommit, HandBack, Release,
         ForceStart, ForceCommit, ForceSkip, ForceEnd, Clear, Drop, vars
<1>2. n = tx[conn[t]] /\ n # 0 /\ pc[t] = "rows"
  BY <1>1 DEF RowLost, RowSkipped, RowFail, Undelivered
<1>3. conn[t] \in Conns
  BY <1>2, KnownFacts
<1>4. link'[conn[t]] # "up"
  BY <1>0, <1>1, <1>3 DEF RowLost, RowSkipped, RowFail
<1>5. Mine(t, FALSE) \in Txns
  BY <1>2, FinishingFacts DEF Finishing
<1>6. Owes(n, conn[t]) /\ n \in Nat
  BY <1>2, <1>5, OwedHas DEF Mine
<1>7. QED
  BY <1>3, <1>4, <1>6

-----------------------------------------------------------------------------
(***************************************************************************)
(* Commits is inductive                                                    *)
(***************************************************************************)

\* What connections say about transactions that lost a message.
LEMMA LossyStaysDown ==
  ASSUME Known, Ownership, Commits, [Next]_vars,
         seq' \in Nat, seq <= seq',
         \A n \in lossy : \A c \in Conns : Owes(n, c)' => Owes(n, c),
         \A n \in lossy' \ lossy : \A c \in Conns : Owes(n, c)' => Owes(n, c)
  PROVE  LossyDown'
<1>1. lossy \subseteq Nat /\ seq \in Nat
  BY KnownFacts DEF Known, Typed, TypeOK
<1>2. ASSUME NEW n \in lossy', n \in lossy
      PROVE  n <= seq' /\ \A c \in Conns : Owes(n, c)' => link'[c] # "up"
  <2>1. n <= seq
    BY <1>2 DEF Commits, LossyDown
  <2>2. ASSUME NEW c \in Conns, Owes(n, c)' PROVE link'[c] # "up"
    <3>1. Owes(n, c) /\ link[c] # "up"
      BY <1>2, <2>2 DEF Commits, LossyDown
    <3>2. ~\E t \in Threads : pc[t] = "connect" /\ conn[t] = c
      BY <3>1, LeasedOwesNothing
    <3>3. QED
      BY <3>1, <3>2, OnlyConnectOpens
  <2>3. QED
    BY <1>1, <1>2, <2>1, <2>2
<1>3. ASSUME NEW n \in lossy', n \notin lossy
      PROVE  n <= seq' /\ \A c \in Conns : Owes(n, c)' => link'[c] # "up"
  <2>1. PICK d \in Conns : Owes(n, d) /\ link'[d] # "up" /\ n \in Nat
    BY <1>3, LossEffect
  <2>2. n <= seq
    BY <2>1 DEF Commits, OwedUnsent
  <2>3. ASSUME NEW c \in Conns, Owes(n, c)' PROVE c = d
    BY <1>3, <2>1, <2>3 DEF Commits, OwedOnce
  <2>4. QED
    BY <1>1, <2>1, <2>2, <2>3
<1>4. QED
  BY <1>2, <1>3 DEF LossyDown

LEMMA CreateCommits ==
  ASSUME Known, Ownership, Commits, NEW t \in Threads, CreateTransaction(t)
  PROVE  Commits'
<1>1. /\ seq' = seq + 1 /\ conn[t] \in Conns /\ seq \in Nat
      /\ \A n \in Nat : \A c \in Conns :
           Owes(n, c)' => Owes(n, c) \/ (n = seq + 1 /\ c = conn[t])
  BY CreateOwes, KnownFacts
<1>2. log' = log /\ lossy' = lossy /\ lossy \subseteq Nat /\ log \in Seq(Nat)
  BY DEF CreateTransaction, Known, Typed, TypeOK
<1>3. \A k \in DOMAIN log : log[k] \in Nat
  BY <1>2
<1>4. \A n \in Nat : n <= seq => n <= seq + 1 /\ n # seq + 1
  BY <1>1
<1>5. \A c \in Conns : ~Owes(seq + 1, c)
  BY <1>1, <1>4 DEF Commits, OwedUnsent
<1>6. OwedOnce'
  BY <1>1, <1>5 DEF Commits, OwedOnce
<1>7. OwedUnsent'
  <2> SUFFICES ASSUME NEW n \in Nat, NEW c \in Conns, Owes(n, c)'
               PROVE  n <= seq' /\ \A k \in DOMAIN log : log[k] # n
    BY <1>2 DEF OwedUnsent
  <2>1. CASE Owes(n, c)
    BY <1>1, <1>4, <2>1 DEF Commits, OwedUnsent
  <2>2. CASE n = seq + 1
    BY <1>1, <1>3, <1>4, <2>2 DEF Commits, LogSound
  <2>3. QED
    BY <1>1, <2>1, <2>2
<1>8. CommitOnce' /\ LogSound'
  BY <1>1, <1>2, <1>3, <1>4 DEF Commits, CommitOnce, LogSound
<1>9. LossyDown'
  <2>1. \A n \in lossy : n # seq + 1
    BY <1>1, <1>2, <1>4 DEF Commits, LossyDown
  <2>2. \A n \in lossy : \A c \in Conns : Owes(n, c)' => Owes(n, c)
    BY <1>1, <1>2, <2>1
  <2>3. [Next]_vars
    BY DEF Next, Proceed
  <2>4. QED
    BY <1>1, <1>2, <2>2, <2>3, LossyStaysDown
<1>10. QED
  BY <1>6, <1>7, <1>8, <1>9 DEF Commits

LEMMA SettleCommits ==
  ASSUME Known, Ownership, Commits, [Next]_vars,
         NEW n \in Nat, NEW c \in Conns, Settles(n, c)
  PROVE  Commits'
<1>1. /\ Owes(n, c) /\ ~Owes(n, c)' /\ seq' = seq /\ lossy' = lossy
      /\ \A m \in Nat : \A d \in Conns : Owes(m, d)' => Owes(m, d)
      /\ log' = log \/ (log' = Append(log, n) /\ link[c] = "up")
  BY DEF Settles, NoneNew
<1>2. seq \in Nat /\ log \in Seq(Nat) /\ lossy \subseteq Nat
  BY KnownFacts DEF Known, Typed, TypeOK
<1>3. \A d \in Conns : ~Owes(n, d)'
  BY <1>1 DEF Commits, OwedOnce
<1>4. n <= seq /\ \A k \in DOMAIN log : log[k] # n
  BY <1>1 DEF Commits, OwedUnsent
<1>5. link[c] = "up" => n \notin lossy
  BY <1>1 DEF Commits, LossyDown
<1>6. OwedOnce'
  BY <1>1 DEF Commits, OwedOnce
<1>7. LossyDown'
  BY <1>1, <1>2, LossyStaysDown
<1>8. CASE log' = log
  BY <1>1, <1>6, <1>7, <1>8
     DEF Commits, OwedUnsent, CommitOnce, LogSound
<1>9. CASE log' = Append(log, n) /\ link[c] = "up"
  <2>1. /\ Len(log) \in Nat /\ DOMAIN log = 1..Len(log)
        /\ DOMAIN log' = 1..(Len(log) + 1)
        /\ \A k \in 1..Len(log) : log'[k] = log[k]
        /\ log'[Len(log) + 1] = n
    BY <1>2, <1>9
  <2>2. \A k \in DOMAIN log' :
          (k \in DOMAIN log /\ log'[k] = log[k]) \/ (k = Len(log) + 1 /\ log'[k] = n)
    BY <2>1
  <2>3. CommitOnce'
    <3> SUFFICES ASSUME NEW j \in DOMAIN log', NEW k \in DOMAIN log',
                        log'[j] = log'[k]
                 PROVE  j = k
      BY DEF CommitOnce, IsInjective
    <3>1. CASE j \in DOMAIN log /\ log'[j] = log[j]
               /\ k \in DOMAIN log /\ log'[k] = log[k]
      BY <3>1 DEF Commits, CommitOnce, IsInjective
    <3>2. QED
      BY <1>4, <2>2, <3>1
  <2>4. LogSound'
    BY <1>1, <1>4, <1>5, <1>9, <2>2 DEF Commits, LogSound
  <2>5. OwedUnsent'
    <3> SUFFICES ASSUME NEW m \in Nat, NEW d \in Conns, Owes(m, d)',
                        NEW k \in DOMAIN log'
                 PROVE  log'[k] # m
      BY <1>1 DEF OwedUnsent, Commits
    <3>1. m # n
      BY <1>3
    <3>2. QED
      BY <1>1, <2>2, <3>1 DEF Commits, OwedUnsent
  <2>6. QED
    BY <1>6, <1>7, <2>3, <2>4, <2>5 DEF Commits
<1>10. QED
  BY <1>1, <1>8, <1>9

LEMMA QuietCommits ==
  ASSUME Known, Ownership, Commits, [Next]_vars, NoneNew, log' = log
  PROVE  Commits'
<1>1. /\ seq' = seq /\ seq \in Nat /\ lossy \subseteq Nat /\ lossy' \subseteq Nat
      /\ \A m \in Nat : \A d \in Conns : Owes(m, d)' => Owes(m, d)
  <2>1. Typed'
    BY NextTyped DEF Known
  <2>2. QED
    BY <2>1, KnownFacts DEF NoneNew, Known, Typed, TypeOK
<1>2. LossyDown'
  BY <1>1, LossyStaysDown
<1>3. OwedOnce' /\ OwedUnsent' /\ CommitOnce'
  BY <1>1 DEF Commits, OwedOnce, OwedUnsent, CommitOnce
<1>4. LogSound'
  <2> SUFFICES ASSUME NEW k \in DOMAIN log, log[k] \in lossy' PROVE FALSE
    BY <1>1 DEF Commits, LogSound
  <2>1. log[k] \notin lossy
    BY DEF Commits, LogSound
  <2>2. PICK c \in Conns : Owes(log[k], c) /\ log[k] \in Nat
    BY <2>1, LossEffect
  <2>3. QED
    BY <2>2 DEF Commits, OwedUnsent
<1>5. QED
  BY <1>2, <1>3, <1>4 DEF Commits

LEMMA CommitsInductive == Known /\ Ownership /\ Commits /\ [Next]_vars => Commits'
<1> SUFFICES ASSUME Known, Ownership, Commits, [Next]_vars PROVE Commits'
  OBVIOUS
<1>1. CASE \E t \in Threads : CreateTransaction(t)
  BY <1>1, CreateCommits
<1>2. CASE (\E t \in Threads : SendCommit(t)) \/ ForceCommit
  <2>1. PICK n \in Nat, c \in Conns : Settles(n, c)
    BY <1>2, SendSettles, ForceSettles
  <2>2. QED
    BY <2>1, SettleCommits
<1>3. CASE ~(\E t \in Threads : CreateTransaction(t) \/ SendCommit(t)) /\ ~ForceCommit
  BY <1>3, OtherOwes, QuietCommits
<1>4. QED
  BY <1>1, <1>2, <1>3

LEMMA InitCommits == Init => Commits
<1> SUFFICES ASSUME Init PROVE Commits
  OBVIOUS
<1>1. \A n, c : ~Owes(n, c)
  BY DEF Init, Owes, Txns, Unsent, Taken, ToSet
<1>2. QED
  BY <1>1 DEF Init, Commits, OwedOnce, OwedUnsent, CommitOnce, IsInjective,
              LogSound, LossyDown

LEMMA AlwaysCommits == Spec => []Commits
  BY InitCommits, CommitsInductive, AlwaysKnown, AlwaysOwnership, PTL DEF Spec

(* No COMMIT is written twice: not by the thread that took a transaction   *)
(* and by force_commit(), nor by two threads.                              *)
THEOREM EachCommittedOnce == Spec => []CommitOnce
<1>1. Commits => CommitOnce
  BY DEF Commits
<1>2. QED
  BY <1>1, AlwaysCommits, PTL

(* A transaction of which one message did not reach the broker is never    *)
(* committed there, whichever thread sends its COMMIT and however many     *)
(* sessions end: its socket stays closed or dead until it leaves the pool. *)
THEOREM NoneCommittedInPart == Spec => []NoPartialCommit
<1>1. Commits => NoPartialCommit
  BY DEF Commits, LogSound, NoPartialCommit
<1>2. QED
  BY <1>1, AlwaysCommits, PTL

-----------------------------------------------------------------------------
(***************************************************************************)
(* FailedStaysClosed                                                       *)
(***************************************************************************)
Hopeful ==
  \A t \in Threads : pc[t] \in {"connect", "create", "begin"} => result[t] = "ok"

\* The part of FailedStaysClosed about the statement that has the connection.
ReportedClosed ==
  \A t \in Threads :
    result[t] = "error" /\ conn[t] # None => link[conn[t]] = "closed"

\* How a statement may come to report an error, or to have another connection.
LEMMA ResultSteps ==
  ASSUME Known, Ownership, Hopeful, [Next]_vars, NEW t \in Threads
  PROVE  \/ conn'[t] = None /\ pc'[t] = "idle"
         \/ result'[t] = "ok"
         \/ /\ conn'[t] = conn[t] /\ pc'[t] \notin {"connect", "create", "begin"}
            /\ \/ result'[t] = result[t]
               \/ link'[conn[t]] = "closed"
<1>0. /\ link \in [Conns -> Link] /\ result \in [Threads -> {"ok", "error"}]
      /\ pc \in [Threads -> Phase] /\ conn \in [Threads -> Conns \cup {None}]
  BY DEF Known, Typed, TypeOK
<1> DEFINE Fine(p) == \/ conn'[t] = None /\ pc'[t] = "idle"
                      \/ result'[t] = "ok"
                      \/ /\ conn'[t] = conn[t] /\ pc'[t] \notin {"connect", "create", "begin"}
                         /\ \/ result'[t] = result[t]
                            \/ link'[conn[t]] = "closed"
<1>1. CASE conn'[t] = conn[t] /\ result'[t] = result[t] /\ pc'[t] = pc[t]
  BY <1>0, <1>1 DEF Hopeful
<1>2. ASSUME NEW u \in Threads, NEW s \in Settings,
             GetReady(u, s) \/ GetNew(u, s) \/ GetExhausted(u, s), u = t
      PROVE  Fine(t)
  BY <1>0, <1>2 DEF GetReady, GetNew, GetExhausted, Lease, Goto, Ownership, Phased
<1>3. ASSUME ConnectOk(t) \/ CreateTransaction(t) \/ BeginOk(t) PROVE Fine(t)
  BY <1>0, <1>3 DEF ConnectOk, CreateTransaction, BeginOk, Goto, Hopeful
<1>4. ASSUME ConnectFail(t) \/ BeginFail(t) \/ RowFail(t) PROVE Fine(t)
  <2>1. conn[t] \in Conns
    BY <1>4, KnownFacts DEF ConnectFail, BeginFail, RowFail
  <2>2. QED
    BY <1>0, <1>4, <2>1 DEF ConnectFail, BeginFail, RowFail, InitFails, Goto
<1>5. ASSUME Defer(t) \/ Release(t) PROVE Fine(t)
  BY <1>0, <1>5 DEF Defer, Release, Retire, Goto
<1>6. ASSUME TakeBatch(t) \/ SendCommit(t) \/ HandBack(t) PROVE Fine(t)
  BY <1>0, <1>6 DEF TakeBatch, SendCommit, HandBack, Goto
<1>7. ASSUME NEW u \in Threads, Proceed(u), u # t PROVE Fine(t)
  BY <1>0, <1>1, <1>7
     DEF Proceed, ConnectOk, ConnectFail, CreateTransaction, BeginOk, BeginFail,
         RowDelivered, RowLost, RowSkipped, RowFail, Defer, TakeBatch,
         SendCommit, HandBack, Release, InitFails, Retire, Goto, vars
<1>8. ASSUME NEW u \in Threads, NEW s \in Settings,
             GetReady(u, s) \/ GetNew(u, s) \/ GetExhausted(u, s), u # t
      PROVE  Fine(t)
  BY <1>0, <1>1, <1>8 DEF GetReady, GetNew, GetExhausted, Lease, Goto
<1>9. QED
  BY <1>1, <1>2, <1>3, <1>4, <1>5, <1>6, <1>7, <1>8
     DEF Next, Proceed, ForceProceed, RowDelivered, RowLost, RowSkipped,
         ForceStart, ForceCommit, ForceSkip, ForceEnd, Clear, Drop, vars

LEMMA FailedInductive ==
  Known /\ Ownership /\ Hopeful /\ ReportedClosed /\ [Next]_vars
    => Hopeful' /\ ReportedClosed'
<1> SUFFICES ASSUME Known, Ownership, Hopeful, ReportedClosed, [Next]_vars,
                    NEW t \in Threads
             PROVE  /\ pc'[t] \in {"connect", "create", "begin"} => result'[t] = "ok"
                    /\ result'[t] = "error" /\ conn'[t] # None =>
                         link'[conn'[t]] = "closed"
  BY DEF Hopeful, ReportedClosed
<1>1. pc'[t] \in {"connect", "create", "begin"} => result'[t] = "ok"
  BY ResultSteps
<1>2. ASSUME result'[t] = "error", conn'[t] # None
      PROVE  link'[conn'[t]] = "closed"
  <2>1. conn'[t] = conn[t] /\ (result'[t] = result[t] \/ link'[conn[t]] = "closed")
    BY <1>2, ResultSteps
  <2>2. CASE result[t] = "error"
    <3>1. link[conn[t]] = "closed" /\ conn[t] \in Conns
      BY <1>2, <2>1, <2>2, KnownFacts DEF ReportedClosed
    <3>2. ASSUME NEW u \in Threads, pc[u] = "connect", conn[u] = conn[t]
          PROVE  FALSE
      <4>1. u = t
        BY <3>2, OwnConnection
      <4>2. QED
        BY <2>2, <3>2, <4>1 DEF Hopeful
    <3>3. QED
      BY <2>1, <3>1, <3>2, OnlyConnectOpens
  <2>3. QED
    BY <1>2, <2>1, <2>2
<1>3. QED
  BY <1>1, <1>2

\* The part about the transactions that lost a message.
LEMMA LossyUncommitted ==
  ASSUME Known, Commits, NEW x \in Uncommitted, x.id \in lossy
  PROVE  link[x.conn] # "up"
<1>1. x \in Txns \/ \E t \in Threads : x \in Unsent(t)
  BY DEF Uncommitted, Txns, Unsent, Taken
<1>2. x.id \in Nat /\ x.conn \in Conns /\ Owes(x.id, x.conn)
  BY <1>1, OwedHas
<1>3. QED
  BY <1>2 DEF Commits, LossyDown

(* A connection whose statement reported an error stays closed as long as  *)
(* the statement has it, and one on which a message was lost stays down    *)
(* until its transaction leaves the pool, in whichever thread's batch or   *)
(* under force_commit: nothing more is sent on it.                         *)
THEOREM FailedNeverReopens == Spec => []FailedStaysClosed
<1>1. Init => Hopeful /\ ReportedClosed
  BY DEF Init, Hopeful, ReportedClosed
<1>2. Spec => []ReportedClosed
  BY <1>1, FailedInductive, AlwaysKnown, AlwaysOwnership, PTL DEF Spec
<1>3. Known /\ Commits /\ ReportedClosed => FailedStaysClosed
  BY LossyUncommitted DEF FailedStaysClosed, ReportedClosed
<1>4. QED
  BY <1>2, <1>3, AlwaysKnown, AlwaysCommits, PTL

=============================================================================

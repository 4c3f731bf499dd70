----------------------------- MODULE PoolProofs -----------------------------
(***************************************************************************)
(* Proofs about module Pool, for every set of threads and connections and  *)
(* every value of the limits.                                              *)
(***************************************************************************)
EXTENDS Pool, SequenceTheorems, TLAPS

(***************************************************************************)
(* What the typing of the next state needs beyond the types: a thread at   *)
(* work has a connection, and one about to hand a connection back has the  *)
(* transaction it belongs to.                                              *)
(***************************************************************************)
AtWork ==
  \A t \in Threads :
    /\ pc[t] # "idle" => conn[t] \in Conns
    /\ pc[t] = "handback" => batch[t] # <<>>

Typed == TypeOK /\ AtWork

(***************************************************************************)
(* Lemmas about the operators of Pool                                      *)
(***************************************************************************)

LEMMA ElementTyped ==
  ASSUME NEW S, NEW s \in Seq(S), NEW i \in DOMAIN s
  PROVE  s[i] \in S /\ i \in 1..Len(s)
  OBVIOUS

LEMMA HasFirst ==
  ASSUME NEW S, NEW s \in Seq(S), s # <<>>
  PROVE  1 \in DOMAIN s /\ Len(s) \in Nat \ {0}
  BY EmptySeq, LenProperties

\* Marking a transaction changes its mark and nothing else.
LEMMA MarkedProperties ==
  ASSUME NEW s \in Seq(Txn), NEW i \in DOMAIN s
  PROVE  /\ Marked(s, i) \in Seq(Txn)
         /\ Len(Marked(s, i)) = Len(s)
         /\ \A j \in DOMAIN s :
              Marked(s, i)[j] = IF j = i THEN [id |-> s[i].id,
                                              conn |-> s[i].conn,
                                              ready |-> TRUE]
                                         ELSE s[j]
<1>1. [id |-> s[i].id, conn |-> s[i].conn, ready |-> TRUE] \in Txn
  BY ElementTyped DEF Txn
<1>2. QED
  BY <1>1, ExceptSeq DEF Marked

\* A part of a sequence has elements of the same type.
LEMMA SubSeqTyped ==
  ASSUME NEW S, NEW s \in Seq(S), NEW m \in Nat \ {0}, NEW n \in 0..Len(s)
  PROVE  /\ SubSeq(s, m, n) \in Seq(S)
         /\ Len(SubSeq(s, m, n)) = IF m <= n THEN n - m + 1 ELSE 0
         /\ \A i \in 1..(n - m + 1) : SubSeq(s, m, n)[i] = s[m + i - 1]
<1>1. m \in Int /\ n \in Int /\ \A i \in m..n : s[i] \in S
  BY ElementTyped
<1>2. QED
  BY <1>1, SubSeqProperties

\* RemoveAt closes the gap.
LEMMA RemoveAtProperties ==
  ASSUME NEW S, NEW s \in Seq(S), NEW i \in DOMAIN s
  PROVE  /\ RemoveAt(s, i) \in Seq(S)
         /\ Len(RemoveAt(s, i)) = Len(s) - 1
         /\ \A j \in 1..(Len(s) - 1) :
              RemoveAt(s, i)[j] = IF j < i THEN s[j] ELSE s[j + 1]
<1>1. i \in 1..Len(s) /\ Len(s) \in Nat /\ \A j \in 1..Len(s) : s[j] \in S
  BY ElementTyped
<1> DEFINE front == SubSeq(s, 1, i - 1)
           back  == SubSeq(s, i + 1, Len(s))
<1>2. /\ front \in Seq(S) /\ Len(front) = i - 1
      /\ \A j \in 1..(i - 1) : front[j] = s[j]
  BY <1>1, SubSeqTyped
<1>3. /\ back \in Seq(S) /\ Len(back) = Len(s) - i
      /\ \A j \in 1..(Len(s) - i) : back[j] = s[j + i]
  <2>1. i + 1 \in Nat \ {0} /\ Len(s) \in 0..Len(s)
    BY <1>1
  <2>2. /\ back \in Seq(S)
        /\ Len(back) = IF i + 1 <= Len(s) THEN Len(s) - (i + 1) + 1 ELSE 0
        /\ \A j \in 1..(Len(s) - (i + 1) + 1) : back[j] = s[(i + 1) + j - 1]
    BY <2>1, SubSeqTyped
  <2>3. QED
    BY <1>1, <2>2
<1> HIDE DEF front, back
<1>4. /\ front \o back \in Seq(S)
      /\ Len(front \o back) = Len(front) + Len(back)
      /\ \A j \in 1..(Len(front) + Len(back)) : (front \o back)[j] =
           IF j <= Len(front) THEN front[j] ELSE back[j - Len(front)]
  BY <1>2, <1>3, ConcatProperties
<1>5. RemoveAt(s, i) = front \o back
  BY DEF RemoveAt, front, back
<1>6. \A j \in 1..(Len(s) - 1) :
        (front \o back)[j] = IF j < i THEN s[j] ELSE s[j + 1]
  <2> SUFFICES ASSUME NEW j \in 1..(Len(s) - 1)
               PROVE  (front \o back)[j] = IF j < i THEN s[j] ELSE s[j + 1]
    OBVIOUS
  <2>1. CASE j < i
    BY <2>1, <1>1, <1>2, <1>3, <1>4, SMTT(30)
  <2>2. CASE ~(j < i)
    <3>1. j - (i - 1) \in 1..(Len(s) - i) /\ (j - (i - 1)) + i = j + 1
      BY <2>2, <1>1
    <3>2. back[j - (i - 1)] = s[j + 1]
      BY <3>1, <1>3
    <3>3. j \in 1..(Len(front) + Len(back)) /\ ~(j <= Len(front))
      BY <2>2, <1>1, <1>2, <1>3
    <3>4. (front \o back)[j] = back[j - Len(front)]
      BY <3>3, <1>4
    <3>5. QED
      BY <2>2, <3>2, <3>4, <1>1, <1>2
  <2>3. QED
    BY <2>1, <2>2
<1>7. Len(front) + Len(back) = Len(s) - 1
  BY <1>1, <1>2, <1>3
<1>8. QED
  BY <1>4, <1>5, <1>6, <1>7

\* Only exchanges and bookkeeping of a connection that is in Conns.
LEMMA ReleaseTyped ==
  ASSUME TypeOK, NEW c \in Conns, NEW l \in Link, NEW id \in Nat,
         ReleaseConnection(c, l, id)
  PROVE  /\ active' \in SUBSET Conns
         /\ ready' \in Seq(Conns)
         /\ tx' \in [Conns -> Nat]
         /\ link' \in [Conns -> Link]
  BY DEF TypeOK, ReleaseConnection, Link

LEMMA InitTyped == Init => Typed
  BY PoolAssumption DEF Init, Typed, TypeOK, AtWork, NoSettings, AllSettings, Link, Phase

LEMMA NextTyped == Typed /\ [Next]_vars => Typed'
<1> SUFFICES ASSUME Typed, [Next]_vars PROVE Typed'
  OBVIOUS
<1> USE DEF Typed, TypeOK, AtWork, Phase
<1>1. ASSUME NEW t \in Threads, NEW s \in Settings, GetReady(t, s)
      PROVE  Typed'
  BY <1>1, PoolAssumption DEF GetReady, Lease, Goto
<1>2. ASSUME NEW t \in Threads, NEW s \in Settings, GetNew(t, s)
      PROVE  Typed'
  BY <1>2, PoolAssumption DEF GetNew, Lease, Goto
<1>3. ASSUME NEW t \in Threads, NEW s \in Settings, GetExhausted(t, s)
      PROVE  Typed'
  BY <1>3, PoolAssumption DEF GetExhausted
<1>4. ASSUME NEW t \in Threads, ConnectOk(t) PROVE Typed'
  <2>1. conn[t] \in Conns
    BY <1>4 DEF ConnectOk
  <2>2. \/ link' = link
        \/ link' = [link EXCEPT ![conn[t]] = "up"]
        \/ link' = [link EXCEPT ![conn[t]] = "closed"]
    BY <1>4 DEF ConnectOk
  <2>3. link' \in [Conns -> Link]
    BY <2>1, <2>2 DEF Link
  <2>4. pc' \in [Threads -> Phase] /\ AtWork'
    BY <1>4 DEF ConnectOk, Goto
  <2>5. QED
    BY <1>4, <2>3, <2>4 DEF ConnectOk
<1>5. ASSUME NEW t \in Threads, ConnectFail(t) PROVE Typed'
  BY <1>5 DEF ConnectFail, InitFails, Goto, Link
<1>6. ASSUME NEW t \in Threads, CreateTransaction(t) PROVE Typed'
  BY <1>6, PoolAssumption DEF CreateTransaction, NewTxn, Goto, Txn
<1>7. ASSUME NEW t \in Threads, BeginOk(t) PROVE Typed'
  <2>1. link' \in [Conns -> Link]
    BY <1>7 DEF BeginOk, Link
  <2>2. pc' \in [Threads -> Phase] /\ AtWork'
    BY <1>7 DEF BeginOk, Goto
  <2>3. QED
    BY <1>7, <2>1, <2>2 DEF BeginOk
<1>8. ASSUME NEW t \in Threads, BeginFail(t) PROVE Typed'
  BY <1>8 DEF BeginFail, InitFails, Goto, Link
<1>9. ASSUME NEW t \in Threads,
             RowDelivered(t) \/ RowLost(t) \/ RowSkipped(t) \/ RowFail(t)
      PROVE  Typed'
  <2>1. CASE RowDelivered(t)
    BY <2>1 DEF RowDelivered, vars
  <2>2. conn[t] \in Conns
    BY <1>9 DEF RowDelivered, RowLost, RowSkipped, RowFail
  <2>3. Undelivered(t) => lossy' \in SUBSET Nat
    <3>1. tx[conn[t]] \in Nat /\ lossy \subseteq Nat
      BY <2>2
    <3>2. QED
      BY <3>1, Zenon DEF Undelivered
  <2>4. CASE RowLost(t)
    BY <2>2, <2>3, <2>4 DEF RowLost, Link
  <2>5. CASE RowSkipped(t)
    BY <2>3, <2>5 DEF RowSkipped
  <2>6. CASE RowFail(t)
    BY <2>2, <2>3, <2>6 DEF RowFail, Link, Goto
  <2>7. QED
    BY <1>9, <2>1, <2>4, <2>5, <2>6
<1>10. ASSUME NEW t \in Threads, Defer(t) PROVE Typed'
  <2>1. PICK i \in DOMAIN store : store' = Marked(store, i)
    BY <1>10 DEF Defer
  <2>2. store' \in Seq(Txn)
    BY <2>1, MarkedProperties
  <2>3. pc' \in [Threads -> Phase] /\ conn' \in [Threads -> Conns \cup {None}]
        /\ conf' \in [Threads -> AllSettings] /\ AtWork'
    BY <1>10 DEF Defer, Retire, Goto, NoSettings, AllSettings
  <2>4. QED
    BY <1>10, <2>2, <2>3 DEF Defer
<1>11. ASSUME NEW t \in Threads, TakeBatch(t) PROVE Typed'
  <2> DEFINE marked == Marked(store, 1)
  <2>1. marked \in Seq(Txn) /\ Len(marked) = Len(store) /\ Len(store) \in Nat
    <3>1. 1 \in DOMAIN store
      BY <1>11, HasFirst DEF TakeBatch
    <3>2. store \in Seq(Txn) /\ Len(store) \in Nat
      OBVIOUS
    <3>3. QED
      BY <3>1, <3>2, MarkedProperties, Zenon
  <2>2. PICK n \in 1..Len(store) :
          /\ batch' = [batch EXCEPT ![t] = SubSeq(marked, 1, n)]
          /\ store' = SubSeq(marked, n + 1, Len(store))
    BY <1>11 DEF TakeBatch
  <2> HIDE DEF marked
  <2>3. batch' \in [Threads -> Seq(Txn)] /\ store' \in Seq(Txn)
    BY <2>1, <2>2, SubSeqTyped
  <2>4. pc' \in [Threads -> Phase] /\ AtWork'
    BY <1>11 DEF TakeBatch, Goto, Finishing
  <2>5. QED
    BY <1>11, <2>3, <2>4 DEF TakeBatch
<1>12. ASSUME NEW t \in Threads, SendCommit(t) PROVE Typed'
  <2>1. batch[t] # <<>> /\ batch[t] \in Seq(Txn) /\ Front1(t) \in Txn
        /\ Tail(batch[t]) \in Seq(Txn)
    BY <1>12, HeadTailProperties DEF SendCommit, Front1
  <2>2. PICK o \in CommitOutcomes(link[Front1(t).conn]) :
          /\ link' = [link EXCEPT ![Front1(t).conn] = o.link]
          /\ LogCommit(Front1(t).id, o.sent)
    BY <1>12 DEF SendCommit
  <2>3. o.link \in Link /\ Front1(t).conn \in Conns /\ Front1(t).id \in Nat
    BY <2>1 DEF CommitOutcomes, Link, Txn
  <2>4. link' \in [Conns -> Link] /\ log' \in Seq(Nat)
    BY <2>2, <2>3 DEF LogCommit
  <2>5. pc' \in [Threads -> Phase] /\ batch' \in [Threads -> Seq(Txn)] /\ AtWork'
    <3>1. \/ pc' = [pc EXCEPT ![t] = "handback"] /\ batch' = batch
          \/ pc' = pc /\ batch' = [batch EXCEPT ![t] = Tail(@)]
      BY <1>12, Zenon DEF SendCommit, Goto
    <3>2. conn' = conn /\ pc[t] = "commit"
      BY <1>12 DEF SendCommit
    <3>3. CASE pc' = [pc EXCEPT ![t] = "handback"] /\ batch' = batch
      BY <2>1, <3>2, <3>3
    <3>4. CASE pc' = pc /\ batch' = [batch EXCEPT ![t] = Tail(@)]
      <4>1. \A u \in Threads : pc[u] = "handback" => batch'[u] = batch[u]
        BY <3>2, <3>4
      <4>2. AtWork'
        BY <3>2, <3>4, <4>1
      <4>3. QED
        BY <2>1, <3>4, <4>2
    <3>5. QED
      BY <3>1, <3>3, <3>4
  <2>6. QED
    BY <1>12, <2>4, <2>5 DEF SendCommit
<1>13. ASSUME NEW t \in Threads, HandBack(t) PROVE Typed'
  <2>1. batch[t] # <<>> /\ batch[t] \in Seq(Txn) /\ Front1(t) \in Txn
        /\ Tail(batch[t]) \in Seq(Txn)
    BY <1>13, HeadTailProperties DEF HandBack, Front1
  <2>2. Front1(t).conn \in Conns
    BY <2>1 DEF Txn
  <2>3. /\ active' \in SUBSET Conns /\ ready' \in Seq(Conns)
        /\ tx' \in [Conns -> Nat] /\ link' \in [Conns -> Link]
    BY <1>13, <2>2, ReleaseTyped DEF HandBack
  <2>4. pc' \in [Threads -> Phase] /\ batch' \in [Threads -> Seq(Txn)] /\ AtWork'
    BY <1>13, <2>1 DEF HandBack, Goto
  <2>5. QED
    BY <1>13, <2>3, <2>4 DEF HandBack
<1>14. ASSUME NEW t \in Threads, Release(t) PROVE Typed'
  BY <1>14, ReleaseTyped DEF Release, Finishing, Retire, Goto, NoSettings,
                             AllSettings
<1>15. ASSUME ForceStart \/ ForceSkip \/ ForceEnd PROVE Typed'
  <2>1. force' \in Nat
    BY <1>15 DEF ForceStart, ForceSkip, ForceEnd
  <2>2. QED
    BY <1>15, <2>1 DEF ForceStart, ForceSkip, ForceEnd
<1>16. ASSUME ForceCommit PROVE Typed'
  <2>1. force \in DOMAIN store /\ store[force] \in Txn
    BY <1>16, ElementTyped DEF ForceCommit
  <2> DEFINE c == store[force].conn
  <2>2. c \in Conns /\ store[force].id \in Nat
    BY <2>1 DEF Txn
  <2>3. PICK o \in CommitOutcomes(link[c]) :
          LogCommit(store[force].id, o.sent) /\ ReleaseConnection(c, o.link, tx[c])
    BY <1>16 DEF ForceCommit
  <2>4. o.link \in Link /\ log' \in Seq(Nat)
    BY <2>2, <2>3 DEF CommitOutcomes, Link, LogCommit
  <2>5. /\ active' \in SUBSET Conns /\ ready' \in Seq(Conns)
        /\ tx' \in [Conns -> Nat] /\ link' \in [Conns -> Link]
    BY <2>2, <2>3, <2>4, ReleaseTyped
  <2>6. store' \in Seq(Txn)
    BY <1>16, <2>1, RemoveAtProperties DEF ForceCommit
  <2>7. QED
    BY <1>16, <2>4, <2>5, <2>6 DEF ForceCommit
<1>17. ASSUME Clear PROVE Typed'
  BY <1>17 DEF Clear, Link
<1>18. ASSUME NEW c \in Conns, Drop(c) PROVE Typed'
  BY <1>18 DEF Drop, Link
<1>19. CASE UNCHANGED vars
  BY <1>19 DEF vars
<1>20. QED
  BY <1>1, <1>2, <1>3, <1>4, <1>5, <1>6, <1>7, <1>8, <1>9, <1>10, <1>11,
     <1>12, <1>13, <1>14, <1>15, <1>16, <1>17, <1>18, <1>19
     DEF Next, Proceed, ForceProceed

LEMMA AlwaysTyped == Spec => []Typed
  BY InitTyped, NextTyped, PTL DEF Spec

(* Every variable of Pool keeps its type, the indices the code takes for   *)
(* granted included: a connection released or committed is a real one.     *)
THEOREM TypeCorrect == Spec => []TypeOK
  BY AlwaysTyped, PTL DEF Typed

-----------------------------------------------------------------------------
(***************************************************************************)
(* DeferredBehindRunning is not inductive: removing the oldest transaction *)
(* could leave a ready one in front.  What the code keeps true is that the *)
(* first transaction of the store is never ready.                          *)
(***************************************************************************)
HeadRuns == store # <<>> => ~store[1].ready

LEMMA HeadRunsSuffices == TypeOK /\ HeadRuns => DeferredBehindRunning
<1> SUFFICES ASSUME TypeOK, HeadRuns, NEW i \in DOMAIN store, store[i].ready
             PROVE  \E j \in 1..(i - 1) : ~store[j].ready
  BY DEF DeferredBehindRunning
<1>1. store \in Seq(Txn) /\ i \in 1..Len(store) /\ Len(store) \in Nat
  BY ElementTyped DEF TypeOK
<1>2. store # <<>>
  BY <1>1, EmptySeq
<1>3. ~store[1].ready
  BY <1>2 DEF HeadRuns
<1>4. 1 \in 1..(i - 1)
  BY <1>1, <1>3
<1>5. QED
  BY <1>3, <1>4

LEMMA HeadRunsInductive == TypeOK /\ HeadRuns /\ [Next]_vars => HeadRuns'
<1> SUFFICES ASSUME TypeOK, HeadRuns, [Next]_vars PROVE HeadRuns'
  OBVIOUS
<1>1. store \in Seq(Txn) /\ Len(store) \in Nat /\ (store = <<>> <=> Len(store) = 0)
  BY HasFirst, EmptySeq, LenProperties DEF TypeOK
<1>2. ASSUME NEW t \in Threads, CreateTransaction(t) PROVE HeadRuns'
  <2> DEFINE x == NewTxn(seq + 1, conn[t])
  <2>1. store' = Append(store, x) /\ ~x.ready
    BY <1>2 DEF CreateTransaction, NewTxn
  <2>2. CASE store = <<>>
    BY <2>1, <2>2 DEF HeadRuns
  <2>3. CASE store # <<>>
    BY <1>1, <2>1, <2>3 DEF HeadRuns
  <2>4. QED
    BY <2>2, <2>3
<1>3. ASSUME NEW t \in Threads, Defer(t) PROVE HeadRuns'
  <2>1. PICK i \in DOMAIN store : i # 1 /\ store' = Marked(store, i)
    BY <1>3 DEF Defer
  <2>2. store # <<>> /\ 1 \in DOMAIN store
    BY <1>1, <2>1
  <2>3. store'[1] = store[1]
    BY <1>1, <2>1, <2>2, MarkedProperties
  <2>4. QED
    BY <2>2, <2>3 DEF HeadRuns
<1>4. ASSUME NEW t \in Threads, TakeBatch(t) PROVE HeadRuns'
  <2> DEFINE marked == Marked(store, 1)
  <2>1. 1 \in DOMAIN store
    BY <1>1, <1>4, HasFirst DEF TakeBatch
  <2>2. marked \in Seq(Txn) /\ Len(marked) = Len(store)
    BY <1>1, <2>1, MarkedProperties
  <2> HIDE DEF marked
  <2>3. PICK n \in 1..Len(store) :
          ReadyRun(marked, n) /\ store' = SubSeq(marked, n + 1, Len(store))
    BY <1>4 DEF TakeBatch, marked
  <2>4. CASE n = Len(store)
    <3>1. store' = <<>>
      BY <1>1, <2>3, <2>4, SubSeqEmpty
    <3>2. QED
      BY <3>1 DEF HeadRuns
  <2>5. CASE n # Len(store)
    <3>1. n + 1 \in 1..Len(store) /\ n + 1 \in Nat \ {0}
      BY <1>1, <2>3, <2>5
    <3>2. n + 1 \in DOMAIN marked
      BY <2>2, <3>1
    <3>3. ~marked[n + 1].ready
      BY <2>3, <3>2 DEF ReadyRun
    <3>4. store'[1] = marked[n + 1]
      BY <1>1, <2>2, <2>3, <3>1, SubSeqTyped
    <3>5. QED
      BY <3>3, <3>4 DEF HeadRuns
  <2>6. QED
    BY <2>4, <2>5
<1>5. ASSUME ForceCommit PROVE HeadRuns'
  <2>1. /\ force \in 1..Len(store) /\ store[force].ready
        /\ store' = RemoveAt(store, force)
    BY <1>1, <1>5 DEF ForceCommit
  <2>2. ~store[1].ready
    BY <1>1, <2>1 DEF HeadRuns
  <2>3. force # 1 /\ force \in DOMAIN store
    BY <1>1, <2>1, <2>2
  <2>4. \A j \in 1..(Len(store) - 1) :
          RemoveAt(store, force)[j] = IF j < force THEN store[j] ELSE store[j + 1]
    BY <1>1, <2>3, RemoveAtProperties
  <2>5. 1 \in 1..(Len(store) - 1) /\ 1 < force
    BY <1>1, <2>1, <2>3
  <2>6. store'[1] = store[1]
    BY <2>1, <2>4, <2>5
  <2>7. QED
    BY <2>2, <2>6 DEF HeadRuns
<1>6. CASE UNCHANGED store
  BY <1>6 DEF HeadRuns
<1>7. QED
  BY <1>2, <1>3, <1>4, <1>5, <1>6
     DEF Next, Proceed, ForceProceed, GetReady, GetNew, GetExhausted, Lease,
         ConnectOk, ConnectFail, BeginOk, BeginFail, RowDelivered, RowLost,
         RowSkipped, RowFail, SendCommit, HandBack, Release, ForceStart,
         ForceSkip, ForceEnd, Clear, Drop, vars

LEMMA AlwaysHeadRuns == Spec => []HeadRuns
<1>1. Init => HeadRuns
  BY DEF Init, HeadRuns
<1>2. QED
  BY <1>1, TypeCorrect, HeadRunsInductive, PTL DEF Spec

(* A deferred transaction always has an older one that is still running,   *)
(* so that a thread will take it: nothing stays in the store that nobody   *)
(* will commit (pool::get_uncommited).                                     *)
THEOREM NoneStranded == Spec => []DeferredBehindRunning
  BY AlwaysHeadRuns, TypeCorrect, HeadRunsSuffices, PTL

-----------------------------------------------------------------------------
(***************************************************************************)
(* The order of the store.  Transactions are created under mutex_ with     *)
(* increasing numbers, appended at the end and only ever taken away, so    *)
(* their numbers increase along the store; what a thread has taken is      *)
(* older than everything the store still holds.                            *)
(***************************************************************************)
Ordered(s) == \A i, j \in DOMAIN s : i < j => s[i].id < s[j].id

StoreOrdered ==
  /\ Ordered(store)
  /\ \A i \in DOMAIN store : store[i].id <= seq

BatchBelowStore ==
  \A t \in Threads : \A k \in DOMAIN batch[t] :
    /\ batch[t][k].id <= seq
    /\ \A i \in DOMAIN store : batch[t][k].id < store[i].id

LEMMA MarkedOrdered ==
  ASSUME NEW s \in Seq(Txn), NEW i \in DOMAIN s
  PROVE  /\ DOMAIN Marked(s, i) = DOMAIN s
         /\ \A j \in DOMAIN s : Marked(s, i)[j].id = s[j].id
  BY DEF Marked

\* The first n transactions leave; those behind the first are ready, and the
\* one that is first then is not.
TakenAt(n) ==
  /\ DOMAIN store' = 1..(Len(store) - n)
  /\ \A j \in 1..(Len(store) - n) : store'[j] = store[n + j]
  /\ \A j \in 2..n : store[j].ready
  /\ n < Len(store) => ~store[n + 1].ready

LEMMA TakeBatchEffect ==
  ASSUME TypeOK, NEW t \in Threads, TakeBatch(t)
  PROVE  \E n \in 1..Len(store) :
           /\ TakenAt(n)
           /\ batch' = [batch EXCEPT ![t] = SubSeq(Marked(store, 1), 1, n)]
<1> DEFINE marked == Marked(store, 1)
<1>1. store \in Seq(Txn) /\ 1 \in DOMAIN store /\ Len(store) \in Nat
  BY HasFirst DEF TypeOK, TakeBatch
<1>2. /\ marked \in Seq(Txn) /\ Len(marked) = Len(store)
      /\ \A j \in 2..Len(store) : marked[j] = store[j]
  <2>1. /\ marked \in Seq(Txn) /\ Len(marked) = Len(store)
        /\ \A j \in DOMAIN store : j # 1 => marked[j] = store[j]
    BY <1>1, MarkedProperties
  <2>2. \A j \in 2..Len(store) : j \in DOMAIN store /\ j # 1
    BY <1>1
  <2>3. QED
    BY <2>1, <2>2
<1> HIDE DEF marked
<1>3. PICK n \in 1..Len(store) :
        /\ ReadyRun(marked, n)
        /\ batch' = [batch EXCEPT ![t] = SubSeq(marked, 1, n)]
        /\ store' = SubSeq(marked, n + 1, Len(store))
  BY DEF TakeBatch, marked
<1>4. /\ DOMAIN store' = 1..(Len(store) - n)
      /\ \A j \in 1..(Len(store) - n) : store'[j] = marked[n + j]
  <2>1. n + 1 \in Nat \ {0} /\ Len(store) \in 0..Len(marked)
    BY <1>1, <1>2
  <2>2. /\ store' \in Seq(Txn)
        /\ Len(store') = IF n + 1 <= Len(store) THEN Len(store) - (n + 1) + 1
                                                ELSE 0
        /\ \A j \in 1..(Len(store) - (n + 1) + 1) :
             store'[j] = marked[(n + 1) + j - 1]
    BY <1>2, <1>3, <2>1, SubSeqTyped
  <2>3. QED
    BY <1>1, <2>2
<1>5. \A j \in 2..n : store[j].ready
  BY <1>1, <1>2, <1>3, SMTT(30) DEF ReadyRun
<1>6. n < Len(store) => ~store[n + 1].ready
  BY <1>1, <1>2, <1>3 DEF ReadyRun
<1>7. TakenAt(n)
  BY <1>1, <1>2, <1>4, <1>5, <1>6 DEF TakenAt
<1>8. QED
  BY <1>3, <1>7 DEF marked

LEMMA StoreOrderedInductive ==
  TypeOK /\ StoreOrdered /\ [Next]_vars => StoreOrdered'
<1> SUFFICES ASSUME TypeOK, StoreOrdered, [Next]_vars PROVE StoreOrdered'
  OBVIOUS
<1>1. /\ store \in Seq(Txn) /\ Len(store) \in Nat /\ DOMAIN store = 1..Len(store)
      /\ \A i \in DOMAIN store : store[i].id \in Nat
      /\ seq \in Nat
  <2>1. store \in Seq(Txn) /\ seq \in Nat
    BY PoolAssumption DEF TypeOK
  <2>2. \A i \in DOMAIN store : store[i] \in Txn
    BY <2>1, ElementTyped
  <2>3. QED
    BY <2>1, <2>2 DEF Txn
<1>2. ASSUME NEW t \in Threads, CreateTransaction(t) PROVE StoreOrdered'
  <2> DEFINE x == NewTxn(seq + 1, conn[t])
  <2>1. store' = Append(store, x) /\ x.id = seq + 1 /\ seq' = seq + 1
    BY <1>2 DEF CreateTransaction, NewTxn
  <2> HIDE DEF x
  <2>2. /\ DOMAIN store' = 1..(Len(store) + 1)
        /\ \A i \in 1..Len(store) : store'[i] = store[i]
        /\ store'[Len(store) + 1] = x
    BY <1>1, <2>1
  <2>3. \A i \in DOMAIN store' :
          IF i = Len(store) + 1 THEN store'[i].id = seq + 1
                                ELSE i \in DOMAIN store /\ store'[i] = store[i]
    BY <1>1, <2>1, <2>2
  <2>4. QED
    BY <1>1, <2>1, <2>2, <2>3 DEF StoreOrdered, Ordered
<1>3. ASSUME NEW t \in Threads, Defer(t) PROVE StoreOrdered'
  <2>1. PICK i \in DOMAIN store : store' = Marked(store, i) /\ seq' = seq
    BY <1>3 DEF Defer
  <2>2. /\ DOMAIN store' = DOMAIN store
        /\ \A j \in DOMAIN store : store'[j].id = store[j].id
    BY <1>1, <2>1, MarkedOrdered
  <2>3. QED
    BY <2>1, <2>2 DEF StoreOrdered, Ordered
<1>4. ASSUME NEW t \in Threads, TakeBatch(t) PROVE StoreOrdered'
  <2>1. PICK n \in 1..Len(store) : TakenAt(n)
    BY <1>1, <1>4, TakeBatchEffect
  <2>2. /\ DOMAIN store' = 1..(Len(store) - n)
        /\ \A j \in 1..(Len(store) - n) : store'[j] = store[n + j]
    BY <2>1 DEF TakenAt
  <2>3. \A j \in DOMAIN store' : n + j \in DOMAIN store /\ j \in Nat
    BY <1>1, <2>2
  <2>4. seq' = seq
    BY <1>4 DEF TakeBatch
  <2>5. Ordered(store')
    <3> SUFFICES ASSUME NEW i \in DOMAIN store', NEW j \in DOMAIN store', i < j
                 PROVE  store'[i].id < store'[j].id
      BY DEF Ordered
    <3>1. n + i < n + j
      BY <2>3
    <3>2. QED
      BY <2>2, <2>3, <3>1 DEF StoreOrdered, Ordered
  <2>6. QED
    BY <2>2, <2>3, <2>4, <2>5 DEF StoreOrdered
<1>5. ASSUME ForceCommit PROVE StoreOrdered'
  <2>1. /\ force \in DOMAIN store /\ store' = RemoveAt(store, force)
        /\ seq' = seq
    BY <1>5 DEF ForceCommit
  <2>2. /\ DOMAIN store' = 1..(Len(store) - 1)
        /\ \A j \in 1..(Len(store) - 1) :
             store'[j] = IF j < force THEN store[j] ELSE store[j + 1]
    BY <1>1, <2>1, RemoveAtProperties
  <2> DEFINE old(j) == IF j < force THEN j ELSE j + 1
  <2>3. \A j \in DOMAIN store' : old(j) \in DOMAIN store /\ store'[j] = store[old(j)]
    BY <1>1, <2>1, <2>2
  <2>4. \A i, j \in DOMAIN store' : i < j => old(i) < old(j)
    BY <1>1, <2>1, <2>2
  <2> HIDE DEF old
  <2>5. QED
    BY <2>1, <2>3, <2>4 DEF StoreOrdered, Ordered
<1>6. CASE UNCHANGED <<store, seq>>
  BY <1>6 DEF StoreOrdered
<1>7. QED
  BY <1>2, <1>3, <1>4, <1>5, <1>6
     DEF Next, Proceed, ForceProceed, GetReady, GetNew, GetExhausted, Lease,
         ConnectOk, ConnectFail, BeginOk, BeginFail, RowDelivered, RowLost,
         RowSkipped, RowFail, SendCommit, HandBack, Release, ForceStart,
         ForceSkip, ForceEnd, Clear, Drop, vars

LEMMA StoreIsOrdered == Spec => []StoreOrdered
<1>1. Init => StoreOrdered
  BY DEF Init, StoreOrdered, Ordered
<1>2. QED
  BY <1>1, TypeCorrect, StoreOrderedInductive, PTL DEF Spec

-----------------------------------------------------------------------------
(***************************************************************************)
(* NoOvertakingRunning                                                     *)
(***************************************************************************)

\* Nothing new in the store, nothing new in any batch.
OnlyRemoves ==
  /\ seq' = seq
  /\ \A i \in DOMAIN store' : \E j \in DOMAIN store : store'[i].id = store[j].id
  /\ \A u \in Threads : \A k \in DOMAIN batch'[u] :
       \E m \in DOMAIN batch[u] : batch'[u][k].id = batch[u][m].id

LEMMA OnlyRemovesKeeps == BatchBelowStore /\ OnlyRemoves => BatchBelowStore'
  BY DEF BatchBelowStore, OnlyRemoves

LEMMA TailElements ==
  ASSUME NEW S, NEW s \in Seq(S), s # <<>>
  PROVE  \A k \in DOMAIN Tail(s) : k + 1 \in DOMAIN s /\ Tail(s)[k] = s[k + 1]
  BY HasFirst, HeadTailProperties

LEMMA BatchBelowInductive ==
  Typed /\ StoreOrdered /\ BatchBelowStore /\ [Next]_vars => BatchBelowStore'
<1> SUFFICES ASSUME TypeOK, AtWork, StoreOrdered, BatchBelowStore, [Next]_vars
             PROVE  BatchBelowStore'
  BY DEF Typed
<1>1. /\ store \in Seq(Txn) /\ Len(store) \in Nat /\ DOMAIN store = 1..Len(store)
      /\ seq \in Nat /\ batch \in [Threads -> Seq(Txn)]
  BY PoolAssumption DEF TypeOK
<1>2. \A u \in Threads : \A k \in DOMAIN batch[u] : batch[u][k].id \in Nat
  <2>1. \A u \in Threads : \A k \in DOMAIN batch[u] : batch[u][k] \in Txn
    BY <1>1, ElementTyped
  <2>2. QED
    BY <2>1 DEF Txn
<1>3. ASSUME NEW t \in Threads, CreateTransaction(t) PROVE BatchBelowStore'
  <2> DEFINE x == NewTxn(seq + 1, conn[t])
  <2>1. /\ store' = Append(store, x) /\ x.id = seq + 1
        /\ seq' = seq + 1 /\ batch' = batch
    BY <1>3 DEF CreateTransaction, NewTxn
  <2> HIDE DEF x
  <2>2. \A i \in DOMAIN store' :
          store'[i].id = seq + 1 \/ (i \in DOMAIN store /\ store'[i] = store[i])
    BY <1>1, <2>1
  <2>3. QED
    BY <1>1, <1>2, <2>1, <2>2 DEF BatchBelowStore
<1>4. ASSUME NEW t \in Threads, Defer(t) PROVE BatchBelowStore'
  <2>1. PICK i \in DOMAIN store : store' = Marked(store, i)
    BY <1>4 DEF Defer
  <2>2. /\ DOMAIN store' = DOMAIN store
        /\ \A j \in DOMAIN store : store'[j].id = store[j].id
    BY <1>1, <2>1, MarkedOrdered
  <2>3. QED
    BY <1>4, <2>2, OnlyRemovesKeeps DEF OnlyRemoves, Defer
<1>5. ASSUME NEW t \in Threads, TakeBatch(t) PROVE BatchBelowStore'
  <2>1. PICK n \in 1..Len(store) :
          TakenAt(n) /\ batch' = [batch EXCEPT ![t] = SubSeq(Marked(store, 1), 1, n)]
    BY <1>5, TakeBatchEffect
  <2> DEFINE taken == SubSeq(Marked(store, 1), 1, n)
  <2>2. \A k \in DOMAIN taken : k \in 1..n /\ taken[k].id = store[k].id
    <3>1. 1 \in DOMAIN store /\ n \in 0..Len(store) /\ 1 \in Nat \ {0}
      BY <1>1
    <3>2. /\ Marked(store, 1) \in Seq(Txn) /\ Len(Marked(store, 1)) = Len(store)
          /\ \A k \in DOMAIN store : Marked(store, 1)[k].id = store[k].id
      BY <1>1, <3>1, MarkedProperties, MarkedOrdered
    <3>3. /\ taken \in Seq(Txn) /\ Len(taken) = IF 1 <= n THEN n - 1 + 1 ELSE 0
          /\ \A k \in 1..(n - 1 + 1) : taken[k] = Marked(store, 1)[1 + k - 1]
      BY <3>1, <3>2, SubSeqTyped
    <3>4. DOMAIN taken = 1..n /\ \A k \in 1..n : taken[k] = Marked(store, 1)[k]
      BY <3>3
    <3>5. QED
      BY <1>1, <3>2, <3>4
  <2> HIDE DEF taken
  <2>3. \A i \in DOMAIN store' : n + i \in DOMAIN store /\ store'[i] = store[n + i]
    BY <1>1, <2>1 DEF TakenAt
  <2>4. \A k \in DOMAIN taken : \A i \in DOMAIN store' :
          taken[k].id < store'[i].id
    <3> SUFFICES ASSUME NEW k \in DOMAIN taken, NEW i \in DOMAIN store'
                 PROVE  taken[k].id < store'[i].id
      OBVIOUS
    <3>1. k \in DOMAIN store /\ n + i \in DOMAIN store /\ k < n + i
      BY <1>1, <2>1, <2>2, <2>3 DEF TakenAt
    <3>2. QED
      BY <2>2, <2>3, <3>1 DEF StoreOrdered, Ordered
  <2>5. \A k \in DOMAIN taken : taken[k].id <= seq
    BY <1>1, <2>2 DEF StoreOrdered
  <2>6. seq' = seq /\ batch'[t] = taken
        /\ \A u \in Threads \ {t} : batch'[u] = batch[u]
    BY <1>1, <1>5, <2>1 DEF TakeBatch, taken
  <2>7. ASSUME NEW u \in Threads, NEW k \in DOMAIN batch'[u]
        PROVE  /\ batch'[u][k].id <= seq'
               /\ \A i \in DOMAIN store' : batch'[u][k].id < store'[i].id
    <3>1. CASE u = t
      BY <2>4, <2>5, <2>6, <2>7, <3>1
    <3>2. CASE u # t
      BY <2>3, <2>6, <2>7, <3>2 DEF BatchBelowStore
    <3>3. QED
      BY <3>1, <3>2
  <2>8. QED
    BY <2>7 DEF BatchBelowStore
<1>6. ASSUME NEW t \in Threads, SendCommit(t) \/ HandBack(t)
      PROVE  BatchBelowStore'
  <2>1. /\ store' = store /\ seq' = seq
        /\ batch' # batch =>
             batch[t] # <<>> /\ batch' = [batch EXCEPT ![t] = Tail(batch[t])]
    <3>1. CASE SendCommit(t)
      BY <3>1 DEF SendCommit
    <3>2. CASE HandBack(t)
      BY <3>2 DEF HandBack, AtWork
    <3>3. QED
      BY <1>6, <3>1, <3>2
  <2>2. CASE batch' = batch
    BY <2>1, <2>2 DEF BatchBelowStore
  <2>3. CASE batch' # batch
    <3>1. /\ batch[t] \in Seq(Txn) /\ batch[t] # <<>>
          /\ batch' = [batch EXCEPT ![t] = Tail(batch[t])]
      BY <1>1, <2>1, <2>3
    <3>2. \A k \in DOMAIN Tail(batch[t]) :
            k + 1 \in DOMAIN batch[t] /\ Tail(batch[t])[k] = batch[t][k + 1]
      BY <3>1, TailElements
    <3>3. \A u \in Threads : \A k \in DOMAIN batch'[u] :
            \E m \in DOMAIN batch[u] : batch'[u][k].id = batch[u][m].id
      <4> SUFFICES ASSUME NEW u \in Threads, NEW k \in DOMAIN batch'[u]
                   PROVE  \E m \in DOMAIN batch[u] : batch'[u][k].id = batch[u][m].id
        OBVIOUS
      <4>1. CASE u = t
        BY <1>1, <3>1, <3>2, <4>1
      <4>2. CASE u # t
        BY <1>1, <3>1, <4>2
      <4>3. QED
        BY <4>1, <4>2
    <3>4. QED
      BY <2>1, <3>3, OnlyRemovesKeeps DEF OnlyRemoves
  <2>4. QED
    BY <2>2, <2>3
<1>7. ASSUME ForceCommit PROVE BatchBelowStore'
  <2>1. /\ force \in DOMAIN store /\ store' = RemoveAt(store, force)
        /\ seq' = seq /\ batch' = batch
    BY <1>7 DEF ForceCommit
  <2>2. /\ DOMAIN store' = 1..(Len(store) - 1)
        /\ \A j \in 1..(Len(store) - 1) :
             store'[j] = IF j < force THEN store[j] ELSE store[j + 1]
    BY <1>1, <2>1, RemoveAtProperties, SMTT(30)
  <2>3. \A j \in DOMAIN store' : \E i \in DOMAIN store : store'[j] = store[i]
    BY <1>1, <2>1, <2>2
  <2>4. QED
    BY <2>1, <2>3, OnlyRemovesKeeps DEF OnlyRemoves
<1>8. CASE UNCHANGED <<store, seq, batch>>
  BY <1>8 DEF BatchBelowStore
<1>9. QED
  BY <1>3, <1>4, <1>5, <1>6, <1>7, <1>8
     DEF Next, Proceed, ForceProceed, GetReady, GetNew, GetExhausted, Lease,
         ConnectOk, ConnectFail, BeginOk, BeginFail, RowDelivered, RowLost,
         RowSkipped, RowFail, Release, ForceStart, ForceSkip, ForceEnd, Clear,
         Drop, vars

LEMMA BatchIsBelow == Spec => []BatchBelowStore
<1>1. Init => BatchBelowStore
  BY DEF Init, BatchBelowStore
<1>2. QED
  BY <1>1, AlwaysTyped, StoreIsOrdered, BatchBelowInductive, PTL DEF Spec, Typed

\* The step of the property.
Overtakes(t) ==
  SendCommit(t) /\ log' # log
    /\ \E i \in DOMAIN store : ~store[i].ready /\ ~(Last(log') < store[i].id)

LEMMA NoStepOvertakes ==
  TypeOK /\ BatchBelowStore => \A t \in Threads : ~Overtakes(t)
<1> SUFFICES ASSUME TypeOK, BatchBelowStore, NEW t \in Threads, SendCommit(t),
                    log' # log, NEW i \in DOMAIN store
             PROVE  Last(log') < store[i].id
  BY DEF Overtakes
<1>1. batch[t] # <<>> /\ batch[t] \in Seq(Txn) /\ log \in Seq(Nat)
  BY DEF SendCommit, TypeOK
<1>2. 1 \in DOMAIN batch[t] /\ Front1(t) = batch[t][1] /\ Front1(t).id \in Nat
  <2>1. 1 \in DOMAIN batch[t]
    BY <1>1, HasFirst
  <2>2. batch[t][1] \in Txn
    BY <1>1, <2>1, ElementTyped
  <2>3. QED
    BY <1>1, <2>1, <2>2 DEF Front1, Txn
<1>3. log' = Append(log, Front1(t).id)
  BY DEF SendCommit, LogCommit
<1>4. Last(log') = Front1(t).id
  BY <1>1, <1>2, <1>3 DEF Last
<1>5. QED
  BY <1>2, <1>4 DEF BatchBelowStore

(* A COMMIT sent by commit() belongs to a transaction that is older than   *)
(* every one the store still holds, the running ones among them: taking    *)
(* only a prefix of the store is enough although the exchange with the     *)
(* broker happens outside mutex_ (pool::get_uncommited). force_commit()    *)
(* running beside it changes nothing.                                      *)
THEOREM CommitsBehindNoRunning == Spec => NoOvertakingRunning
<1>1. Typed /\ BatchBelowStore /\ [Next]_vars =>
        [ \A t \in Threads : SendCommit(t) /\ log' # log =>
            \A i \in DOMAIN store : ~store[i].ready => Last(log') < store[i].id ]_vars
  BY NoStepOvertakes DEF Typed, Overtakes
<1>2. QED
  BY <1>1, AlwaysTyped, BatchIsBelow, PTL DEF Spec, NoOvertakingRunning

-----------------------------------------------------------------------------
(***************************************************************************)
(* The refinement of TransactionQueue                                      *)
(***************************************************************************)

\* A number is on one side only, and names one transaction of the store.
LEMMA IdsDistinct ==
  ASSUME TypeOK, StoreOrdered, NEW i \in DOMAIN store, NEW j \in DOMAIN store,
         store[i].id = store[j].id
  PROVE  i = j
<1>1. /\ i \in 1..Len(store) /\ j \in 1..Len(store)
      /\ store[i] \in Txn /\ store[j] \in Txn
  BY ElementTyped DEF TypeOK
<1>2. store[i].id \in Nat
  BY <1>1 DEF Txn
<1>3. ~(i < j) /\ ~(j < i)
  BY <1>2 DEF StoreOrdered, Ordered
<1>4. QED
  BY <1>1, <1>3

LEMMA InitQueue == Init => Queue!Init
  BY DEF Init, Queue!Init, Ids

LEMMA CreateBegins ==
  ASSUME TypeOK, NEW t \in Threads, CreateTransaction(t)
  PROVE  Queue!Begin
<1> DEFINE x == NewTxn(seq + 1, conn[t])
<1>1. store' = Append(store, x) /\ seq' = seq + 1
  BY DEF CreateTransaction
<1>2. x.id = seq + 1 /\ x.ready = FALSE
  BY DEF NewTxn
<1> HIDE DEF x
<1>3. /\ DOMAIN store' = DOMAIN store \cup {Len(store) + 1}
      /\ \A i \in DOMAIN store : store'[i] = store[i]
      /\ store'[Len(store) + 1] = x
  BY <1>1 DEF TypeOK
<1>4. Ids(store', FALSE) = Ids(store, FALSE) \cup {seq + 1}
  <2>1. ASSUME NEW y \in Ids(store', FALSE)
        PROVE  y \in Ids(store, FALSE) \cup {seq + 1}
    BY <1>2, <1>3 DEF Ids
  <2>2. Ids(store, FALSE) \subseteq Ids(store', FALSE)
    BY <1>3 DEF Ids
  <2>3. seq + 1 \in Ids(store', FALSE)
    BY <1>2, <1>3 DEF Ids
  <2>4. QED
    BY <2>1, <2>2, <2>3
<1>5. Ids(store', TRUE) = Ids(store, TRUE)
  <2>1. ASSUME NEW y \in Ids(store', TRUE) PROVE y \in Ids(store, TRUE)
    BY <1>2, <1>3 DEF Ids
  <2>2. Ids(store, TRUE) \subseteq Ids(store', TRUE)
    BY <1>3 DEF Ids
  <2>3. QED
    BY <2>1, <2>2
<1>6. QED
  BY <1>1, <1>4, <1>5 DEF Queue!Begin

LEMMA StoreElements ==
  ASSUME TypeOK
  PROVE  /\ Len(store) \in Nat /\ DOMAIN store = 1..Len(store)
         /\ \A i \in DOMAIN store : store[i].id \in Nat /\ store[i].ready \in BOOLEAN
<1>1. store \in Seq(Txn)
  BY DEF TypeOK
<1>2. \A i \in DOMAIN store : store[i] \in Txn
  BY <1>1, ElementTyped
<1>3. QED
  BY <1>1, <1>2 DEF Txn

LEMMA DeferWaits ==
  ASSUME TypeOK, StoreOrdered, NEW t \in Threads, Defer(t)
  PROVE  \/ \E x \in Ids(store, FALSE) : Queue!Wait(x)
         \/ UNCHANGED Queue!vars
<1>1. PICK i \in DOMAIN store : i # 1 /\ store' = Marked(store, i)
  BY DEF Defer
<1>2. /\ seq' = seq /\ DOMAIN store' = DOMAIN store
      /\ \A j \in DOMAIN store :
           /\ store'[j].id = store[j].id
           /\ store'[j].ready = IF j = i THEN TRUE ELSE store[j].ready
  <2>1. store \in Seq(Txn) /\ seq' = seq
    BY DEF TypeOK, Defer
  <2>2. \A j \in DOMAIN store :
          Marked(store, i)[j] = IF j = i THEN [id |-> store[i].id,
                                              conn |-> store[i].conn,
                                              ready |-> TRUE]
                                         ELSE store[j]
    BY <1>1, <2>1, MarkedProperties
  <2>3. /\ DOMAIN store' = DOMAIN store
        /\ \A j \in DOMAIN store : store'[j].id = store[j].id
    BY <1>1, <2>1, MarkedOrdered
  <2>4. store'[i].ready = TRUE
    BY <1>1, <2>2
  <2>5. \A j \in DOMAIN store : j # i => store'[j].ready = store[j].ready
    BY <1>1, <2>2
  <2>6. QED
    BY <2>1, <2>3, <2>4, <2>5
<1>3. CASE store[i].ready
  <2>1. \A j \in DOMAIN store : store'[j].ready = store[j].ready
    BY <1>2, <1>3, StoreElements
  <2>2. Ids(store', FALSE) = Ids(store, FALSE) /\ Ids(store', TRUE) = Ids(store, TRUE)
    BY <1>2, <2>1 DEF Ids
  <2>3. QED
    BY <1>2, <2>2 DEF Queue!vars
<1>4. CASE ~store[i].ready
  <2> DEFINE x == store[i].id
  <2>1. x \in Ids(store, FALSE)
    BY <1>4, StoreElements DEF Ids
  <2>2. \E y \in Ids(store, FALSE) \cup Ids(store, TRUE) : y < x
    <3>1. 1 \in DOMAIN store /\ 1 < i
      BY <1>1, StoreElements
    <3>2. store[1].id < x
      BY <3>1 DEF StoreOrdered, Ordered
    <3>3. store[1].id \in Ids(store, FALSE) \cup Ids(store, TRUE)
      BY <3>1, StoreElements DEF Ids
    <3>4. QED
      BY <3>2, <3>3
  <2>3. Ids(store', FALSE) = Ids(store, FALSE) \ {x}
    <3>1. ASSUME NEW y \in Ids(store', FALSE) PROVE y \in Ids(store, FALSE) \ {x}
      <4>1. PICK j \in DOMAIN store' : store'[j].ready = FALSE /\ store'[j].id = y
        BY DEF Ids
      <4>2. j \in DOMAIN store /\ j # i /\ store[j].ready = FALSE /\ store[j].id = y
        BY <1>2, <4>1
      <4>3. y # x
        BY <4>2, IdsDistinct
      <4>4. QED
        BY <4>2, <4>3 DEF Ids
    <3>2. ASSUME NEW y \in Ids(store, FALSE) \ {x} PROVE y \in Ids(store', FALSE)
      <4>1. PICK j \in DOMAIN store : store[j].ready = FALSE /\ store[j].id = y
        BY DEF Ids
      <4>2. j \in DOMAIN store' /\ store'[j].ready = FALSE /\ store'[j].id = y
        BY <1>2, <3>2, <4>1
      <4>3. QED
        BY <4>2 DEF Ids
    <3>3. QED
      BY <3>1, <3>2
  <2>4. Ids(store', TRUE) = Ids(store, TRUE) \cup {x}
    <3>1. ASSUME NEW y \in Ids(store', TRUE) PROVE y \in Ids(store, TRUE) \cup {x}
      <4>1. PICK j \in DOMAIN store' : store'[j].ready = TRUE /\ store'[j].id = y
        BY DEF Ids
      <4>2. CASE j = i
        BY <1>2, <4>1, <4>2
      <4>3. CASE j # i
        <5>1. j \in DOMAIN store /\ store[j].ready = TRUE /\ store[j].id = y
          BY <1>2, <4>1, <4>3
        <5>2. QED
          BY <5>1 DEF Ids
      <4>4. QED
        BY <4>2, <4>3
    <3>2. ASSUME NEW y \in Ids(store, TRUE) PROVE y \in Ids(store', TRUE)
      BY <1>2 DEF Ids
    <3>3. x \in Ids(store', TRUE)
      BY <1>2 DEF Ids
    <3>4. QED
      BY <3>1, <3>2, <3>3
  <2>5. QED
    <3>1. Queue!Wait(x)
      BY <1>2, <2>1, <2>2, <2>3, <2>4 DEF Queue!Wait
    <3>2. QED
      BY <2>1, <3>1
<1>5. QED
  BY <1>3, <1>4

LEMMA TakeBatchLeaves ==
  ASSUME TypeOK, StoreOrdered, HeadRuns, NEW t \in Threads, TakeBatch(t)
  PROVE  \E x \in Ids(store, FALSE) : Queue!Leave(x)
<1>1. PICK n \in 1..Len(store) : TakenAt(n)
  BY TakeBatchEffect
<1>2. /\ 1 \in DOMAIN store /\ store[1].ready = FALSE /\ seq' = seq
      /\ \A j \in DOMAIN store' : n + j \in DOMAIN store /\ store'[j] = store[n + j]
  <2>1. store # <<>> /\ seq' = seq /\ store \in Seq(Txn)
    BY DEF TakeBatch, TypeOK
  <2>2. 1 \in DOMAIN store /\ ~store[1].ready
    BY <2>1, HasFirst DEF HeadRuns
  <2>3. QED
    BY <1>1, <2>1, <2>2, StoreElements DEF TakenAt
<1> DEFINE x == store[1].id
<1>3. x \in Ids(store, FALSE)
  BY <1>2 DEF Ids
<1>4. \A y \in Ids(store, FALSE) \cup Ids(store, TRUE) : x <= y
  <2> SUFFICES ASSUME NEW j \in DOMAIN store PROVE x <= store[j].id
    BY DEF Ids
  <2>1. j = 1 \/ 1 < j
    BY StoreElements
  <2>2. QED
    BY <1>2, <2>1, StoreElements DEF StoreOrdered, Ordered
\* What stays is what lies behind the first n.
<1>5. \A j \in DOMAIN store : n < j => j - n \in DOMAIN store' /\ store'[j - n] = store[j]
  BY <1>1, StoreElements DEF TakenAt
<1>6. \A b \in BOOLEAN : \A y :
        y \in Ids(store', b) <=> \E j \in DOMAIN store :
                                   n < j /\ store[j].ready = b /\ store[j].id = y
  <2> SUFFICES ASSUME NEW b \in BOOLEAN, NEW y
               PROVE  y \in Ids(store', b) <=> \E j \in DOMAIN store :
                        n < j /\ store[j].ready = b /\ store[j].id = y
    OBVIOUS
  <2>1. ASSUME y \in Ids(store', b)
        PROVE  \E j \in DOMAIN store : n < j /\ store[j].ready = b /\ store[j].id = y
    <3>1. PICK k \in DOMAIN store' : store'[k].ready = b /\ store'[k].id = y
      BY <2>1 DEF Ids
    <3>2. n + k \in DOMAIN store /\ n < n + k
      BY <1>1, <1>2 DEF TakenAt
    <3>3. QED
      BY <1>2, <3>1, <3>2
  <2>2. ASSUME NEW j \in DOMAIN store, n < j, store[j].ready = b, store[j].id = y
        PROVE  y \in Ids(store', b)
    BY <1>5, <2>2 DEF Ids
  <2>3. QED
    BY <2>1, <2>2
<1>7. Ids(store', FALSE) = Ids(store, FALSE) \ {x}
  <2>1. ASSUME NEW y \in Ids(store', FALSE) PROVE y \in Ids(store, FALSE) \ {x}
    <3>1. PICK j \in DOMAIN store : n < j /\ store[j].ready = FALSE /\ store[j].id = y
      BY <1>6
    <3>2. j # 1
      BY <3>1, StoreElements
    <3>3. y # x
      BY <1>2, <3>1, <3>2, IdsDistinct
    <3>4. QED
      BY <3>1, <3>3 DEF Ids
  <2>2. ASSUME NEW y \in Ids(store, FALSE) \ {x} PROVE y \in Ids(store', FALSE)
    <3>1. PICK j \in DOMAIN store : store[j].ready = FALSE /\ store[j].id = y
      BY DEF Ids
    <3>2. n < j
      BY <1>1, <3>1, StoreElements DEF TakenAt
    <3>3. QED
      BY <1>6, <3>1, <3>2
  <2>3. QED
    BY <2>1, <2>2
<1>8. Ids(store', TRUE) = {y \in Ids(store, TRUE) : \E r \in Ids(store', FALSE) : r < y}
  <2>1. ASSUME NEW y \in Ids(store', TRUE)
        PROVE  y \in Ids(store, TRUE) /\ \E r \in Ids(store', FALSE) : r < y
    <3>1. PICK j \in DOMAIN store : n < j /\ store[j].ready = TRUE /\ store[j].id = y
      BY <1>6
    <3>2. n < Len(store) /\ n + 1 \in DOMAIN store /\ n < n + 1
      BY <3>1, StoreElements
    <3>3. store[n + 1].ready = FALSE
      BY <1>1, <3>2, StoreElements DEF TakenAt
    <3>4. store[n + 1].id \in Ids(store', FALSE)
      BY <1>6, <3>2, <3>3
    <3>5. n + 1 < j
      BY <3>1, <3>2, <3>3, StoreElements
    <3>6. store[n + 1].id < y
      BY <3>1, <3>2, <3>5 DEF StoreOrdered, Ordered
    <3>7. QED
      BY <3>1, <3>4, <3>6 DEF Ids
  <2>2. ASSUME NEW y \in Ids(store, TRUE), NEW r \in Ids(store', FALSE), r < y
        PROVE  y \in Ids(store', TRUE)
    <3>1. PICK j \in DOMAIN store : store[j].ready = TRUE /\ store[j].id = y
      BY DEF Ids
    <3>2. PICK k \in DOMAIN store : n < k /\ store[k].ready = FALSE /\ store[k].id = r
      BY <1>6
    <3>3. ~(j < k)
      BY <2>2, <3>1, <3>2, StoreElements DEF StoreOrdered, Ordered
    <3>4. n < j
      BY <3>2, <3>3, StoreElements
    <3>5. QED
      BY <1>6, <3>1, <3>4
  <2>3. QED
    BY <2>1, <2>2
<1>9. QED
  BY <1>2, <1>3, <1>4, <1>7, <1>8 DEF Queue!Leave

LEMMA ForceCommitWithdraws ==
  ASSUME TypeOK, StoreOrdered, ForceCommit
  PROVE  \E x \in Ids(store, TRUE) : Queue!Withdraw(x)
<1>1. /\ force \in DOMAIN store /\ store[force].ready
      /\ store' = RemoveAt(store, force) /\ seq' = seq /\ store \in Seq(Txn)
  BY DEF ForceCommit, TypeOK
<1> DEFINE x == store[force].id
           old(j) == IF j < force THEN j ELSE j + 1
<1>2. x \in Ids(store, TRUE)
  BY <1>1, StoreElements DEF Ids
<1>3. /\ DOMAIN store' = 1..(Len(store) - 1)
      /\ \A j \in 1..(Len(store) - 1) :
           store'[j] = IF j < force THEN store[j] ELSE store[j + 1]
  BY <1>1, StoreElements, RemoveAtProperties, SMTT(30)
<1>4. \A j \in DOMAIN store' :
        old(j) \in DOMAIN store /\ old(j) # force /\ store'[j] = store[old(j)]
  BY <1>1, <1>3, StoreElements
<1>5. \A j \in DOMAIN store : j # force =>
        \E k \in DOMAIN store' : store'[k] = store[j]
  <2> SUFFICES ASSUME NEW j \in DOMAIN store, j # force
               PROVE  \E k \in DOMAIN store' : store'[k] = store[j]
    OBVIOUS
  <2>1. CASE j < force
    BY <1>1, <1>3, <2>1, StoreElements
  <2>2. CASE force < j
    <3>1. j - 1 \in DOMAIN store' /\ ~(j - 1 < force) /\ (j - 1) + 1 = j
      BY <1>1, <1>3, <2>2, StoreElements
    <3>2. store'[j - 1] = store[j]
      BY <1>3, <3>1
    <3>3. QED
      BY <3>1, <3>2
  <2>3. QED
    BY <1>1, <2>1, <2>2, StoreElements
<1> HIDE DEF old
<1>6. Ids(store', FALSE) = Ids(store, FALSE)
  <2>1. ASSUME NEW y \in Ids(store', FALSE) PROVE y \in Ids(store, FALSE)
    BY <1>4 DEF Ids
  <2>2. ASSUME NEW y \in Ids(store, FALSE) PROVE y \in Ids(store', FALSE)
    BY <1>1, <1>5, StoreElements DEF Ids
  <2>3. QED
    BY <2>1, <2>2
<1>7. Ids(store', TRUE) = Ids(store, TRUE) \ {x}
  <2>1. ASSUME NEW y \in Ids(store', TRUE) PROVE y \in Ids(store, TRUE) \ {x}
    <3>1. PICK j \in DOMAIN store' : store'[j].ready = TRUE /\ store'[j].id = y
      BY DEF Ids
    <3>2. /\ old(j) \in DOMAIN store /\ old(j) # force
          /\ store[old(j)].ready = TRUE /\ store[old(j)].id = y
      BY <1>4, <3>1
    <3>3. y # x
      BY <1>1, <3>2, IdsDistinct
    <3>4. QED
      BY <3>2, <3>3 DEF Ids
  <2>2. ASSUME NEW y \in Ids(store, TRUE) \ {x} PROVE y \in Ids(store', TRUE)
    BY <1>5 DEF Ids
  <2>3. QED
    BY <2>1, <2>2
<1>8. QED
  <2>1. Queue!Withdraw(x)
    BY <1>1, <1>2, <1>6, <1>7 DEF Queue!Withdraw
  <2>2. QED
    BY <1>2, <2>1

LEMMA StepImplementsQueue ==
  Typed /\ StoreOrdered /\ HeadRuns /\ [Next]_vars => [Queue!Next]_(Queue!vars)
<1> SUFFICES ASSUME TypeOK, StoreOrdered, HeadRuns, [Next]_vars
             PROVE  Queue!Next \/ UNCHANGED Queue!vars
  BY DEF Typed
<1>1. ASSUME NEW t \in Threads, CreateTransaction(t) PROVE Queue!Next
  BY <1>1, CreateBegins DEF Queue!Next
<1>2. ASSUME NEW t \in Threads, Defer(t)
      PROVE  Queue!Next \/ UNCHANGED Queue!vars
  BY <1>2, DeferWaits DEF Queue!Next
<1>3. ASSUME NEW t \in Threads, TakeBatch(t) PROVE Queue!Next
  BY <1>3, TakeBatchLeaves DEF Queue!Next
<1>4. ASSUME ForceCommit PROVE Queue!Next
  BY <1>4, ForceCommitWithdraws DEF Queue!Next
<1>5. CASE UNCHANGED <<store, seq>>
  BY <1>5 DEF Queue!vars
<1>6. QED
  BY <1>1, <1>2, <1>3, <1>4, <1>5
     DEF Next, Proceed, ForceProceed, GetReady, GetNew, GetExhausted, Lease,
         ConnectOk, ConnectFail, BeginOk, BeginFail, RowDelivered, RowLost,
         RowSkipped, RowFail, SendCommit, HandBack, Release, ForceStart,
         ForceSkip, ForceEnd, Clear, Drop, vars

(* The pool keeps the promise of TransactionQueue, whatever fails between  *)
(* begin and commit: transactions leave the store oldest first, each with  *)
(* exactly the finished ones behind it (pool::create_transaction,          *)
(* pool::get_uncommited, pool::force_commit).                              *)
THEOREM PoolImplementsQueue == Spec => ImplementsQueue
  BY AlwaysHeadRuns, AlwaysTyped, StoreIsOrdered, InitQueue,
     StepImplementsQueue, PTL DEF Spec, Queue!Spec, ImplementsQueue
=============================================================================

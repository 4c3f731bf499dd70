-------------------------- MODULE OwnershipProofs ---------------------------
(***************************************************************************)
(* Proofs about module Pool that follow the connections: who may use one,  *)
(* what the iterators between connections and transactions point to, how   *)
(* many sockets there are, and what the store of pools sees of it.         *)
(***************************************************************************)
EXTENDS PoolProofs, FiniteSetTheorems

(***************************************************************************)
(* Sequences as sets                                                       *)
(***************************************************************************)
LEMMA AppendSet ==
  ASSUME NEW S, NEW s \in Seq(S), NEW x \in S
  PROVE  ToSet(Append(s, x)) = ToSet(s) \cup {x}
<1>1. /\ DOMAIN Append(s, x) = 1..(Len(s) + 1) /\ DOMAIN s = 1..Len(s)
      /\ Len(s) \in Nat
      /\ \A i \in 1..Len(s) : Append(s, x)[i] = s[i]
      /\ Append(s, x)[Len(s) + 1] = x
  OBVIOUS
<1>2. QED
  BY <1>1 DEF ToSet

LEMMA ConsSet ==
  ASSUME NEW S, NEW s \in Seq(S), NEW x \in S
  PROVE  /\ ToSet(<<x>> \o s) = {x} \cup ToSet(s)
         /\ IsInjective(s) /\ x \notin ToSet(s) => IsInjective(<<x>> \o s)
         /\ <<x>> \o s \in Seq(S) /\ Len(<<x>> \o s) = Len(s) + 1
<1> DEFINE r == <<x>> \o s
<1>1. /\ r \in Seq(S) /\ Len(r) = Len(s) + 1 /\ DOMAIN r = 1..(Len(s) + 1)
      /\ DOMAIN s = 1..Len(s) /\ Len(s) \in Nat
      /\ r[1] = x
      /\ \A i \in 1..Len(s) : r[i + 1] = s[i]
  OBVIOUS
<1> HIDE DEF r
<1>2. \A j \in DOMAIN r : j = 1 \/ (j - 1 \in 1..Len(s) /\ r[j] = s[j - 1])
  BY <1>1
<1>3. ToSet(r) = {x} \cup ToSet(s)
  <2>1. \A y \in ToSet(r) : y \in {x} \cup ToSet(s)
    BY <1>1, <1>2 DEF ToSet
  <2>2. x \in ToSet(r)
    BY <1>1 DEF ToSet
  <2>3. \A y \in ToSet(s) : y \in ToSet(r)
    BY <1>1 DEF ToSet
  <2>4. QED
    BY <2>1, <2>2, <2>3
<1>4. IsInjective(s) /\ x \notin ToSet(s) => IsInjective(r)
  <2> SUFFICES ASSUME IsInjective(s), x \notin ToSet(s),
                      NEW i \in DOMAIN r, NEW j \in DOMAIN r, r[i] = r[j]
               PROVE  i = j
    BY DEF IsInjective
  <2>1. \A k \in 1..Len(s) : s[k] # x
    BY <1>1 DEF ToSet
  <2>2. CASE i = 1 \/ j = 1
    BY <1>1, <1>2, <2>1, <2>2
  <2>3. CASE i # 1 /\ j # 1
    <3>1. i - 1 \in DOMAIN s /\ j - 1 \in DOMAIN s /\ s[i - 1] = s[j - 1]
      BY <1>1, <1>2, <2>3
    <3>2. i - 1 = j - 1
      BY <3>1 DEF IsInjective
    <3>3. QED
      BY <3>2, <1>1
  <2>4. QED
    BY <2>2, <2>3
<1>5. QED
  BY <1>1, <1>3, <1>4 DEF r

LEMMA TailFacts ==
  ASSUME NEW S, NEW s \in Seq(S), s # <<>>
  PROVE  /\ Tail(s) \in Seq(S) /\ Head(s) = s[1] /\ Head(s) \in S
         /\ Len(s) \in Nat \ {0} /\ DOMAIN s = 1..Len(s)
         /\ DOMAIN Tail(s) = 1..(Len(s) - 1) /\ Len(Tail(s)) = Len(s) - 1
         /\ \A i \in 1..(Len(s) - 1) : Tail(s)[i] = s[i + 1]
  BY HeadTailProperties, HasFirst, LenProperties

LEMMA TailSet ==
  ASSUME NEW S, NEW s \in Seq(S), s # <<>>
  PROVE  /\ ToSet(s) = {Head(s)} \cup ToSet(Tail(s))
         /\ IsInjective(s) => IsInjective(Tail(s)) /\ Head(s) \notin ToSet(Tail(s))
<1>1. /\ Head(s) = s[1] /\ Len(s) \in Nat \ {0} /\ DOMAIN s = 1..Len(s)
      /\ DOMAIN Tail(s) = 1..(Len(s) - 1)
      /\ \A i \in 1..(Len(s) - 1) : Tail(s)[i] = s[i + 1]
  BY TailFacts
<1>2. \A y : y \in ToSet(s) <=> \E i \in 1..Len(s) : y = s[i]
  BY <1>1 DEF ToSet
<1>3. \A y : y \in ToSet(Tail(s)) <=> \E i \in 1..(Len(s) - 1) : y = s[i + 1]
  BY <1>1 DEF ToSet
<1>4. \A i \in 1..Len(s) : i = 1 \/ (i - 1 \in 1..(Len(s) - 1) /\ s[i] = s[(i - 1) + 1])
  BY <1>1
<1>5. \A i \in 1..(Len(s) - 1) : i + 1 \in 1..Len(s)
  BY <1>1
<1>6. ToSet(s) = {Head(s)} \cup ToSet(Tail(s))
  <2>1. ASSUME NEW y \in ToSet(s) PROVE y \in {Head(s)} \cup ToSet(Tail(s))
    <3>1. PICK i \in 1..Len(s) : y = s[i]
      BY <1>2
    <3>2. CASE i = 1
      BY <1>1, <3>1, <3>2
    <3>3. CASE i # 1
      BY <1>3, <1>4, <3>1, <3>3
    <3>4. QED
      BY <3>2, <3>3
  <2>2. \A y \in ToSet(Tail(s)) : y \in ToSet(s)
    BY <1>2, <1>3, <1>5
  <2>3. Head(s) \in ToSet(s)
    BY <1>1, <1>2
  <2>4. QED
    BY <2>1, <2>2, <2>3
<1>7. ASSUME IsInjective(s)
      PROVE  IsInjective(Tail(s)) /\ Head(s) \notin ToSet(Tail(s))
  <2>1. \A i, j \in 1..Len(s) : s[i] = s[j] => i = j
    BY <1>1, <1>7 DEF IsInjective
  <2>2. Head(s) \notin ToSet(Tail(s))
    BY <1>1, <1>3, <1>5, <2>1
  <2>3. IsInjective(Tail(s))
    <3> SUFFICES ASSUME NEW i \in DOMAIN Tail(s), NEW j \in DOMAIN Tail(s),
                        Tail(s)[i] = Tail(s)[j]
                 PROVE  i = j
      BY DEF IsInjective
    <3>1. i + 1 = j + 1
      BY <1>1, <1>5, <2>1
    <3>2. QED
      BY <3>1, <1>1
  <2>4. QED
    BY <2>2, <2>3
<1>8. QED
  BY <1>6, <1>7

-----------------------------------------------------------------------------
(***************************************************************************)
(* Who has which connection.  h[t]: those thread t may touch; d: those of  *)
(* deferred transactions; r: those that are ready; a: those that are       *)
(* active.                                                                 *)
(***************************************************************************)
Partition(h, d, r, a) ==
  /\ \A t, u \in Threads : t # u => h[t] \cap h[u] = {}
  /\ \A t \in Threads : h[t] \cap (d \cup r) = {}
  /\ d \cap r = {}
  /\ a = d \cup UNION {h[t] : t \in Threads}

Holdings == [Threads -> SUBSET Conns]

LEMMA LendKeeps ==
  ASSUME NEW h \in Holdings, NEW d, NEW r, NEW a, Partition(h, d, r, a),
         NEW t \in Threads, h[t] = {}, NEW c \in Conns, c \notin a,
         NEW q, q \subseteq r, c \notin q
  PROVE  Partition([h EXCEPT ![t] = {c}], d, q, a \cup {c})
<1> DEFINE g == [h EXCEPT ![t] = {c}]
<1>1. g[t] = {c} /\ \A u \in Threads \ {t} : g[u] = h[u]
  BY DEF Holdings
<1>2. \A u \in Threads : c \notin h[u]
  BY DEF Partition
<1>3. c \notin d
  BY DEF Partition
<1> HIDE DEF g
<1>4. a \cup {c} = d \cup UNION {g[u] : u \in Threads}
  BY <1>1 DEF Partition
<1>5. \A u, v \in Threads : u # v => g[u] \cap g[v] = {}
  BY <1>1, <1>2 DEF Partition
<1>6. \A u \in Threads : g[u] \cap (d \cup q) = {}
  BY <1>1, <1>3 DEF Partition
<1>7. Partition(g, d, q, a \cup {c})
  BY <1>4, <1>5, <1>6 DEF Partition
<1>8. QED
  BY <1>7 DEF g

LEMMA ReturnKeeps ==
  ASSUME NEW h \in Holdings, NEW d, NEW r, NEW a, Partition(h, d, r, a),
         NEW t \in Threads, NEW c \in h[t],
         NEW q, q \subseteq r \cup {c}
  PROVE  Partition([h EXCEPT ![t] = h[t] \ {c}], d, q, a \ {c})
<1> DEFINE g == [h EXCEPT ![t] = h[t] \ {c}]
<1>1. g[t] = h[t] \ {c} /\ \A u \in Threads \ {t} : g[u] = h[u]
  BY DEF Holdings
<1>2. \A u \in Threads : c \notin g[u]
  BY <1>1 DEF Partition
<1>3. c \notin d
  BY DEF Partition
<1> HIDE DEF g
<1>4. a \ {c} = d \cup UNION {g[u] : u \in Threads}
  BY <1>1, <1>2, <1>3 DEF Partition
<1>5. \A u, v \in Threads : u # v => g[u] \cap g[v] = {}
  BY <1>1 DEF Partition
<1>6. \A u \in Threads : g[u] \cap (d \cup q) = {}
  BY <1>1, <1>2 DEF Partition
<1>7. Partition(g, d, q, a \ {c})
  BY <1>3, <1>4, <1>5, <1>6 DEF Partition
<1>8. QED
  BY <1>7 DEF g

LEMMA LeaveKeeps ==
  ASSUME NEW h \in Holdings, NEW d, NEW r, NEW a, Partition(h, d, r, a),
         NEW t \in Threads
  PROVE  Partition([h EXCEPT ![t] = {}], d \cup h[t], r, a)
<1> DEFINE g == [h EXCEPT ![t] = {}]
<1>1. g[t] = {} /\ \A u \in Threads \ {t} : g[u] = h[u]
  BY DEF Holdings
<1> HIDE DEF g
<1>2. a = (d \cup h[t]) \cup UNION {g[u] : u \in Threads}
  BY <1>1 DEF Partition
<1>3. \A u, v \in Threads : u # v => g[u] \cap g[v] = {}
  BY <1>1 DEF Partition
<1>4. \A u \in Threads : g[u] \cap ((d \cup h[t]) \cup r) = {}
  BY <1>1 DEF Partition
<1>5. Partition(g, d \cup h[t], r, a)
  BY <1>2, <1>3, <1>4 DEF Partition
<1>6. QED
  BY <1>5 DEF g

LEMMA TakeKeeps ==
  ASSUME NEW h \in Holdings, NEW d, NEW r, NEW a, Partition(h, d, r, a),
         NEW t \in Threads, NEW x, x \subseteq d
  PROVE  Partition([h EXCEPT ![t] = h[t] \cup x], d \ x, r, a)
<1> DEFINE g == [h EXCEPT ![t] = h[t] \cup x]
<1>1. g[t] = h[t] \cup x /\ \A u \in Threads \ {t} : g[u] = h[u]
  BY DEF Holdings
<1> HIDE DEF g
<1>2. a = (d \ x) \cup UNION {g[u] : u \in Threads}
  BY <1>1 DEF Partition
<1>3. \A u, v \in Threads : u # v => g[u] \cap g[v] = {}
  BY <1>1 DEF Partition
<1>4. \A u \in Threads : g[u] \cap ((d \ x) \cup r) = {}
  BY <1>1 DEF Partition
<1>5. Partition(g, d \ x, r, a)
  BY <1>2, <1>3, <1>4 DEF Partition
<1>6. QED
  BY <1>5 DEF g

LEMMA WithdrawKeeps ==
  ASSUME NEW h \in Holdings, NEW d, NEW r, NEW a, Partition(h, d, r, a),
         NEW c \in d, NEW q, q \subseteq r \cup {c}
  PROVE  Partition(h, d \ {c}, q, a \ {c})
  BY DEF Partition

-----------------------------------------------------------------------------
(***************************************************************************)
(* The store and the batches as sets                                       *)
(***************************************************************************)
Txns == ToSet(store)
Taken(t) == ToSet(batch[t])

LEMMA SetTyped ==
  ASSUME NEW S, NEW s \in Seq(S)
  PROVE  ToSet(s) \subseteq S
  BY ElementTyped DEF ToSet

LEMMA OrderedInjective ==
  ASSUME NEW s \in Seq(Txn), Ordered(s)
  PROVE  /\ IsInjective(s)
         /\ \A x, y \in ToSet(s) : x.id = y.id => x = y
<1>1. DOMAIN s = 1..Len(s) /\ Len(s) \in Nat /\ \A i \in DOMAIN s : s[i].id \in Nat
  <2>1. \A i \in DOMAIN s : s[i] \in Txn
    BY ElementTyped
  <2>2. QED
    BY <2>1 DEF Txn
<1>2. \A i, j \in DOMAIN s : s[i].id = s[j].id => i = j
  BY <1>1 DEF Ordered
<1>3. QED
  BY <1>2 DEF IsInjective, ToSet

\* Without its first element an ordered sequence has only larger ones.
LEMMA OrderedTail ==
  ASSUME NEW s \in Seq(Txn), s # <<>>, Ordered(s)
  PROVE  /\ Ordered(Tail(s))
         /\ \A x \in ToSet(Tail(s)) : Head(s).id < x.id /\ x # Head(s)
         /\ ToSet(Tail(s)) = ToSet(s) \ {Head(s)}
<1>1. /\ Head(s) = s[1] /\ Len(s) \in Nat \ {0} /\ DOMAIN s = 1..Len(s)
      /\ DOMAIN Tail(s) = 1..(Len(s) - 1)
      /\ \A i \in 1..(Len(s) - 1) : Tail(s)[i] = s[i + 1]
  BY TailFacts
<1>2. \A i \in DOMAIN Tail(s) : i + 1 \in DOMAIN s /\ 1 < i + 1 /\ 1 \in DOMAIN s
  BY <1>1
<1>3. Ordered(Tail(s))
  <2> SUFFICES ASSUME NEW i \in DOMAIN Tail(s), NEW j \in DOMAIN Tail(s), i < j
               PROVE  Tail(s)[i].id < Tail(s)[j].id
    BY DEF Ordered
  <2>1. i + 1 < j + 1
    BY <1>1
  <2>2. QED
    BY <1>1, <1>2, <2>1 DEF Ordered
<1>4. \A i \in DOMAIN Tail(s) : s[1].id < Tail(s)[i].id
  BY <1>1, <1>2 DEF Ordered
<1>5. s[1].id \in Nat /\ \A i \in DOMAIN Tail(s) : Tail(s)[i].id \in Nat
  <2>1. s[1] \in Txn /\ \A i \in DOMAIN Tail(s) : Tail(s)[i] \in Txn
    BY <1>1, <1>2, ElementTyped
  <2>2. QED
    BY <2>1 DEF Txn
<1>6. \A x \in ToSet(Tail(s)) : Head(s).id < x.id /\ x # Head(s)
  BY <1>1, <1>4, <1>5 DEF ToSet
<1>7. QED
  BY <1>3, <1>6, TailSet

LEMMA RemoveAtSet ==
  ASSUME NEW S, NEW s \in Seq(S), NEW i \in DOMAIN s, IsInjective(s)
  PROVE  ToSet(RemoveAt(s, i)) = ToSet(s) \ {s[i]}
<1> DEFINE r == RemoveAt(s, i)
<1>1. /\ DOMAIN s = 1..Len(s) /\ Len(s) \in Nat /\ i \in 1..Len(s)
      /\ DOMAIN r = 1..(Len(s) - 1)
      /\ \A j \in 1..(Len(s) - 1) : r[j] = IF j < i THEN s[j] ELSE s[j + 1]
  <2>1. DOMAIN s = 1..Len(s) /\ Len(s) \in Nat /\ i \in 1..Len(s)
    BY ElementTyped
  <2>2. /\ r \in Seq(S) /\ Len(r) = Len(s) - 1
        /\ \A j \in 1..(Len(s) - 1) : r[j] = IF j < i THEN s[j] ELSE s[j + 1]
    BY RemoveAtProperties
  <2>3. DOMAIN r = 1..Len(r)
    BY <2>2
  <2>4. QED
    BY <2>1, <2>2, <2>3
<1> HIDE DEF r
<1>2. \A j \in DOMAIN s : s[j] = s[i] => j = i
  BY DEF IsInjective
<1>3. ASSUME NEW y \in ToSet(r) PROVE y \in ToSet(s) \ {s[i]}
  <2>1. PICK j \in 1..(Len(s) - 1) : y = r[j]
    BY <1>1 DEF ToSet
  <2>2. PICK k \in DOMAIN s : y = s[k] /\ k # i
    <3>1. CASE j < i
      BY <1>1, <2>1, <3>1
    <3>2. CASE ~(j < i)
      <4>1. j + 1 \in DOMAIN s /\ j + 1 # i /\ y = s[j + 1]
        BY <1>1, <2>1, <3>2
      <4>2. QED
        BY <4>1
    <3>3. QED
      BY <3>1, <3>2
  <2>3. QED
    BY <1>2, <2>2 DEF ToSet
<1>4. ASSUME NEW y \in ToSet(s), y # s[i] PROVE y \in ToSet(r)
  <2>1. PICK k \in DOMAIN s : y = s[k] /\ k # i
    BY <1>4 DEF ToSet
  <2>2. CASE k < i
    <3>1. k \in 1..(Len(s) - 1) /\ r[k] = s[k]
      BY <1>1, <2>2
    <3>2. QED
      BY <1>1, <2>1, <3>1 DEF ToSet
  <2>3. CASE k > i
    <3>1. k - 1 \in 1..(Len(s) - 1) /\ ~(k - 1 < i) /\ (k - 1) + 1 = k
      BY <1>1, <2>3
    <3>2. r[k - 1] = s[k]
      BY <1>1, <3>1
    <3>3. QED
      BY <1>1, <2>1, <3>1, <3>2 DEF ToSet
  <2>4. QED
    BY <1>1, <2>1, <2>2, <2>3
<1>5. QED
  BY <1>3, <1>4 DEF r

LEMMA MarkedSet ==
  ASSUME NEW s \in Seq(Txn), NEW i \in DOMAIN s, IsInjective(s)
  PROVE  ToSet(Marked(s, i)) =
           (ToSet(s) \ {s[i]})
             \cup {[id |-> s[i].id, conn |-> s[i].conn, ready |-> TRUE]}
<1> DEFINE mine == [id |-> s[i].id, conn |-> s[i].conn, ready |-> TRUE]
<1>1. /\ DOMAIN Marked(s, i) = DOMAIN s
      /\ \A j \in DOMAIN s : Marked(s, i)[j] = IF j = i THEN mine ELSE s[j]
  BY MarkedProperties DEF Marked
<1> HIDE DEF mine
<1>2. \A j \in DOMAIN s : s[j] = s[i] => j = i
  BY DEF IsInjective
<1>3. ToSet(Marked(s, i)) = (ToSet(s) \ {s[i]}) \cup {mine}
  <2>1. ASSUME NEW y \in ToSet(Marked(s, i))
        PROVE  y \in (ToSet(s) \ {s[i]}) \cup {mine}
    BY <1>1, <1>2 DEF ToSet
  <2>2. ASSUME NEW y \in ToSet(s) \ {s[i]} PROVE y \in ToSet(Marked(s, i))
    BY <1>1, <1>2 DEF ToSet
  <2>3. mine \in ToSet(Marked(s, i))
    BY <1>1 DEF ToSet
  <2>4. QED
    BY <2>1, <2>2, <2>3
<1>4. QED
  BY <1>3 DEF mine

\* A prefix of an ordered sequence and what is left.
LEMMA PrefixSet ==
  ASSUME NEW s \in Seq(Txn), Ordered(s), NEW n \in 1..Len(s)
  PROVE  /\ SubSeq(s, 1, n) \in Seq(Txn) /\ Ordered(SubSeq(s, 1, n))
         /\ ToSet(SubSeq(s, 1, n)) = {s[j] : j \in 1..n}
         /\ ToSet(SubSeq(s, n + 1, Len(s))) = ToSet(s) \ {s[j] : j \in 1..n}
<1>1. /\ DOMAIN s = 1..Len(s) /\ Len(s) \in Nat
      /\ n \in 0..Len(s) /\ Len(s) \in 0..Len(s)
      /\ 1 \in Nat \ {0} /\ n + 1 \in Nat \ {0}
  OBVIOUS
<1> DEFINE p == SubSeq(s, 1, n)
           q == SubSeq(s, n + 1, Len(s))
<1>2. /\ p \in Seq(Txn) /\ Len(p) = n /\ DOMAIN p = 1..n
      /\ \A j \in 1..n : p[j] = s[j]
  <2>1. /\ p \in Seq(Txn) /\ Len(p) = IF 1 <= n THEN n - 1 + 1 ELSE 0
        /\ \A j \in 1..(n - 1 + 1) : p[j] = s[1 + j - 1]
    BY <1>1, SubSeqTyped
  <2>2. QED
    BY <2>1, <1>1
<1>3. /\ DOMAIN q = 1..(Len(s) - n)
      /\ \A j \in 1..(Len(s) - n) : q[j] = s[n + j]
  <2>1. /\ q \in Seq(Txn)
        /\ Len(q) = IF n + 1 <= Len(s) THEN Len(s) - (n + 1) + 1 ELSE 0
        /\ \A j \in 1..(Len(s) - (n + 1) + 1) : q[j] = s[(n + 1) + j - 1]
    BY <1>1, SubSeqTyped
  <2>2. QED
    BY <2>1, <1>1
<1> HIDE DEF p, q
<1>4. Ordered(p)
  BY <1>1, <1>2 DEF Ordered
<1>5. ToSet(p) = {s[j] : j \in 1..n}
  BY <1>2 DEF ToSet
<1>6. \A i, j \in 1..Len(s) : s[i] = s[j] => i = j
  BY <1>1, OrderedInjective DEF IsInjective
<1>7. ToSet(q) = ToSet(s) \ {s[j] : j \in 1..n}
  <2>1. ASSUME NEW y \in ToSet(q) PROVE y \in ToSet(s) \ {s[j] : j \in 1..n}
    <3>1. PICK j \in 1..(Len(s) - n) : y = s[n + j]
      BY <1>3 DEF ToSet
    <3>2. n + j \in 1..Len(s) /\ n + j \notin 1..n
      BY <1>1
    <3>3. QED
      BY <1>1, <1>6, <3>1, <3>2 DEF ToSet
  <2>2. ASSUME NEW y \in ToSet(s), y \notin {s[j] : j \in 1..n}
        PROVE  y \in ToSet(q)
    <3>1. PICK k \in 1..Len(s) : y = s[k]
      BY <1>1 DEF ToSet
    <3>2. k - n \in 1..(Len(s) - n) /\ n + (k - n) = k
      BY <1>1, <2>2, <3>1
    <3>3. QED
      BY <1>3, <3>1, <3>2 DEF ToSet
  <2>3. QED
    BY <2>1, <2>2
<1>8. QED
  BY <1>2, <1>4, <1>5, <1>7 DEF p, q

-----------------------------------------------------------------------------
(***************************************************************************)
(* The invariant behind ExclusiveUse, ActiveIsAccountedFor and             *)
(* TransactionPointerValid.                                                *)
(***************************************************************************)
Running(t) == pc[t] \in {"begin", "rows", "finish"}

\* What the phase of a thread says about its connection and its batch.
Phased ==
  \A t \in Threads :
    /\ pc[t] = "idle" => conn[t] = None
    /\ pc[t] \notin {"commit", "handback"} => batch[t] = <<>>
    /\ pc[t] = "handback" => Front1(t).conn # conn[t]
    /\ pc[t] \in {"connect", "create"} => tx[conn[t]] = 0

BatchesDistinct ==
  \A t \in Threads :
    /\ Ordered(batch[t])
    /\ \A x, y \in Taken(t) : x.conn = y.conn => x = y

\* A running statement's transaction is in the store, what is not ready there
\* runs, and every connection of the store points back at its transaction.
RunningStored ==
  \A t \in Threads : Running(t) /\ tx[conn[t]] # 0 =>
    [id |-> tx[conn[t]], conn |-> conn[t], ready |-> FALSE] \in Txns

StoredRuns ==
  \A x \in Txns : ~x.ready => \E t \in Threads : conn[t] = x.conn /\ Running(t)

PointsBack == \A x \in Txns : tx[x.conn] = x.id /\ x.id # 0

Pointers == RunningStored /\ StoredRuns /\ PointsBack

Lent == [t \in Threads |-> Held(t)]

Owned ==
  /\ Partition(Lent, Deferred, ToSet(ready), active)
  /\ IsInjective(ready)

Ownership == Phased /\ BatchesDistinct /\ Pointers /\ Owned

\* What PoolProofs shows of every state.
Known == Typed /\ StoreOrdered

LEMMA DeferredSet ==
  /\ Deferred = {x.conn : x \in {y \in Txns : y.ready}}
  /\ Deferred' = {x.conn : x \in {y \in Txns' : y.ready}}
  BY DEF Deferred, Txns, ToSet

LEMMA HeldSet ==
  ASSUME NEW t \in Threads
  PROVE  /\ Held(t) = ({conn[t]} \ {None}) \cup {x.conn : x \in Taken(t)}
         /\ Held(t)' = ({conn'[t]} \ {None}) \cup {x.conn : x \in Taken(t)'}
  BY DEF Held, Taken, ToSet

LEMMA LentValue ==
  ASSUME NEW t \in Threads
  PROVE  Lent[t] = Held(t) /\ Lent'[t] = Held(t)'
  BY DEF Lent

LEMMA KnownFacts ==
  ASSUME Known
  PROVE  /\ store \in Seq(Txn) /\ IsInjective(store) /\ Txns \subseteq Txn
         /\ \A x, y \in Txns : x.id = y.id => x = y
         /\ \A t \in Threads : batch[t] \in Seq(Txn) /\ Taken(t) \subseteq Txn
         /\ \A x \in Txns : x.id <= seq
         /\ seq \in Nat /\ tx \in [Conns -> Nat] /\ ready \in Seq(Conns)
         /\ active \subseteq Conns
         /\ pc \in [Threads -> Phase] /\ batch \in [Threads -> Seq(Txn)]
         /\ conn \in [Threads -> Conns \cup {None}]
         /\ \A t \in Threads : pc[t] # "idle" => conn[t] \in Conns
<1>1. store \in Seq(Txn) /\ Ordered(store) /\ batch \in [Threads -> Seq(Txn)]
  BY DEF Known, Typed, TypeOK, StoreOrdered
<1>2. Txns \subseteq Txn /\ \A t \in Threads : Taken(t) \subseteq Txn
  BY <1>1, SetTyped DEF Txns, Taken
<1>3. IsInjective(store) /\ \A x, y \in Txns : x.id = y.id => x = y
  BY <1>1, OrderedInjective DEF Txns
<1>4. \A x \in Txns : x.id <= seq
  BY DEF Known, StoreOrdered, Txns, ToSet
<1>5. QED
  BY <1>1, <1>2, <1>3, <1>4, PoolAssumption DEF Known, Typed, TypeOK, AtWork

LEMMA LentTyped ==
  ASSUME Known
  PROVE  Lent \in Holdings
<1>1. ASSUME NEW t \in Threads PROVE Held(t) \subseteq Conns
  <2>1. \A x \in Taken(t) : x.conn \in Conns
    BY KnownFacts DEF Txn
  <2>2. conn[t] \in Conns \cup {None}
    BY KnownFacts
  <2>3. QED
    BY <2>1, <2>2, HeldSet
<1>2. QED
  BY <1>1 DEF Lent, Holdings

\* Every connection that is held or has its transaction in the store is active.
LEMMA InUseIsActive ==
  ASSUME Known, Ownership
  PROVE  /\ \A t \in Threads : Held(t) \subseteq active
         /\ \A x \in Txns : x.conn \in active
         /\ active \cap ToSet(ready) = {}
<1>1. \A t \in Threads : Held(t) \subseteq active
  BY LentValue DEF Ownership, Owned, Partition
<1>2. ASSUME NEW x \in Txns PROVE x.conn \in active
  <2>1. CASE x.ready
    BY <2>1, DeferredSet DEF Ownership, Owned, Partition
  <2>2. CASE ~x.ready
    <3>1. PICK t \in Threads : conn[t] = x.conn /\ Running(t)
      BY <2>2 DEF Ownership, Pointers, StoredRuns
    <3>2. conn[t] \in Conns /\ None \notin Conns
      BY <3>1, KnownFacts, PoolAssumption DEF Running
    <3>3. QED
      BY <1>1, <3>1, <3>2, HeldSet
  <2>3. QED
    BY <2>1, <2>2
<1>3. active \cap ToSet(ready) = {}
  BY LentValue DEF Ownership, Owned, Partition
<1>4. QED
  BY <1>1, <1>2, <1>3

\* Threads at work have connections of their own, and none that is deferred.
LEMMA OwnConnection ==
  ASSUME Known, Ownership, NEW t \in Threads, pc[t] # "idle"
  PROVE  /\ conn[t] \in Held(t) /\ conn[t] \in Conns
         /\ conn[t] \notin Deferred
         /\ \A u \in Threads \ {t} : conn[u] # conn[t] /\ conn[t] \notin Held(u)
<1>1. conn[t] \in Conns /\ None \notin Conns
  BY KnownFacts, PoolAssumption
<1>2. conn[t] \in Held(t)
  BY <1>1, HeldSet
<1>3. conn[t] \notin Deferred
  BY <1>2, LentValue DEF Ownership, Owned, Partition
<1>4. ASSUME NEW u \in Threads \ {t}
      PROVE  conn[u] # conn[t] /\ conn[t] \notin Held(u)
  <2>1. conn[t] \notin Held(u)
    BY <1>2, LentValue DEF Ownership, Owned, Partition
  <2>2. conn[u] = conn[t] => conn[t] \in Held(u)
    BY <1>1, HeldSet
  <2>3. QED
    BY <2>1, <2>2
<1>5. QED
  BY <1>1, <1>2, <1>3, <1>4

-----------------------------------------------------------------------------
(***************************************************************************)
(* Ownership is inductive.  First the steps that move no connection.       *)
(***************************************************************************)

\* Phases that follow one another without a change of connections.
Moves(t, p) ==
  \/ p = pc[t]
  \/ pc[t] = "connect" /\ p \in {"create", "rows", "finish"}
  \/ pc[t] \in {"begin", "rows"} /\ p \in {"rows", "finish"}
  \/ pc[t] = "commit" /\ p = "handback" /\ Front1(t).conn # conn[t]

LEMMA SameConnectionsKeep ==
  ASSUME UNCHANGED <<active, ready, store, conn, batch>>, Owned
  PROVE  Owned'
<1>1. \A t \in Threads : Held(t)' = Held(t)
  BY HeldSet DEF Taken
<1>2. Lent' = Lent /\ Deferred' = Deferred /\ ToSet(ready') = ToSet(ready)
  BY <1>1, DeferredSet DEF Lent, Txns
<1>3. QED
  BY <1>2 DEF Owned

LEMMA QuietKeeps ==
  ASSUME Known, Ownership,
         UNCHANGED <<active, ready, store, tx, conn, batch>>,
         \A t \in Threads : Moves(t, pc'[t])
  PROVE  Ownership'
<1>1. Txns' = Txns /\ \A t \in Threads : Taken(t)' = Taken(t)
  BY DEF Txns, Taken
<1>2. Owned'
  BY SameConnectionsKeep DEF Ownership
<1>3. Phased' /\ BatchesDistinct'
  BY <1>1 DEF Ownership, Phased, BatchesDistinct, Moves, Front1
<1>4. RunningStored'
  <2> SUFFICES ASSUME NEW t \in Threads, Running(t)', tx[conn[t]] # 0
               PROVE  [id |-> tx[conn[t]], conn |-> conn[t], ready |-> FALSE] \in Txns
    BY <1>1 DEF RunningStored
  <2>1. Running(t) \/ pc[t] = "connect"
    BY DEF Running, Moves
  <2>2. Running(t)
    BY <2>1 DEF Ownership, Phased
  <2>3. QED
    BY <2>2 DEF Ownership, Pointers, RunningStored
<1>5. StoredRuns'
  <2>1. \A t \in Threads : Running(t) => Running(t)'
    BY DEF Running, Moves
  <2>2. QED
    BY <1>1, <2>1 DEF Ownership, Pointers, StoredRuns
<1>6. PointsBack'
  BY <1>1 DEF Ownership, Pointers, PointsBack
<1>7. QED
  BY <1>2, <1>3, <1>4, <1>5, <1>6 DEF Ownership, Pointers

LEMMA QuietSteps ==
  ASSUME Known, Ownership,
         \/ \E t \in Threads :
              \/ ConnectOk(t) \/ ConnectFail(t) \/ BeginOk(t) \/ BeginFail(t)
              \/ RowDelivered(t) \/ RowLost(t) \/ RowSkipped(t) \/ RowFail(t)
              \/ \E s \in Settings : GetExhausted(t, s)
         \/ ForceStart \/ ForceSkip \/ ForceEnd
         \/ \E c \in Conns : Drop(c)
         \/ UNCHANGED vars
  PROVE  Ownership'
<1>1. UNCHANGED <<active, ready, store, tx, conn, batch>>
  BY DEF ConnectOk, ConnectFail, BeginOk, BeginFail, RowDelivered, RowLost,
         RowSkipped, RowFail, GetExhausted, ForceStart, ForceSkip, ForceEnd,
         Drop, vars
<1>2. \A u \in Threads : Moves(u, pc'[u])
  <2>0. pc \in [Threads -> Phase]
    BY KnownFacts
  <2>1. CASE pc' = pc
    BY <2>1 DEF Moves
  <2>2. ASSUME NEW t \in Threads, ConnectOk(t) \/ ConnectFail(t)
        PROVE  \A u \in Threads : Moves(u, pc'[u])
    BY <2>0, <2>2 DEF ConnectOk, ConnectFail, InitFails, Goto, Moves
  <2>3. ASSUME NEW t \in Threads, BeginOk(t) \/ BeginFail(t)
        PROVE  \A u \in Threads : Moves(u, pc'[u])
    BY <2>0, <2>3 DEF BeginOk, BeginFail, InitFails, Goto, Moves
  <2>4. ASSUME NEW t \in Threads, RowFail(t)
        PROVE  \A u \in Threads : Moves(u, pc'[u])
    BY <2>0, <2>4 DEF RowFail, Goto, Moves
  <2>5. QED
    BY <2>1, <2>2, <2>3, <2>4
       DEF RowDelivered, RowLost, RowSkipped, GetExhausted, ForceStart,
           ForceSkip, ForceEnd, Drop, vars
<1>3. QED
  BY <1>1, <1>2, QuietKeeps

\* pool::get: the connection is nobody's.
LEMMA LeaseKeeps ==
  ASSUME Known, Ownership, NEW t \in Threads, NEW s \in Settings,
         NEW c \in Conns, pc[t] = "idle", c \notin active, Lease(t, s, c),
         ToSet(ready') \subseteq ToSet(ready) \ {c}, IsInjective(ready')
  PROVE  Ownership'
<1>1. /\ active' = active \cup {c} /\ tx' = [tx EXCEPT ![c] = 0]
      /\ conn' = [conn EXCEPT ![t] = c] /\ pc' = [pc EXCEPT ![t] = "connect"]
      /\ UNCHANGED <<store, batch>>
  BY DEF Lease, Goto
<1>2. Txns' = Txns /\ \A u \in Threads : Taken(u)' = Taken(u)
  BY <1>1 DEF Txns, Taken
<1>3. conn[t] = None /\ batch[t] = <<>> /\ None \notin Conns
  BY PoolAssumption DEF Ownership, Phased
<1>4. /\ conn'[t] = c /\ pc'[t] = "connect" /\ tx'[c] = 0
      /\ \A u \in Threads \ {t} : conn'[u] = conn[u] /\ pc'[u] = pc[u]
      /\ \A d \in Conns \ {c} : tx'[d] = tx[d]
  BY <1>1, KnownFacts
<1>5. Taken(t) = {}
  BY <1>3 DEF Taken, ToSet
<1>6. Held(t) = {} /\ Held(t)' = {c}
  BY <1>2, <1>3, <1>4, <1>5, HeldSet
<1>7. Lent' = [Lent EXCEPT ![t] = {c}]
  <2>1. \A u \in Threads \ {t} : Held(u)' = Held(u)
    BY <1>2, <1>4, HeldSet
  <2>2. QED
    BY <1>6, <2>1 DEF Lent
<1>8. Owned'
  <2>1. Deferred' = Deferred
    BY <1>2, DeferredSet
  <2>2. Partition([Lent EXCEPT ![t] = {c}], Deferred, ToSet(ready'), active \cup {c})
    BY <1>6, LendKeeps, LentTyped, LentValue DEF Ownership, Owned
  <2>3. QED
    BY <1>1, <1>7, <2>1, <2>2 DEF Owned
<1>9. \A u \in Threads \ {t} : pc[u] # "idle" => conn[u] \in Conns \ {c}
  BY InUseIsActive, OwnConnection
<1>10. Phased'
  BY <1>1, <1>3, <1>4, <1>9 DEF Ownership, Phased, Front1
<1>11. BatchesDistinct'
  BY <1>1, <1>2 DEF Ownership, BatchesDistinct
<1>12. RunningStored'
  <2> SUFFICES ASSUME NEW u \in Threads, Running(u)', tx'[conn'[u]] # 0
               PROVE  [id |-> tx'[conn'[u]], conn |-> conn'[u], ready |-> FALSE] \in Txns
    BY <1>2 DEF RunningStored
  <2>1. u # t
    BY <1>4 DEF Running
  <2>2. Running(u) /\ conn'[u] = conn[u] /\ tx'[conn[u]] = tx[conn[u]]
    BY <1>4, <1>9, <2>1 DEF Running
  <2>3. QED
    BY <2>2 DEF Ownership, Pointers, RunningStored
<1>13. StoredRuns'
  <2>1. \A u \in Threads : Running(u) => u # t /\ Running(u)' /\ conn'[u] = conn[u]
    BY <1>4 DEF Running
  <2>2. QED
    BY <1>2, <2>1 DEF Ownership, Pointers, StoredRuns
<1>14. PointsBack'
  <2>1. \A x \in Txns : x.conn \in Conns \ {c}
    BY InUseIsActive, KnownFacts
  <2>2. QED
    BY <1>2, <1>4, <2>1 DEF Ownership, Pointers, PointsBack
<1>15. QED
  BY <1>8, <1>10, <1>11, <1>12, <1>13, <1>14 DEF Ownership, Pointers

LEMMA GetKeeps ==
  ASSUME Known, Ownership, NEW t \in Threads, NEW s \in Settings,
         GetReady(t, s) \/ GetNew(t, s)
  PROVE  Ownership'
<1>1. CASE GetReady(t, s)
  <2>1. /\ pc[t] = "idle" /\ ready # <<>> /\ ready' = Tail(ready)
        /\ Lease(t, s, Head(ready))
    BY <1>1 DEF GetReady
  <2>2. /\ Head(ready) \in Conns
        /\ ToSet(ready) = {Head(ready)} \cup ToSet(Tail(ready))
        /\ IsInjective(Tail(ready)) /\ Head(ready) \notin ToSet(Tail(ready))
    BY <2>1, KnownFacts, TailFacts, TailSet DEF Ownership, Owned
  <2>3. Head(ready) \notin active
    BY <2>2, InUseIsActive
  <2>4. QED
    BY <2>1, <2>2, <2>3, LeaseKeeps
<1>2. CASE GetNew(t, s)
  <2>1. PICK c \in Conns \ active : Lease(t, s, c)
    BY <1>2 DEF GetNew
  <2>2. pc[t] = "idle" /\ ready = <<>> /\ ready' = ready
    BY <1>2 DEF GetNew
  <2>3. ToSet(ready') = {} /\ IsInjective(ready')
    BY <2>2 DEF ToSet, IsInjective
  <2>4. QED
    BY <2>1, <2>2, <2>3, LeaseKeeps
<1>3. QED
  BY <1>1, <1>2

\* The connection of a new transaction has no other in the store.
LEMMA CreateKeeps ==
  ASSUME Known, Ownership, NEW t \in Threads, CreateTransaction(t)
  PROVE  Ownership'
<1> DEFINE new == NewTxn(seq + 1, conn[t])
<1>1. /\ pc[t] = "create" /\ store' = Append(store, new)
      /\ tx' = [tx EXCEPT ![conn[t]] = seq + 1]
      /\ pc' = [pc EXCEPT ![t] = "begin"]
      /\ UNCHANGED <<active, ready, conn, batch>>
  BY DEF CreateTransaction, Goto
<1>2. /\ conn[t] \in Conns /\ seq \in Nat
      /\ new.id = seq + 1 /\ new.conn = conn[t] /\ ~new.ready
      /\ new = [id |-> seq + 1, conn |-> conn[t], ready |-> FALSE] /\ new \in Txn
  BY <1>1, OwnConnection, KnownFacts DEF NewTxn, Txn
<1> HIDE DEF new
<1>3. Txns' = Txns \cup {new} /\ \A u \in Threads : Taken(u)' = Taken(u)
  <2>0. store \in Seq(Txn) /\ new \in Txn
    BY <1>2, KnownFacts
  <2>1. ToSet(Append(store, new)) = ToSet(store) \cup {new}
    <3>1. \A S : \A r \in Seq(S) : \A x \in S : ToSet(Append(r, x)) = ToSet(r) \cup {x}
      BY AppendSet
    <3>2. QED
      BY <2>0, <3>1
  <2>2. QED
    BY <1>1, <2>1 DEF Txns, Taken
<1>4. /\ tx'[conn[t]] = seq + 1 /\ pc'[t] = "begin"
      /\ \A u \in Threads \ {t} : pc'[u] = pc[u]
      /\ \A d \in Conns \ {conn[t]} : tx'[d] = tx[d]
  BY <1>1, <1>2, KnownFacts
<1>5. \A u \in Threads \ {t} : pc[u] # "idle" => conn[u] \in Conns \ {conn[t]}
  BY <1>1, OwnConnection, KnownFacts
<1>6. \A x \in Txns : x.conn \in Conns \ {conn[t]}
  <2>1. tx[conn[t]] = 0
    BY <1>1 DEF Ownership, Phased
  <2>2. QED
    BY <2>1, KnownFacts DEF Ownership, Pointers, PointsBack, Txn
<1>7. Owned'
  <2>1. Deferred' = Deferred
    BY <1>2, <1>3, DeferredSet
  <2>2. \A u \in Threads : Held(u)' = Held(u)
    BY <1>1, <1>3, HeldSet
  <2>3. Lent' = Lent
    BY <2>2 DEF Lent
  <2>4. QED
    BY <1>1, <2>1, <2>3 DEF Ownership, Owned
<1>8. Phased'
  BY <1>1, <1>4, <1>5 DEF Ownership, Phased, Front1
<1>9. BatchesDistinct'
  BY <1>1, <1>3 DEF Ownership, BatchesDistinct
<1>10. RunningStored'
  <2> SUFFICES ASSUME NEW u \in Threads, Running(u)', tx'[conn[u]] # 0
               PROVE  [id |-> tx'[conn[u]], conn |-> conn[u], ready |-> FALSE]
                        \in Txns \cup {new}
    BY <1>1, <1>3 DEF RunningStored
  <2>1. CASE u = t
    BY <1>2, <1>4, <2>1
  <2>2. CASE u # t
    <3>1. Running(u) /\ tx'[conn[u]] = tx[conn[u]]
      BY <1>4, <1>5, <2>2 DEF Running
    <3>2. QED
      BY <3>1 DEF Ownership, Pointers, RunningStored
  <2>3. QED
    BY <2>1, <2>2
<1>11. StoredRuns'
  <2>1. \A u \in Threads : Running(u) => Running(u)'
    BY <1>1, <1>4 DEF Running
  <2>2. Running(t)'
    BY <1>4 DEF Running
  <2>3. QED
    BY <1>1, <1>2, <1>3, <2>1, <2>2 DEF Ownership, Pointers, StoredRuns
<1>12. PointsBack'
  BY <1>2, <1>3, <1>4, <1>6 DEF Ownership, Pointers, PointsBack
<1>13. QED
  BY <1>7, <1>8, <1>9, <1>10, <1>11, <1>12 DEF Ownership, Pointers

\* The transaction of a statement that finishes.
Mine(t, is_ready) == [id |-> tx[conn[t]], conn |-> conn[t], ready |-> is_ready]

LEMMA FinishingFacts ==
  ASSUME Known, Ownership, NEW t \in Threads, Finishing(t), tx[conn[t]] # 0
  PROVE  /\ Mine(t, FALSE) \in Txns
         /\ \A x \in Txns : x.id = tx[conn[t]] => x = Mine(t, FALSE)
         /\ \A x \in Txns : x.conn = conn[t] => x = Mine(t, FALSE)
         /\ Running(t) /\ pc[t] # "idle" /\ batch[t] = <<>>
         /\ Held(t) = {conn[t]}
<1>1. Running(t) /\ pc[t] # "idle" /\ batch[t] = <<>>
  BY DEF Finishing, Running, Ownership, Phased
<1>2. Mine(t, FALSE) \in Txns
  BY <1>1 DEF Ownership, Pointers, RunningStored, Mine
<1>3. \A x \in Txns : x.id = tx[conn[t]] => x = Mine(t, FALSE)
  BY <1>2, KnownFacts DEF Mine
<1>4. \A x \in Txns : x.conn = conn[t] => x = Mine(t, FALSE)
  BY <1>3 DEF Ownership, Pointers, PointsBack
<1>5. Held(t) = {conn[t]}
  <2>1. Taken(t) = {}
    BY <1>1 DEF Taken, ToSet
  <2>2. QED
    BY <1>1, <2>1, HeldSet, KnownFacts, PoolAssumption
<1>6. QED
  BY <1>1, <1>2, <1>3, <1>4, <1>5

\* Of the runners of the other transactions thread t is none.
LEMMA OtherRunners ==
  ASSUME Known, Ownership, NEW t \in Threads, pc[t] # "idle",
         NEW x \in Txns, ~x.ready, x.conn # conn[t]
  PROVE  \E u \in Threads \ {t} : conn[u] = x.conn /\ Running(u)
  BY DEF Ownership, Pointers, StoredRuns

LEMMA DeferKeeps ==
  ASSUME Known, Ownership, NEW t \in Threads, Defer(t)
  PROVE  Ownership'
<1>1. /\ Finishing(t) /\ tx[conn[t]] # 0
      /\ conn' = [conn EXCEPT ![t] = None] /\ pc' = [pc EXCEPT ![t] = "idle"]
      /\ UNCHANGED <<active, ready, tx, batch>>
  BY DEF Defer, Retire, Goto
<1>2. PICK i \in DOMAIN store :
        store[i].id = tx[conn[t]] /\ store' = Marked(store, i)
  BY DEF Defer
<1>3. /\ Mine(t, FALSE) \in Txns /\ Running(t) /\ pc[t] # "idle"
      /\ batch[t] = <<>> /\ Held(t) = {conn[t]}
      /\ \A x \in Txns : x.conn = conn[t] => x = Mine(t, FALSE)
  BY <1>1, FinishingFacts
<1>4. store[i] = Mine(t, FALSE)
  <2>1. store[i] \in Txns
    BY DEF Txns, ToSet
  <2>2. QED
    BY <1>1, <1>2, <2>1, FinishingFacts
<1>5. /\ Txns' = (Txns \ {Mine(t, FALSE)}) \cup {Mine(t, TRUE)}
      /\ \A u \in Threads : Taken(u)' = Taken(u)
  <2>1. ToSet(store') = (ToSet(store) \ {store[i]})
          \cup {[id |-> store[i].id, conn |-> store[i].conn, ready |-> TRUE]}
    BY <1>2, KnownFacts, MarkedSet
  <2>2. QED
    BY <1>1, <1>4, <2>1 DEF Txns, Taken, Mine
<1>6. /\ conn'[t] = None /\ pc'[t] = "idle"
      /\ \A u \in Threads \ {t} : conn'[u] = conn[u] /\ pc'[u] = pc[u]
  BY <1>1, KnownFacts
<1>7. Owned'
  <2>1. Deferred' = Deferred \cup Held(t)
    <3>1. {x.conn : x \in {y \in Txns' : y.ready}}
            = {x.conn : x \in {y \in Txns : y.ready}} \cup {conn[t]}
      <4>1. ~Mine(t, FALSE).ready /\ Mine(t, TRUE).ready
            /\ Mine(t, TRUE).conn = conn[t]
        BY DEF Mine
      <4>2. {y \in Txns' : y.ready} = {y \in Txns : y.ready} \cup {Mine(t, TRUE)}
        BY <1>5, <4>1
      <4>3. QED
        BY <4>1, <4>2
    <3>2. QED
      BY <1>3, <3>1, DeferredSet
  <2>2. Held(t)' = {} /\ \A u \in Threads \ {t} : Held(u)' = Held(u)
    <3>1. Taken(t)' = {}
      BY <1>1, <1>3 DEF Taken, ToSet
    <3>2. QED
      BY <1>5, <1>6, <3>1, HeldSet
  <2>3. Lent' = [Lent EXCEPT ![t] = {}]
    BY <2>2 DEF Lent
  <2>4. Partition([Lent EXCEPT ![t] = {}], Deferred \cup Lent[t], ToSet(ready), active)
    BY LeaveKeeps, LentTyped DEF Ownership, Owned
  <2>5. QED
    BY <1>1, <2>1, <2>3, <2>4, LentValue DEF Ownership, Owned
<1>8. Phased'
  BY <1>1, <1>3, <1>6 DEF Ownership, Phased, Front1
<1>9. BatchesDistinct'
  BY <1>1, <1>5 DEF Ownership, BatchesDistinct
<1>10. RunningStored'
  <2> SUFFICES ASSUME NEW u \in Threads, Running(u)', tx[conn'[u]] # 0
               PROVE  [id |-> tx[conn'[u]], conn |-> conn'[u], ready |-> FALSE] \in Txns'
    BY <1>1 DEF RunningStored
  <2>1. u # t /\ Running(u) /\ conn'[u] = conn[u]
    BY <1>6 DEF Running
  <2>2. [id |-> tx[conn[u]], conn |-> conn[u], ready |-> FALSE] \in Txns
    BY <2>1 DEF Ownership, Pointers, RunningStored
  <2>3. conn[u] # conn[t]
    BY <1>3, <2>1, OwnConnection
  <2>4. QED
    BY <1>5, <2>1, <2>2, <2>3 DEF Mine
<1>11. StoredRuns'
  <2> SUFFICES ASSUME NEW x \in Txns', ~x.ready
               PROVE  \E u \in Threads : conn'[u] = x.conn /\ Running(u)'
    BY DEF StoredRuns
  <2>1. x \in Txns /\ x # Mine(t, FALSE)
    BY <1>5 DEF Mine
  <2>2. PICK u \in Threads \ {t} : conn[u] = x.conn /\ Running(u)
    BY <1>3, <2>1, OtherRunners
  <2>3. QED
    BY <1>6, <2>2 DEF Running
<1>12. PointsBack'
  <2>1. Mine(t, TRUE).conn = Mine(t, FALSE).conn /\ Mine(t, TRUE).id = Mine(t, FALSE).id
    BY DEF Mine
  <2>2. QED
    BY <1>1, <1>3, <1>5, <2>1 DEF Ownership, Pointers, PointsBack
<1>13. QED
  BY <1>7, <1>8, <1>9, <1>10, <1>11, <1>12 DEF Ownership, Pointers

\* What get_uncommited takes out: the thread's own transaction, marked, and
\* ready ones.
LEMMA TakeEffect ==
  ASSUME Known, Ownership, NEW t \in Threads, TakeBatch(t)
  PROVE  \E T \in SUBSET (Txns \ {Mine(t, FALSE)}) :
           /\ \A x \in T : x.ready
           /\ Txns' = Txns \ ({Mine(t, FALSE)} \cup T)
           /\ Taken(t)' = {Mine(t, TRUE)} \cup T
           /\ Ordered(batch'[t]) /\ batch'[t] \in Seq(Txn)
           /\ \A u \in Threads \ {t} : batch'[u] = batch[u]
<1> DEFINE marked == Marked(store, 1)
<1>1. /\ store \in Seq(Txn) /\ IsInjective(store) /\ Ordered(store)
      /\ 1 \in DOMAIN store /\ Len(store) \in Nat
      /\ DOMAIN store = 1..Len(store)
      /\ batch \in [Threads -> Seq(Txn)]
  BY KnownFacts, HasFirst DEF Known, StoreOrdered, TakeBatch
<1>2. Finishing(t) /\ tx[conn[t]] # 0 /\ store[1].id = tx[conn[t]]
  BY DEF TakeBatch
<1>3. store[1] = Mine(t, FALSE)
  <2>1. store[1] \in Txns
    BY <1>1 DEF Txns, ToSet
  <2>2. QED
    BY <1>2, <2>1, FinishingFacts
<1>4. /\ marked \in Seq(Txn) /\ Len(marked) = Len(store)
      /\ \A j \in 1..Len(store) :
           /\ marked[j] = IF j = 1 THEN Mine(t, TRUE) ELSE store[j]
           /\ marked[j].id = store[j].id
  <2>1. /\ marked \in Seq(Txn) /\ Len(marked) = Len(store)
        /\ \A j \in DOMAIN store :
             marked[j] = IF j = 1 THEN [id |-> store[1].id, conn |-> store[1].conn,
                                        ready |-> TRUE] ELSE store[j]
    BY <1>1, MarkedProperties
  <2>2. [id |-> store[1].id, conn |-> store[1].conn, ready |-> TRUE] = Mine(t, TRUE)
        /\ Mine(t, TRUE).id = store[1].id
    BY <1>3 DEF Mine
  <2>3. QED
    BY <1>1, <2>1, <2>2
<1>5. ToSet(marked) = (Txns \ {Mine(t, FALSE)}) \cup {Mine(t, TRUE)}
  <2>1. ToSet(marked) = (ToSet(store) \ {store[1]})
          \cup {[id |-> store[1].id, conn |-> store[1].conn, ready |-> TRUE]}
    BY <1>1, MarkedSet
  <2>2. QED
    BY <1>3, <2>1 DEF Txns, Mine
<1> HIDE DEF marked
<1>6. Ordered(marked) /\ DOMAIN marked = 1..Len(store)
  <2>1. DOMAIN marked = 1..Len(store)
    BY <1>4
  <2>2. QED
    BY <1>1, <1>4, <2>1 DEF Ordered
<1>7. PICK n \in 1..Len(store) :
        /\ ReadyRun(marked, n)
        /\ batch' = [batch EXCEPT ![t] = SubSeq(marked, 1, n)]
        /\ store' = SubSeq(marked, n + 1, Len(store))
  BY DEF TakeBatch, marked
<1> DEFINE T == {store[j] : j \in 2..n}
<1>8. /\ SubSeq(marked, 1, n) \in Seq(Txn) /\ Ordered(SubSeq(marked, 1, n))
      /\ ToSet(SubSeq(marked, 1, n)) = {marked[j] : j \in 1..n}
      /\ ToSet(store') = ToSet(marked) \ {marked[j] : j \in 1..n}
  BY <1>4, <1>6, <1>7, PrefixSet
<1>9. {marked[j] : j \in 1..n} = {Mine(t, TRUE)} \cup T
  <2>1. \A j \in 1..n : marked[j] = IF j = 1 THEN Mine(t, TRUE) ELSE store[j]
    <3>1. \A j \in 1..n : j \in 1..Len(store)
      BY <1>1, <1>7
    <3>2. QED
      BY <1>4, <3>1
  <2>2. \A j \in 1..n : j = 1 \/ j \in 2..n
    BY <1>1, <1>7
  <2>3. 1 \in 1..n /\ \A j \in 2..n : j \in 1..n /\ j # 1
    BY <1>1, <1>7
  <2>4. \A y : y \in {marked[j] : j \in 1..n} => y \in {Mine(t, TRUE)} \cup T
    BY <2>1, <2>2
  <2>5. marked[1] = Mine(t, TRUE) /\ \A j \in 2..n : marked[j] = store[j]
    BY <2>1, <2>3
  <2>6. \A y : y \in {Mine(t, TRUE)} \cup T => y \in {marked[j] : j \in 1..n}
    BY <2>3, <2>5
  <2>7. QED
    BY <2>4, <2>6
<1>10. T \in SUBSET (Txns \ {Mine(t, FALSE)}) /\ \A x \in T : x.ready
  <2>1. \A j \in 2..n : j \in DOMAIN store /\ j # 1
    BY <1>1, <1>7
  <2>2. \A j \in 2..n : store[j] \in Txns /\ store[j] # store[1]
    BY <1>1, <2>1 DEF Txns, ToSet, IsInjective
  <2>3. \A j \in 2..n : j \in 1..n /\ store[j].ready
    <3>1. \A j \in 2..n : j \in 1..n /\ j \in 1..Len(store) /\ j # 1
      BY <1>1, <1>7
    <3>2. \A j \in 1..n : marked[j].ready
      BY <1>7 DEF ReadyRun
    <3>3. QED
      BY <1>4, <3>1, <3>2
  <2>4. QED
    BY <1>3, <2>2, <2>3
<1>11. Mine(t, TRUE) \notin Txns
  <2>1. Mine(t, TRUE).id = tx[conn[t]] /\ Mine(t, TRUE) # Mine(t, FALSE)
    BY DEF Mine
  <2>2. QED
    BY <1>2, <2>1, FinishingFacts
<1>12. Txns' = Txns \ ({Mine(t, FALSE)} \cup T)
  BY <1>5, <1>8, <1>9, <1>10, <1>11 DEF Txns
<1>13. /\ batch'[t] = SubSeq(marked, 1, n)
       /\ \A u \in Threads \ {t} : batch'[u] = batch[u]
  BY <1>1, <1>7
<1>14. Taken(t)' = {Mine(t, TRUE)} \cup T
  BY <1>8, <1>9, <1>13 DEF Taken
<1>15. QED
  BY <1>8, <1>10, <1>12, <1>13, <1>14

LEMMA BatchKeeps ==
  ASSUME Known, Ownership, NEW t \in Threads, TakeBatch(t)
  PROVE  Ownership'
<1>1. /\ Finishing(t) /\ tx[conn[t]] # 0
      /\ pc' = [pc EXCEPT ![t] = "commit"]
      /\ UNCHANGED <<active, ready, tx, conn>>
  BY DEF TakeBatch, Goto
<1>2. PICK T \in SUBSET (Txns \ {Mine(t, FALSE)}) :
        /\ \A x \in T : x.ready
        /\ Txns' = Txns \ ({Mine(t, FALSE)} \cup T)
        /\ Taken(t)' = {Mine(t, TRUE)} \cup T
        /\ Ordered(batch'[t]) /\ batch'[t] \in Seq(Txn)
        /\ \A u \in Threads \ {t} : batch'[u] = batch[u]
  BY TakeEffect
<1>3. /\ Mine(t, FALSE) \in Txns /\ Running(t) /\ pc[t] # "idle"
      /\ batch[t] = <<>> /\ Held(t) = {conn[t]}
      /\ \A x \in Txns : x.conn = conn[t] => x = Mine(t, FALSE)
  BY <1>1, FinishingFacts
<1>4. pc'[t] = "commit" /\ \A u \in Threads \ {t} : pc'[u] = pc[u]
  BY <1>1, KnownFacts
<1>5. \A u \in Threads \ {t} : Taken(u)' = Taken(u)
  BY <1>2 DEF Taken
<1>6. /\ ~Mine(t, FALSE).ready /\ Mine(t, FALSE).conn = conn[t]
      /\ Mine(t, TRUE).conn = conn[t]
  BY DEF Mine
<1>7. \A x, y \in Txns : x.conn = y.conn => x = y
  <2>1. \A x, y \in Txns : x.id = y.id => x = y
    BY KnownFacts
  <2>2. \A x \in Txns : tx[x.conn] = x.id
    BY DEF Ownership, Pointers, PointsBack
  <2>3. QED
    BY <2>1, <2>2
<1> DEFINE along == {x.conn : x \in T}
<1>8. Deferred' = Deferred \ along /\ along \subseteq Deferred
  <2>1. {y \in Txns' : y.ready} = {y \in Txns : y.ready} \ T
    BY <1>2, <1>6
  <2>2. {x.conn : x \in {y \in Txns : y.ready} \ T}
          = {x.conn : x \in {y \in Txns : y.ready}} \ along
    <3>1. \A x \in Txns : x.conn \in along => x \in T
      BY <1>2, <1>7
    <3>2. QED
      BY <1>2, <3>1
  <2>3. along \subseteq {x.conn : x \in {y \in Txns : y.ready}}
    BY <1>2
  <2>4. QED
    BY <2>1, <2>2, <2>3, DeferredSet
<1>9. Held(t)' = Held(t) \cup along
  <2>1. conn[t] \in Conns /\ None \notin Conns
    BY <1>3, KnownFacts, PoolAssumption
  <2>2. {x.conn : x \in Taken(t)'} = {conn[t]} \cup along
    BY <1>2, <1>6
  <2>3. QED
    BY <1>1, <1>3, <2>1, <2>2, HeldSet
<1>10. \A u \in Threads \ {t} : Held(u)' = Held(u)
  BY <1>1, <1>5, HeldSet
<1> HIDE DEF along
<1>11. Owned'
  <2>1. Lent' = [Lent EXCEPT ![t] = Lent[t] \cup along]
    BY <1>9, <1>10, LentValue DEF Lent
  <2>2. Partition([Lent EXCEPT ![t] = Lent[t] \cup along], Deferred \ along,
                  ToSet(ready), active)
    BY <1>8, TakeKeeps, LentTyped DEF Ownership, Owned
  <2>3. QED
    BY <1>1, <1>8, <2>1, <2>2 DEF Ownership, Owned
<1>12. Phased'
  BY <1>1, <1>2, <1>4 DEF Ownership, Phased, Front1
<1>13. BatchesDistinct'
  <2>1. \A x, y \in Taken(t)' : x.conn = y.conn => x = y
    BY <1>2, <1>3, <1>6, <1>7
  <2>2. ASSUME NEW u \in Threads \ {t}
        PROVE  /\ Ordered(batch'[u])
               /\ \A x, y \in Taken(u)' : x.conn = y.conn => x = y
    BY <1>2, <1>5 DEF Ownership, BatchesDistinct
  <2>3. QED
    BY <1>2, <2>1, <2>2 DEF BatchesDistinct
<1>14. RunningStored'
  <2> SUFFICES ASSUME NEW u \in Threads, Running(u)', tx[conn[u]] # 0
               PROVE  [id |-> tx[conn[u]], conn |-> conn[u], ready |-> FALSE] \in Txns'
    BY <1>1 DEF RunningStored
  <2>1. u # t /\ Running(u)
    BY <1>4 DEF Running
  <2>2. [id |-> tx[conn[u]], conn |-> conn[u], ready |-> FALSE] \in Txns
    BY <2>1 DEF Ownership, Pointers, RunningStored
  <2>3. conn[u] # conn[t]
    BY <1>3, <2>1, OwnConnection
  <2> DEFINE y == [id |-> tx[conn[u]], conn |-> conn[u], ready |-> FALSE]
  <2>4. ~y.ready /\ y.conn # conn[t]
    BY <2>3
  <2> HIDE DEF y
  <2>5. y # Mine(t, FALSE) /\ y \notin T
    BY <1>2, <1>6, <2>4
  <2>6. y \in Txns'
    BY <1>2, <2>2, <2>5 DEF y
  <2>7. QED
    BY <2>6 DEF y
<1>15. StoredRuns'
  <2> SUFFICES ASSUME NEW x \in Txns', ~x.ready
               PROVE  \E u \in Threads : conn[u] = x.conn /\ Running(u)'
    BY <1>1 DEF StoredRuns
  <2>1. x \in Txns /\ x.conn # conn[t]
    BY <1>2, <1>3
  <2>2. PICK u \in Threads \ {t} : conn[u] = x.conn /\ Running(u)
    BY <1>3, <2>1, OtherRunners
  <2>3. QED
    BY <1>4, <2>2 DEF Running
<1>16. PointsBack'
  BY <1>1, <1>2 DEF Ownership, Pointers, PointsBack
<1>17. QED
  BY <1>11, <1>12, <1>13, <1>14, <1>15, <1>16 DEF Ownership, Pointers

-----------------------------------------------------------------------------
(***************************************************************************)
(* The batch of a thread                                                   *)
(***************************************************************************)
LEMMA FrontFacts ==
  ASSUME Known, Ownership, NEW t \in Threads, batch[t] # <<>>
  PROVE  /\ Front1(t) \in Taken(t) /\ Front1(t) \in Txn
         /\ Front1(t).conn \in Held(t) /\ Front1(t).conn \in Conns
         /\ Tail(batch[t]) \in Seq(Txn) /\ Ordered(Tail(batch[t]))
         /\ ToSet(Tail(batch[t])) = Taken(t) \ {Front1(t)}
         /\ \A x \in ToSet(Tail(batch[t])) : x.conn # Front1(t).conn
<1>1. batch[t] \in Seq(Txn) /\ Ordered(batch[t])
  BY KnownFacts DEF Ownership, BatchesDistinct
<1>2. /\ Tail(batch[t]) \in Seq(Txn) /\ Ordered(Tail(batch[t]))
      /\ ToSet(Tail(batch[t])) = Taken(t) \ {Front1(t)}
      /\ Front1(t) \in Taken(t) /\ Front1(t) \in Txn
  BY <1>1, TailFacts, TailSet, OrderedTail DEF Taken, Front1
<1>3. Front1(t).conn \in Held(t)
  BY <1>2, HeldSet
<1>4. \A x \in ToSet(Tail(batch[t])) : x.conn # Front1(t).conn
  BY <1>2 DEF Ownership, BatchesDistinct
<1>5. QED
  BY <1>2, <1>3, <1>4 DEF Txn

LEMMA SendKeeps ==
  ASSUME Known, Ownership, NEW t \in Threads, SendCommit(t)
  PROVE  Ownership'
<1>1. /\ pc[t] = "commit" /\ batch[t] # <<>>
      /\ UNCHANGED <<active, ready, store, tx, conn>>
      /\ \/ Front1(t).conn = conn[t] /\ pc' = pc
            /\ batch' = [batch EXCEPT ![t] = Tail(batch[t])]
         \/ Front1(t).conn # conn[t] /\ batch' = batch
            /\ pc' = [pc EXCEPT ![t] = "handback"]
  BY DEF SendCommit, Goto
<1>2. CASE Front1(t).conn # conn[t] /\ batch' = batch
           /\ pc' = [pc EXCEPT ![t] = "handback"]
  <2>1. \A u \in Threads : Moves(u, pc'[u])
    BY <1>1, <1>2, KnownFacts DEF Moves
  <2>2. QED
    BY <1>1, <1>2, <2>1, QuietKeeps
<1>3. CASE Front1(t).conn = conn[t] /\ pc' = pc
           /\ batch' = [batch EXCEPT ![t] = Tail(batch[t])]
  <2>1. /\ batch'[t] = Tail(batch[t])
        /\ \A u \in Threads \ {t} : batch'[u] = batch[u]
    BY <1>3, KnownFacts
  <2>2. /\ Front1(t) \in Taken(t) /\ Ordered(Tail(batch[t]))
        /\ Taken(t)' = Taken(t) \ {Front1(t)}
        /\ \A u \in Threads \ {t} : Taken(u)' = Taken(u)
    BY <1>1, <2>1, FrontFacts DEF Taken
  <2>3. \A u \in Threads : Held(u)' = Held(u)
    <3>1. Held(t)' = Held(t)
      <4>1. conn[t] \in Conns /\ None \notin Conns
        BY <1>1, KnownFacts, PoolAssumption
      <4>2. {x.conn : x \in Taken(t)}
              = {Front1(t).conn} \cup {x.conn : x \in Taken(t) \ {Front1(t)}}
        BY <2>2
      <4>3. Held(t) = ({conn[t]} \ {None}) \cup {x.conn : x \in Taken(t)}
            /\ Held(t)' = ({conn[t]} \ {None}) \cup {x.conn : x \in Taken(t)'}
        BY <1>1, HeldSet
      <4>4. QED
        BY <1>3, <2>2, <4>1, <4>2, <4>3
    <3>2. QED
      BY <1>1, <2>2, <3>1, HeldSet
  <2>4. Txns' = Txns /\ Deferred' = Deferred /\ Lent' = Lent
    BY <1>1, <2>3, DeferredSet DEF Txns, Lent
  <2>5. Owned'
    BY <1>1, <2>4 DEF Ownership, Owned
  <2>6. Phased'
    BY <1>1, <1>3, <2>1 DEF Ownership, Phased, Front1
  <2>7. BatchesDistinct'
    BY <2>1, <2>2 DEF Ownership, BatchesDistinct
  <2>8. Pointers'
    BY <1>1, <1>3, <2>4
       DEF Ownership, Pointers, RunningStored, StoredRuns, PointsBack, Running
  <2>9. QED
    BY <2>5, <2>6, <2>7, <2>8 DEF Ownership
<1>4. QED
  BY <1>1, <1>2, <1>3

\* A connection that is returned is ready once, or gone.
LEMMA ReleaseEffect ==
  ASSUME Known, Ownership, NEW c \in active, NEW l, NEW id,
         ReleaseConnection(c, l, id)
  PROVE  /\ ToSet(ready') \subseteq ToSet(ready) \cup {c}
         /\ IsInjective(ready')
         /\ active' = active \ {c}
         /\ \A d \in Conns \ {c} : tx'[d] = tx[d]
<1>1. ready \in Seq(Conns) /\ c \in Conns /\ tx \in [Conns -> Nat]
  BY KnownFacts
<1>2. c \notin ToSet(ready) /\ IsInjective(ready)
  BY InUseIsActive DEF Ownership, Owned
<1>3. active' = active \ {c} /\ \A d \in Conns \ {c} : tx'[d] = tx[d]
  BY <1>1 DEF ReleaseConnection
<1>4. ready' = ready \/ ready' = <<c>> \o ready
  BY DEF ReleaseConnection
<1>5. ToSet(<<c>> \o ready) = {c} \cup ToSet(ready) /\ IsInjective(<<c>> \o ready)
  BY <1>1, <1>2, ConsSet
<1>6. QED
  BY <1>2, <1>3, <1>4, <1>5

\* Returning a connection that no transaction of the store has leaves the
\* pointers alone.
LEMMA PointersKeep ==
  ASSUME Known, Ownership, NEW t \in Threads, NEW c \in Conns,
         store' = store,
         \A d \in Conns \ {c} : tx'[d] = tx[d],
         \A x \in Txns : x.conn # c,
         \A u \in Threads \ {t} : conn[u] # c,
         \A u \in Threads \ {t} : conn'[u] = conn[u] /\ pc'[u] = pc[u],
         ~Running(t)', \A x \in Txns : ~x.ready => x.conn # conn[t] \/ ~Running(t)
  PROVE  Pointers'
<1>1. Txns' = Txns
  BY DEF Txns
<1>2. RunningStored'
  <2> SUFFICES ASSUME NEW u \in Threads, Running(u)', tx'[conn'[u]] # 0
               PROVE  [id |-> tx'[conn'[u]], conn |-> conn'[u], ready |-> FALSE] \in Txns
    BY <1>1 DEF RunningStored
  <2>1. u # t /\ Running(u) /\ conn'[u] = conn[u] /\ conn[u] # c
    BY DEF Running
  <2>2. conn[u] \in Conns
    BY <2>1, KnownFacts DEF Running
  <2>3. QED
    BY <2>1, <2>2 DEF Ownership, Pointers, RunningStored
<1>3. StoredRuns'
  <2> SUFFICES ASSUME NEW x \in Txns, ~x.ready
               PROVE  \E u \in Threads : conn'[u] = x.conn /\ Running(u)'
    BY <1>1 DEF StoredRuns
  <2>1. PICK u \in Threads : conn[u] = x.conn /\ Running(u)
    BY DEF Ownership, Pointers, StoredRuns
  <2>2. u # t
    BY <2>1
  <2>3. QED
    BY <2>1, <2>2 DEF Running
<1>4. PointsBack'
  <2>1. \A x \in Txns : x.conn \in Conns \ {c}
    BY KnownFacts DEF Txn
  <2>2. QED
    BY <1>1, <2>1 DEF Ownership, Pointers, PointsBack
<1>5. QED
  BY <1>2, <1>3, <1>4 DEF Pointers

\* No transaction of the store has a connection of a thread that commits.
LEMMA CommitterHasNone ==
  ASSUME Known, Ownership, NEW t \in Threads, NEW c \in Held(t),
         ~(Running(t) /\ c = conn[t] /\ tx[c] # 0)
  PROVE  \A x \in Txns : x.conn # c
<1> SUFFICES ASSUME NEW x \in Txns, x.conn = c PROVE FALSE
  OBVIOUS
<1>1. c \notin Deferred
  BY LentValue DEF Ownership, Owned, Partition
<1>2. ~x.ready
  BY <1>1, DeferredSet
<1>3. PICK u \in Threads : conn[u] = c /\ Running(u)
  BY <1>2 DEF Ownership, Pointers, StoredRuns
<1>4. u = t
  BY <1>3, OwnConnection DEF Running
<1>5. tx[c] = x.id /\ x.id # 0
  BY DEF Ownership, Pointers, PointsBack
<1>6. QED
  BY <1>3, <1>4, <1>5

LEMMA HandBackKeeps ==
  ASSUME Known, Ownership, NEW t \in Threads, HandBack(t)
  PROVE  Ownership'
<1> DEFINE c == Front1(t).conn
<1>1. /\ pc[t] = "handback"
      /\ ReleaseConnection(c, link[c], tx[c])
      /\ batch' = [batch EXCEPT ![t] = Tail(batch[t])]
      /\ pc' = [pc EXCEPT ![t] = "commit"]
      /\ UNCHANGED <<store, conn>>
  BY DEF HandBack, Goto
<1>2. batch[t] # <<>> /\ c # conn[t]
  BY <1>1 DEF Known, Typed, AtWork, Ownership, Phased
<1>3. /\ Front1(t) \in Taken(t) /\ c \in Held(t) /\ c \in Conns
      /\ ToSet(Tail(batch[t])) = Taken(t) \ {Front1(t)}
      /\ Ordered(Tail(batch[t]))
      /\ \A x \in ToSet(Tail(batch[t])) : x.conn # c
  BY <1>2, FrontFacts
<1> HIDE DEF c
<1>4. /\ batch'[t] = Tail(batch[t]) /\ pc'[t] = "commit"
      /\ \A u \in Threads \ {t} : batch'[u] = batch[u] /\ pc'[u] = pc[u]
  BY <1>1, KnownFacts
<1>5. /\ Taken(t)' = Taken(t) \ {Front1(t)}
      /\ \A u \in Threads \ {t} : Taken(u)' = Taken(u)
  BY <1>3, <1>4 DEF Taken
<1>6. /\ ToSet(ready') \subseteq ToSet(ready) \cup {c} /\ IsInjective(ready')
      /\ active' = active \ {c} /\ \A d \in Conns \ {c} : tx'[d] = tx[d]
  <2>1. c \in active
    BY <1>3, InUseIsActive
  <2>2. QED
    BY <1>1, <2>1, ReleaseEffect
<1>7. Held(t)' = Held(t) \ {c}
  <2>1. {x.conn : x \in Taken(t) \ {Front1(t)}} = {x.conn : x \in Taken(t)} \ {c}
    BY <1>3 DEF c
  <2>2. Held(t) = ({conn[t]} \ {None}) \cup {x.conn : x \in Taken(t)}
        /\ Held(t)' = ({conn[t]} \ {None}) \cup {x.conn : x \in Taken(t)'}
    BY <1>1, HeldSet
  <2>3. QED
    BY <1>2, <1>5, <2>1, <2>2
<1>8. Owned'
  <2>1. \A u \in Threads \ {t} : Held(u)' = Held(u)
    BY <1>1, <1>5, HeldSet
  <2>2. Lent' = [Lent EXCEPT ![t] = Lent[t] \ {c}]
    BY <1>7, <2>1, LentValue DEF Lent
  <2>3. Deferred' = Deferred
    BY <1>1, DeferredSet DEF Txns
  <2>4. Partition([Lent EXCEPT ![t] = Lent[t] \ {c}], Deferred, ToSet(ready'),
                  active \ {c})
    BY <1>3, <1>6, ReturnKeeps, LentTyped, LentValue DEF Ownership, Owned
  <2>5. QED
    BY <1>6, <2>2, <2>3, <2>4 DEF Owned
<1>9. \A u \in Threads \ {t} : conn[u] # c
  <2>1. ASSUME NEW u \in Threads \ {t}, conn[u] = c PROVE FALSE
    <3>1. pc[u] # "idle"
      BY <1>3, <2>1, PoolAssumption DEF Ownership, Phased
    <3>2. QED
      BY <1>3, <2>1, <3>1, OwnConnection
  <2>2. QED
    BY <2>1
<1>10. \A u \in Threads : pc[u] \in {"connect", "create"} => conn[u] \in Conns \ {c}
  BY <1>1, <1>9, KnownFacts
<1>11. Phased'
  BY <1>1, <1>4, <1>6, <1>10 DEF Ownership, Phased, Front1
<1>12. BatchesDistinct'
  <2>1. \A x, y \in Taken(t)' : x.conn = y.conn => x = y
    BY <1>5 DEF Ownership, BatchesDistinct
  <2>2. ASSUME NEW u \in Threads \ {t}
        PROVE  /\ Ordered(batch'[u])
               /\ \A x, y \in Taken(u)' : x.conn = y.conn => x = y
    BY <1>4, <1>5 DEF Ownership, BatchesDistinct
  <2>3. QED
    BY <1>3, <1>4, <2>1, <2>2 DEF BatchesDistinct
<1>13. Pointers'
  <2>1. ~Running(t) /\ ~Running(t)'
    BY <1>1, <1>4 DEF Running
  <2>2. \A x \in Txns : x.conn # c
    BY <1>3, <2>1, CommitterHasNone
  <2>3. \A u \in Threads \ {t} : conn'[u] = conn[u] /\ pc'[u] = pc[u]
    BY <1>1, <1>4
  <2>4. QED
    BY <1>1, <1>3, <1>6, <1>9, <2>1, <2>2, <2>3, PointersKeep
<1>14. QED
  BY <1>8, <1>11, <1>12, <1>13 DEF Ownership

LEMMA ReleaseKeeps ==
  ASSUME Known, Ownership, NEW t \in Threads, Release(t)
  PROVE  Ownership'
<1> DEFINE c == conn[t]
<1>1. /\ \/ pc[t] = "commit" /\ batch[t] = <<>>
         \/ Finishing(t) /\ tx[c] = 0
      /\ ReleaseConnection(c, link[c], 0)
      /\ conn' = [conn EXCEPT ![t] = None] /\ pc' = [pc EXCEPT ![t] = "idle"]
      /\ UNCHANGED <<store, batch>>
  BY DEF Release, Retire, Goto
<1>2. /\ pc[t] # "idle" /\ batch[t] = <<>>
      /\ ~(Running(t) /\ tx[c] # 0)
  BY <1>1 DEF Finishing, Running, Ownership, Phased
<1>3. /\ c \in Held(t) /\ c \in Conns
      /\ \A u \in Threads \ {t} : conn[u] # c
  BY <1>2, OwnConnection
<1>4. /\ conn'[t] = None /\ pc'[t] = "idle" /\ None \notin Conns
      /\ \A u \in Threads \ {t} : conn'[u] = conn[u] /\ pc'[u] = pc[u]
  BY <1>1, KnownFacts, PoolAssumption
<1>5. \A x \in Txns : x.conn # c
  BY <1>2, <1>3, CommitterHasNone
<1>6. /\ ToSet(ready') \subseteq ToSet(ready) \cup {c} /\ IsInjective(ready')
      /\ active' = active \ {c} /\ \A d \in Conns \ {c} : tx'[d] = tx[d]
  <2>1. c \in active
    BY <1>3, InUseIsActive
  <2>2. QED
    BY <1>1, <2>1, ReleaseEffect
<1>7. Txns' = Txns /\ \A u \in Threads : Taken(u)' = Taken(u)
  BY <1>1 DEF Txns, Taken
<1>8. Held(t)' = Held(t) \ {c}
  <2>1. Taken(t) = {}
    BY <1>2 DEF Taken, ToSet
  <2>2. QED
    BY <1>3, <1>4, <1>7, <2>1, HeldSet
<1>9. Owned'
  <2>1. \A u \in Threads \ {t} : Held(u)' = Held(u)
    BY <1>4, <1>7, HeldSet
  <2>2. Lent' = [Lent EXCEPT ![t] = Lent[t] \ {c}]
    BY <1>8, <2>1, LentValue DEF Lent
  <2>3. Deferred' = Deferred
    BY <1>7, DeferredSet
  <2>4. Partition([Lent EXCEPT ![t] = Lent[t] \ {c}], Deferred, ToSet(ready'),
                  active \ {c})
    BY <1>3, <1>6, ReturnKeeps, LentTyped, LentValue DEF Ownership, Owned
  <2>5. QED
    BY <1>6, <2>2, <2>3, <2>4 DEF Owned
<1>10. Phased'
  <2>1. \A u \in Threads \ {t} : pc[u] # "idle" => conn[u] \in Conns \ {c}
    BY <1>3, KnownFacts
  <2>2. QED
    BY <1>1, <1>2, <1>4, <1>6, <2>1 DEF Ownership, Phased, Front1
<1>11. BatchesDistinct'
  BY <1>1, <1>7 DEF Ownership, BatchesDistinct
<1>12. Pointers'
  <2>1. ~Running(t)'
    BY <1>4 DEF Running
  <2>2. QED
    BY <1>1, <1>3, <1>4, <1>5, <1>6, <2>1, PointersKeep
<1>13. QED
  BY <1>9, <1>10, <1>11, <1>12 DEF Ownership

\* pool::force_commit
LEMMA ForceKeeps ==
  ASSUME Known, Ownership, ForceCommit
  PROVE  Ownership'
<1> DEFINE x == store[force]
           c == x.conn
<1>1. /\ force \in DOMAIN store /\ x.ready
      /\ store' = RemoveAt(store, force)
      /\ UNCHANGED <<pc, conn, batch>>
      /\ \E l : ReleaseConnection(c, l, tx[c])
  BY DEF ForceCommit
<1>2. x \in Txns
  BY <1>1 DEF Txns, ToSet
<1>3. Txns' = Txns \ {x} /\ \A u \in Threads : Taken(u)' = Taken(u)
  BY <1>1, KnownFacts, RemoveAtSet DEF Txns, Taken
<1>4. c \in Deferred /\ c \in active /\ c \in Conns
  BY <1>1, <1>2, DeferredSet, InUseIsActive, KnownFacts
<1>5. \A y \in Txns : y.conn = c => y = x
  <2>1. \A y \in Txns : y.id = x.id => y = x
    BY <1>2, KnownFacts
  <2>2. \A y \in Txns : tx[y.conn] = y.id
    BY DEF Ownership, Pointers, PointsBack
  <2>3. QED
    BY <1>2, <2>1, <2>2
<1>6. /\ ToSet(ready') \subseteq ToSet(ready) \cup {c} /\ IsInjective(ready')
      /\ active' = active \ {c} /\ \A d \in Conns \ {c} : tx'[d] = tx[d]
  BY <1>1, <1>4, ReleaseEffect
<1> HIDE DEF x
<1>7. \A u \in Threads : pc[u] # "idle" => conn[u] \in Conns \ {c}
  BY <1>4, OwnConnection
<1>8. Owned'
  <2>1. \A u \in Threads : Held(u)' = Held(u)
    BY <1>1, <1>3, HeldSet
  <2>2. Lent' = Lent
    BY <2>1 DEF Lent
  <2>3. Deferred' = Deferred \ {c}
    <3>1. {y \in Txns' : y.ready} = {y \in Txns : y.ready} \ {x}
      BY <1>3
    <3>2. {y.conn : y \in {z \in Txns : z.ready} \ {x}}
            = {y.conn : y \in {z \in Txns : z.ready}} \ {c}
      BY <1>5
    <3>3. QED
      BY <3>1, <3>2, DeferredSet
  <2>4. Partition(Lent, Deferred \ {c}, ToSet(ready'), active \ {c})
    BY <1>4, <1>6, WithdrawKeeps, LentTyped DEF Ownership, Owned
  <2>5. QED
    BY <1>6, <2>2, <2>3, <2>4 DEF Owned
<1>9. Phased'
  BY <1>1, <1>6, <1>7 DEF Ownership, Phased, Front1
<1>10. BatchesDistinct'
  BY <1>1, <1>3 DEF Ownership, BatchesDistinct
<1>11. RunningStored'
  <2> SUFFICES ASSUME NEW u \in Threads, Running(u)', tx'[conn[u]] # 0
               PROVE  [id |-> tx'[conn[u]], conn |-> conn[u], ready |-> FALSE] \in Txns'
    BY <1>1 DEF RunningStored
  <2>1. Running(u) /\ conn[u] # c /\ tx'[conn[u]] = tx[conn[u]]
    BY <1>1, <1>6, <1>7 DEF Running
  <2> DEFINE y == [id |-> tx[conn[u]], conn |-> conn[u], ready |-> FALSE]
  <2>2. y \in Txns /\ y.conn # c
    BY <2>1 DEF Ownership, Pointers, RunningStored
  <2>3. y # x
    BY <2>2
  <2> HIDE DEF y
  <2>4. y \in Txns'
    BY <1>3, <2>2, <2>3
  <2>5. QED
    BY <2>1, <2>4 DEF y
<1>12. StoredRuns'
  BY <1>1, <1>3 DEF Ownership, Pointers, StoredRuns, Running
<1>13. PointsBack'
  <2>1. \A y \in Txns' : y \in Txns /\ y.conn \in Conns \ {c}
    BY <1>3, <1>5, KnownFacts DEF Txn
  <2>2. QED
    BY <1>6, <2>1 DEF Ownership, Pointers, PointsBack
<1>14. QED
  BY <1>8, <1>9, <1>10, <1>11, <1>12, <1>13 DEF Ownership, Pointers

LEMMA ClearKeeps ==
  ASSUME Known, Ownership, Clear
  PROVE  Ownership'
<1>1. /\ ready' = <<>> /\ UNCHANGED <<active, store, pc, conn, batch>>
      /\ tx' = [c \in Conns |-> IF c \in ToSet(ready) THEN 0 ELSE tx[c]]
  BY DEF Clear
<1>2. Txns' = Txns /\ \A u \in Threads : Taken(u)' = Taken(u)
  BY <1>1 DEF Txns, Taken
<1>3. \A c \in active : tx'[c] = tx[c]
  BY <1>1, InUseIsActive, KnownFacts
<1>4. \A u \in Threads : pc[u] # "idle" => tx'[conn[u]] = tx[conn[u]]
  BY <1>3, InUseIsActive, OwnConnection
<1>5. \A x \in Txns : tx'[x.conn] = tx[x.conn]
  BY <1>3, InUseIsActive
<1>6. Owned'
  <2>1. ToSet(ready') = {} /\ IsInjective(ready')
    BY <1>1 DEF ToSet, IsInjective
  <2>2. \A u \in Threads : Held(u)' = Held(u)
    BY <1>1, <1>2, HeldSet
  <2>3. Lent' = Lent /\ Deferred' = Deferred
    BY <1>2, <2>2, DeferredSet DEF Lent
  <2>4. QED
    BY <1>1, <2>1, <2>3 DEF Ownership, Owned, Partition
<1>7. Phased'
  BY <1>1, <1>4 DEF Ownership, Phased, Front1
<1>8. BatchesDistinct'
  BY <1>1, <1>2 DEF Ownership, BatchesDistinct
<1>9. Pointers'
  BY <1>1, <1>2, <1>4, <1>5
     DEF Ownership, Pointers, RunningStored, StoredRuns, PointsBack, Running
<1>10. QED
  BY <1>6, <1>7, <1>8, <1>9 DEF Ownership

LEMMA InitOwnership == Init => Ownership
<1> SUFFICES ASSUME Init PROVE Ownership
  OBVIOUS
<1>1. Txns = {} /\ ToSet(ready) = {} /\ IsInjective(ready)
  BY DEF Init, Txns, ToSet, IsInjective
<1>2. \A t \in Threads : Taken(t) = {} /\ Ordered(batch[t])
  BY DEF Init, Taken, ToSet, Ordered
<1>3. \A t \in Threads : Held(t) = {}
  BY <1>2, HeldSet DEF Init
<1>4. Deferred = {}
  BY <1>1, DeferredSet
<1>5. Owned
  BY <1>1, <1>3, <1>4, LentValue DEF Owned, Partition, Init
<1>6. Phased /\ BatchesDistinct
  BY <1>2 DEF Init, Phased, BatchesDistinct
<1>7. Pointers
  BY <1>1 DEF Init, Pointers, RunningStored, StoredRuns, PointsBack, Running
<1>8. QED
  BY <1>5, <1>6, <1>7 DEF Ownership

LEMMA OwnershipInductive == Known /\ Ownership /\ [Next]_vars => Ownership'
  BY QuietSteps, GetKeeps, CreateKeeps, DeferKeeps, BatchKeeps, SendKeeps,
     HandBackKeeps, ReleaseKeeps, ForceKeeps, ClearKeeps
     DEF Next, Proceed, ForceProceed

LEMMA AlwaysKnown == Spec => []Known
  BY AlwaysTyped, StoreIsOrdered, PTL DEF Known

LEMMA AlwaysOwnership == Spec => []Ownership
  BY InitOwnership, OwnershipInductive, AlwaysKnown, PTL DEF Spec

(* A connection object has one user at a time although it has no lock: no  *)
(* two threads touch it, and none touches one that is deferred or ready.   *)
THEOREM OneUserEach == Spec => []ExclusiveUse
<1>1. Ownership => ExclusiveUse
  BY LentValue DEF Ownership, Owned, Partition, ExclusiveUse
<1>2. QED
  BY <1>1, AlwaysOwnership, PTL

(* active_ holds exactly the connections some thread uses or will return,  *)
(* and each ready connection is in ready_ once: none leaks, none is        *)
(* returned twice.                                                         *)
THEOREM NothingLeaks == Spec => []ActiveIsAccountedFor
<1>1. Ownership => ActiveIsAccountedFor
  BY LentValue DEF Ownership, Owned, Partition, ActiveIsAccountedFor
<1>2. QED
  BY <1>1, AlwaysOwnership, PTL

(* The iterators between connections and transactions are valid whenever   *)
(* commit() or force_commit() follows them.                                *)
THEOREM PointersAreValid == Spec => []TransactionPointerValid
<1>1. ASSUME Known, Ownership PROVE TransactionPointerValid
  <2>1. ASSUME NEW t \in Threads, Running(t), tx[conn[t]] # 0
        PROVE  \E i \in DOMAIN store :
                 /\ store[i] = [id |-> tx[conn[t]], conn |-> conn[t], ready |-> FALSE]
                 /\ \A j \in DOMAIN store : store[j].id = store[i].id => j = i
    <3>1. PICK i \in DOMAIN store :
            store[i] = [id |-> tx[conn[t]], conn |-> conn[t], ready |-> FALSE]
      BY <1>1, <2>1 DEF Ownership, Pointers, RunningStored, Txns, ToSet
    <3>2. ASSUME NEW j \in DOMAIN store, store[j].id = store[i].id PROVE j = i
      <4>1. store[i] \in Txns /\ store[j] \in Txns
        BY DEF Txns, ToSet
      <4>2. store[j] = store[i]
        BY <1>1, <3>2, <4>1, KnownFacts
      <4>3. QED
        BY <1>1, <4>2, KnownFacts DEF IsInjective
    <3>3. QED
      BY <3>1, <3>2
  <2>2. ASSUME NEW i \in DOMAIN store
        PROVE  /\ tx[store[i].conn] = store[i].id
               /\ ~store[i].ready =>
                    \E t \in Threads : /\ conn[t] = store[i].conn
                                       /\ Running(t)
                                       /\ tx[conn[t]] = store[i].id
    <3>1. store[i] \in Txns
      BY DEF Txns, ToSet
    <3>2. QED
      BY <1>1, <3>1 DEF Ownership, Pointers, StoredRuns, PointsBack
  <2>3. QED
    BY <2>1, <2>2 DEF TransactionPointerValid, Running
<1>2. QED
  BY <1>1, AlwaysKnown, AlwaysOwnership, PTL

-----------------------------------------------------------------------------
(***************************************************************************)
(* SocketLimits is inductive once connections are accounted for: a         *)
(* connection that moves between the two lists is counted once.            *)
(***************************************************************************)
LEMMA ActiveFinite ==
  ASSUME Known, NEW c \in Conns
  PROVE  /\ IsFiniteSet(active) /\ Cardinality(active) \in Nat
         /\ c \in active => Cardinality(active \ {c}) = Cardinality(active) - 1
         /\ c \notin active => Cardinality(active \cup {c}) = Cardinality(active) + 1
<1>1. IsFiniteSet(active)
  BY KnownFacts, PoolAssumption, FS_Subset
<1>2. QED
  BY <1>1, FS_CardinalityType, FS_AddElement, FS_RemoveElement

LEMMA ReleaseCounts ==
  ASSUME Known, Ownership, SocketLimits, NEW c \in active, NEW l, NEW id,
         ReleaseConnection(c, l, id)
  PROVE  SocketLimits'
<1>1. /\ c \in Conns /\ ready \in Seq(Conns) /\ Len(ready) \in Nat
      /\ PoolSockets \in Nat /\ MaxPoolSockets \in Nat
  BY KnownFacts, PoolAssumption
<1>2. /\ Cardinality(active) \in Nat
      /\ Cardinality(active \ {c}) = Cardinality(active) - 1
  BY <1>1, ActiveFinite
<1>3. active' = active \ {c}
  BY DEF ReleaseConnection
<1>4. CASE ready' = ready
  BY <1>1, <1>2, <1>3, <1>4 DEF SocketLimits
<1>5. CASE Len(ready) < PoolSockets /\ ready' = <<c>> \o ready
  <2>1. Len(ready') = Len(ready) + 1
    BY <1>1, <1>5, ConsSet
  <2>2. QED
    BY <1>1, <1>2, <1>3, <1>5, <2>1 DEF SocketLimits
<1>6. QED
  BY <1>4, <1>5 DEF ReleaseConnection

LEMMA LimitsInductive ==
  Known /\ Ownership /\ SocketLimits /\ [Next]_vars => SocketLimits'
<1> SUFFICES ASSUME Known, Ownership, SocketLimits, [Next]_vars
             PROVE  SocketLimits'
  OBVIOUS
<1>1. /\ ready \in Seq(Conns) /\ Len(ready) \in Nat
      /\ PoolSockets \in Nat \ {0} /\ MaxPoolSockets \in Nat
  BY KnownFacts, PoolAssumption
<1>2. ASSUME NEW t \in Threads, NEW s \in Settings, GetReady(t, s)
      PROVE  SocketLimits'
  <2>1. ready # <<>> /\ ready' = Tail(ready) /\ active' = active \cup {Head(ready)}
    BY <1>2 DEF GetReady, Lease
  <2>2. /\ Head(ready) \in Conns /\ Head(ready) \in ToSet(ready)
        /\ Len(ready') = Len(ready) - 1
    BY <1>1, <2>1, TailFacts, TailSet
  <2>3. Head(ready) \notin active
    BY <2>2, InUseIsActive
  <2>4. Cardinality(active') = Cardinality(active) + 1 /\ Cardinality(active) \in Nat
    BY <2>1, <2>2, <2>3, ActiveFinite
  <2>5. QED
    BY <1>1, <2>2, <2>4 DEF SocketLimits
<1>3. ASSUME NEW t \in Threads, NEW s \in Settings, GetNew(t, s)
      PROVE  SocketLimits'
  <2>1. PICK c \in Conns \ active : active' = active \cup {c}
    BY <1>3 DEF GetNew, Lease
  <2>2. ready = <<>> /\ ready' = ready /\ Cardinality(active) < MaxPoolSockets
    BY <1>3 DEF GetNew
  <2>3. Cardinality(active') = Cardinality(active) + 1 /\ Cardinality(active) \in Nat
    BY <2>1, ActiveFinite
  <2>4. Len(ready) = 0
    BY <2>2
  <2>5. QED
    BY <1>1, <2>2, <2>3, <2>4 DEF SocketLimits
<1>4. ASSUME NEW t \in Threads, HandBack(t) PROVE SocketLimits'
  <2>1. batch[t] # <<>>
    BY <1>4 DEF HandBack, Known, Typed, AtWork
  <2>2. Front1(t).conn \in active
    BY <2>1, FrontFacts, InUseIsActive
  <2>3. QED
    BY <1>4, <2>2, ReleaseCounts DEF HandBack
<1>5. ASSUME NEW t \in Threads, Release(t) PROVE SocketLimits'
  <2>1. conn[t] \in active
    BY <1>5, OwnConnection, InUseIsActive DEF Release, Finishing
  <2>2. QED
    BY <1>5, <2>1, ReleaseCounts DEF Release
<1>6. ASSUME ForceCommit PROVE SocketLimits'
  <2>1. store[force].conn \in active
    BY <1>6, InUseIsActive DEF ForceCommit, Txns, ToSet
  <2>2. QED
    BY <1>6, <2>1, ReleaseCounts DEF ForceCommit
<1>7. ASSUME Clear PROVE SocketLimits'
  <2>1. active' = active /\ Len(ready') = 0 /\ Cardinality(active) \in Nat
    <3>1. IsFiniteSet(active)
      BY KnownFacts, PoolAssumption, FS_Subset
    <3>2. QED
      BY <1>7, <3>1, FS_CardinalityType DEF Clear
  <2>2. QED
    BY <1>1, <2>1 DEF SocketLimits
<1>8. CASE UNCHANGED <<active, ready>>
  BY <1>8 DEF SocketLimits
<1>9. QED
  BY <1>2, <1>3, <1>4, <1>5, <1>6, <1>7, <1>8
     DEF Next, Proceed, ForceProceed, GetExhausted, ConnectOk, ConnectFail,
         CreateTransaction, BeginOk, BeginFail, RowDelivered, RowLost,
         RowSkipped, RowFail, Defer, TakeBatch, SendCommit, ForceStart,
         ForceSkip, ForceEnd, Drop, vars

(* A pool never has more sockets than max_pool_sockets nor keeps more than *)
(* pool_sockets, although get() counts one list and release_connection()   *)
(* the other.                                                              *)
THEOREM LimitsHold == Spec => []SocketLimits
<1>1. Init => SocketLimits
  <2>1. Cardinality({}) = 0 /\ PoolSockets \in Nat /\ MaxPoolSockets \in Nat
    BY FS_EmptySet, PoolAssumption
  <2>2. QED
    BY <2>1 DEF Init, SocketLimits
<1>2. QED
  BY <1>1, LimitsInductive, AlwaysKnown, AlwaysOwnership, PTL DEF Spec

-----------------------------------------------------------------------------
(***************************************************************************)
(* The refinement of PoolUse.  The connections of a batch and the deferred *)
(* ones are counted by the numbers of their transactions.                  *)
(***************************************************************************)
Runners == {t \in Threads : conn[t] # None /\ pc[t] \notin {"commit", "handback"}}
Closers == {t \in Threads : pc[t] \in {"commit", "handback"}}

TakenCounts ==
  [t \in Threads |-> Cardinality({i \in DOMAIN batch[t] : batch[t][i].conn # conn[t]})]

\* The numbers of the transactions of a set that wait to be committed, and of
\* those that have a connection other than c.
Waiters(S) == {x.id : x \in {y \in S : y.ready = TRUE}}
Strangers(S, c) == {x.id : x \in {y \in S : y.conn # c}}

LEMMA WaitSet ==
  /\ Ids(store, TRUE) = Waiters(Txns)
  /\ Ids(store', TRUE) = Waiters(Txns')
  BY DEF Ids, Waiters, Txns, ToSet

LEMMA CountByNumber ==
  ASSUME NEW s \in Seq(Txn), Ordered(s), NEW c
  PROVE  /\ IsFiniteSet(Strangers(ToSet(s), c))
         /\ Cardinality({i \in DOMAIN s : s[i].conn # c})
              = Cardinality(Strangers(ToSet(s), c))
<1> DEFINE I == {i \in DOMAIN s : s[i].conn # c}
           J == Strangers(ToSet(s), c)
           f == [i \in I |-> s[i].id]
<1>1. /\ DOMAIN s = 1..Len(s) /\ Len(s) \in Nat
      /\ \A i \in DOMAIN s : s[i].id \in Nat
  <2>1. \A i \in DOMAIN s : s[i] \in Txn
    BY ElementTyped
  <2>2. QED
    BY <2>1 DEF Txn
<1>2. IsFiniteSet(I)
  <2>1. IsFiniteSet(1..Len(s))
    BY <1>1, FS_Interval
  <2>2. QED
    BY <1>1, <2>1, FS_Subset
<1>3. \A i, j \in I : s[i].id = s[j].id => i = j
  BY <1>1 DEF Ordered
<1>4. \A n \in J : \E i \in I : s[i].id = n
  BY DEF Strangers, ToSet
<1>5. \A i \in I : s[i].id \in J
  BY DEF Strangers, ToSet
<1>6. f \in Bijection(I, J)
  <2> HIDE DEF I, J
  <2>1. f \in [I -> J]
    BY <1>5
  <2>2. IsInjective(f)
    BY <1>3 DEF IsInjective
  <2>3. \A n \in J : \E i \in I : f[i] = n
    BY <1>4
  <2>4. QED
    BY <2>1, <2>2, <2>3 DEF Bijection, Injection, Surjection, IsInjective
<1>7. ExistsBijection(I, J)
  BY <1>6 DEF ExistsBijection
<1>8. IsFiniteSet(J) /\ Cardinality(J) = Cardinality(I)
  <2> HIDE DEF I, J, f
  <2>1. QED
    BY <1>2, <1>7, FS_Bijection
<1>9. QED
  BY <1>8

LEMMA WaitersFinite ==
  ASSUME Known
  PROVE  IsFiniteSet(Waiters(Txns)) /\ Cardinality(Waiters(Txns)) \in Nat
<1>1. store \in Seq(Txn)
  BY KnownFacts
<1>2. DOMAIN store = 1..Len(store) /\ Len(store) \in Nat
  BY <1>1
<1>3. IsFiniteSet(0..seq) /\ seq \in Nat
  BY KnownFacts, FS_Interval
<1>4. Waiters(Txns) \subseteq 0..seq
  <2>1. ASSUME NEW x \in Txns PROVE x.id \in 0..seq
    <3>1. x \in Txn /\ x.id <= seq
      BY KnownFacts
    <3>2. QED
      BY <1>3, <3>1 DEF Txn
  <2>2. QED
    BY <2>1 DEF Waiters
<1>5. QED
  BY <1>3, <1>4, FS_Subset, FS_CardinalityType

\* What the counts of the view are.
LEMMA CountOf ==
  ASSUME Known, Ownership, NEW t \in Threads
  PROVE  /\ TakenCounts[t] = Cardinality(Strangers(Taken(t), conn[t]))
         /\ IsFiniteSet(Strangers(Taken(t), conn[t]))
         /\ TakenCounts[t] \in Nat
<1>1. batch[t] \in Seq(Txn) /\ Ordered(batch[t])
  BY KnownFacts DEF Ownership, BatchesDistinct
<1>2. /\ IsFiniteSet(Strangers(Taken(t), conn[t]))
      /\ Cardinality({i \in DOMAIN batch[t] : batch[t][i].conn # conn[t]})
           = Cardinality(Strangers(Taken(t), conn[t]))
  BY <1>1, CountByNumber DEF Taken
<1>3. QED
  BY <1>2, FS_CardinalityType DEF TakenCounts

LEMMA NextCountOf ==
  ASSUME Known', Ownership', NEW t \in Threads
  PROVE  TakenCounts'[t] = Cardinality(Strangers(Taken(t)', conn'[t]))
<1>1. batch'[t] \in Seq(Txn) /\ Ordered(batch'[t])
  BY DEF Known, Typed, TypeOK, Ownership, BatchesDistinct
<1>2. Cardinality({i \in DOMAIN batch'[t] : batch'[t][i].conn # conn'[t]})
        = Cardinality(Strangers(Taken(t)', conn'[t]))
  BY <1>1, CountByNumber DEF Taken
<1>3. QED
  BY <1>2 DEF TakenCounts

\* The counts of threads with the same batch and connection, or no batch.
LEMMA SameCounts ==
  ASSUME \A u \in Threads : /\ batch'[u] = batch[u]
                            /\ conn'[u] = conn[u] \/ batch[u] = <<>>
  PROVE  TakenCounts' = TakenCounts
<1>1. ASSUME NEW u \in Threads PROVE TakenCounts'[u] = TakenCounts[u]
  <2>1. {i \in DOMAIN batch'[u] : batch'[u][i].conn # conn'[u]}
          = {i \in DOMAIN batch[u] : batch[u][i].conn # conn[u]}
    BY <1>1
  <2>2. QED
    BY <2>1 DEF TakenCounts
<1>2. QED
  BY <1>1 DEF TakenCounts

LEMMA OtherCounts ==
  ASSUME NEW t \in Threads,
         \A u \in Threads \ {t} : batch'[u] = batch[u] /\ conn'[u] = conn[u]
  PROVE  TakenCounts' = [TakenCounts EXCEPT ![t] = TakenCounts'[t]]
  BY DEF TakenCounts

\* Unless the store is empty, its first transaction has a thread at work.
LEMMA HeadHasRunner ==
  ASSUME Known, Ownership, HeadRuns, Txns # {}
  PROVE  \E u \in Threads :
           /\ Running(u) /\ u \in Runners
           /\ 1 \in DOMAIN store /\ store[1].conn = conn[u] /\ tx[conn[u]] # 0
<1>1. 1 \in DOMAIN store /\ ~store[1].ready
  <2>1. store # <<>> /\ store \in Seq(Txn)
    BY KnownFacts DEF Txns, ToSet
  <2>2. QED
    BY <2>1, HasFirst DEF HeadRuns
<1>2. store[1] \in Txns
  BY <1>1 DEF Txns, ToSet
<1>3. PICK u \in Threads : conn[u] = store[1].conn /\ Running(u)
  BY <1>1, <1>2 DEF Ownership, Pointers, StoredRuns
<1>4. u \in Runners
  BY <1>3, KnownFacts, PoolAssumption DEF Running, Runners
<1>5. tx[conn[u]] # 0
  BY <1>2, <1>3 DEF Ownership, Pointers, PointsBack
<1>6. QED
  BY <1>1, <1>3, <1>4, <1>5

\* What is proved of every state, and what PoolUse sees of a step.
Sound == Known /\ Ownership /\ HeadRuns /\ SocketLimits

UseMove == Use!Next \/ UNCHANGED Use!vars

LEMMA UseVars ==
  ASSUME Runners' = Runners, Closers' = Closers, TakenCounts' = TakenCounts,
         Waiters(Txns') = Waiters(Txns), active' = active
  PROVE  UseMove
<1>1. Ids(store', TRUE) = Ids(store, TRUE)
  BY WaitSet
<1>2. UNCHANGED Use!vars
  BY <1>1 DEF Use!vars, Runners, Closers, TakenCounts
<1>3. QED
  BY <1>2 DEF UseMove

LEMMA LeaseBegins ==
  ASSUME Sound, NEW t \in Threads, NEW s \in Settings,
         GetReady(t, s) \/ GetNew(t, s)
  PROVE  UseMove
<1>1. PICK c \in Conns : Lease(t, s, c) /\ c \notin active
  <2>1. CASE GetReady(t, s)
    <3>1. Head(ready) \in Conns /\ Head(ready) \in ToSet(ready)
      BY <2>1, KnownFacts, TailFacts, TailSet DEF GetReady, Sound
    <3>2. QED
      BY <2>1, <3>1, InUseIsActive DEF GetReady, Sound
  <2>2. CASE GetNew(t, s)
    BY <2>2 DEF GetNew
  <2>3. QED
    BY <2>1, <2>2
<1>2. pc[t] = "idle" /\ conn[t] = None /\ batch[t] = <<>> /\ None \notin Conns
  BY PoolAssumption DEF GetReady, GetNew, Sound, Ownership, Phased
<1>3. Cardinality(active) < MaxPoolSockets
  <2>1. CASE GetReady(t, s)
    <3>1. Len(ready) \in Nat \ {0}
      BY <2>1, KnownFacts, TailFacts DEF GetReady, Sound
    <3>2. Cardinality(active) + Len(ready) <= MaxPoolSockets
      BY DEF Sound, SocketLimits
    <3>3. Cardinality(active) \in Nat /\ MaxPoolSockets \in Nat
      BY ActiveFinite, PoolAssumption DEF Sound
    <3>4. QED
      BY <3>1, <3>2, <3>3
  <2>2. CASE GetNew(t, s)
    BY <2>2 DEF GetNew
  <2>3. QED
    BY <2>1, <2>2
<1>4. /\ active' = active \cup {c} /\ store' = store /\ batch' = batch
      /\ conn' = [conn EXCEPT ![t] = c] /\ pc' = [pc EXCEPT ![t] = "connect"]
  BY <1>1 DEF Lease, Goto
<1>5. Cardinality(active') = Cardinality(active) + 1
  BY <1>1, <1>4, ActiveFinite DEF Sound
<1>6. /\ conn'[t] = c /\ pc'[t] = "connect"
      /\ \A u \in Threads \ {t} : conn'[u] = conn[u] /\ pc'[u] = pc[u]
  BY <1>4, KnownFacts DEF Sound
<1>7. Runners' = Runners \cup {t} /\ Closers' = Closers
  BY <1>2, <1>6 DEF Runners, Closers
<1>8. t \notin Runners \cup Closers
  BY <1>2 DEF Runners, Closers
<1>9. TakenCounts' = TakenCounts
  BY <1>2, <1>4, <1>6, SameCounts
<1>10. Use!Begin(t)
  BY <1>3, <1>4, <1>5, <1>7, <1>8, <1>9
     DEF Use!Begin, Runners, Closers, TakenCounts
<1>11. QED
  BY <1>10 DEF UseMove, Use!Next

LEMMA DeferLeavesBehind ==
  ASSUME Sound, NEW t \in Threads, Defer(t)
  PROVE  UseMove
<1>1. /\ Finishing(t) /\ tx[conn[t]] # 0 /\ batch' = batch /\ active' = active
      /\ conn' = [conn EXCEPT ![t] = None] /\ pc' = [pc EXCEPT ![t] = "idle"]
  BY DEF Defer, Retire, Goto
<1>2. PICK i \in DOMAIN store :
        i # 1 /\ store[i].id = tx[conn[t]] /\ store' = Marked(store, i)
  BY DEF Defer
<1>3. /\ Mine(t, FALSE) \in Txns /\ Running(t) /\ batch[t] = <<>>
      /\ \A x \in Txns : x.conn = conn[t] => x = Mine(t, FALSE)
      /\ \A x \in Txns : x.id = tx[conn[t]] => x = Mine(t, FALSE)
  BY <1>1, FinishingFacts DEF Sound
<1>4. store[i] = Mine(t, FALSE) /\ store[i] \in Txns
  BY <1>2, <1>3 DEF Txns, ToSet
<1>5. Txns' = (Txns \ {Mine(t, FALSE)}) \cup {Mine(t, TRUE)}
  <2>1. ToSet(store') = (ToSet(store) \ {store[i]})
          \cup {[id |-> store[i].id, conn |-> store[i].conn, ready |-> TRUE]}
    BY <1>2, KnownFacts, MarkedSet DEF Sound
  <2>2. QED
    BY <1>4, <2>1 DEF Txns, Mine
<1> DEFINE n == tx[conn[t]]
<1>6. /\ Mine(t, FALSE).ready = FALSE /\ Mine(t, TRUE).ready = TRUE
      /\ Mine(t, TRUE).id = n
  BY DEF Mine
<1>7. Waiters(Txns') = Waiters(Txns) \cup {n} /\ n \notin Waiters(Txns)
  <2>1. {y \in Txns' : y.ready = TRUE} = {y \in Txns : y.ready = TRUE} \cup {Mine(t, TRUE)}
    BY <1>5, <1>6
  <2>2. n \notin Waiters(Txns)
    BY <1>3, <1>6 DEF Waiters
  <2>3. QED
    BY <1>6, <2>1, <2>2 DEF Waiters
<1> HIDE DEF n
<1>8. Cardinality(Waiters(Txns')) = Cardinality(Waiters(Txns)) + 1
  BY <1>7, WaitersFinite, FS_AddElement DEF Sound
<1>9. /\ conn'[t] = None /\ pc'[t] = "idle"
      /\ \A u \in Threads \ {t} : conn'[u] = conn[u] /\ pc'[u] = pc[u]
  BY <1>1, KnownFacts DEF Sound
<1>10. Runners' = Runners \ {t} /\ Closers' = Closers /\ t \in Runners
  <2>1. conn[t] # None
    BY <1>3, KnownFacts, PoolAssumption DEF Running, Sound
  <2>2. QED
    BY <1>3, <1>9, <2>1 DEF Runners, Closers, Running
<1>11. Runners # {t}
  <2>1. PICK u \in Runners : 1 \in DOMAIN store /\ store[1].conn = conn[u]
    BY <1>3, HeadHasRunner DEF Sound
  <2>2. store[1] \in Txns /\ IsInjective(store)
    BY <2>1, KnownFacts DEF Txns, ToSet, Sound
  <2>3. store[1] # store[i]
    BY <1>2, <2>1, <2>2 DEF IsInjective
  <2>4. u # t
    BY <1>3, <1>4, <2>1, <2>2, <2>3
  <2>5. QED
    BY <2>1, <2>4
<1>12. TakenCounts' = TakenCounts
  BY <1>1, <1>3, <1>9, SameCounts
<1>13. Use!LeaveBehind(t)
  BY <1>1, <1>8, <1>10, <1>11, <1>12, WaitSet
     DEF Use!LeaveBehind, Runners, Closers, TakenCounts
<1>14. QED
  BY <1>13 DEF UseMove, Use!Next

LEMMA SubsetCount ==
  ASSUME NEW S, IsFiniteSet(S), NEW T, T \subseteq S
  PROVE  /\ Cardinality(S \ T) = Cardinality(S) - Cardinality(T)
         /\ Cardinality(T) \in 0..Cardinality(S)
<1>1. IsFiniteSet(T) /\ Cardinality(T) <= Cardinality(S) /\ S \cap T = T
  BY FS_Subset
<1>2. Cardinality(T) \in Nat /\ Cardinality(S) \in Nat
  BY <1>1, FS_CardinalityType
<1>3. Cardinality(S \ T) = Cardinality(S) - Cardinality(S \cap T)
  BY FS_Difference
<1>4. QED
  BY <1>1, <1>2, <1>3

LEMMA BatchTakes ==
  ASSUME Sound, Sound', NEW t \in Threads, TakeBatch(t)
  PROVE  UseMove
<1>1. /\ Finishing(t) /\ tx[conn[t]] # 0
      /\ pc' = [pc EXCEPT ![t] = "commit"] /\ UNCHANGED <<active, conn>>
  BY DEF TakeBatch, Goto
<1>2. PICK T \in SUBSET (Txns \ {Mine(t, FALSE)}) :
        /\ \A x \in T : x.ready
        /\ Txns' = Txns \ ({Mine(t, FALSE)} \cup T)
        /\ Taken(t)' = {Mine(t, TRUE)} \cup T
        /\ \A u \in Threads \ {t} : batch'[u] = batch[u]
  BY TakeEffect DEF Sound
<1>3. /\ Mine(t, FALSE) \in Txns /\ Running(t)
      /\ \A x \in Txns : x.conn = conn[t] => x = Mine(t, FALSE)
  BY <1>1, FinishingFacts DEF Sound
<1>4. /\ Mine(t, FALSE).ready = FALSE /\ Mine(t, TRUE).conn = conn[t]
  BY DEF Mine
<1>5. /\ \A x \in Txns : x.ready \in BOOLEAN
      /\ \A x, y \in Txns : x.id = y.id => x = y
  <2>1. \A x \in Txns : x \in Txn
    BY KnownFacts DEF Sound
  <2>2. QED
    BY <2>1, KnownFacts DEF Sound, Txn
<1> DEFINE W == Strangers(Taken(t)', conn[t])
<1>6. W = {x.id : x \in T}
  <2>1. {y \in Taken(t)' : y.conn # conn[t]} = T
    BY <1>2, <1>3, <1>4
  <2>2. QED
    BY <2>1 DEF Strangers
<1>7. Waiters(Txns') = Waiters(Txns) \ W /\ W \subseteq Waiters(Txns)
  <2>1. {y \in Txns' : y.ready = TRUE} = {y \in Txns : y.ready = TRUE} \ T
    BY <1>2, <1>4
  <2>2. T \subseteq {y \in Txns : y.ready = TRUE}
    BY <1>2, <1>5
  <2>3. {x.id : x \in {y \in Txns : y.ready = TRUE} \ T}
          = {x.id : x \in {y \in Txns : y.ready = TRUE}} \ {x.id : x \in T}
    <3>1. \A x \in Txns : x.id \in {y.id : y \in T} <=> x \in T
      BY <1>2, <1>5
    <3>2. QED
      BY <3>1
  <2>4. QED
    BY <1>6, <2>1, <2>2, <2>3 DEF Waiters
<1> HIDE DEF W
<1>8. /\ Cardinality(Waiters(Txns')) = Cardinality(Waiters(Txns)) - Cardinality(W)
      /\ Cardinality(W) \in 0..Cardinality(Waiters(Txns))
  BY <1>7, WaitersFinite, SubsetCount DEF Sound
<1>9. pc'[t] = "commit" /\ \A u \in Threads \ {t} : pc'[u] = pc[u]
  BY <1>1, KnownFacts DEF Sound
<1>10. /\ Runners' = Runners \ {t} /\ Closers' = Closers \cup {t}
       /\ t \in Runners
  <2>1. conn[t] # None
    BY <1>3, KnownFacts, PoolAssumption DEF Running, Sound
  <2>2. QED
    BY <1>1, <1>3, <1>9, <2>1 DEF Runners, Closers, Running
<1>11. TakenCounts' = [TakenCounts EXCEPT ![t] = Cardinality(W)]
  <2>1. TakenCounts'[t] = Cardinality(W)
    BY <1>1, NextCountOf DEF Sound, W
  <2>2. TakenCounts' = [TakenCounts EXCEPT ![t] = TakenCounts'[t]]
    BY <1>1, <1>2, OtherCounts
  <2>3. QED
    BY <2>1, <2>2
<1>12. Runners' = {} => Cardinality(W) = Cardinality(Waiters(Txns))
  <2> SUFFICES ASSUME Runners' = {} PROVE Waiters(Txns') = {}
    <3>1. Cardinality({}) = 0
      BY FS_EmptySet
    <3>2. Cardinality(Waiters(Txns)) \in Nat
      BY WaitersFinite DEF Sound
    <3>3. QED
      BY <1>8, <3>1, <3>2
  <2>1. store' = <<>>
    <3> SUFFICES ASSUME store' # <<>> PROVE FALSE
      OBVIOUS
    <3>1. store' \in Seq(Txn)
      BY DEF Sound, Known, Typed, TypeOK
    <3>2. 1 \in DOMAIN store' /\ ~store'[1].ready
      BY <3>1, HasFirst DEF Sound, HeadRuns
    <3>3. store'[1] \in Txns'
      BY <3>2 DEF Txns, ToSet
    <3>4. PICK u \in Threads : conn'[u] = store'[1].conn /\ Running(u)'
      BY <3>2, <3>3 DEF Sound, Ownership, Pointers, StoredRuns
    <3>5. conn'[u] \in Conns
      BY <3>4, PoolAssumption DEF Sound, Known, Typed, TypeOK, AtWork, Running
    <3>6. u \in Runners'
      BY <3>4, <3>5, PoolAssumption DEF Runners, Running
    <3>7. QED
      BY <3>6
  <2>2. QED
    BY <2>1 DEF Txns, ToSet, Waiters
<1>13. Use!Take(t)
  BY <1>1, <1>8, <1>10, <1>11, <1>12, WaitSet
     DEF Use!Take, Runners, Closers, TakenCounts
<1>14. QED
  BY <1>13 DEF UseMove, Use!Next

LEMMA HandBackHandsBack ==
  ASSUME Sound, Sound', NEW t \in Threads, HandBack(t)
  PROVE  UseMove
<1>0. PICK x \in Txn : x = Front1(t)
  BY FrontFacts DEF Sound, HandBack, Known, Typed, AtWork
<1>1. /\ pc[t] = "handback" /\ batch[t] # <<>> /\ x.conn # conn[t]
      /\ active' = active \ {x.conn} /\ UNCHANGED <<store, conn>>
      /\ batch' = [batch EXCEPT ![t] = Tail(batch[t])]
      /\ pc' = [pc EXCEPT ![t] = "commit"]
  BY <1>0 DEF HandBack, Goto, ReleaseConnection, Sound, Known, Typed, AtWork,
              Ownership, Phased
<1>2. /\ x \in Taken(t) /\ x.conn \in Held(t) /\ x.conn \in Conns
      /\ ToSet(Tail(batch[t])) = Taken(t) \ {x}
      /\ \A y, z \in Taken(t) : y.id = z.id => y = z
  <2>1. batch[t] \in Seq(Txn) /\ Ordered(batch[t])
    BY KnownFacts DEF Sound, Ownership, BatchesDistinct
  <2>2. QED
    BY <1>0, <1>1, <2>1, FrontFacts, OrderedInjective DEF Sound, Taken
<1>3. /\ batch'[t] = Tail(batch[t]) /\ pc'[t] = "commit"
      /\ \A u \in Threads \ {t} : batch'[u] = batch[u] /\ pc'[u] = pc[u]
  BY <1>1, KnownFacts DEF Sound
<1>4. /\ Strangers(Taken(t)', conn[t]) = Strangers(Taken(t), conn[t]) \ {x.id}
      /\ x.id \in Strangers(Taken(t), conn[t])
  <2>1. Taken(t)' = Taken(t) \ {x}
    BY <1>2, <1>3 DEF Taken
  <2>2. QED
    BY <1>1, <1>2, <2>1 DEF Strangers
<1>5. /\ TakenCounts'[t] = TakenCounts[t] - 1 /\ TakenCounts[t] > 0
  <2>1. /\ TakenCounts[t] = Cardinality(Strangers(Taken(t), conn[t]))
        /\ IsFiniteSet(Strangers(Taken(t), conn[t])) /\ TakenCounts[t] \in Nat
    BY CountOf DEF Sound
  <2>2. Cardinality(Strangers(Taken(t), conn[t]) \ {x.id})
          = Cardinality(Strangers(Taken(t), conn[t])) - 1
    BY <1>4, <2>1, FS_RemoveElement
  <2>3. TakenCounts'[t] = Cardinality(Strangers(Taken(t)', conn[t]))
    BY <1>1, NextCountOf DEF Sound
  <2>4. Cardinality(Strangers(Taken(t), conn[t])) # 0
    BY <1>4, <2>1, FS_EmptySet
  <2>5. QED
    BY <1>4, <2>1, <2>2, <2>3, <2>4
<1>6. TakenCounts' = [TakenCounts EXCEPT ![t] = TakenCounts[t] - 1]
  BY <1>1, <1>3, <1>5, OtherCounts
<1>7. Cardinality(active') = Cardinality(active) - 1
  BY <1>1, <1>2, InUseIsActive, ActiveFinite DEF Sound
<1>8. Runners' = Runners /\ Closers' = Closers /\ Txns' = Txns
  BY <1>1, <1>3 DEF Runners, Closers, Txns
<1>9. Use!HandBack(t)
  BY <1>5, <1>6, <1>7, <1>8, WaitSet
     DEF Use!HandBack, Runners, Closers, TakenCounts
<1>10. QED
  BY <1>9 DEF UseMove, Use!Next

LEMMA ReleaseEnds ==
  ASSUME Sound, NEW t \in Threads, Release(t)
  PROVE  UseMove
<1>1. /\ \/ pc[t] = "commit" /\ batch[t] = <<>>
         \/ Finishing(t) /\ tx[conn[t]] = 0
      /\ active' = active \ {conn[t]} /\ UNCHANGED <<store, batch>>
      /\ conn' = [conn EXCEPT ![t] = None] /\ pc' = [pc EXCEPT ![t] = "idle"]
  BY DEF Release, ReleaseConnection, Retire, Goto
<1>2. batch[t] = <<>> /\ pc[t] # "idle"
  BY <1>1 DEF Finishing, Sound, Ownership, Phased
<1>3. conn[t] \in active /\ conn[t] \in Conns /\ conn[t] # None
  BY <1>2, OwnConnection, InUseIsActive, PoolAssumption DEF Sound
<1>4. Cardinality(active') = Cardinality(active) - 1
  BY <1>1, <1>3, ActiveFinite DEF Sound
<1>5. /\ conn'[t] = None /\ pc'[t] = "idle"
      /\ \A u \in Threads \ {t} : conn'[u] = conn[u] /\ pc'[u] = pc[u]
  BY <1>1, KnownFacts DEF Sound
<1>6. TakenCounts' = TakenCounts /\ Txns' = Txns
  BY <1>1, <1>2, <1>5, SameCounts DEF Txns
<1>7. CASE pc[t] = "commit"
  <2>1. Runners' = Runners /\ Closers' = Closers \ {t} /\ t \in Closers
    BY <1>5, <1>7 DEF Runners, Closers
  <2>2. TakenCounts[t] = 0
    <3>1. Taken(t) = {}
      BY <1>2 DEF Taken, ToSet
    <3>2. Strangers(Taken(t), conn[t]) = {}
      BY <3>1 DEF Strangers
    <3>3. QED
      BY <3>2, CountOf, FS_EmptySet DEF Sound
  <2>3. Use!End(t)
    BY <1>4, <1>6, <2>1, <2>2, WaitSet DEF Use!End, Runners, Closers, TakenCounts
  <2>4. QED
    BY <2>3 DEF UseMove, Use!Next
<1>8. CASE Finishing(t) /\ tx[conn[t]] = 0
  <2>1. Runners' = Runners \ {t} /\ Closers' = Closers /\ t \in Runners
    BY <1>3, <1>5, <1>8 DEF Runners, Closers, Finishing
  <2>2. Runners' = {} => Cardinality(Waiters(Txns)) = 0
    <3> SUFFICES ASSUME Txns # {} PROVE Runners' # {}
      BY FS_EmptySet DEF Waiters
    <3>1. PICK u \in Runners : tx[conn[u]] # 0
      BY HeadHasRunner DEF Sound
    <3>2. u # t
      BY <1>8, <3>1
    <3>3. QED
      BY <2>1, <3>1, <3>2
  <2>3. Use!EndPlain(t)
    BY <1>4, <1>6, <2>1, <2>2, WaitSet
       DEF Use!EndPlain, Runners, Closers, TakenCounts
  <2>4. QED
    BY <2>3 DEF UseMove, Use!Next
<1>9. QED
  BY <1>1, <1>7, <1>8

LEMMA ForceWithdraws ==
  ASSUME Sound, ForceCommit
  PROVE  UseMove
<1>0. PICK x \in Txns : x = store[force]
  BY DEF ForceCommit, Txns, ToSet
<1>1. /\ force \in DOMAIN store /\ x.ready
      /\ store' = RemoveAt(store, force) /\ active' = active \ {x.conn}
      /\ UNCHANGED <<pc, conn, batch>>
  BY <1>0 DEF ForceCommit, ReleaseConnection
<1>2. Txns' = Txns \ {x}
  BY <1>0, <1>1, KnownFacts, RemoveAtSet DEF Txns, Sound
<1>3. x \in Txn /\ x.ready = TRUE /\ \A y \in Txns : y.id = x.id => y = x
  <2>1. x \in Txn
    BY KnownFacts DEF Sound
  <2>2. QED
    BY <1>1, <2>1, KnownFacts DEF Sound, Txn
<1>4. Waiters(Txns') = Waiters(Txns) \ {x.id} /\ x.id \in Waiters(Txns)
  BY <1>2, <1>3 DEF Waiters
<1>5. /\ Cardinality(Waiters(Txns')) = Cardinality(Waiters(Txns)) - 1
      /\ Cardinality(Waiters(Txns)) > 0
  <2>1. IsFiniteSet(Waiters(Txns)) /\ Cardinality(Waiters(Txns)) \in Nat
    BY WaitersFinite DEF Sound
  <2>2. Cardinality(Waiters(Txns)) # 0
    BY <1>4, <2>1, FS_EmptySet
  <2>3. Cardinality(Waiters(Txns) \ {x.id}) = Cardinality(Waiters(Txns)) - 1
    BY <1>4, <2>1, FS_RemoveElement
  <2>4. QED
    BY <1>4, <2>1, <2>2, <2>3
<1>6. Cardinality(active') = Cardinality(active) - 1
  <2>1. x.conn \in active /\ x.conn \in Conns
    BY <1>3, InUseIsActive DEF Sound, Txn
  <2>2. QED
    BY <1>1, <2>1, ActiveFinite DEF Sound
<1>7. Runners # {}
  BY HeadHasRunner DEF Sound
<1>8. Runners' = Runners /\ Closers' = Closers /\ TakenCounts' = TakenCounts
  BY <1>1, SameCounts DEF Runners, Closers
<1>9. Use!Withdraw
  BY <1>5, <1>6, <1>7, <1>8, WaitSet
     DEF Use!Withdraw, Runners, Closers, TakenCounts
<1>10. QED
  BY <1>9 DEF UseMove, Use!Next

LEMMA SendStutters ==
  ASSUME Sound, Sound', NEW t \in Threads, SendCommit(t)
  PROVE  UseMove
<1>0. PICK x \in Txn : x = Front1(t)
  BY FrontFacts DEF Sound, SendCommit
<1>1. /\ pc[t] = "commit" /\ batch[t] # <<>>
      /\ UNCHANGED <<active, store, conn>>
      /\ \/ x.conn = conn[t] /\ pc' = pc
            /\ batch' = [batch EXCEPT ![t] = Tail(batch[t])]
         \/ batch' = batch /\ pc' = [pc EXCEPT ![t] = "handback"]
  BY <1>0 DEF SendCommit, Goto
<1>2. Runners' = Runners /\ Closers' = Closers /\ Txns' = Txns
  BY <1>1, KnownFacts DEF Runners, Closers, Txns, Sound
<1>3. CASE batch' = batch
  <2>1. TakenCounts' = TakenCounts
    BY <1>1, <1>3, SameCounts
  <2>2. QED
    BY <1>1, <1>2, <2>1, UseVars
<1>4. CASE x.conn = conn[t] /\ batch' = [batch EXCEPT ![t] = Tail(batch[t])]
  <2>1. /\ batch'[t] = Tail(batch[t])
        /\ \A u \in Threads \ {t} : batch'[u] = batch[u]
    BY <1>4, KnownFacts DEF Sound
  <2>2. Taken(t)' = Taken(t) \ {x}
    BY <1>0, <1>1, <2>1, FrontFacts DEF Taken, Sound
  <2>3. Strangers(Taken(t)', conn[t]) = Strangers(Taken(t), conn[t])
    BY <1>4, <2>2 DEF Strangers
  <2>4. TakenCounts'[t] = TakenCounts[t]
    BY <1>1, <2>3, CountOf, NextCountOf DEF Sound
  <2>5. TakenCounts' = TakenCounts
    BY <1>1, <2>1, <2>4, OtherCounts DEF TakenCounts
  <2>6. QED
    BY <1>1, <1>2, <2>5, UseVars
<1>5. QED
  BY <1>1, <1>3, <1>4

LEMMA CreateStutters ==
  ASSUME Sound, NEW t \in Threads, CreateTransaction(t)
  PROVE  UseMove
<1> DEFINE x == NewTxn(seq + 1, conn[t])
<1>1. /\ pc[t] = "create" /\ pc' = [pc EXCEPT ![t] = "begin"]
      /\ store' = Append(store, x) /\ UNCHANGED <<active, conn, batch>>
  BY DEF CreateTransaction, Goto
<1>2. x \in Txn /\ x.ready = FALSE
  BY <1>1, KnownFacts DEF NewTxn, Txn, Sound
<1> HIDE DEF x
<1>3. Txns' = Txns \cup {x}
  BY <1>1, <1>2, KnownFacts, AppendSet DEF Txns, Sound
<1>4. Waiters(Txns') = Waiters(Txns)
  <2>1. {y \in Txns' : y.ready = TRUE} = {y \in Txns : y.ready = TRUE}
    BY <1>2, <1>3
  <2>2. QED
    BY <2>1 DEF Waiters
<1>5. Runners' = Runners /\ Closers' = Closers /\ TakenCounts' = TakenCounts
  BY <1>1, KnownFacts, SameCounts DEF Runners, Closers, Sound
<1>6. QED
  BY <1>1, <1>4, <1>5, UseVars

LEMMA StepImplementsUse == Sound /\ Sound' /\ [Next]_vars => [Use!Next]_(Use!vars)
<1> SUFFICES ASSUME Sound, Sound', [Next]_vars PROVE UseMove
  BY DEF UseMove
<1>0. pc \in [Threads -> Phase]
  BY KnownFacts DEF Sound
<1>1. ASSUME NEW t \in Threads, NEW s \in Settings, GetReady(t, s) \/ GetNew(t, s)
      PROVE  UseMove
  BY <1>1, LeaseBegins
<1>2. ASSUME UNCHANGED <<active, store, conn, batch>>,
             \A u \in Threads : pc'[u] \in {"commit", "handback"}
                                  <=> pc[u] \in {"commit", "handback"}
      PROVE  UseMove
  <2>1. Runners' = Runners /\ Closers' = Closers /\ TakenCounts' = TakenCounts
    BY <1>2, SameCounts DEF Runners, Closers
  <2>2. Waiters(Txns') = Waiters(Txns)
    BY <1>2 DEF Txns
  <2>3. QED
    BY <1>2, <2>1, <2>2, UseVars
<1>3. ASSUME NEW t \in Threads,
             \/ ConnectOk(t) \/ ConnectFail(t) \/ BeginOk(t) \/ BeginFail(t)
             \/ RowFail(t)
      PROVE  UseMove
  <2>1. UNCHANGED <<active, store, conn, batch>>
    BY <1>3 DEF ConnectOk, ConnectFail, BeginOk, BeginFail, RowFail
  <2>2. \A u \in Threads : pc'[u] \in {"commit", "handback"}
                             <=> pc[u] \in {"commit", "handback"}
    BY <1>0, <1>3
       DEF ConnectOk, ConnectFail, BeginOk, BeginFail, RowFail, InitFails, Goto
  <2>3. QED
    BY <1>2, <2>1, <2>2
<1>4. CASE UNCHANGED <<active, store, conn, batch, pc>>
  BY <1>2, <1>4
<1>5. QED
  BY <1>1, <1>3, <1>4, CreateStutters, DeferLeavesBehind, BatchTakes,
     SendStutters, HandBackHandsBack, ReleaseEnds, ForceWithdraws
     DEF Next, Proceed, ForceProceed, GetExhausted, RowDelivered, RowLost,
         RowSkipped, ForceStart, ForceSkip, ForceEnd, Clear, Drop, vars

LEMMA InitUse == Init => Use!Init
<1> SUFFICES ASSUME Init PROVE Use!Init
  OBVIOUS
<1>1. Runners = {} /\ Closers = {}
  BY DEF Init, Runners, Closers
<1>2. TakenCounts = [t \in Threads |-> 0]
  <2>1. \A t \in Threads : {i \in DOMAIN batch[t] : batch[t][i].conn # conn[t]} = {}
    BY DEF Init
  <2>2. QED
    BY <2>1, FS_EmptySet DEF TakenCounts
<1>3. Waiters(Txns) = {}
  BY DEF Init, Waiters, Txns, ToSet
<1>4. Cardinality(Ids(store, TRUE)) = 0 /\ Cardinality(active) = 0
  BY <1>3, WaitSet, FS_EmptySet DEF Init
<1>5. QED
  BY <1>1, <1>2, <1>4 DEF Use!Init, Runners, Closers, TakenCounts

(* Towards its store the pool is what PoolUse says, whatever fails on the  *)
(* way: active_size() counts the statements that use the pool, what they   *)
(* left behind and what is on its way back, and the last statement running *)
(* leaves nothing behind (pool::get, pool::release, pool::get_uncommited,  *)
(* pool::force_commit).                                                    *)
THEOREM PoolImplementsUse == Spec => ImplementsUse
<1>1. Spec => []Sound
  BY AlwaysKnown, AlwaysOwnership, AlwaysHeadRuns, LimitsHold, PTL DEF Sound
<1>2. QED
  BY <1>1, InitUse, StepImplementsUse, PTL DEF Spec, Use!Spec, ImplementsUse
=============================================================================

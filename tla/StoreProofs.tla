----------------------------- MODULE StoreProofs ----------------------------
(***************************************************************************)
(* Proofs about the table of pools, for every number of threads, every set *)
(* of uris and all limits.                                                 *)
(*                                                                         *)
(* A pool may be destroyed because active_size() is zero, so the invariant *)
(* must account for every active connection: it belongs to a statement,    *)
(* waits for one that runs, or has been taken and not yet handed back.     *)
(***************************************************************************)
EXTENDS Store, FiniteSetTheorems, TLAPS

-----------------------------------------------------------------------------
(***************************************************************************)
(* The invariant                                                           *)
(***************************************************************************)

\* The statements that have a connection of pool e, and the deferred
\* connections that have been taken and not handed back, as pairs.
InUse(e) == ThreadsAt(e, InPool)
Running(e) == ThreadsAt(e, {"running"})
Held(e) == {p \in Threads \X (1..MaxPoolSockets) :
              name[p[1]] = e /\ p[2] <= taken[p[1]]}

\* mutex_ is held across steps by these calls only.
Locked == \A t \in Threads : pc[t] \in {"erase", "commit", "status"} <=> lock = t

\* Whoever is about to use a pool, or uses it, names one that is there.
PoolThere ==
  \A t \in Threads :
    /\ pc[t] \in InPool \cup {"select", "selected", "erase", "commit"}
         => name[t] \in Endpoints
    /\ pc[t] \in InPool \cup {"selected", "erase", "commit"}
         => name[t] \in table

\* Between the count of erase and the destruction nobody comes to the pool.
EraseIdle ==
  \A t \in Threads : pc[t] = "erase" =>
    /\ active[name[t]] = 0
    /\ \A u \in Threads : pc[u] = "selected" => name[u] # name[t]

StatusUnderLock ==
  /\ todo \subseteq table
  /\ todo # {} => \E t \in Threads : pc[t] = "status"

TakenByClosing == \A t \in Threads : taken[t] # 0 => pc[t] = "closing"

ActiveIsAccountedFor ==
  \A e \in Endpoints :
    active[e] = Cardinality(InUse(e)) + waiting[e] + Cardinality(Held(e))

\* A deferred transaction has a statement in front of it that runs.
WaitingHasRunner ==
  \A e \in Endpoints : waiting[e] # 0 => Running(e) # {}

Control == Locked /\ PoolThere /\ EraseIdle /\ StatusUnderLock /\ gone = {}
Account == TakenByClosing /\ ActiveIsAccountedFor /\ WaitingHasRunner

StoreInv == TypeOK /\ Control /\ Account

-----------------------------------------------------------------------------
(***************************************************************************)
(* Counting                                                                *)
(***************************************************************************)

(* The sets that are counted are finite.                                   *)
LEMMA CountedSetsAreFinite ==
  ASSUME NEW e
  PROVE  /\ IsFiniteSet(InUse(e)) /\ Cardinality(InUse(e)) \in Nat
         /\ IsFiniteSet(Held(e)) /\ Cardinality(Held(e)) \in Nat
<1>1. IsFiniteSet(Threads) /\ MaxPoolSockets \in Int
  BY StoreAssumption
<1>2. IsFiniteSet(InUse(e))
  BY <1>1, FS_Subset DEF InUse, ThreadsAt
<1>3. IsFiniteSet(Threads \X (1..MaxPoolSockets))
  <2>1. IsFiniteSet(1..MaxPoolSockets)
    BY <1>1, FS_Interval
  <2>2. QED
    BY <1>1, <2>1, FS_Product
<1>4. IsFiniteSet(Held(e))
  BY <1>3, FS_Subset DEF Held
<1>5. QED
  BY <1>2, <1>4, FS_CardinalityType

(* What the accounting says of one pool.                                   *)
LEMMA AccountOfPool ==
  ASSUME TypeOK, Account, NEW e \in Endpoints
  PROVE  /\ waiting[e] <= active[e]
         /\ Cardinality(InUse(e)) + waiting[e] <= active[e]
         /\ InUse(e) # {} => active[e] > 0
         /\ Held(e) # {} => active[e] > 0
<1>1. active[e] \in Nat /\ waiting[e] \in Nat
  BY StoreAssumption DEF TypeOK
<1>2. active[e] = Cardinality(InUse(e)) + waiting[e] + Cardinality(Held(e))
  BY DEF Account, ActiveIsAccountedFor
<1>3. /\ InUse(e) # {} => Cardinality(InUse(e)) # 0
      /\ Held(e) # {} => Cardinality(Held(e)) # 0
  BY CountedSetsAreFinite, FS_EmptySet
<1>4. QED
  BY <1>1, <1>2, <1>3, CountedSetsAreFinite

LEMMA Counters ==
  ASSUME TypeOK
  PROVE  /\ MaxPoolSockets \in Nat \ {0}
         /\ \A e \in Endpoints : active[e] \in 0..MaxPoolSockets
         /\ \A e \in Endpoints : waiting[e] \in 0..MaxPoolSockets
         /\ \A t \in Threads : taken[t] \in 0..MaxPoolSockets
BY StoreAssumption DEF TypeOK

(* A thread that is neither before nor after the step inside a pool leaves *)
(* the accounts alone.                                                     *)
LEMMA OutsideStep ==
  ASSUME TypeOK, Account, gone = {}, NEW t \in Threads, NEW f, NEW n,
         pc[t] \notin InPool, f \notin InPool,
         pc' = [pc EXCEPT ![t] = f], name' = [name EXCEPT ![t] = n],
         UNCHANGED <<active, waiting, taken, gone>>
  PROVE  Account'
<1>1. \A e \in Endpoints : InUse(e)' = InUse(e) /\ Running(e)' = Running(e)
  BY DEF TypeOK, InUse, Running, ThreadsAt, InPool
<1>2. taken[t] = 0
  BY DEF Account, TakenByClosing, InPool
<1>3. \A e \in Endpoints : Held(e)' = Held(e)
  <2>1. ASSUME NEW e \in Endpoints, NEW p \in Threads \X (1..MaxPoolSockets)
        PROVE  (name'[p[1]] = e /\ p[2] <= taken'[p[1]])
                 <=> (name[p[1]] = e /\ p[2] <= taken[p[1]])
    <3>1. CASE p[1] = t
      BY <1>2, <3>1, StoreAssumption
    <3>2. CASE p[1] # t
      BY <3>2 DEF TypeOK
    <3>3. QED
      BY <3>1, <3>2
  <2>2. QED
    BY <2>1 DEF Held
<1>4. TakenByClosing'
  BY DEF TypeOK, Account, TakenByClosing, InPool
<1>5. ActiveIsAccountedFor' /\ WaitingHasRunner'
  BY <1>1, <1>3 DEF Account, ActiveIsAccountedFor, WaitingHasRunner
<1>6. QED
  BY <1>4, <1>5 DEF Account

(* The same holds when no thread moves.                                    *)
LEMMA QuietStep ==
  ASSUME Account,
         UNCHANGED <<active, waiting, taken, gone, pc, name>>
  PROVE  Account'
BY DEF Account, TakenByClosing, ActiveIsAccountedFor, WaitingHasRunner, InUse,
       Running, Held, ThreadsAt

\* Thread t, in its pool before the step or with nothing taken, comes to phase
\* f, refers to n and has k connections taken.
PoolStep(t, f, n, k) ==
  /\ gone = {} /\ gone' = {}
  /\ k \in 0..MaxPoolSockets
  /\ pc' = [pc EXCEPT ![t] = f]
  /\ name' = [name EXCEPT ![t] = n]
  /\ taken' = [taken EXCEPT ![t] = k]
  /\ IF f \in InPool THEN n = name[t] ELSE k = 0
  /\ pc[t] \in InPool \/ taken[t] = 0
  /\ k # 0 => f = "closing"

(* What a step of thread t, in its pool before the step, does to the sets: *)
(* nothing to those of other pools, and to those of its own what it does   *)
(* to t.                                                                   *)
LEMMA PoolStepSets ==
  ASSUME TypeOK, NEW t \in Threads, NEW f, NEW n, NEW k, PoolStep(t, f, n, k)
  PROVE  /\ \A d \in Endpoints : d # name[t] =>
              InUse(d)' = InUse(d) /\ Running(d)' = Running(d)
                /\ Held(d)' = Held(d)
         /\ \A e \in Endpoints : e = name[t] =>
              /\ InUse(e)' = IF f \in InPool THEN InUse(e) \cup {t}
                                            ELSE InUse(e) \ {t}
              /\ Running(e)' = IF f = "running" THEN Running(e) \cup {t}
                                               ELSE Running(e) \ {t}
              /\ Held(e)' = {p \in Held(e) : p[1] # t} \cup ({t} \X (1..k))
<1> USE DEF PoolStep
<1>1. \A d \in Endpoints : d # name[t] =>
        InUse(d)' = InUse(d) /\ Running(d)' = Running(d)
  BY DEF TypeOK, InUse, Running, ThreadsAt, InPool
<1>2. ASSUME NEW e \in Endpoints, e = name[t]
      PROVE  /\ InUse(e)' = IF f \in InPool THEN InUse(e) \cup {t}
                                           ELSE InUse(e) \ {t}
             /\ Running(e)' = IF f = "running" THEN Running(e) \cup {t}
                                              ELSE Running(e) \ {t}
  BY <1>2 DEF TypeOK, InUse, Running, ThreadsAt, InPool
<1>3. \A u \in Threads : u # t => name'[u] = name[u] /\ taken'[u] = taken[u]
  BY DEF TypeOK
<1>4. name'[t] = n /\ taken'[t] = k
  BY DEF TypeOK
<1>5. MaxPoolSockets \in Nat /\ k \in Nat /\ k <= MaxPoolSockets
  BY StoreAssumption
<1>6. ASSUME NEW d \in Endpoints, d # name[t]
      PROVE  Held(d)' = Held(d)
  <2>1. ASSUME NEW p \in Threads \X (1..MaxPoolSockets)
        PROVE  (name'[p[1]] = d /\ p[2] <= taken'[p[1]])
                 <=> (name[p[1]] = d /\ p[2] <= taken[p[1]])
    <3>1. CASE p[1] = t
      BY <1>4, <1>6, <3>1, StoreAssumption
    <3>2. CASE p[1] # t
      BY <1>3, <3>2
    <3>3. QED
      BY <3>1, <3>2
  <2>2. QED
    BY <2>1 DEF Held
<1>7. ASSUME NEW e \in Endpoints, e = name[t]
      PROVE  Held(e)' = {p \in Held(e) : p[1] # t} \cup ({t} \X (1..k))
  <2>1. ASSUME NEW p \in Threads \X (1..MaxPoolSockets)
        PROVE  (name'[p[1]] = e /\ p[2] <= taken'[p[1]])
                 <=> \/ name[p[1]] = e /\ p[2] <= taken[p[1]] /\ p[1] # t
                     \/ p[1] = t /\ p[2] \in 1..k
    <3>1. CASE p[1] = t
      BY <1>4, <1>5, <1>7, <3>1
    <3>2. CASE p[1] # t
      BY <1>3, <3>2
    <3>3. QED
      BY <3>1, <3>2
  <2>2. {t} \X (1..k) =
          {p \in Threads \X (1..MaxPoolSockets) : p[1] = t /\ p[2] \in 1..k}
    BY <1>5
  <2>3. Held(e)' = {p \in Threads \X (1..MaxPoolSockets) :
                      \/ name[p[1]] = e /\ p[2] <= taken[p[1]] /\ p[1] # t
                      \/ p[1] = t /\ p[2] \in 1..k}
    BY <2>1 DEF Held
  <2>4. QED
    BY <2>2, <2>3 DEF Held
<1>8. QED
  BY <1>1, <1>2, <1>6, <1>7

\* After the step pool e has a active and w waiting connections.
Counts(e, a, w) ==
  /\ active' = [active EXCEPT ![e] = a]
  /\ waiting' = [waiting EXCEPT ![e] = w]
  /\ a = Cardinality(InUse(e)') + w + Cardinality(Held(e)')
  /\ w # 0 => Running(e)' # {}

(* Only the accounts of its own pool have to be looked at after such a     *)
(* step.                                                                   *)
LEMMA OwnPoolSuffices ==
  ASSUME TypeOK, Account, NEW t \in Threads, NEW f, NEW n, NEW k,
         PoolStep(t, f, n, k), NEW e \in Endpoints, e = name[t],
         NEW a, NEW w, Counts(e, a, w)
  PROVE  Account'
<1>1. \A d \in Endpoints : d # e =>
        /\ InUse(d)' = InUse(d) /\ Running(d)' = Running(d)
        /\ Held(d)' = Held(d)
  BY PoolStepSets
<1>2. active'[e] = a /\ waiting'[e] = w
  BY DEF TypeOK, Counts
<1>3. \A d \in Endpoints : d # e =>
        active'[d] = active[d] /\ waiting'[d] = waiting[d]
  BY DEF TypeOK, Counts
<1>4. TakenByClosing'
  BY DEF TypeOK, Account, TakenByClosing, PoolStep
<1>5. ActiveIsAccountedFor'
  <2>1. ASSUME NEW d \in Endpoints
        PROVE  active'[d] = Cardinality(InUse(d)') + waiting'[d]
                              + Cardinality(Held(d)')
    <3>1. CASE d = e
      BY <1>2, <3>1 DEF Counts
    <3>2. CASE d # e
      BY <1>1, <1>3, <3>2 DEF Account, ActiveIsAccountedFor
    <3>3. QED
      BY <3>1, <3>2
  <2>2. QED
    BY <2>1 DEF ActiveIsAccountedFor
<1>6. WaitingHasRunner'
  BY <1>1, <1>2, <1>3 DEF Account, WaitingHasRunner, Counts
<1>7. QED
  BY <1>4, <1>5, <1>6 DEF Account

(* A thread that has nothing taken holds nothing, so that the pairs change *)
(* only where a step takes or hands back.                                  *)
LEMMA NothingHeld ==
  ASSUME NEW t \in Threads, taken[t] = 0, NEW e
  PROVE  {p \in Held(e) : p[1] # t} = Held(e) /\ {t} \X (1..0) = {}
<1>1. \A p \in Held(e) : p[1] # t
  BY StoreAssumption DEF Held
<1>2. QED
  BY <1>1

-----------------------------------------------------------------------------
(***************************************************************************)
(* The accounts, action by action                                          *)
(***************************************************************************)

LEMMA LeaseAccount ==
  ASSUME TypeOK, Control, Account, NEW t \in Threads, Lease(t)
  PROVE  TypeOK' /\ Account'
<1>0. PICK e \in Endpoints : e = name[t]
  BY DEF Lease, Control, PoolThere, InPool
<1>1. gone = {} /\ gone' = {} /\ pc[t] = "selected"
  BY DEF Lease, Control, PoolThere
<1>2. taken[t] = 0
  BY <1>0, <1>1 DEF Account, TakenByClosing
<1>3. PoolStep(t, "running", e, 0)
  <2>1. 0 \in 0..MaxPoolSockets
    BY StoreAssumption
  <2>2. QED
    BY <1>0, <1>1, <1>2, <2>1 DEF PoolStep, Lease, Goto, TypeOK, InPool
<1>4. /\ InUse(e)' = InUse(e) \cup {t} /\ Running(e)' = Running(e) \cup {t}
      /\ Held(e)' = Held(e)
  BY <1>0, <1>1, <1>2, <1>3, PoolStepSets, NothingHeld DEF InPool
<1>5. Cardinality(InUse(e)') = Cardinality(InUse(e)) + 1
  <2>1. t \notin InUse(e)
    BY <1>0, <1>1 DEF InUse, ThreadsAt, InPool
  <2>2. QED
    BY <1>0, <1>4, <2>1, CountedSetsAreFinite, FS_AddElement
<1>6. active[e] \in Nat /\ waiting[e] \in Nat
  BY <1>0, <1>1, Counters
<1>7. Counts(e, active[e] + 1, waiting[e])
  <2>1. active[e] = Cardinality(InUse(e)) + waiting[e] + Cardinality(Held(e))
    BY <1>0, <1>1 DEF Account, ActiveIsAccountedFor
  <2>2. active[e] + 1 =
          Cardinality(InUse(e)') + waiting[e] + Cardinality(Held(e)')
    BY <1>4, <1>5, <1>6, <2>1, CountedSetsAreFinite
  <2>3. QED
    BY <1>0, <1>4, <2>2 DEF Counts, Lease, TypeOK
<1>8. Account'
  BY <1>0, <1>1, <1>3, <1>7, OwnPoolSuffices
<1>9. TypeOK'
  BY <1>0, <1>1, <1>6, StoreAssumption DEF TypeOK, Lease, Goto, Phase, InPool
<1>10. QED
  BY <1>8, <1>9

LEMMA DeferAccount ==
  ASSUME TypeOK, Control, Account, NEW t \in Threads, Defer(t)
  PROVE  TypeOK' /\ Account'
<1>0. PICK e \in Endpoints : e = name[t]
  BY DEF Defer, Control, PoolThere, InPool
<1>1. gone = {} /\ gone' = {} /\ pc[t] = "running"
  BY DEF Defer, Control, PoolThere, InPool
<1>2. taken[t] = 0 /\ t \in InUse(e)
  BY <1>0, <1>1 DEF Account, TakenByClosing, InUse, ThreadsAt, InPool
<1>3. PoolStep(t, "idle", None, 0)
  <2>1. 0 \in 0..MaxPoolSockets
    BY StoreAssumption
  <2>2. QED
    BY <1>0, <1>1, <1>2, <2>1 DEF PoolStep, Defer, Retire, Goto, TypeOK, InPool
<1>4. /\ InUse(e)' = InUse(e) \ {t} /\ Running(e)' = Running(e) \ {t}
      /\ Held(e)' = Held(e)
  <2>1. "idle" \notin InPool
    BY DEF InPool
  <2>2. /\ InUse(e)' = InUse(e) \ {t} /\ Running(e)' = Running(e) \ {t}
        /\ Held(e)' = {p \in Held(e) : p[1] # t} \cup ({t} \X (1..0))
    BY <1>0, <1>3, <2>1, PoolStepSets
  <2>3. QED
    BY <1>2, <2>2, NothingHeld
<1>5. Cardinality(InUse(e)') = Cardinality(InUse(e)) - 1
  BY <1>2, <1>4, CountedSetsAreFinite, FS_RemoveElement
<1>6. active[e] \in 0..MaxPoolSockets /\ waiting[e] \in 0..MaxPoolSockets
  BY <1>0, <1>1, Counters
<1>7. active[e] =
        Cardinality(InUse(e)') + (waiting[e] + 1) + Cardinality(Held(e)')
  <2>1. active[e] = Cardinality(InUse(e)) + waiting[e] + Cardinality(Held(e))
    BY <1>0, <1>1 DEF Account, ActiveIsAccountedFor
  <2>2. QED
    BY <1>4, <1>5, <1>6, <2>1, CountedSetsAreFinite
<1>8. Counts(e, active[e], waiting[e] + 1)
  <2>1. Running(e)' # {}
    BY <1>0, <1>1, <1>4 DEF Defer, Running, ThreadsAt
  <2>2. QED
    BY <1>0, <1>7, <2>1 DEF Counts, Defer, TypeOK
<1>9. Account'
  BY <1>0, <1>1, <1>3, <1>8, OwnPoolSuffices
<1>10. waiting[e] + 1 \in 0..MaxPoolSockets
  <2>1. Cardinality(InUse(e)') \in Nat /\ Cardinality(Held(e)') \in Nat
    BY <1>2, <1>4, <1>5, CountedSetsAreFinite, FS_RemoveElement,
       FS_CardinalityType
  <2>2. QED
    BY <1>0, <1>6, <1>7, <2>1, StoreAssumption
<1>11. TypeOK'
  BY <1>0, <1>10, StoreAssumption DEF TypeOK, Defer, Retire, Goto, Phase
<1>12. QED
  BY <1>9, <1>11

(* n pairs of a thread that has nothing taken are new.                     *)
LEMMA HeldGrows ==
  ASSUME TypeOK, NEW t \in Threads, taken[t] = 0, NEW e,
         NEW n \in 0..MaxPoolSockets
  PROVE  Cardinality(Held(e) \cup ({t} \X (1..n))) = Cardinality(Held(e)) + n
<1>1. n \in Nat
  BY StoreAssumption
<1>2. IsFiniteSet({t}) /\ Cardinality({t}) = 1
  BY FS_Singleton
<1>3. IsFiniteSet(1..n) /\ Cardinality(1..n) = n
  BY <1>1, FS_Interval
<1>4. IsFiniteSet({t} \X (1..n)) /\ Cardinality({t} \X (1..n)) = 1 * n
  <2>1. /\ IsFiniteSet({t} \X (1..n))
        /\ Cardinality({t} \X (1..n)) = Cardinality({t}) * Cardinality(1..n)
    BY <1>2, <1>3, FS_Product
  <2>2. QED
    BY <1>2, <1>3, <2>1
<1>5. Held(e) \cap ({t} \X (1..n)) = {}
  BY <1>1, StoreAssumption DEF Held
<1>6. Cardinality(Held(e) \cap ({t} \X (1..n))) = 0
  BY <1>5, FS_EmptySet
<1>7. Cardinality(Held(e) \cup ({t} \X (1..n))) =
        Cardinality(Held(e)) + Cardinality({t} \X (1..n)) - 0
  <2> DEFINE H == Held(e)  N == {t} \X (1..n)
  <2>1. IsFiniteSet(H) /\ IsFiniteSet(N) /\ Cardinality(H \cap N) = 0
    BY <1>4, <1>6, CountedSetsAreFinite
  <2> HIDE DEF H, N
  <2>2. Cardinality(H \cup N) = Cardinality(H) + Cardinality(N) - 0
    BY <2>1, FS_Union
  <2>3. QED
    BY <2>2 DEF H, N
<1>8. QED
  BY <1>1, <1>4, <1>7, CountedSetsAreFinite

(* One pair less is one connection less.                                   *)
LEMMA HeldShrinks ==
  ASSUME TypeOK, NEW t \in Threads, NEW e, e = name[t], taken[t] > 0
  PROVE  /\ Held(e) # {}
         /\ Cardinality({p \in Held(e) : p[1] # t} \cup ({t} \X (1..taken[t] - 1)))
              = Cardinality(Held(e)) - 1
<1> DEFINE k == taken[t]
<1>1. k \in Nat /\ k > 0 /\ k <= MaxPoolSockets
  BY Counters
<1>2. <<t, k>> \in Held(e)
  BY <1>1, StoreAssumption DEF Held
<1>3. {p \in Held(e) : p[1] # t} \cup ({t} \X (1..k - 1)) = Held(e) \ {<<t, k>>}
  <2>1. ASSUME NEW p \in Threads \X (1..MaxPoolSockets)
        PROVE  (p \in Held(e) /\ p[1] # t) \/ p \in {t} \X (1..k - 1)
                 <=> p \in Held(e) /\ p # <<t, k>>
    <3>1. CASE p[1] = t
      <4>1. p \in Held(e) <=> p[2] <= k
        BY <3>1 DEF Held
      <4>2. p \in {t} \X (1..k - 1) <=> p[2] <= k - 1
        BY <1>1, <3>1, StoreAssumption
      <4>3. p # <<t, k>> <=> p[2] # k
        BY <3>1
      <4>4. p[2] \in Int
        BY StoreAssumption
      <4>5. QED
        BY <1>1, <3>1, <4>1, <4>2, <4>3, <4>4
    <3>2. CASE p[1] # t
      BY <3>2
    <3>3. QED
      BY <3>1, <3>2
  <2>2. {t} \X (1..k - 1) \subseteq Threads \X (1..MaxPoolSockets)
    BY <1>1, StoreAssumption
  <2>3. Held(e) \subseteq Threads \X (1..MaxPoolSockets)
    BY DEF Held
  <2>4. QED
    BY <2>1, <2>2, <2>3
<1>4. Cardinality(Held(e) \ {<<t, k>>}) = Cardinality(Held(e)) - 1
  BY <1>2, CountedSetsAreFinite, FS_RemoveElement
<1>5. QED
  BY <1>2, <1>3, <1>4

LEMMA TakeAccount ==
  ASSUME TypeOK, Control, Account, NEW t \in Threads, Take(t)
  PROVE  TypeOK' /\ Account'
<1>0. PICK e \in Endpoints : e = name[t]
  BY DEF Take, Control, PoolThere, InPool
<1>1. gone = {} /\ gone' = {} /\ pc[t] = "running"
  BY DEF Take, Control
<1>2. taken[t] = 0 /\ t \in InUse(e)
  BY <1>0, <1>1 DEF Account, TakenByClosing, InUse, ThreadsAt, InPool
<1>3. PICK n \in 0..waiting[e] :
        /\ ThreadsAt(e, {"running"}) = {t} => n = waiting[e]
        /\ waiting' = [waiting EXCEPT ![e] = waiting[e] - n]
        /\ taken' = [taken EXCEPT ![t] = n]
  BY <1>0 DEF Take, TypeOK
<1>4. /\ active[e] \in 0..MaxPoolSockets /\ waiting[e] \in 0..MaxPoolSockets
      /\ n \in 0..MaxPoolSockets /\ waiting[e] - n \in 0..MaxPoolSockets
  BY Counters
<1>5. PoolStep(t, "closing", e, n)
  <2>1. pc' = [pc EXCEPT ![t] = "closing"] /\ name' = [name EXCEPT ![t] = e]
    BY <1>0 DEF Take, Goto, TypeOK
  <2>2. pc[t] \in InPool /\ "closing" \in InPool
    BY <1>1 DEF InPool
  <2>3. QED
    BY <1>0, <1>1, <1>3, <1>4, <2>1, <2>2 DEF PoolStep
<1>6. /\ InUse(e)' = InUse(e) /\ Running(e)' = Running(e) \ {t}
      /\ Held(e)' = Held(e) \cup ({t} \X (1..n))
  <2>1. "closing" \in InPool
    BY DEF InPool
  <2>2. /\ InUse(e)' = InUse(e) \cup {t} /\ Running(e)' = Running(e) \ {t}
        /\ Held(e)' = {p \in Held(e) : p[1] # t} \cup ({t} \X (1..n))
    BY <1>0, <1>5, <2>1, PoolStepSets
  <2>3. QED
    BY <1>2, <2>2, NothingHeld
<1>7. Counts(e, active[e], waiting[e] - n)
  <2>1. active[e] = Cardinality(InUse(e)) + waiting[e] + Cardinality(Held(e))
    BY <1>0 DEF Account, ActiveIsAccountedFor
  <2>2. Cardinality(Held(e)') = Cardinality(Held(e)) + n
    BY <1>2, <1>4, <1>6, HeldGrows
  <2>3. active[e] = Cardinality(InUse(e)') + (waiting[e] - n)
                      + Cardinality(Held(e)')
    BY <1>4, <1>6, <2>1, <2>2, CountedSetsAreFinite
  <2>4. waiting[e] - n # 0 => Running(e)' # {}
    <3>1. SUFFICES ASSUME waiting[e] - n # 0, Running(e) \ {t} = {} PROVE FALSE
      BY <1>6
    <3>2. Running(e) = {t}
      BY <1>0, <1>1, <3>1 DEF Running, ThreadsAt
    <3>3. n = waiting[e]
      BY <1>3, <3>2 DEF Running
    <3>4. QED
      BY <1>4, <3>1, <3>3
  <2>5. QED
    BY <1>0, <1>3, <2>3, <2>4 DEF Counts, Take, TypeOK
<1>8. Account'
  BY <1>0, <1>5, <1>7, OwnPoolSuffices
<1>9. TypeOK'
  BY <1>1, <1>3, <1>4 DEF TypeOK, Take, Goto, Phase, InPool
<1>10. QED
  BY <1>8, <1>9

LEMMA HandBackAccount ==
  ASSUME TypeOK, Control, Account, NEW t \in Threads, HandBack(t)
  PROVE  TypeOK' /\ Account'
<1>0. PICK e \in Endpoints : e = name[t]
  BY DEF HandBack, Control, PoolThere, InPool
<1>1. gone = {} /\ gone' = {} /\ pc[t] = "closing"
  BY DEF HandBack, Control
<1>2. /\ taken[t] \in 0..MaxPoolSockets /\ taken[t] > 0
      /\ taken[t] - 1 \in 0..MaxPoolSockets
  BY Counters DEF HandBack
<1>3. PoolStep(t, "closing", e, taken[t] - 1)
  <2>1. /\ pc' = [pc EXCEPT ![t] = "closing"]
        /\ name' = [name EXCEPT ![t] = e]
        /\ taken' = [taken EXCEPT ![t] = taken[t] - 1]
    BY <1>0, <1>1 DEF HandBack, TypeOK
  <2>2. pc[t] \in InPool /\ "closing" \in InPool
    BY <1>1 DEF InPool
  <2>3. QED
    BY <1>0, <1>1, <1>2, <2>1, <2>2 DEF PoolStep
<1>4. /\ InUse(e)' = InUse(e) /\ Running(e)' = Running(e)
      /\ Held(e)' = {p \in Held(e) : p[1] # t} \cup ({t} \X (1..taken[t] - 1))
  <2>1. InUse(e)' = InUse(e) /\ Running(e)' = Running(e)
    BY <1>1 DEF HandBack, InUse, Running, ThreadsAt
  <2>2. QED
    BY <1>0, <1>3, <2>1, PoolStepSets
<1>5. /\ active[e] \in 0..MaxPoolSockets /\ waiting[e] \in Nat
      /\ active[e] > 0
  <2>1. active[e] \in 0..MaxPoolSockets /\ waiting[e] \in Nat
    BY Counters
  <2>2. Held(e) # {}
    BY <1>0, <1>2, HeldShrinks
  <2>3. QED
    BY <2>1, <2>2, AccountOfPool
<1>6. Counts(e, active[e] - 1, waiting[e])
  <2>1. active[e] = Cardinality(InUse(e)) + waiting[e] + Cardinality(Held(e))
    BY <1>0 DEF Account, ActiveIsAccountedFor
  <2>2. Cardinality(Held(e)') = Cardinality(Held(e)) - 1
    BY <1>0, <1>2, <1>4, HeldShrinks
  <2>3. active[e] - 1 = Cardinality(InUse(e)') + waiting[e]
                          + Cardinality(Held(e)')
    BY <1>4, <1>5, <2>1, <2>2, CountedSetsAreFinite
  <2>4. waiting[e] # 0 => Running(e)' # {}
    BY <1>0, <1>4 DEF Account, WaitingHasRunner
  <2>5. QED
    BY <1>0, <2>3, <2>4 DEF Counts, HandBack, TypeOK
<1>7. Account'
  BY <1>0, <1>3, <1>6, OwnPoolSuffices
<1>8. TypeOK'
  <2>1. active[e] - 1 \in 0..MaxPoolSockets
    BY <1>5, StoreAssumption
  <2>2. QED
    BY <1>0, <1>1, <1>2, <2>1 DEF TypeOK, HandBack
<1>9. QED
  BY <1>7, <1>8

LEMMA ReleaseAccount ==
  ASSUME TypeOK, Control, Account, NEW t \in Threads, Release(t)
  PROVE  TypeOK' /\ Account'
<1>0. PICK e \in Endpoints : e = name[t]
  BY DEF Release, Control, PoolThere, InPool
<1>1. gone = {} /\ gone' = {} /\ pc[t] \in InPool
  BY DEF Release, Control, InPool
<1>2. taken[t] = 0 /\ t \in InUse(e)
  BY <1>0, <1>1 DEF Release, Account, TakenByClosing, InUse, ThreadsAt
<1>3. PoolStep(t, "idle", None, 0)
  <2>1. /\ pc' = [pc EXCEPT ![t] = "idle"]
        /\ name' = [name EXCEPT ![t] = None]
        /\ taken' = [taken EXCEPT ![t] = 0]
    BY <1>2 DEF Release, Retire, Goto, TypeOK
  <2>2. "idle" \notin InPool /\ 0 \in 0..MaxPoolSockets
    BY StoreAssumption DEF InPool
  <2>3. QED
    BY <1>1, <2>1, <2>2 DEF PoolStep
<1>4. /\ InUse(e)' = InUse(e) \ {t} /\ Running(e)' = Running(e) \ {t}
      /\ Held(e)' = Held(e)
  <2>1. "idle" \notin InPool
    BY DEF InPool
  <2>2. /\ InUse(e)' = InUse(e) \ {t} /\ Running(e)' = Running(e) \ {t}
        /\ Held(e)' = {p \in Held(e) : p[1] # t} \cup ({t} \X (1..0))
    BY <1>0, <1>3, <2>1, PoolStepSets
  <2>3. QED
    BY <1>2, <2>2, NothingHeld
<1>5. active[e] \in 0..MaxPoolSockets /\ waiting[e] \in Nat /\ active[e] > 0
  <2>1. InUse(e) # {}
    BY <1>2
  <2>2. QED
    BY <2>1, Counters, AccountOfPool
<1>6. Counts(e, active[e] - 1, waiting[e])
  <2>1. active[e] = Cardinality(InUse(e)) + waiting[e] + Cardinality(Held(e))
    BY DEF Account, ActiveIsAccountedFor
  <2>2. Cardinality(InUse(e)') = Cardinality(InUse(e)) - 1
    BY <1>2, <1>4, CountedSetsAreFinite, FS_RemoveElement
  <2>3. active[e] - 1 = Cardinality(InUse(e)') + waiting[e]
                          + Cardinality(Held(e)')
    BY <1>4, <1>5, <2>1, <2>2, CountedSetsAreFinite
  <2>4. waiting[e] # 0 => Running(e)' # {}
    <3>1. SUFFICES ASSUME waiting[e] # 0, Running(e) \ {t} = {} PROVE FALSE
      BY <1>4
    <3>2. Running(e) = {t}
      BY <3>1 DEF Account, WaitingHasRunner
    <3>3. pc[t] = "running"
      BY <3>2 DEF Running, ThreadsAt
    <3>4. QED
      BY <1>0, <3>1, <3>2, <3>3 DEF Release, Running
  <2>5. QED
    BY <1>0, <2>3, <2>4 DEF Counts, Release, TypeOK
<1>7. Account'
  BY <1>0, <1>3, <1>6, OwnPoolSuffices
<1>8. TypeOK'
  <2>1. active[e] - 1 \in 0..MaxPoolSockets
    BY <1>5, StoreAssumption
  <2>2. QED
    BY <1>0, <2>1 DEF TypeOK, Release, Retire, Goto, Phase
<1>9. QED
  BY <1>7, <1>8

LEMMA CommitOneAccount ==
  ASSUME TypeOK, Control, Account, NEW t \in Threads, CommitOne(t)
  PROVE  TypeOK' /\ Account'
<1>0. PICK e \in Endpoints : e = name[t]
  BY DEF CommitOne, Control, PoolThere
<1>1. gone = {} /\ gone' = {} /\ pc[t] = "commit"
  BY DEF CommitOne, Control
<1>2. taken[t] = 0
  BY <1>1 DEF Account, TakenByClosing
<1>3. PoolStep(t, "commit", e, 0)
  <2>1. /\ pc' = [pc EXCEPT ![t] = "commit"]
        /\ name' = [name EXCEPT ![t] = e]
        /\ taken' = [taken EXCEPT ![t] = 0]
    BY <1>0, <1>1, <1>2 DEF CommitOne, TypeOK
  <2>2. "commit" \notin InPool /\ 0 \in 0..MaxPoolSockets
    BY StoreAssumption DEF InPool
  <2>3. QED
    BY <1>1, <1>2, <2>1, <2>2 DEF PoolStep
<1>4. InUse(e)' = InUse(e) /\ Running(e)' = Running(e) /\ Held(e)' = Held(e)
  BY <1>1 DEF CommitOne, InUse, Running, Held, ThreadsAt
<1>5. /\ active[e] \in 0..MaxPoolSockets /\ waiting[e] \in 0..MaxPoolSockets
      /\ waiting[e] > 0 /\ waiting[e] <= active[e]
  BY <1>0, Counters, AccountOfPool DEF CommitOne
<1>6. Counts(e, active[e] - 1, waiting[e] - 1)
  <2>1. active[e] = Cardinality(InUse(e)) + waiting[e] + Cardinality(Held(e))
    BY DEF Account, ActiveIsAccountedFor
  <2>2. active[e] - 1 = Cardinality(InUse(e)') + (waiting[e] - 1)
                          + Cardinality(Held(e)')
    BY <1>4, <1>5, <2>1, CountedSetsAreFinite
  <2>3. Running(e)' # {}
    BY <1>4, <1>5 DEF Account, WaitingHasRunner
  <2>4. QED
    BY <1>0, <2>2, <2>3 DEF Counts, CommitOne
<1>7. Account'
  BY <1>0, <1>3, <1>6, OwnPoolSuffices
<1>8. TypeOK'
  <2>1. /\ active[e] - 1 \in 0..MaxPoolSockets
        /\ waiting[e] - 1 \in 0..MaxPoolSockets
    BY <1>5, StoreAssumption
  <2>2. QED
    BY <1>0, <2>1 DEF TypeOK, CommitOne
<1>9. QED
  BY <1>7, <1>8

(* A pool without active connections has nobody in it and nothing waiting. *)
LEMMA NoActiveNoUse ==
  ASSUME TypeOK, Account, NEW e \in Endpoints, active[e] = 0
  PROVE  waiting[e] = 0 /\ InUse(e) = {}
<1>1. waiting[e] \in Nat /\ waiting[e] <= active[e]
  BY Counters, AccountOfPool
<1>2. InUse(e) = {}
  BY AccountOfPool
<1>3. QED
  BY <1>1, <1>2

(* And if nobody is in it, none is active.                                 *)
LEMMA NoUseNoActive ==
  ASSUME TypeOK, Account, gone = {}, NEW e \in Endpoints, InUse(e) = {}
  PROVE  active[e] = 0
<1>1. waiting[e] = 0
  BY DEF Account, WaitingHasRunner, InUse, Running, ThreadsAt, InPool
<1>2. Held(e) = {}
  <2>1. SUFFICES ASSUME NEW p \in Held(e) PROVE FALSE
    OBVIOUS
  <2>2. p[1] \in Threads /\ name[p[1]] = e /\ p[2] \in 1..MaxPoolSockets
          /\ p[2] <= taken[p[1]]
    BY DEF Held
  <2>3. taken[p[1]] # 0
    BY <2>2, Counters
  <2>4. p[1] \in InUse(e)
    BY <2>2, <2>3 DEF Account, TakenByClosing, InUse, ThreadsAt, InPool
  <2>5. QED
    BY <2>4
<1>3. QED
  BY <1>1, <1>2, FS_EmptySet DEF Account, ActiveIsAccountedFor

(* To destroy pools that have no active connection, and that nobody is     *)
(* about to use, destroys nothing that is used.                            *)
LEMMA DestroyIdlePools ==
  ASSUME TypeOK, Account, gone = {}, NEW E \in SUBSET Endpoints, Destroy(E),
         \A e \in E : active[e] = 0 /\ ThreadsAt(e, {"selected", "status"}) = {}
  PROVE  gone' = {} /\ active' = active /\ waiting' = waiting
<1>1. \A e \in E : waiting[e] = 0 /\ InUse(e) = {}
  BY NoActiveNoUse
<1>2. active' = active /\ waiting' = waiting
  BY <1>1 DEF Destroy, TypeOK
<1>3. \A e \in E : ThreadsAt(e, InPool \cup {"selected", "status"}) = {}
  BY <1>1 DEF InUse, ThreadsAt
<1>4. QED
  BY <1>2, <1>3 DEF Destroy

-----------------------------------------------------------------------------
(***************************************************************************)
(* The invariant, action by action                                         *)
(***************************************************************************)

LEMMA StoreInit == Init => StoreInv
<1> SUFFICES ASSUME Init PROVE StoreInv
  OBVIOUS
<1>1. TypeOK
  BY StoreAssumption DEF Init, TypeOK, Phase
<1>2. Control
  BY StoreAssumption
  DEF Init, Control, Locked, PoolThere, EraseIdle, StatusUnderLock, InPool
<1>3. Account
  <2>1. ASSUME NEW e \in Endpoints PROVE InUse(e) = {} /\ Held(e) = {}
    <3>1. InUse(e) = {}
      BY DEF Init, InUse, ThreadsAt, InPool
    <3>2. \A p \in Threads \X (1..MaxPoolSockets) : ~(p[2] <= taken[p[1]])
      BY StoreAssumption DEF Init
    <3>3. QED
      BY <3>1, <3>2 DEF Held
  <2>2. ActiveIsAccountedFor
    BY <2>1, FS_EmptySet DEF Init, ActiveIsAccountedFor
  <2>3. QED
    BY <2>2 DEF Init, Account, TakenByClosing, WaitingHasRunner
<1>4. QED
  BY <1>1, <1>2, <1>3 DEF StoreInv

LEMMA BeginPreserves ==
  ASSUME StoreInv, NEW t \in Threads, NEW u \in Uris, Begin(t, u)
  PROVE  StoreInv'
<1> USE DEF StoreInv
<1>1. Endpoint(u) \in Endpoints
  BY DEF Endpoints
<1>2. TypeOK'
  BY <1>1 DEF TypeOK, Begin, Goto, Phase
<1>3. Control'
  BY <1>1
  DEF TypeOK, Begin, Goto, Control, Locked, PoolThere, EraseIdle,
      StatusUnderLock, InPool
<1>4. Account'
  BY OutsideStep DEF Begin, Goto, Control, InPool
<1>5. QED
  BY <1>2, <1>3, <1>4

(* store::get up to the pool's own mutex.                                  *)
LEMMA SelectPreserves ==
  ASSUME StoreInv, NEW t \in Threads,
         \/ UseExisting(t) \/ CreatePool(t) \/ TooManyPools(t) \/ Exhausted(t)
  PROVE  StoreInv'
<1> USE DEF StoreInv
<1>1. CASE UseExisting(t)
  <2>1. TypeOK'
    BY <1>1 DEF TypeOK, UseExisting, Goto, Phase
  <2>2. Control'
    BY <1>1, StoreAssumption
    DEF TypeOK, UseExisting, Goto, Control, Locked, PoolThere, EraseIdle,
        StatusUnderLock, InPool
  <2>3. Account'
    <3>1. name' = [name EXCEPT ![t] = name[t]]
      BY <1>1 DEF UseExisting, TypeOK
    <3>2. QED
      BY <1>1, <3>1, OutsideStep DEF UseExisting, Goto, Control, InPool
  <2>4. QED
    BY <2>1, <2>2, <2>3
<1>2. CASE CreatePool(t)
  <2>1. TypeOK'
    BY <1>2 DEF TypeOK, CreatePool, Goto, Phase, Control, PoolThere
  <2>2. Control'
    BY <1>2, StoreAssumption
    DEF TypeOK, CreatePool, Goto, Control, Locked, PoolThere, EraseIdle,
        StatusUnderLock, InPool
  <2>3. Account'
    <3>1. name' = [name EXCEPT ![t] = name[t]]
      BY <1>2 DEF CreatePool, TypeOK
    <3>2. QED
      BY <1>2, <3>1, OutsideStep DEF CreatePool, Goto, Control, InPool
  <2>4. QED
    BY <2>1, <2>2, <2>3
<1>3. CASE TooManyPools(t)
  <2>1. TypeOK'
    BY <1>3 DEF TypeOK, TooManyPools, Retire, Goto, Phase
  <2>2. Control'
    BY <1>3
    DEF TypeOK, TooManyPools, Retire, Goto, Control, Locked, PoolThere,
        EraseIdle, StatusUnderLock, InPool
  <2>3. Account'
    BY <1>3, OutsideStep DEF TooManyPools, Retire, Goto, Control, InPool
  <2>4. QED
    BY <2>1, <2>2, <2>3
<1>4. CASE Exhausted(t)
  <2>1. TypeOK'
    BY <1>4 DEF TypeOK, Exhausted, Retire, Goto, Phase
  <2>2. Control'
    BY <1>4
    DEF TypeOK, Exhausted, Retire, Goto, Control, Locked, PoolThere,
        EraseIdle, StatusUnderLock, InPool
  <2>3. Account'
    BY <1>4, OutsideStep DEF Exhausted, Retire, Goto, Control, InPool
  <2>4. QED
    BY <2>1, <2>2, <2>3
<1>5. QED
  BY <1>1, <1>2, <1>3, <1>4

(* The steps of a statement in its pool.                                   *)
LEMMA UsePreserves ==
  ASSUME StoreInv, NEW t \in Threads,
         Lease(t) \/ Defer(t) \/ Take(t) \/ HandBack(t) \/ Release(t)
  PROVE  StoreInv'
<1> USE DEF StoreInv
<1>1. TypeOK' /\ Account'
  BY LeaseAccount, DeferAccount, TakeAccount, HandBackAccount, ReleaseAccount
<1>2. pc[t] \in InPool \cup {"selected"}
  BY DEF Lease, Defer, Take, HandBack, Release, InPool
<1>3. PICK e \in Endpoints : e = name[t]
  BY <1>2 DEF Control, PoolThere, InPool
\* While an erase is about to destroy a pool nobody gets in or is inside.
<1>4. \A u \in Threads : pc[u] = "erase" => name[u] # e
  <2>1. SUFFICES ASSUME NEW u \in Threads, pc[u] = "erase", name[u] = e
                 PROVE  FALSE
    OBVIOUS
  <2>2. active[e] = 0 /\ pc[t] # "selected"
    BY <1>3, <2>1 DEF Control, EraseIdle
  <2>3. t \in InUse(e)
    BY <1>2, <1>3, <2>2 DEF Control, InUse, ThreadsAt
  <2>4. QED
    BY <2>2, <2>3, NoActiveNoUse
<1>5. \A d \in Endpoints : d # e => active'[d] = active[d]
  BY <1>3 DEF Lease, Defer, Take, HandBack, Release, TypeOK
<1>6. /\ UNCHANGED <<table, lock, todo, gone>>
      /\ \A u \in Threads : u # t => pc'[u] = pc[u] /\ name'[u] = name[u]
      /\ \/ pc'[t] \in InPool /\ name'[t] = name[t]
         \/ pc'[t] = "idle"
  BY <1>2
  DEF Lease, Defer, Take, HandBack, Release, Retire, Goto, TypeOK, InPool
<1>7. Locked'
  BY <1>2, <1>6 DEF Control, Locked, InPool
<1>8. PoolThere'
  BY <1>2, <1>6 DEF Control, PoolThere, InPool
<1>9. EraseIdle'
  <2>1. \A u \in Threads :
          pc'[u] = "erase" => pc[u] = "erase" /\ u # t /\ name[u] \in Endpoints
    BY <1>6 DEF InPool, Control, PoolThere
  <2>2. \A u \in Threads : pc'[u] = "selected" => pc[u] = "selected" /\ u # t
    BY <1>6 DEF InPool
  <2>3. QED
    BY <1>4, <1>5, <1>6, <2>1, <2>2 DEF Control, EraseIdle
<1>10. StatusUnderLock'
  BY <1>2, <1>6 DEF Control, StatusUnderLock, InPool
<1>11. QED
  BY <1>1, <1>6, <1>7, <1>8, <1>9, <1>10 DEF Control

(* Administration calls that hold mutex_ over several steps.               *)
LEMMA LockingCallPreserves ==
  ASSUME StoreInv, Careful, NEW t \in Threads,
         \/ \E e \in Endpoints : EraseCount(t, e) \/ CommitStart(t, e)
         \/ CommitEnd(t) \/ StatusStart(t) \/ StatusEnd(t)
  PROVE  StoreInv'
<1> USE DEF StoreInv
<1>1. ASSUME NEW e \in Endpoints, EraseCount(t, e)
      PROVE  StoreInv'
  <2>1. TypeOK'
    BY <1>1 DEF TypeOK, EraseCount, Goto, Phase
  <2>2. \A u \in Threads : pc[u] = "selected" => name[u] # e
    BY <1>1 DEF EraseCount, ThreadsAt, Control
  <2>3. Control'
    BY <1>1, <2>2, StoreAssumption
    DEF TypeOK, EraseCount, Goto, Control, Locked, PoolThere, EraseIdle,
        StatusUnderLock, InPool
  <2>4. Account'
    BY <1>1, OutsideStep DEF EraseCount, Goto, Control, InPool
  <2>5. QED
    BY <2>1, <2>3, <2>4
<1>2. ASSUME NEW e \in Endpoints, CommitStart(t, e)
      PROVE  StoreInv'
  <2>1. TypeOK'
    BY <1>2 DEF TypeOK, CommitStart, Goto, Phase
  <2>2. Control'
    BY <1>2, StoreAssumption
    DEF TypeOK, CommitStart, Goto, Control, Locked, PoolThere, EraseIdle,
        StatusUnderLock, InPool
  <2>3. Account'
    BY <1>2, OutsideStep DEF CommitStart, Goto, Control, InPool
  <2>4. QED
    BY <2>1, <2>2, <2>3
<1>3. CASE CommitEnd(t)
  <2>1. TypeOK'
    BY <1>3 DEF TypeOK, CommitEnd, Retire, Goto, Phase
  <2>2. Control'
    BY <1>3, StoreAssumption
    DEF TypeOK, CommitEnd, Retire, Goto, Control, Locked, PoolThere, EraseIdle,
        StatusUnderLock, InPool
  <2>3. Account'
    BY <1>3, OutsideStep DEF CommitEnd, Retire, Goto, Control, InPool
  <2>4. QED
    BY <2>1, <2>2, <2>3
<1>4. CASE StatusStart(t)
  <2>1. TypeOK'
    BY <1>4 DEF TypeOK, StatusStart, Goto, Phase
  <2>2. Control'
    BY <1>4, StoreAssumption
    DEF TypeOK, StatusStart, Goto, Control, Locked, PoolThere, EraseIdle,
        StatusUnderLock, InPool
  <2>3. Account'
    <3>1. name' = [name EXCEPT ![t] = name[t]]
      BY <1>4 DEF StatusStart, TypeOK
    <3>2. QED
      BY <1>4, <3>1, OutsideStep DEF StatusStart, Goto, Control, InPool
  <2>4. QED
    BY <2>1, <2>2, <2>3
<1>5. CASE StatusEnd(t)
  <2>1. TypeOK'
    BY <1>5 DEF TypeOK, StatusEnd, Retire, Goto, Phase
  <2>2. Control'
    BY <1>5, StoreAssumption
    DEF TypeOK, StatusEnd, Retire, Goto, Control, Locked, PoolThere, EraseIdle,
        StatusUnderLock, InPool
  <2>3. Account'
    BY <1>5, OutsideStep DEF StatusEnd, Retire, Goto, Control, InPool
  <2>4. QED
    BY <2>1, <2>2, <2>3
<1>6. QED
  BY <1>1, <1>2, <1>3, <1>4, <1>5

(* The exchanges of store::commit and the visits of store::json.           *)
LEMMA LockedStepPreserves ==
  ASSUME StoreInv, NEW t \in Threads, CommitOne(t) \/ StatusPool(t)
  PROVE  StoreInv'
<1> USE DEF StoreInv
<1>1. CASE CommitOne(t)
  <2>1. TypeOK' /\ Account'
    BY <1>1, CommitOneAccount
  <2>2. \A u \in Threads : pc[u] # "erase"
    BY <1>1 DEF CommitOne, Control, Locked
  <2>3. Control'
    BY <1>1, <2>2
    DEF CommitOne, Control, Locked, PoolThere, EraseIdle, StatusUnderLock,
        InPool
  <2>4. QED
    BY <2>1, <2>3
<1>2. CASE StatusPool(t)
  <2>1. TypeOK'
    BY <1>2 DEF TypeOK, StatusPool
  <2>2. Control'
    BY <1>2
    DEF TypeOK, StatusPool, Control, Locked, PoolThere, EraseIdle,
        StatusUnderLock
  <2>3. Account'
    BY <1>2, QuietStep DEF StatusPool
  <2>4. QED
    BY <2>1, <2>2, <2>3
<1>3. QED
  BY <1>1, <1>2

(* store::erase destroys the pool it found idle.                           *)
LEMMA EraseDestroyIdle ==
  ASSUME StoreInv, NEW t \in Threads, EraseDestroy(t)
  PROVE  gone' = {} /\ active' = active /\ waiting' = waiting
<1> USE DEF StoreInv
<1>1. PICK e \in Endpoints : e = name[t]
  BY DEF EraseDestroy, Control, PoolThere
<1>2. active[e] = 0
  BY <1>1 DEF EraseDestroy, Control, EraseIdle
<1>3. ThreadsAt(e, {"selected", "status"}) = {}
  <2>1. \A u \in Threads : pc[u] = "selected" => name[u] # e
    BY <1>1 DEF EraseDestroy, Control, EraseIdle
  <2>2. \A u \in Threads : pc[u] # "status"
    BY DEF EraseDestroy, Control, Locked
  <2>3. QED
    BY <2>1, <2>2 DEF ThreadsAt
<1>4. QED
  BY <1>1, <1>2, <1>3, DestroyIdlePools DEF EraseDestroy, Control

LEMMA EraseDestroyPreserves ==
  ASSUME StoreInv, NEW t \in Threads, EraseDestroy(t)
  PROVE  StoreInv'
<1> USE DEF StoreInv
<1>1. gone' = {} /\ active' = active /\ waiting' = waiting
  BY EraseDestroyIdle
<1>2. PICK e \in Endpoints : e = name[t] /\ table' = table \ {e}
  BY DEF EraseDestroy, Destroy, Control, PoolThere
<1>3. TypeOK'
  BY <1>1, <1>2 DEF TypeOK, EraseDestroy, Retire, Goto, Phase
<1>4. \A u \in Threads :
        pc[u] \in InPool \cup {"selected"} => name[u] \in Endpoints /\ name[u] # e
  <2>1. SUFFICES ASSUME NEW u \in Threads, pc[u] \in InPool \cup {"selected"},
                        name[u] = e
                 PROVE  FALSE
    BY DEF Control, PoolThere
  <2>2. active[e] = 0 /\ pc[u] # "selected"
    BY <1>2, <2>1 DEF EraseDestroy, Control, EraseIdle
  <2>3. u \in InUse(e)
    BY <2>1, <2>2 DEF Control, InUse, ThreadsAt
  <2>4. QED
    BY <2>2, <2>3, NoActiveNoUse
<1>5. \A u \in Threads : u # t => pc[u] \notin {"erase", "commit", "status"}
  BY DEF EraseDestroy, Control, Locked
<1>6. todo = {}
  BY <1>5 DEF EraseDestroy, Control, StatusUnderLock
<1>7. Control'
  BY <1>1, <1>2, <1>4, <1>5, <1>6, StoreAssumption
  DEF TypeOK, EraseDestroy, Retire, Goto, Control, Locked, PoolThere,
      EraseIdle, StatusUnderLock, InPool
<1>8. Account'
  BY <1>1, OutsideStep DEF EraseDestroy, Retire, Goto, Control, InPool
<1>9. QED
  BY <1>3, <1>7, <1>8

(* store::clear, called while no statement runs, finds every pool idle.    *)
LEMMA ClearIdle ==
  ASSUME StoreInv, Careful, NEW t \in Threads, Clear(t)
  PROVE  /\ gone' = {} /\ active' = active /\ waiting' = waiting
         /\ \A u \in Threads : pc[u] \notin InPool \cup
                                  {"selected", "erase", "commit", "status"}
<1> USE DEF StoreInv
<1>1. \A u \in Threads : pc[u] \notin InPool \cup {"selected"}
  <2>1. \A e \in table : ThreadsAt(e, InPool \cup {"selected"}) = {}
    BY DEF Clear
  <2>2. QED
    BY <2>1 DEF Control, PoolThere, ThreadsAt
<1>2. \A u \in Threads : pc[u] \notin {"erase", "commit", "status"}
  BY StoreAssumption DEF Clear, Control, Locked
<1>3. \A e \in table : /\ e \in Endpoints
                       /\ InUse(e) = {}
                       /\ ThreadsAt(e, {"selected", "status"}) = {}
  BY <1>1, <1>2 DEF TypeOK, InUse, ThreadsAt
<1>4. \A e \in table : active[e] = 0
  BY <1>3, NoUseNoActive DEF Control
<1>5. gone' = {} /\ active' = active /\ waiting' = waiting
  BY <1>3, <1>4, DestroyIdlePools DEF Clear, Control
<1>6. QED
  BY <1>1, <1>2, <1>5

LEMMA ClearPreserves ==
  ASSUME StoreInv, Careful, NEW t \in Threads, Clear(t)
  PROVE  StoreInv'
<1> USE DEF StoreInv
<1>1. /\ gone' = {} /\ active' = active /\ waiting' = waiting
      /\ \A u \in Threads : pc[u] \notin InPool \cup
                               {"selected", "erase", "commit", "status"}
  BY ClearIdle
<1>2. table' = {} /\ UNCHANGED <<lock, pc, name, taken, todo>>
  BY DEF Clear, Destroy
<1>3. TypeOK'
  BY <1>1, <1>2 DEF TypeOK, Clear
<1>4. Control'
  BY <1>1, <1>2 DEF Control, Locked, PoolThere, EraseIdle, StatusUnderLock
<1>5. Account'
  BY <1>1, <1>2, QuietStep DEF Control
<1>6. QED
  BY <1>3, <1>4, <1>5

LEMMA StoreStep == Careful /\ StoreInv /\ [Next]_vars => StoreInv'
<1> SUFFICES ASSUME Careful, StoreInv, [Next]_vars PROVE StoreInv'
  OBVIOUS
<1> USE DEF StoreInv
<1>1. ASSUME NEW t \in Threads, NEW u \in Uris, Begin(t, u)
      PROVE  StoreInv'
  BY <1>1, BeginPreserves
<1>2. ASSUME NEW t \in Threads, Proceed(t)
      PROVE  StoreInv'
  BY <1>2, SelectPreserves, UsePreserves, EraseDestroyPreserves,
     LockingCallPreserves, LockedStepPreserves DEF Proceed
<1>3. CASE UNCHANGED vars
  <2>1. TypeOK'
    BY <1>3 DEF vars, TypeOK
  <2>2. Control'
    BY <1>3
    DEF vars, Control, Locked, PoolThere, EraseIdle, StatusUnderLock
  <2>3. Account'
    BY <1>3, QuietStep DEF vars
  <2>4. QED
    BY <2>1, <2>2, <2>3
<1>4. ASSUME NEW t \in Threads, Call(t)
      PROVE  StoreInv'
  BY <1>3, <1>4, LockingCallPreserves, ClearPreserves
  DEF Call, EraseRefused, CommitNotFound
<1>5. ASSUME NEW n \in CountLimits, SetMaxPoolCount(n)
      PROVE  StoreInv'
  <2>1. TypeOK'
    BY <1>5 DEF SetMaxPoolCount, TypeOK
  <2>2. Control'
    BY <1>5
    DEF SetMaxPoolCount, Control, Locked, PoolThere, EraseIdle,
        StatusUnderLock
  <2>3. Account'
    BY <1>5, QuietStep DEF SetMaxPoolCount
  <2>4. QED
    BY <2>1, <2>2, <2>3
<1>6. QED
  BY <1>1, <1>2, <1>3, <1>4, <1>5 DEF Next

LEMMA StoreInvariant ==
  ASSUME Careful
  PROVE  Spec => []StoreInv
<1>1. StoreInv /\ [Next]_vars => StoreInv'
  BY StoreStep
<1>2. QED
  BY <1>1, StoreInit, PTL DEF Spec

-----------------------------------------------------------------------------
(***************************************************************************)
(* Results                                                                 *)
(***************************************************************************)

(* Types: no counter of a pool leaves its range, in particular no          *)
(* connection is given back twice.                                         *)
THEOREM StoreTypes ==
  ASSUME Careful
  PROVE  Spec => []TypeOK
<1>1. StoreInv => TypeOK
  BY DEF StoreInv
<1>2. QED
  BY <1>1, StoreInvariant, PTL

(* A pool that is referred to is not destroyed, provided that erase is not *)
(* called while a statement is between the two mutexes of store::get and   *)
(* clear not while one runs.                                               *)
THEOREM PoolsOutliveTheirUse ==
  ASSUME Careful
  PROVE  Spec => []PoolOutlivesUse
<1>1. StoreInv => PoolOutlivesUse
  BY DEF StoreInv, Control, StatusUnderLock, PoolOutlivesUse
<1>2. QED
  BY <1>1, StoreInvariant, PTL

-----------------------------------------------------------------------------
(***************************************************************************)
(* The size of the table.  It needs less, and no care of the operator:     *)
(* only that a thread compares a limit there has been.                     *)
(***************************************************************************)
Control0 ==
  /\ pc \in [Threads -> Phase] /\ limit \in [Threads -> CountLimits \cup {0}]
  /\ count \in CountLimits
  /\ \A t \in Threads : pc[t] = "select" => limit[t] \in CountLimits

TableInv == Control0 /\ IsFiniteSet(table) /\ TableBounded

(* A step that adds no pool to the table keeps its bound.                  *)
LEMMA SmallerTable ==
  ASSUME TableInv, table' \in SUBSET table
  PROVE  IsFiniteSet(table') /\ TableBounded'
<1>1. /\ IsFiniteSet(table') /\ Cardinality(table') <= Cardinality(table)
      /\ Cardinality(table) \in Nat /\ Cardinality(table') \in Nat
  BY FS_Subset, FS_CardinalityType DEF TableInv
<1>2. PICK n \in CountLimits : Cardinality(table) <= n + 1
  BY DEF TableInv, TableBounded
<1>3. Cardinality(table') <= n + 1
  BY <1>1, <1>2, StoreAssumption
<1>4. QED
  BY <1>1, <1>3 DEF TableBounded

(* One pool more is at most one more than the limit that was compared.     *)
LEMMA LargerTable ==
  ASSUME TableInv, NEW t \in Threads, CreatePool(t)
  PROVE  IsFiniteSet(table') /\ TableBounded'
<1>1. limit[t] \in CountLimits /\ Cardinality(table) <= limit[t]
  BY DEF TableInv, Control0, CreatePool
<1>2. /\ IsFiniteSet(table') /\ Cardinality(table') = Cardinality(table) + 1
      /\ Cardinality(table) \in Nat
  BY FS_AddElement, FS_CardinalityType DEF TableInv, CreatePool
<1>3. Cardinality(table') <= limit[t] + 1
  <2>1. limit[t] \in Nat
    BY <1>1, StoreAssumption
  <2>2. QED
    BY <1>1, <1>2, <2>1
<1>4. QED
  BY <1>1, <1>2, <1>3 DEF TableBounded

LEMMA ProceedTable ==
  ASSUME TableInv, NEW t \in Threads, Proceed(t)
  PROVE  Control0' /\ (table' \in SUBSET table \/ CreatePool(t))
<1>1. CASE UseExisting(t)
  BY <1>1 DEF UseExisting, Goto, TableInv, Control0, Phase
<1>2. CASE CreatePool(t)
  BY <1>2 DEF CreatePool, Goto, TableInv, Control0, Phase
<1>3. CASE TooManyPools(t)
  BY <1>3 DEF TooManyPools, Retire, Goto, TableInv, Control0, Phase
<1>4. CASE Lease(t)
  BY <1>4 DEF Lease, Goto, TableInv, Control0, Phase, InPool
<1>5. CASE Exhausted(t) \/ Defer(t) \/ Release(t)
  BY <1>5
  DEF Exhausted, Defer, Release, Retire, Goto, TableInv, Control0, Phase
<1>6. CASE Take(t) \/ HandBack(t)
  BY <1>6 DEF Take, HandBack, Goto, TableInv, Control0, Phase, InPool
<1>7. CASE EraseDestroy(t)
  BY <1>7
  DEF EraseDestroy, Destroy, Retire, Goto, TableInv, Control0, Phase
<1>8. CASE CommitOne(t) \/ StatusPool(t)
  BY <1>8 DEF CommitOne, StatusPool, TableInv, Control0
<1>9. CASE CommitEnd(t) \/ StatusEnd(t)
  BY <1>9 DEF CommitEnd, StatusEnd, Retire, Goto, TableInv, Control0, Phase
<1>10. QED
  BY <1>1, <1>2, <1>3, <1>4, <1>5, <1>6, <1>7, <1>8, <1>9 DEF Proceed

LEMMA CallTable ==
  ASSUME TableInv, NEW t \in Threads, Call(t)
  PROVE  Control0' /\ table' \in SUBSET table
<1>1. CASE \E e \in Endpoints : EraseCount(t, e) \/ CommitStart(t, e)
  BY <1>1 DEF EraseCount, CommitStart, Goto, TableInv, Control0, Phase
<1>2. CASE \E e \in Endpoints : EraseRefused(t, e) \/ CommitNotFound(t, e)
  BY <1>2 DEF EraseRefused, CommitNotFound, vars, TableInv, Control0
<1>3. CASE Clear(t)
  BY <1>3 DEF Clear, Destroy, TableInv, Control0
<1>4. CASE StatusStart(t)
  BY <1>4 DEF StatusStart, Goto, TableInv, Control0, Phase
<1>5. QED
  BY <1>1, <1>2, <1>3, <1>4 DEF Call

LEMMA TableStep == TableInv /\ [Next]_vars => TableInv'
<1> SUFFICES ASSUME TableInv, [Next]_vars PROVE TableInv'
  OBVIOUS
<1>1. CASE \E t \in Threads, u \in Uris : Begin(t, u)
  <2>1. Control0' /\ table' = table
    BY <1>1 DEF Begin, Goto, TableInv, Control0, Phase
  <2>2. QED
    BY <2>1, SmallerTable DEF TableInv
<1>2. CASE \E t \in Threads : Proceed(t)
  BY <1>2, ProceedTable, SmallerTable, LargerTable DEF TableInv
<1>3. CASE \E t \in Threads : Call(t)
  BY <1>3, CallTable, SmallerTable DEF TableInv
<1>4. CASE \E n \in CountLimits : SetMaxPoolCount(n)
  <2>1. Control0' /\ table' = table
    BY <1>4 DEF SetMaxPoolCount, TableInv, Control0
  <2>2. QED
    BY <2>1, SmallerTable DEF TableInv
<1>5. CASE UNCHANGED vars
  <2>1. Control0' /\ table' = table
    BY <1>5 DEF vars, TableInv, Control0
  <2>2. QED
    BY <2>1, SmallerTable DEF TableInv
<1>6. QED
  BY <1>1, <1>2, <1>3, <1>4, <1>5 DEF Next

LEMMA TableInit == Init => TableInv
<1> SUFFICES ASSUME Init PROVE TableInv
  OBVIOUS
<1>1. Control0
  BY DEF Init, Control0, Phase
<1>2. IsFiniteSet(table) /\ Cardinality(table) = 0
  BY FS_EmptySet DEF Init
<1>3. TableBounded
  <2>1. PICK n \in CountLimits : n \in Nat
    BY StoreAssumption
  <2>2. QED
    BY <1>2, <2>1 DEF TableBounded
<1>4. QED
  BY <1>1, <1>2, <1>3 DEF TableInv

(* However many threads wait for the mutex with a limit they have read,    *)
(* the table has at most one pool above the largest limit.                 *)
THEOREM TableIsBounded == Spec => []TableBounded
<1>1. TableInv => TableBounded
  BY DEF TableInv
<1>2. QED
  BY <1>1, TableInit, TableStep, PTL DEF Spec

-----------------------------------------------------------------------------
(***************************************************************************)
(* Refinement: every endpoint is one pool for its statements.              *)
(***************************************************************************)
Closing(e) == ThreadsAt(e, {"closing"})
TakenIn(e) == [t \in Threads |-> IF name[t] = e THEN taken[t] ELSE 0]

\* What PoolUse sees of pool e stays as it is.
Unseen(e) ==
  /\ Running(e)' = Running(e) /\ Closing(e)' = Closing(e)
  /\ TakenIn(e)' = TakenIn(e)
  /\ waiting'[e] = waiting[e] /\ active'[e] = active[e]

LEMMA UnseenIsStutter ==
  ASSUME NEW e, Unseen(e)
  PROVE  UNCHANGED Use(e)!vars
BY DEF Unseen, Use!vars, Running, Closing, TakenIn

(* What PoolUse sees of a step of thread t in its pool: nothing in other   *)
(* pools, and in its own what happens to t.                                *)
LEMMA PoolStepViews ==
  ASSUME TypeOK, Account, NEW t \in Threads, NEW f, NEW n, NEW k,
         PoolStep(t, f, n, k), pc[t] \in InPool \/ f \in InPool
  PROVE  /\ \A d \in Endpoints : d # name[t] =>
              /\ Running(d)' = Running(d) /\ Closing(d)' = Closing(d)
              /\ TakenIn(d)' = TakenIn(d)
         /\ \A e \in Endpoints : e = name[t] =>
              /\ Running(e)' = IF f = "running" THEN Running(e) \cup {t}
                                               ELSE Running(e) \ {t}
              /\ Closing(e)' = IF f = "closing" THEN Closing(e) \cup {t}
                                               ELSE Closing(e) \ {t}
              /\ TakenIn(e)' = [TakenIn(e) EXCEPT ![t] = k]
<1> USE DEF PoolStep
<1>1. \A u \in Threads : u # t =>
        pc'[u] = pc[u] /\ name'[u] = name[u] /\ taken'[u] = taken[u]
  BY DEF TypeOK
<1>2. pc'[t] = f /\ name'[t] = n /\ taken'[t] = k
  BY DEF TypeOK
<1>3. f \in {"running", "closing"} => n = name[t]
  BY DEF InPool
<1>4. ASSUME NEW d \in Endpoints, d # name[t]
      PROVE  /\ Running(d)' = Running(d) /\ Closing(d)' = Closing(d)
             /\ TakenIn(d)' = TakenIn(d)
  <2>1. Running(d)' = Running(d) /\ Closing(d)' = Closing(d)
    BY <1>1, <1>2, <1>3, <1>4 DEF Running, Closing, ThreadsAt
  <2>2. \A u \in Threads : (IF name'[u] = d THEN taken'[u] ELSE 0)
                              = (IF name[u] = d THEN taken[u] ELSE 0)
    BY <1>1, <1>2, <1>4
  <2>3. QED
    BY <2>1, <2>2 DEF TakenIn
<1>5. ASSUME NEW e \in Endpoints, e = name[t]
      PROVE  /\ Running(e)' = IF f = "running" THEN Running(e) \cup {t}
                                               ELSE Running(e) \ {t}
             /\ Closing(e)' = IF f = "closing" THEN Closing(e) \cup {t}
                                               ELSE Closing(e) \ {t}
             /\ TakenIn(e)' = [TakenIn(e) EXCEPT ![t] = k]
  <2>1. Running(e)' = IF f = "running" THEN Running(e) \cup {t}
                                       ELSE Running(e) \ {t}
    BY <1>1, <1>2, <1>3, <1>5 DEF Running, ThreadsAt
  <2>2. Closing(e)' = IF f = "closing" THEN Closing(e) \cup {t}
                                       ELSE Closing(e) \ {t}
    BY <1>1, <1>2, <1>3, <1>5 DEF Closing, ThreadsAt
  <2>3. \A u \in Threads : (IF name'[u] = e THEN taken'[u] ELSE 0)
          = IF u = t THEN k ELSE (IF name[u] = e THEN taken[u] ELSE 0)
    BY <1>1, <1>2, <1>5
  <2>4. TakenIn(e)' = [TakenIn(e) EXCEPT ![t] = k]
    BY <2>3 DEF TakenIn
  <2>5. QED
    BY <2>1, <2>2, <2>4
<1>6. QED
  BY <1>4, <1>5

(* A step of a thread that stays outside the pools is not seen at all.     *)
LEMMA OutsideUnseen ==
  ASSUME TypeOK, Account, gone = {}, NEW t \in Threads, NEW f, NEW n,
         pc[t] \notin InPool, f \notin InPool,
         pc' = [pc EXCEPT ![t] = f], name' = [name EXCEPT ![t] = n],
         UNCHANGED <<active, waiting, taken, gone>>,
         NEW d \in Endpoints
  PROVE  Unseen(d)
<1>1. /\ \A u \in Threads : u # t => pc'[u] = pc[u] /\ name'[u] = name[u]
      /\ pc'[t] = f /\ name'[t] = n
  BY DEF TypeOK
<1>2. Running(d)' = Running(d) /\ Closing(d)' = Closing(d)
  BY <1>1 DEF Running, Closing, ThreadsAt, InPool
<1>3. taken[t] = 0
  BY DEF Account, TakenByClosing, InPool
<1>4. \A u \in Threads : (IF name'[u] = d THEN taken[u] ELSE 0)
                            = (IF name[u] = d THEN taken[u] ELSE 0)
  BY <1>1, <1>3
<1>5. TakenIn(d)' = TakenIn(d)
  BY <1>4 DEF TakenIn
<1>6. QED
  BY <1>2, <1>5 DEF Unseen

LEMMA QuietUnseen ==
  ASSUME UNCHANGED <<active, waiting, taken, gone, pc, name>>,
         NEW d \in Endpoints
  PROVE  Unseen(d)
BY DEF Unseen, Running, Closing, TakenIn, ThreadsAt

\* One step of PoolUse, or none, for pool d.
PoolMove(d) == Use(d)!Next \/ UNCHANGED Use(d)!vars

(* In the pools of other endpoints a step of a statement is not seen.      *)
LEMMA OtherPoolsUnseen ==
  ASSUME TypeOK, Account, NEW t \in Threads, NEW f, NEW n, NEW k,
         PoolStep(t, f, n, k), pc[t] \in InPool \/ f \in InPool,
         NEW d \in Endpoints, d # name[t],
         active'[d] = active[d], waiting'[d] = waiting[d]
  PROVE  PoolMove(d)
<1>1. Unseen(d)
  BY PoolStepViews DEF Unseen
<1>2. QED
  BY <1>1, UnseenIsStutter DEF PoolMove

LEMMA LeaseMoves ==
  ASSUME TypeOK, Control, Account, NEW t \in Threads, Lease(t),
         NEW d \in Endpoints
  PROVE  PoolMove(d)
<1>1. /\ PoolStep(t, "running", name[t], 0) /\ "running" \in InPool
      /\ pc[t] = "selected" /\ gone = {}
  <2>1. taken[t] = 0
    BY DEF Account, TakenByClosing, Lease
  <2>2. 0 \in 0..MaxPoolSockets
    BY StoreAssumption
  <2>3. QED
    BY <2>1, <2>2 DEF PoolStep, Lease, Goto, Control, TypeOK, InPool
<1>2. CASE d # name[t]
  <2>1. active'[d] = active[d] /\ waiting'[d] = waiting[d]
    BY <1>2 DEF Lease, TypeOK
  <2>2. QED
    BY <1>1, <1>2, <2>1, OtherPoolsUnseen
<1>3. CASE d = name[t]
  <2>1. /\ Running(d)' = Running(d) \cup {t}
        /\ Closing(d)' = Closing(d) \ {t}
        /\ TakenIn(d)' = [TakenIn(d) EXCEPT ![t] = 0]
    BY <1>1, <1>3, PoolStepViews
  <2>2. t \notin Running(d) /\ t \notin Closing(d) /\ TakenIn(d)[t] = 0
    BY <1>1 DEF Running, Closing, ThreadsAt, TakenIn, Account, TakenByClosing
  <2>3. TakenIn(d)' = TakenIn(d) /\ Closing(d)' = Closing(d)
    BY <2>1, <2>2 DEF TakenIn
  <2>4. /\ active[d] < MaxPoolSockets /\ active'[d] = active[d] + 1
        /\ waiting'[d] = waiting[d]
    BY <1>3 DEF Lease, TypeOK
  <2>5. Use(d)!Begin(t)
    BY <2>1, <2>2, <2>3, <2>4 DEF Use!Begin, Running, Closing, TakenIn
  <2>6. QED
    BY <2>5 DEF Use!Next, PoolMove
<1>4. QED
  BY <1>2, <1>3

LEMMA DeferMoves ==
  ASSUME TypeOK, Control, Account, NEW t \in Threads, Defer(t),
         NEW d \in Endpoints
  PROVE  PoolMove(d)
<1>1. /\ PoolStep(t, "idle", None, 0)
      /\ pc[t] = "running" /\ pc[t] \in InPool /\ gone = {} /\ taken[t] = 0
  <2>1. taken[t] = 0
    BY DEF Account, TakenByClosing, Defer
  <2>2. 0 \in 0..MaxPoolSockets
    BY StoreAssumption
  <2>3. QED
    BY <2>1, <2>2 DEF PoolStep, Defer, Retire, Goto, Control, TypeOK, InPool
<1>2. CASE d # name[t]
  <2>1. active'[d] = active[d] /\ waiting'[d] = waiting[d]
    BY <1>2 DEF Defer, TypeOK
  <2>2. QED
    BY <1>1, <1>2, <2>1, OtherPoolsUnseen
<1>3. CASE d = name[t]
  <2>1. /\ Running(d)' = Running(d) \ {t}
        /\ Closing(d)' = Closing(d) \ {t}
        /\ TakenIn(d)' = [TakenIn(d) EXCEPT ![t] = 0]
    BY <1>1, <1>3, PoolStepViews
  <2>2. t \in Running(d) /\ t \notin Closing(d) /\ TakenIn(d)[t] = 0
    BY <1>1, <1>3 DEF Running, Closing, ThreadsAt, TakenIn
  <2>3. TakenIn(d)' = TakenIn(d) /\ Closing(d)' = Closing(d)
    BY <2>1, <2>2 DEF TakenIn
  <2>4. /\ Running(d) # {t} /\ active'[d] = active[d]
        /\ waiting'[d] = waiting[d] + 1
    BY <1>3 DEF Defer, TypeOK, Running
  <2>5. Use(d)!LeaveBehind(t)
    BY <2>1, <2>2, <2>3, <2>4 DEF Use!LeaveBehind, Running, Closing, TakenIn
  <2>6. QED
    BY <2>5 DEF Use!Next, PoolMove
<1>4. QED
  BY <1>2, <1>3

LEMMA TakeMoves ==
  ASSUME TypeOK, Control, Account, NEW t \in Threads, Take(t),
         NEW d \in Endpoints
  PROVE  PoolMove(d)
<1>1. pc[t] = "running" /\ pc[t] \in InPool /\ gone = {} /\ taken[t] = 0
  BY DEF Account, TakenByClosing, Take, Control, InPool
<1>2. PICK e \in Endpoints : e = name[t]
  BY <1>1 DEF Control, PoolThere
<1>3. PICK n \in 0..waiting[e] :
        /\ ThreadsAt(e, {"running"}) = {t} => n = waiting[e]
        /\ waiting' = [waiting EXCEPT ![e] = waiting[e] - n]
        /\ taken' = [taken EXCEPT ![t] = n]
  BY <1>2 DEF Take, TypeOK
<1>4. PoolStep(t, "closing", e, n)
  <2>1. pc' = [pc EXCEPT ![t] = "closing"] /\ name' = [name EXCEPT ![t] = e]
    BY <1>2 DEF Take, Goto, TypeOK
  <2>2. "closing" \in InPool /\ gone' = {}
    BY <1>1 DEF InPool, Take
  <2>3. n \in 0..MaxPoolSockets
    BY Counters
  <2>4. QED
    BY <1>1, <1>2, <1>3, <2>1, <2>2, <2>3 DEF PoolStep
<1>5. CASE d # e
  <2>1. active'[d] = active[d] /\ waiting'[d] = waiting[d]
    BY <1>3, <1>5 DEF Take, TypeOK
  <2>2. QED
    BY <1>1, <1>2, <1>4, <1>5, <2>1, OtherPoolsUnseen
<1>6. CASE d = e
  <2>1. /\ Running(e)' = Running(e) \ {t}
        /\ Closing(e)' = Closing(e) \cup {t}
        /\ TakenIn(e)' = [TakenIn(e) EXCEPT ![t] = n]
    BY <1>1, <1>2, <1>4, PoolStepViews
  <2>2. t \in Running(e)
    BY <1>1, <1>2 DEF Running, ThreadsAt
  <2>3. Running(e)' = {} => n = waiting[e]
    BY <1>3, <2>1, <2>2 DEF Running
  <2>4. waiting'[e] = waiting[e] - n /\ active'[e] = active[e]
    BY <1>3 DEF TypeOK, Take
  <2>5. Use(e)!Take(t)
    BY <2>1, <2>2, <2>3, <2>4 DEF Use!Take, Running, Closing, TakenIn
  <2>6. QED
    BY <1>6, <2>5 DEF Use!Next, PoolMove
<1>7. QED
  BY <1>5, <1>6

LEMMA HandBackMoves ==
  ASSUME TypeOK, Control, Account, NEW t \in Threads, HandBack(t),
         NEW d \in Endpoints
  PROVE  PoolMove(d)
<1>1. pc[t] = "closing" /\ pc[t] \in InPool /\ gone = {} /\ taken[t] > 0
  BY DEF HandBack, Control, InPool
<1>2. PoolStep(t, "closing", name[t], taken[t] - 1)
  <2>1. /\ pc' = [pc EXCEPT ![t] = "closing"]
        /\ name' = [name EXCEPT ![t] = name[t]]
        /\ taken' = [taken EXCEPT ![t] = taken[t] - 1]
    BY <1>1 DEF HandBack, TypeOK
  <2>2. taken[t] - 1 \in 0..MaxPoolSockets
    BY <1>1, Counters
  <2>3. "closing" \in InPool /\ gone' = {}
    BY <1>1 DEF InPool, HandBack
  <2>4. QED
    BY <1>1, <2>1, <2>2, <2>3 DEF PoolStep
<1>3. CASE d # name[t]
  <2>1. active'[d] = active[d] /\ waiting'[d] = waiting[d]
    BY <1>3 DEF HandBack, TypeOK
  <2>2. QED
    BY <1>1, <1>2, <1>3, <2>1, OtherPoolsUnseen
<1>4. CASE d = name[t]
  <2>1. /\ Running(d)' = Running(d) \ {t}
        /\ Closing(d)' = Closing(d) \cup {t}
        /\ TakenIn(d)' = [TakenIn(d) EXCEPT ![t] = taken[t] - 1]
    BY <1>1, <1>2, <1>4, PoolStepViews
  <2>2. t \notin Running(d) /\ t \in Closing(d) /\ TakenIn(d)[t] = taken[t]
    BY <1>1, <1>4 DEF Running, Closing, ThreadsAt, TakenIn
  <2>3. Running(d)' = Running(d) /\ Closing(d)' = Closing(d)
    BY <2>1, <2>2
  <2>4. active'[d] = active[d] - 1 /\ waiting'[d] = waiting[d]
    BY <1>4 DEF HandBack, TypeOK
  <2>5. Use(d)!HandBack(t)
    BY <1>1, <2>1, <2>2, <2>3, <2>4
    DEF Use!HandBack, Running, Closing, TakenIn
  <2>6. QED
    BY <2>5 DEF Use!Next, PoolMove
<1>5. QED
  BY <1>3, <1>4

LEMMA ReleaseMoves ==
  ASSUME TypeOK, Control, Account, NEW t \in Threads, Release(t),
         NEW d \in Endpoints
  PROVE  PoolMove(d)
<1>1. pc[t] \in {"running", "closing"} /\ pc[t] \in InPool /\ gone = {}
        /\ taken[t] = 0
  BY DEF Account, TakenByClosing, Release, Control, InPool
<1>2. PoolStep(t, "idle", None, 0)
  <2>1. /\ pc' = [pc EXCEPT ![t] = "idle"]
        /\ name' = [name EXCEPT ![t] = None]
        /\ taken' = [taken EXCEPT ![t] = 0]
    BY <1>1 DEF Release, Retire, Goto, TypeOK
  <2>2. "idle" \notin InPool /\ 0 \in 0..MaxPoolSockets /\ gone' = {}
    BY <1>1, StoreAssumption DEF InPool, Release
  <2>3. QED
    BY <1>1, <2>1, <2>2 DEF PoolStep
<1>3. CASE d # name[t]
  <2>1. active'[d] = active[d] /\ waiting'[d] = waiting[d]
    BY <1>3 DEF Release, TypeOK
  <2>2. QED
    BY <1>1, <1>2, <1>3, <2>1, OtherPoolsUnseen
<1>4. CASE d = name[t]
  <2>1. /\ Running(d)' = Running(d) \ {t}
        /\ Closing(d)' = Closing(d) \ {t}
        /\ TakenIn(d)' = [TakenIn(d) EXCEPT ![t] = 0]
    BY <1>1, <1>2, <1>4, PoolStepViews
  <2>2. TakenIn(d)[t] = 0 /\ TakenIn(d)' = TakenIn(d)
    BY <1>1, <1>4, <2>1 DEF TakenIn
  <2>3. active'[d] = active[d] - 1 /\ waiting'[d] = waiting[d]
    BY <1>4 DEF Release, TypeOK
  <2>4. CASE pc[t] = "running"
    <3>1. t \in Running(d) /\ t \notin Closing(d)
      BY <1>1, <1>4, <2>4 DEF Running, Closing, ThreadsAt
    <3>2. Running(d)' = {} => waiting[d] = 0
      BY <1>4, <2>1, <2>4, <3>1 DEF Release, Running
    <3>3. Use(d)!EndPlain(t)
      BY <2>1, <2>2, <2>3, <3>1, <3>2
      DEF Use!EndPlain, Running, Closing, TakenIn
    <3>4. QED
      BY <3>3 DEF Use!Next, PoolMove
  <2>5. CASE pc[t] = "closing"
    <3>1. t \notin Running(d) /\ t \in Closing(d)
      BY <1>1, <1>4, <2>5 DEF Running, Closing, ThreadsAt
    <3>2. Use(d)!End(t)
      BY <2>1, <2>2, <2>3, <3>1 DEF Use!End, Running, Closing, TakenIn
    <3>3. QED
      BY <3>2 DEF Use!Next, PoolMove
  <2>6. QED
    BY <1>1, <2>4, <2>5
<1>5. QED
  BY <1>3, <1>4

LEMMA CommitOneMoves ==
  ASSUME TypeOK, Control, Account, NEW t \in Threads, CommitOne(t),
         NEW d \in Endpoints
  PROVE  PoolMove(d)
<1>1. Running(d)' = Running(d) /\ Closing(d)' = Closing(d)
        /\ TakenIn(d)' = TakenIn(d)
  BY DEF CommitOne, Running, Closing, TakenIn, ThreadsAt
<1>2. CASE d # name[t]
  <2>1. Unseen(d)
    BY <1>1, <1>2 DEF Unseen, CommitOne, TypeOK
  <2>2. QED
    BY <2>1, UnseenIsStutter DEF PoolMove
<1>3. CASE d = name[t]
  <2>1. /\ waiting[d] > 0 /\ waiting[d] \in Nat
        /\ waiting'[d] = waiting[d] - 1 /\ active'[d] = active[d] - 1
    BY <1>3, Counters DEF CommitOne, TypeOK
  <2>2. Running(d) # {}
    BY <2>1 DEF Account, WaitingHasRunner
  <2>3. Use(d)!Withdraw
    BY <1>1, <2>1, <2>2 DEF Use!Withdraw, Running, Closing, TakenIn
  <2>4. QED
    BY <2>3 DEF Use!Next, PoolMove
<1>4. QED
  BY <1>2, <1>3

(* Every other step of a thread leaves what the pools do alone.            *)
LEMMA OtherStepsUnseen ==
  ASSUME Careful, StoreInv, NEW t \in Threads, NEW d \in Endpoints,
         \/ \E u \in Uris : Begin(t, u)
         \/ UseExisting(t) \/ CreatePool(t) \/ TooManyPools(t) \/ Exhausted(t)
         \/ EraseDestroy(t) \/ CommitEnd(t) \/ StatusPool(t) \/ StatusEnd(t)
         \/ Call(t)
  PROVE  Unseen(d)
<1> USE DEF StoreInv
<1>1. gone = {} /\ name = [name EXCEPT ![t] = name[t]]
  BY DEF Control, TypeOK
<1>2. CASE \E u \in Uris : Begin(t, u)
  BY <1>1, <1>2, OutsideUnseen DEF Begin, Goto, InPool
<1>3. CASE UseExisting(t) \/ CreatePool(t)
  BY <1>1, <1>3, OutsideUnseen DEF UseExisting, CreatePool, Goto, InPool
<1>4. CASE TooManyPools(t) \/ Exhausted(t)
  BY <1>1, <1>4, OutsideUnseen
  DEF TooManyPools, Exhausted, Retire, Goto, InPool
<1>5. CASE EraseDestroy(t)
  BY <1>1, <1>5, EraseDestroyIdle, OutsideUnseen
  DEF EraseDestroy, Retire, Goto, InPool
<1>6. CASE CommitEnd(t) \/ StatusEnd(t)
  BY <1>1, <1>6, OutsideUnseen DEF CommitEnd, StatusEnd, Retire, Goto, InPool
<1>7. CASE StatusPool(t)
  BY <1>7, QuietUnseen DEF StatusPool
<1>8. CASE Call(t)
  <2>1. CASE \E e \in Endpoints : EraseCount(t, e) \/ CommitStart(t, e)
    BY <1>1, <2>1, OutsideUnseen DEF EraseCount, CommitStart, Goto, InPool
  <2>2. CASE \E e \in Endpoints : EraseRefused(t, e) \/ CommitNotFound(t, e)
    BY <2>2, QuietUnseen DEF EraseRefused, CommitNotFound, vars
  <2>3. CASE Clear(t)
    BY <1>1, <2>3, ClearIdle, QuietUnseen DEF Clear
  <2>4. CASE StatusStart(t)
    BY <1>1, <2>4, OutsideUnseen DEF StatusStart, Goto, InPool
  <2>5. QED
    BY <1>8, <2>1, <2>2, <2>3, <2>4 DEF Call
<1>9. QED
  BY <1>2, <1>3, <1>4, <1>5, <1>6, <1>7, <1>8

LEMMA EveryStepMoves ==
  ASSUME Careful, StoreInv, [Next]_vars, NEW d \in Endpoints
  PROVE  PoolMove(d)
<1>1. ASSUME Unseen(d) PROVE PoolMove(d)
  BY <1>1, UnseenIsStutter DEF PoolMove
<1>2. ASSUME NEW t \in Threads, NEW u \in Uris, Begin(t, u)
      PROVE  PoolMove(d)
  BY <1>1, <1>2, OtherStepsUnseen
<1>3. ASSUME NEW t \in Threads, Proceed(t)
      PROVE  PoolMove(d)
  BY <1>1, <1>3, OtherStepsUnseen, LeaseMoves, DeferMoves, TakeMoves,
     HandBackMoves, ReleaseMoves, CommitOneMoves DEF Proceed, StoreInv
<1>4. ASSUME NEW t \in Threads, Call(t)
      PROVE  PoolMove(d)
  BY <1>1, <1>4, OtherStepsUnseen
<1>5. ASSUME NEW n \in CountLimits, SetMaxPoolCount(n)
      PROVE  PoolMove(d)
  BY <1>1, <1>5, QuietUnseen DEF SetMaxPoolCount
<1>6. CASE UNCHANGED vars
  BY <1>1, <1>6, QuietUnseen DEF vars
<1>7. QED
  BY <1>2, <1>3, <1>4, <1>5, <1>6 DEF Next

(* The table, with its two locked halves of store::get and the operator's  *)
(* calls, gives the statements of each endpoint a pool as PoolUse has it.  *)
THEOREM EndpointsAreOnePool ==
  ASSUME Careful
  PROVE  Spec => EndpointIsOnePool
<1>1. Init => \A e \in Endpoints : Use(e)!Init
  <2> SUFFICES ASSUME Init, NEW e \in Endpoints PROVE Use(e)!Init
    OBVIOUS
  <2>1. Running(e) = {} /\ Closing(e) = {}
    BY DEF Init, Running, Closing, ThreadsAt
  <2>2. TakenIn(e) = [u \in Threads |-> 0]
    BY DEF Init, TakenIn
  <2>3. QED
    BY <2>1, <2>2 DEF Init, Use!Init, Running, Closing, TakenIn
<1>2. StoreInv /\ [Next]_vars =>
        [\A e \in Endpoints : Use(e)!Next \/ UNCHANGED Use(e)!vars]_vars
  BY EveryStepMoves DEF PoolMove
<1>3. QED
  BY <1>1, <1>2, StoreInvariant, PTL DEF Spec, EndpointIsOnePool
=============================================================================

---------------------------- MODULE LimitsProofs ----------------------------
(***************************************************************************)
(* Proofs about the options of capst::conf, for every width W, every       *)
(* number of callers and all bounds that satisfy ConfAssumption; and about *)
(* the lists of one pool under limits that change, for every number of     *)
(* threads and every limit.                                                *)
(***************************************************************************)
EXTENDS Limits, FiniteSetTheorems, TLAPS

\* An option is within the bounds of its setter.
Within(o, v) == v \in Size /\ Lowest[o] <= v /\ v <= Highest[o]

(* Every option is within its bounds, and so is the number a caller has    *)
(* put into initid->ptr and not yet returned.                              *)
OptionsWithin == \A o \in Options : Within(o, value[o])
PtrWithin == \A t \in Callers : pc[t] = "row" => Within(call[t].option, ptr[t])

ConfInv == TypeOK /\ OptionsWithin /\ PtrWithin

(* The bounds are numbers that a std::size_t holds.                        *)
LEMMA BoundsAreSizes ==
  ASSUME NEW o \in Options
  PROVE  /\ Lowest[o] \in Nat /\ Highest[o] \in Nat /\ Default[o] \in Nat
         /\ Lowest[o] <= Default[o] /\ Default[o] <= Highest[o]
         /\ Highest[o] < 2^W
         /\ 2^W \in Nat /\ 2^(W - 1) \in Nat /\ 2^W = 2 * 2^(W - 1)
BY ConfAssumption

(* std::max and std::min of a setter leave a number within its bounds,     *)
(* whatever number came in.                                                *)
LEMMA ClampWithin ==
  ASSUME NEW o \in Options, NEW v \in Size
  PROVE  Within(o, Clamp(o, v))
<1>1. v \in Int
  BY BoundsAreSizes DEF Size
<1>2. QED
  BY <1>1, BoundsAreSizes DEF Within, Clamp, Size

(* The conversions to and from the long long of SQL stay within the types. *)
LEMMA ToSizeType ==
  ASSUME NEW n \in Signed
  PROVE  ToSize(n) \in Size
<1>1. 2^W \in Nat /\ 2^(W - 1) \in Nat /\ 2^W = 2 * 2^(W - 1)
  BY ConfAssumption
<1>2. QED
  BY <1>1 DEF ToSize, Signed, Size

LEMMA ToSignedType ==
  ASSUME NEW v \in Size
  PROVE  ToSigned(v) \in Signed
<1>1. 2^W \in Nat /\ 2^(W - 1) \in Nat /\ 2^W = 2 * 2^(W - 1)
  BY ConfAssumption
<1>2. QED
  BY <1>1 DEF ToSigned, Signed, Size

(* A std::size_t survives the two casts of its way out.                    *)
LEMMA SizeRoundTrip ==
  ASSUME NEW v \in Size
  PROVE  ToSize(ToSigned(v)) = v
<1>1. 2^W \in Nat /\ 2^(W - 1) \in Nat /\ 2^W = 2 * 2^(W - 1)
  BY ConfAssumption
<1>2. QED
  BY <1>1 DEF ToSigned, ToSize, Size

(* No option but verbose can be zero, the value that stands for an error.  *)
LEMMA WithinIsNotZero ==
  ASSUME NEW o \in Options, o # "verbose", NEW v, Within(o, v)
  PROVE  v # 0
<1>1. Lowest[o] > 0
  BY ConfAssumption
<1>2. v \in Int
  BY BoundsAreSizes DEF Within, Size
<1>3. QED
  BY <1>1, <1>2, BoundsAreSizes DEF Within

LEMMA ZeroFits == 0 \in Size /\ 0 \in Signed
<1>1. 2^(W - 1) > 0
  <2>1. Lowest["timeout"] > 0 /\ Highest["timeout"] < 2^(W - 1)
    BY ConfAssumption DEF Options
  <2>2. "timeout" \in Options
    BY DEF Options
  <2>3. QED
    BY <2>1, <2>2, BoundsAreSizes
<1>2. QED
  BY <1>1, ConfAssumption DEF Size, Signed

LEMMA ConfInit == Init => ConfInv
<1> SUFFICES ASSUME Init PROVE ConfInv
  OBVIOUS
<1>1. OptionsWithin
  BY BoundsAreSizes DEF Init, OptionsWithin, Within, Size
<1>2. TypeOK
  <2>1. value \in [Options -> Size]
    BY BoundsAreSizes, ConfAssumption DEF Init, Size
  <2>2. NoCall \in [option : Options, arg : Size]
    BY ZeroFits DEF NoCall, Options
  <2>3. NoAnswer \in [value : Signed, error : BOOLEAN]
    BY ZeroFits DEF NoAnswer
  <2>4. QED
    BY <2>1, <2>2, <2>3, ZeroFits DEF Init, TypeOK, Phase
<1>3. PtrWithin
  BY DEF Init, PtrWithin
<1>4. QED
  BY <1>1, <1>2, <1>3 DEF ConfInv

(* The invariant, step by step of a caller.                                *)
LEMMA StepPreservesConfInv ==
  ASSUME ConfInv, NEW t \in Callers, Step(t)
  PROVE  ConfInv'
<1> USE DEF ConfInv
<1>1. ASSUME NEW o \in Used[t], NEW n \in Arguments, CallSet(t, o, n)
      PROVE  ConfInv'
  <2>1. o \in Options /\ ToSize(n) \in Size
    BY ConfAssumption, ToSizeType DEF Signed
  <2>2. TypeOK'
    <3>1. [option |-> o, arg |-> ToSize(n)] \in [option : Options, arg : Size]
      BY <2>1
    <3>2. NoAnswer \in [value : Signed, error : BOOLEAN]
      BY ZeroFits DEF NoAnswer
    <3>3. QED
      BY <1>1, <3>1, <3>2 DEF TypeOK, CallSet, Goto, Phase
  <2>3. QED
    BY <1>1, <2>2 DEF TypeOK, CallSet, Goto, OptionsWithin, PtrWithin
<1>2. ASSUME NEW o \in Options, CallRead(t, o)
      PROVE  ConfInv'
  <2>1. TypeOK'
    <3>1. [option |-> o, arg |-> 0] \in [option : Options, arg : Size]
      BY ZeroFits
    <3>2. NoAnswer \in [value : Signed, error : BOOLEAN]
      BY ZeroFits DEF NoAnswer
    <3>3. QED
      BY <1>2, <3>1, <3>2 DEF TypeOK, CallRead, Goto, Phase
  <2>2. QED
    BY <1>2, <2>1 DEF TypeOK, CallRead, Goto, OptionsWithin, PtrWithin
<1>3. ASSUME CallBad(t)
      PROVE  ConfInv'
  <2>1. NoAnswer \in [value : Signed, error : BOOLEAN]
    BY ZeroFits DEF NoAnswer
  <2>2. QED
    BY <1>3, <2>1 DEF TypeOK, CallBad, OptionsWithin, PtrWithin
<1>4. ASSUME Set(t)
      PROVE  ConfInv'
  <2> DEFINE o == call[t].option
  <2>1. o \in Options /\ Within(o, Clamp(o, call[t].arg))
    BY ClampWithin DEF TypeOK
  <2>2. OptionsWithin'
    BY <1>4, <2>1 DEF TypeOK, Set, OptionsWithin
  <2>3. TypeOK'
    BY <1>4, <2>1 DEF TypeOK, Set, Goto, Phase, Within
  <2>4. PtrWithin'
    BY <1>4 DEF TypeOK, Set, Goto, PtrWithin
  <2>5. QED
    BY <2>2, <2>3, <2>4
<1>5. ASSUME SetLevel(t)
      PROVE  ConfInv'
  <2>1. Levels(Clamp("verbose", call[t].arg)) \in SUBSET {"err", "notice", "debug"}
    <3>1. Clamp("verbose", call[t].arg) \in Int
      BY ClampWithin, BoundsAreSizes DEF TypeOK, Options, Within, Size
    <3>2. QED
      BY <3>1 DEF Levels
  <2>2. QED
    BY <1>5, <2>1
    DEF TypeOK, SetLevel, Goto, Phase, OptionsWithin, PtrWithin
<1>6. ASSUME Read(t)
      PROVE  ConfInv'
  <2>1. call[t].option \in Options
    BY DEF TypeOK
  <2>2. Within(call[t].option, value[call[t].option])
    BY <2>1 DEF OptionsWithin
  <2>3. QED
    BY <1>6, <2>1, <2>2
    DEF TypeOK, Read, Goto, Phase, OptionsWithin, PtrWithin, Within
<1>7. ASSUME Row(t)
      PROVE  ConfInv'
  <2>1. ToSigned(ptr[t]) \in Signed
    BY ToSignedType DEF TypeOK
  <2>2. TypeOK'
    <3>1. NoCall \in [option : Options, arg : Size]
      BY ZeroFits DEF NoCall, Options
    <3>2. (ptr[t] = 0 /\ call[t].option # "verbose") \in BOOLEAN
      OBVIOUS
    <3>3. QED
      BY <1>7, <2>1, <3>1, <3>2, ZeroFits DEF TypeOK, Row, Goto, Phase
  <2>3. QED
    BY <1>7, <2>2 DEF TypeOK, Row, Goto, OptionsWithin, PtrWithin
<1>8. QED
  BY <1>1, <1>2, <1>3, <1>4, <1>5, <1>6, <1>7 DEF Step

LEMMA ConfStep == ConfInv /\ [Next]_vars => ConfInv'
<1> SUFFICES ASSUME ConfInv, [Next]_vars PROVE ConfInv'
  OBVIOUS
<1>1. CASE Next
  BY <1>1, StepPreservesConfInv DEF Next
<1>2. CASE UNCHANGED vars
  BY <1>2 DEF vars, ConfInv, TypeOK, OptionsWithin, PtrWithin
<1>3. QED
  BY <1>1, <1>2

(* The invariant holds always; the theorems below follow from it.          *)
LEMMA ConfInvariant == Spec => []ConfInv
BY ConfInit, ConfStep, PTL DEF Spec

(* Types: every option, converted argument, pointer and answer fits the    *)
(* integer the code keeps it in, in spite of negative arguments.           *)
THEOREM ConfTypes == Spec => []TypeOK
<1>1. ConfInv => TypeOK
  BY DEF ConfInv
<1>2. QED
  BY <1>1, ConfInvariant, PTL

(* No number passed to capstomp_timeout() lets poll() wait without end.    *)
THEOREM EveryPollEnds == Spec => []PollEnds
<1>1. ConfInv => PollEnds
  <2> SUFFICES ASSUME ConfInv PROVE PollEnds
    OBVIOUS
  <2>1. "timeout" \in Options
    BY DEF Options
  <2>2. /\ value["timeout"] \in Int
        /\ Lowest["timeout"] > 0 /\ Lowest["timeout"] <= value["timeout"]
        /\ value["timeout"] <= Highest["timeout"]
        /\ Highest["timeout"] < 2^(W - 1)
    BY <2>1, ConfAssumption, BoundsAreSizes
    DEF ConfInv, OptionsWithin, Within, Size
  <2>3. QED
    BY <2>1, <2>2, BoundsAreSizes DEF PollEnds, ToSigned
<1>2. QED
  BY <1>1, ConfInvariant, PTL

(* A call with good arguments never reports an error and returns a number  *)
(* that converts back to a value within the bounds of its option.          *)
THEOREM EveryAnswerIsValid == Spec => AnswersAreValid
<1> DEFINE Valid(t) ==
      pc[t] = "row" /\ pc'[t] = "idle" =>
        LET o == call[t].option  v == ToSize(answer'[t].value) IN
        /\ ~answer'[t].error
        /\ Lowest[o] <= v /\ v <= Highest[o]
<1>1. ASSUME ConfInv, [Next]_vars, NEW t \in Callers,
             pc[t] = "row", pc'[t] = "idle"
      PROVE  Valid(t)
  <2>1. PICK u \in Callers : Step(u)
    BY <1>1 DEF Next, vars
  <2>2. Row(t)
    BY <1>1, <2>1
    DEF Step, CallSet, CallRead, CallBad, Set, SetLevel, Read, Row, Goto,
        ConfInv, TypeOK
  <2>3. /\ answer'[t].value = ToSigned(ptr[t])
        /\ answer'[t].error = (ptr[t] = 0 /\ call[t].option # "verbose")
    <3>1. answer \in [Callers -> [value : Signed, error : BOOLEAN]]
      BY <1>1 DEF ConfInv, TypeOK
    <3>2. answer'[t] =
            [value |-> ToSigned(ptr[t]),
             error |-> ptr[t] = 0 /\ call[t].option # "verbose"]
      BY <2>2, <3>1 DEF Row
    <3>3. QED
      BY <3>2
  <2>4. call[t].option \in Options /\ Within(call[t].option, ptr[t])
    BY <1>1 DEF ConfInv, TypeOK, PtrWithin
  <2>5. ToSize(answer'[t].value) = ptr[t]
    BY <2>3, <2>4, SizeRoundTrip DEF Within
  <2>6. ~answer'[t].error
    BY <2>3, <2>4, WithinIsNotZero
  <2>7. QED
    BY <2>4, <2>5, <2>6 DEF Within
<1>2. ConfInv /\ [Next]_vars => [\A t \in Callers : Valid(t)]_vars
  BY <1>1
<1>3. QED
  BY <1>2, ConfInvariant, PTL DEF Spec, AnswersAreValid

-----------------------------------------------------------------------------
(***************************************************************************)
(* The lists of a pool                                                     *)
(***************************************************************************)

(* What is proved of conf holds while pools read its limits.               *)
THEOREM LimitsRunConf == LimitsSpec => Spec
<1>1. LimitsStart => Init
  BY DEF LimitsStart
<1>2. [LimitsNext]_allVars => [Next]_vars
  BY DEF LimitsNext, Configure, allVars
<1>3. QED
  BY <1>1, <1>2, PTL DEF LimitsSpec, Spec

(* The statements that have a connection account for active_.              *)
Holding == {u \in Users : phase[u] \in {"using", "release"}}
ActiveIsHeld == active = Cardinality(Holding)

(* A limit that a thread has read is not above the largest one there was,  *)
(* and neither is the present one.                                         *)
LimitsSeen ==
  /\ value["max_pool_sockets"] <= most
  /\ value["pool_sockets"] <= mostKept
  /\ \A u \in Users : phase[u] = "get" => limit[u] <= most
  /\ \A u \in Users : phase[u] = "release" => limit[u] <= mostKept

LimitsInv ==
  /\ ConfInv /\ PoolTypeOK
  /\ ActiveIsHeld /\ LimitsSeen /\ SocketsBounded /\ KeptBounded

LEMMA SizesAreNumbers == \A v \in Size : v \in Int /\ v >= 0
BY ConfAssumption DEF Size

LEMMA HoldingIsFinite == IsFiniteSet(Holding) /\ Cardinality(Holding) \in Nat
<1>1. IsFiniteSet(Holding)
  BY UsersAssumption, FS_Subset DEF Holding
<1>2. QED
  BY <1>1, FS_CardinalityType

(* A statement that gets or gives back a connection joins or leaves those  *)
(* that have one.                                                          *)
LEMMA HoldingGrows ==
  ASSUME PoolTypeOK, ActiveIsHeld, NEW u \in Users, phase[u] = "get",
         phase' = [phase EXCEPT ![u] = "using"], active' = active + 1
  PROVE  ActiveIsHeld'
<1>1. Holding' = Holding \cup {u} /\ u \notin Holding
  BY DEF Holding, PoolTypeOK
<1>2. Cardinality(Holding \cup {u}) = Cardinality(Holding) + 1
  BY <1>1, HoldingIsFinite, FS_AddElement
<1>3. QED
  BY <1>1, <1>2 DEF ActiveIsHeld

LEMMA HoldingShrinks ==
  ASSUME PoolTypeOK, ActiveIsHeld, NEW u \in Users, phase[u] = "release",
         phase' = [phase EXCEPT ![u] = "idle"], active' = active - 1
  PROVE  ActiveIsHeld' /\ active' \in Nat
<1>1. Holding' = Holding \ {u} /\ u \in Holding
  BY DEF Holding, PoolTypeOK
<1>2. Cardinality(Holding \ {u}) = Cardinality(Holding) - 1
  BY <1>1, HoldingIsFinite, FS_RemoveElement
<1>3. IsFiniteSet(Holding \ {u})
  BY HoldingIsFinite, FS_Subset
<1>4. Cardinality(Holding \ {u}) \in Nat
  BY <1>3, FS_CardinalityType
<1>5. QED
  BY <1>1, <1>2, <1>4 DEF ActiveIsHeld

LEMMA HoldingStays ==
  ASSUME PoolTypeOK, ActiveIsHeld, NEW u \in Users, NEW f,
         phase[u] \in {"using", "release"} <=> f \in {"using", "release"},
         phase' = [phase EXCEPT ![u] = f], active' = active
  PROVE  ActiveIsHeld'
<1>1. Holding' = Holding
  BY DEF Holding, PoolTypeOK
<1>2. QED
  BY <1>1 DEF ActiveIsHeld

LEMMA LimitsInit == Init /\ PoolInit => LimitsInv
<1> SUFFICES ASSUME Init, PoolInit PROVE LimitsInv
  OBVIOUS
<1>1. ConfInv
  BY ConfInit
<1>2. /\ Default["max_pool_sockets"] \in Size
      /\ Default["pool_sockets"] \in Size
  BY BoundsAreSizes DEF Options, Size
<1>3. PoolTypeOK
  BY <1>2, ZeroFits DEF PoolInit, PoolTypeOK
<1>4. ActiveIsHeld
  <2>1. Holding = {}
    BY DEF PoolInit, Holding
  <2>2. QED
    BY <2>1, FS_EmptySet DEF PoolInit, ActiveIsHeld
<1>5. LimitsSeen /\ SocketsBounded /\ KeptBounded
  BY <1>2, SizesAreNumbers
  DEF Init, PoolInit, LimitsSeen, SocketsBounded, KeptBounded, Options
<1>6. QED
  BY <1>1, <1>3, <1>4, <1>5 DEF LimitsInv

(* A step of Conf can only raise what the bounds are measured by.          *)
LEMMA ConfigurePreserves ==
  ASSUME LimitsInv, Configure
  PROVE  LimitsInv'
<1>1. ConfInv'
  BY ConfStep DEF LimitsInv, Configure
<1>2. /\ value'["max_pool_sockets"] \in Size
      /\ value'["pool_sockets"] \in Size
  BY <1>1 DEF ConfInv, TypeOK, Options
<1>3. most \in Size /\ mostKept \in Size
  BY DEF LimitsInv, PoolTypeOK
<1>4. /\ most' \in Size /\ most <= most' /\ value'["max_pool_sockets"] <= most'
      /\ mostKept' \in Size /\ mostKept <= mostKept'
      /\ value'["pool_sockets"] <= mostKept'
  BY <1>2, <1>3, SizesAreNumbers DEF Configure, Larger
<1>5. PoolTypeOK'
  BY <1>4 DEF LimitsInv, PoolTypeOK, Configure, pool
<1>6. ActiveIsHeld'
  BY DEF LimitsInv, ActiveIsHeld, Holding, Configure, pool
<1>7. LimitsSeen' /\ SocketsBounded' /\ KeptBounded'
  BY <1>3, <1>4, SizesAreNumbers
  DEF LimitsInv, LimitsSeen, SocketsBounded, KeptBounded, PoolTypeOK,
      Configure, pool
<1>8. QED
  BY <1>1, <1>5, <1>6, <1>7 DEF LimitsInv

(* A step of a statement on the pool, action by action.                    *)
LEMMA UsePreserves ==
  ASSUME LimitsInv, NEW u \in Users, Use(u), UNCHANGED <<vars, most, mostKept>>
  PROVE  LimitsInv'
<1> USE DEF LimitsInv
<1>1. ConfInv'
  BY ConfStep
<1>2. /\ active \in Nat /\ ready \in Nat /\ most \in Int /\ mostKept \in Int
      /\ \A w \in Users : limit[w] \in Int
  BY SizesAreNumbers DEF PoolTypeOK
<1>3. CASE GetBegin(u)
  <2>1. /\ value["max_pool_sockets"] \in Size
        /\ value["max_pool_sockets"] <= most
    BY DEF ConfInv, TypeOK, Options, LimitsSeen
  <2>2. PoolTypeOK'
    BY <1>3, <2>1 DEF GetBegin, Enter, PoolTypeOK
  <2>3. ActiveIsHeld'
    BY <1>3, HoldingStays DEF GetBegin, Enter
  <2>4. LimitsSeen' /\ SocketsBounded' /\ KeptBounded'
    BY <1>3, <2>1
    DEF GetBegin, Enter, PoolTypeOK, LimitsSeen, SocketsBounded, KeptBounded,
        vars
  <2>5. QED
    BY <1>1, <2>2, <2>3, <2>4
<1>4. CASE GetReady(u)
  <2>1. PoolTypeOK'
    BY <1>4, <1>2, ZeroFits DEF GetReady, Enter, PoolTypeOK
  <2>2. ActiveIsHeld'
    BY <1>4, HoldingGrows DEF GetReady, Enter
  <2>3. LimitsSeen' /\ SocketsBounded' /\ KeptBounded'
    BY <1>4, <1>2
    DEF GetReady, Enter, PoolTypeOK, LimitsSeen, SocketsBounded, KeptBounded,
        vars
  <2>4. QED
    BY <1>1, <2>1, <2>2, <2>3
<1>5. CASE GetNew(u)
  <2>1. PoolTypeOK'
    BY <1>5, <1>2, ZeroFits DEF GetNew, Enter, PoolTypeOK
  <2>2. ActiveIsHeld'
    BY <1>5, HoldingGrows DEF GetNew, Enter
  <2>3. limit[u] <= most
    BY <1>5 DEF GetNew, LimitsSeen
  <2>4. LimitsSeen' /\ SocketsBounded' /\ KeptBounded'
    BY <1>5, <1>2, <2>3
    DEF GetNew, Enter, PoolTypeOK, LimitsSeen, SocketsBounded, KeptBounded,
        vars
  <2>5. QED
    BY <1>1, <2>1, <2>2, <2>4
<1>6. CASE GetExhausted(u)
  <2>1. PoolTypeOK'
    BY <1>6, ZeroFits DEF GetExhausted, Enter, PoolTypeOK
  <2>2. ActiveIsHeld'
    BY <1>6, HoldingStays DEF GetExhausted, Enter
  <2>3. LimitsSeen' /\ SocketsBounded' /\ KeptBounded'
    BY <1>6
    DEF GetExhausted, Enter, PoolTypeOK, LimitsSeen, SocketsBounded,
        KeptBounded, vars
  <2>4. QED
    BY <1>1, <2>1, <2>2, <2>3
<1>7. CASE ReleaseBegin(u)
  <2>1. value["pool_sockets"] \in Size /\ value["pool_sockets"] <= mostKept
    BY DEF ConfInv, TypeOK, Options, LimitsSeen
  <2>2. PoolTypeOK'
    BY <1>7, <2>1 DEF ReleaseBegin, Enter, PoolTypeOK
  <2>3. ActiveIsHeld'
    BY <1>7, HoldingStays DEF ReleaseBegin, Enter
  <2>4. LimitsSeen' /\ SocketsBounded' /\ KeptBounded'
    BY <1>7, <2>1
    DEF ReleaseBegin, Enter, PoolTypeOK, LimitsSeen, SocketsBounded,
        KeptBounded, vars
  <2>5. QED
    BY <1>1, <2>2, <2>3, <2>4
<1>8. CASE Keep(u)
  <2>1. ActiveIsHeld' /\ active' \in Nat
    BY <1>8, HoldingShrinks DEF Keep, Enter
  <2>2. PoolTypeOK'
    BY <1>8, <2>1, ZeroFits DEF Keep, Enter, PoolTypeOK
  <2>3. limit[u] <= mostKept
    BY <1>8 DEF Keep, LimitsSeen
  <2>4. LimitsSeen' /\ SocketsBounded' /\ KeptBounded'
    BY <1>8, <1>2, <2>3
    DEF Keep, Enter, PoolTypeOK, LimitsSeen, SocketsBounded, KeptBounded, vars
  <2>5. QED
    BY <1>1, <2>1, <2>2, <2>4
<1>9. CASE Erase(u)
  <2>1. ActiveIsHeld' /\ active' \in Nat
    BY <1>9, HoldingShrinks DEF Erase, Enter
  <2>2. PoolTypeOK'
    BY <1>9, <2>1, ZeroFits DEF Erase, Enter, PoolTypeOK
  <2>3. LimitsSeen' /\ SocketsBounded' /\ KeptBounded'
    BY <1>9, <1>2
    DEF Erase, Enter, PoolTypeOK, LimitsSeen, SocketsBounded, KeptBounded, vars
  <2>4. QED
    BY <1>1, <2>1, <2>2, <2>3
<1>10. QED
  BY <1>3, <1>4, <1>5, <1>6, <1>7, <1>8, <1>9 DEF Use

LEMMA LimitsStep == LimitsInv /\ [LimitsNext]_allVars => LimitsInv'
<1> SUFFICES ASSUME LimitsInv, [LimitsNext]_allVars PROVE LimitsInv'
  OBVIOUS
<1>1. CASE Configure
  BY <1>1, ConfigurePreserves
<1>2. CASE \E u \in Users : Use(u) /\ UNCHANGED <<vars, most, mostKept>>
  BY <1>2, UsePreserves
<1>3. CASE UNCHANGED allVars
  <2>1. ConfInv'
    BY <1>3, ConfStep DEF LimitsInv, allVars
  <2>2. QED
    BY <1>3, <2>1
    DEF allVars, pool, vars, LimitsInv, PoolTypeOK, ActiveIsHeld, Holding,
        LimitsSeen, SocketsBounded, KeptBounded
<1>4. QED
  BY <1>1, <1>2, <1>3 DEF LimitsNext

LEMMA LimitsInvariant == LimitsSpec => []LimitsInv
BY LimitsInit, LimitsStep, PTL DEF LimitsSpec, LimitsStart

(* Types: no list has fewer than no connections.                           *)
THEOREM PoolTypes == LimitsSpec => []PoolTypeOK
<1>1. LimitsInv => PoolTypeOK
  BY DEF LimitsInv
<1>2. QED
  BY <1>1, LimitsInvariant, PTL

(* The sockets of a pool never outnumber the largest limit there was.      *)
THEOREM SocketsAreBounded == LimitsSpec => []SocketsBounded
<1>1. LimitsInv => SocketsBounded
  BY DEF LimitsInv
<1>2. QED
  BY <1>1, LimitsInvariant, PTL

(* The connections kept never outnumber the largest pool_sockets there was.*)
THEOREM KeptAreBounded == LimitsSpec => []KeptBounded
<1>1. LimitsInv => KeptBounded
  BY DEF LimitsInv
<1>2. QED
  BY <1>1, LimitsInvariant, PTL

(* No socket is added to a pool at or above the limit, once every waiting  *)
(* thread has read the present one.                                        *)
THEOREM PoolGrowsBelowLimit == LimitsSpec => GrowsBelowLimit
<1> DEFINE Grows ==
      /\ active' + ready' > active + ready
      /\ \A u \in Users :
           phase[u] = "get" => limit[u] <= value["max_pool_sockets"]
<1>1. ASSUME LimitsInv, LimitsNext, Grows
      PROVE  active + ready < value["max_pool_sockets"]
  <2>1. active \in Nat /\ ready \in Nat
    BY <1>1 DEF LimitsInv, PoolTypeOK
  <2>2. PICK u \in Users : Use(u)
    BY <1>1, <2>1 DEF LimitsNext, Configure, pool
  <2>3. GetNew(u)
    BY <1>1, <2>1, <2>2
    DEF Use, GetBegin, GetReady, GetExhausted, ReleaseBegin, Keep, Erase
  <2>4. limit[u] \in Int /\ value["max_pool_sockets"] \in Int
    BY <1>1, SizesAreNumbers
    DEF LimitsInv, PoolTypeOK, ConfInv, TypeOK, Options
  <2>5. QED
    BY <1>1, <2>1, <2>3, <2>4 DEF GetNew
<1>2. LimitsInv /\ [LimitsNext]_allVars =>
        [Grows => active + ready < value["max_pool_sockets"]]_allVars
  BY <1>1
<1>3. QED
  BY <1>2, LimitsInvariant, PTL DEF LimitsSpec, GrowsBelowLimit
=============================================================================

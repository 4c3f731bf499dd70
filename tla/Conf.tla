-------------------------------- MODULE Conf --------------------------------
(***************************************************************************)
(* capst::conf (conf.cpp) and the functions that read and set it:          *)
(* capstomp_timeout, capstomp_max_pool_count, capstomp_max_pool_sockets,   *)
(* capstomp_pool_sockets, capstomp_request_limit, capstomp_verbose; and    *)
(* the level of the journal, which follows the last one.                   *)
(*                                                                         *)
(* Nothing is locked: a step is one load or store of a shared value.       *)
(* Numbers have W bits, where the code has 64.                             *)
(***************************************************************************)
EXTENDS Integers

CONSTANTS
  Callers,     \* threads that call the functions
  Used,        \* per caller: the options it sets
  Arguments,   \* the long long values they pass
  W,           \* width of std::size_t
  Lowest,      \* per option: the minimum its setter enforces, 0 where none
  Highest,     \* per option: the maximum its setter enforces, 2^W - 1 where none
  Default      \* per option: the value it starts with

Options == {"timeout", "max_pool_count", "max_pool_sockets", "pool_sockets",
            "request_limit", "verbose"}

\* verbose_max; with it 0 errors, 1 notices, 2 traces.
VerboseMax == 2

ASSUME ConfAssumption ==
  /\ W \in Nat /\ 2^W \in Nat /\ 2^(W - 1) \in Nat /\ 2^W = 2 * 2^(W - 1)
  /\ Used \in [Callers -> SUBSET Options]
  /\ Arguments \subseteq -(2^(W - 1)) .. 2^(W - 1) - 1
  /\ Lowest \in [Options -> Nat] /\ Highest \in [Options -> Nat]
  /\ Default \in [Options -> Nat]
  /\ \A o \in Options : /\ Lowest[o] <= Default[o] /\ Default[o] <= Highest[o]
                        /\ Highest[o] < 2^W
  /\ \A o \in Options \ {"verbose"} : Lowest[o] > 0
  /\ Highest["timeout"] < 2^(W - 1)
  /\ Highest["verbose"] = VerboseMax /\ Default["verbose"] = 1

VARIABLES
  value,   \* the members of conf
  mask,    \* journal::mask_, the levels that are written
  pc,      \* per caller: where its call stands
  call,    \* per caller: the option and the converted argument of its call
  ptr,     \* per caller: initid->ptr
  answer   \* per caller: what its current or last call returned

vars == <<value, mask, pc, call, ptr, answer>>

NoCall == [option |-> "timeout", arg |-> 0]
NoAnswer == [value |-> 0, error |-> FALSE]

-----------------------------------------------------------------------------
(***************************************************************************)
(* Conversions                                                             *)
(***************************************************************************)

Signed == -(2^(W - 1)) .. 2^(W - 1) - 1
Size   == 0 .. 2^W - 1

\* Mutant: the argument is not converted.
ToSizeNot(n) == n

\* static_cast<std::size_t> of a long long
ToSize(n) == IF n < 0 THEN n + 2^W ELSE n

\* static_cast<long long> of an intptr_t that holds a size_t
ToSigned(v) == IF v >= 2^(W - 1) THEN v - 2^W ELSE v

\* Mutants: the maximum of the timeout, or the minimum of a limit, is not
\* enforced.
ClampBelow(o, v) == IF v < Lowest[o] THEN Lowest[o] ELSE v
ClampAbove(o, v) == IF v > Highest[o] THEN Highest[o] ELSE v

\* std::max with the minimum, std::min with the maximum.
Clamp(o, v) ==
  IF v < Lowest[o] THEN Lowest[o] ELSE IF v > Highest[o] THEN Highest[o] ELSE v

\* journal::set_level: LOG_UPTO
Levels(v) ==
  CASE v > 1 -> {"err", "notice", "debug"}
    [] v = 1 -> {"err", "notice"}
    [] v < 1 -> {"err"}

-----------------------------------------------------------------------------
(***************************************************************************)
(* The functions                                                           *)
(***************************************************************************)
Phase == {"idle", "set", "level", "read", "row"}

TypeOK ==
  /\ value \in [Options -> Size]
  /\ mask \in SUBSET {"err", "notice", "debug"}
  /\ pc \in [Callers -> Phase]
  /\ call \in [Callers -> [option : Options, arg : Size]]
  /\ ptr \in [Callers -> Size]
  /\ answer \in [Callers -> [value : Signed, error : BOOLEAN]]

\* journal::journal allows notices.
Init ==
  /\ value = Default
  /\ mask = {"err", "notice"}
  /\ pc = [t \in Callers |-> "idle"]
  /\ call = [t \in Callers |-> NoCall]
  /\ ptr = [t \in Callers |-> 0]
  /\ answer = [t \in Callers |-> NoAnswer]

Goto(t, phase) == pc' = [pc EXCEPT ![t] = phase]

\* xxx_init with one integer, or with no argument.
CallSet(t, o, n) ==
  /\ pc[t] = "idle"
  /\ call' = [call EXCEPT ![t] = [option |-> o, arg |-> ToSize(n)]]
  /\ Goto(t, "set")
  /\ answer' = [answer EXCEPT ![t] = NoAnswer]
  /\ UNCHANGED <<value, mask, ptr>>

CallRead(t, o) ==
  /\ pc[t] = "idle"
  /\ call' = [call EXCEPT ![t] = [option |-> o, arg |-> 0]]
  /\ Goto(t, "read")
  /\ answer' = [answer EXCEPT ![t] = NoAnswer]
  /\ UNCHANGED <<value, mask, ptr>>

\* Any other arguments: xxx_init returns 1.
CallBad(t) ==
  /\ pc[t] = "idle"
  /\ answer' = [answer EXCEPT ![t] = NoAnswer]
  /\ UNCHANGED <<value, mask, pc, call, ptr>>

\* conf::set_xxx; set_verbose goes on to the journal.
Set(t) ==
  LET o == call[t].option IN
  /\ pc[t] = "set"
  /\ value' = [value EXCEPT ![o] = Clamp(o, call[t].arg)]
  /\ Goto(t, IF o = "verbose" THEN "level" ELSE "read")
  /\ UNCHANGED <<mask, call, ptr, answer>>

SetLevel(t) ==
  /\ pc[t] = "level"
  /\ mask' = Levels(Clamp("verbose", call[t].arg))
  /\ Goto(t, "read")
  /\ UNCHANGED <<value, call, ptr, answer>>

\* initid->ptr takes the value that is there now.
Read(t) ==
  /\ pc[t] = "read"
  /\ ptr' = [ptr EXCEPT ![t] = value[call[t].option]]
  /\ Goto(t, "row")
  /\ UNCHANGED <<value, mask, call, answer>>

\* The function itself: a null pointer means an error, except for verbose.
Row(t) ==
  LET o == call[t].option IN
  /\ pc[t] = "row"
  /\ answer' = [answer EXCEPT ![t] =
       [value |-> ToSigned(ptr[t]), error |-> ptr[t] = 0 /\ o # "verbose"]]
  /\ call' = [call EXCEPT ![t] = NoCall]
  /\ ptr' = [ptr EXCEPT ![t] = 0]
  /\ Goto(t, "idle")
  /\ UNCHANGED <<value, mask>>

Step(t) ==
  \/ \E o \in Used[t], n \in Arguments : CallSet(t, o, n)
  \/ \E o \in Options : CallRead(t, o)
  \/ CallBad(t)
  \/ Set(t) \/ SetLevel(t) \/ Read(t) \/ Row(t)

Next == \E t \in Callers : Step(t)

Spec == Init /\ [][Next]_vars
-----------------------------------------------------------------------------
(***************************************************************************)
(* Properties                                                              *)
(***************************************************************************)

(* Every poll() for the broker ends: the timeout, whatever number was      *)
(* passed for it, is a positive one for the int that poll() takes          *)
(* (conf.cpp:13, 115; connection.cpp:482, 690).  Module Connection takes   *)
(* this for granted.                                                       *)
PollEnds == ToSigned(value["timeout"]) > 0

(* The functions tell a value of zero from an error by nothing but the     *)
(* null pointer, and cast twice on the way out: a call with good arguments *)
(* never reports an error, and what it returns converts back to a value    *)
(* within the bounds of its option (conf.cpp:108-148, 330-347).            *)
AnswersAreValid ==
  [][\A t \in Callers : pc[t] = "row" /\ pc'[t] = "idle" =>
       LET o == call[t].option  v == ToSize(answer'[t].value) IN
       /\ ~answer'[t].error
       /\ Lowest[o] <= v /\ v <= Highest[o]]_vars
=============================================================================

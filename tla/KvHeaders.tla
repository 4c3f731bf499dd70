----------------------------- MODULE KvHeaders ------------------------------
(***************************************************************************)
(* The headers of a message (udf.cpp:145-265, 299-304): the arguments of   *)
(* capstomp() after the third hold pairs key=value joined by &, and each   *)
(* pair becomes a header of the frame; capstomp_json() adds a content type *)
(* when they have none.                                                    *)
(*                                                                         *)
(* A step is one turn of a loop.  The pointers ptr, curr and end of the    *)
(* code are positions in the argument; end is one past the last character. *)
(***************************************************************************)
EXTENDS Naturals, Sequences, FiniteSets, SequencesExt

CONSTANTS
  Characters,    \* what arguments are made of
  Inputs,        \* sequences of arguments
  ContentType,   \* the key "content-type"
  Json           \* the header content_type_json()

ASSUME InputsAssumption ==
  Inputs \subseteq Seq([text : Seq(Characters), is_string : BOOLEAN])

Equals == "="
Ampersand == "&"

VARIABLES
  args,    \* the arguments from the fourth on
  json,    \* capstomp_json, not capstomp
  pc,      \* which loop runs
  i,       \* the argument at hand
  ptr,     \* begin of the part of the argument that is left
  curr,    \* end of the pair found last
  frame,   \* the headers pushed
  custom   \* custom_content_type

vars == <<args, json, pc, i, ptr, curr, frame, custom>>

Start ==
  /\ pc = "args"
  /\ i = 1 /\ ptr = 1 /\ curr = 1
  /\ frame = <<>> /\ custom = FALSE

Init == args \in Inputs /\ json \in BOOLEAN /\ Start

Text == args[i].text
End == Len(Text) + 1

\* std::find_first_of: q is the first place of c in s from ptr on, or end.
FoundAt(s, c, from, end, q) ==
  /\ q \in from..end
  /\ q < end => s[q] = c
  /\ \A r \in from..(q - 1) : s[r] # c

-----------------------------------------------------------------------------
(***************************************************************************)
(* capstomp_fill_headers                                                   *)
(***************************************************************************)

\* A string with at least one character is split, any other is passed over.
EnterArg ==
  /\ pc = "args" /\ i \in DOMAIN args
  /\ args[i].is_string /\ Text # <<>>
  /\ pc' = "split" /\ ptr' = 1 /\ curr' = 1
  /\ UNCHANGED <<args, json, i, frame, custom>>

SkipArg ==
  /\ pc = "args" /\ i \in DOMAIN args
  /\ ~args[i].is_string \/ Text = <<>>
  /\ i' = i + 1
  /\ UNCHANGED <<args, json, pc, ptr, curr, frame, custom>>

\* capstomp_content adds the default once all arguments are read.
LastArg ==
  /\ pc = "args" /\ i \notin DOMAIN args
  /\ pc' = "done"
  /\ frame' = IF json /\ ~custom THEN Append(frame, Json) ELSE frame
  /\ UNCHANGED <<args, json, i, ptr, curr, custom>>

-----------------------------------------------------------------------------
(***************************************************************************)
(* capstomp_split_kv_header and capstomp_fill_kv_header                    *)
(***************************************************************************)

\* Mutant: the end of the last pair is not a reason to stop.
MorePtr == ptr # End
More == curr # End /\ ptr # End

\* Mutants: the last = separates; an empty value is a header.
PairLast(from, to) ==
  {[key |-> SubSeq(Text, from, e - 1), value |-> SubSeq(Text, e + 1, to - 1)] :
     e \in {f \in from..to : /\ f < to /\ Text[f] = Equals
                             /\ \A r \in f+1..(to - 1) : Text[r] # Equals
                             /\ f # from /\ f + 1 # to}}

\* The header of a pair, or none: no =, no key, no value.
Pair(from, to) ==
  {[key |-> SubSeq(Text, from, e - 1), value |-> SubSeq(Text, e + 1, to - 1)] :
     e \in {f \in from..to : /\ FoundAt(Text, Equals, from, to, f)
                             /\ f # to /\ f # from /\ f + 1 # to}}

\* Mutant: |= is written = in the loop.
PushOver(headers) ==
  /\ frame' = frame \o SetToSeq(headers)
  /\ custom' = \E h \in headers : h.key = ContentType

Push(headers) ==
  /\ frame' = frame \o SetToSeq(headers)
  /\ custom' = (custom \/ \E h \in headers : h.key = ContentType)

\* Mutant: the separator is not passed over.
SplitStuck ==
  /\ pc = "split" /\ More
  /\ \E q \in ptr..End :
       /\ FoundAt(Text, Ampersand, ptr, End, q)
       /\ Push(IF ptr # q THEN Pair(ptr, q) ELSE {})
       /\ curr' = q /\ ptr' = q
  /\ UNCHANGED <<args, json, pc, i>>

Split ==
  /\ pc = "split" /\ More
  /\ \E q \in ptr..End :
       /\ FoundAt(Text, Ampersand, ptr, End, q)
       /\ Push(IF ptr # q THEN Pair(ptr, q) ELSE {})
       /\ curr' = q /\ ptr' = q + 1
  /\ UNCHANGED <<args, json, pc, i>>

SplitEnd ==
  /\ pc = "split" /\ ~More
  /\ pc' = "args" /\ i' = i + 1
  /\ UNCHANGED <<args, json, ptr, curr, frame, custom>>

Next == EnterArg \/ SkipArg \/ LastArg \/ Split \/ SplitEnd

Spec == Init /\ [][Next]_vars
-----------------------------------------------------------------------------
(***************************************************************************)
(* Properties                                                              *)
(***************************************************************************)

(* ptr = curr + 1 points beyond end after the last pair: no turn of the    *)
(* loop starts there, whether the argument ends with a pair, with & or     *)
(* with nothing but & (udf.cpp:215).                                       *)
InBounds == pc = "split" /\ More => ptr \in 1..Len(Text) /\ curr <= Len(Text)

\* What the arguments mean, said without a loop: a pair is an argument, the
\* place of its first character, of its = and of the end behind it.
Starts(s) == {p \in DOMAIN s : p = 1 \/ s[p - 1] = Ampersand}

IsPair(x) ==
  LET s == args[x.arg].text IN
  /\ x.from < x.equals /\ x.equals + 1 < x.to
  /\ s[x.equals] = Equals
  /\ x.to = Len(s) + 1 \/ s[x.to] = Ampersand
  /\ \A r \in x.from..(x.to - 1) :
       s[r] # Ampersand /\ (r < x.equals => s[r] # Equals)

PairsOf(k) ==
  LET s == args[k].text IN
  {x \in [arg : {k}, from : Starts(s), equals : DOMAIN s, to : 1..(Len(s) + 1)] :
     IsPair(x)}

Pairs == UNION {PairsOf(k) : k \in {l \in DOMAIN args : args[l].is_string}}

HeaderOf(x) ==
  [key   |-> SubSeq(args[x.arg].text, x.from, x.equals - 1),
   value |-> SubSeq(args[x.arg].text, x.equals + 1, x.to - 1)]

Before(x, y) == x.arg < y.arg \/ (x.arg = y.arg /\ x.from < y.from)

Place(x) == Cardinality({y \in Pairs : Before(y, x)}) + 1

Given ==
  [n \in 1..Cardinality(Pairs) |-> HeaderOf(CHOOSE x \in Pairs : Place(x) = n)]

(* The frame has exactly the headers the arguments name, in their order:   *)
(* no pair is lost at the edge of an argument and none is made up from an  *)
(* empty or a broken one (udf.cpp:154-265).                                *)
FrameIsGiven ==
  pc = "done" => frame \in {Given, Append(Given, Json)}

(* A message of capstomp_json has a content type, its own or, only if it   *)
(* has none, the default, wherever among the arguments its own is; one of  *)
(* capstomp gets none (udf.cpp:181, 220, 257, 300-304).                    *)
ContentTypeOnce ==
  pc = "done" =>
    (Len(frame) > Len(Given)
       <=> json /\ \A k \in DOMAIN Given : Given[k].key # ContentType)
=============================================================================

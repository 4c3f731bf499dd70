---------------------------- MODULE MessageProofs ---------------------------
(***************************************************************************)
(* Proofs about the loops over the arguments of capstomp(), for arguments  *)
(* of every number and length, and about the message a statement's strings *)
(* become.                                                                 *)
(***************************************************************************)
EXTENDS Message, FiniteSetTheorems, SequenceTheorems, TLAPS

-----------------------------------------------------------------------------
(***************************************************************************)
(* The loops stay inside the arguments                                     *)
(***************************************************************************)

Arguments == [text : Seq(Characters), is_string : BOOLEAN]

(* Between two turns of the loop either nothing has been found yet, or ptr *)
(* is one past the end of the pair found last.                             *)
SplitInv ==
  /\ args \in Seq(Arguments) /\ i \in 1..(Len(args) + 1)
  /\ pc \in {"args", "split", "done"}
  /\ pc = "done" => i = Len(args) + 1
  /\ pc = "split" =>
       /\ i \in DOMAIN args /\ args[i].is_string /\ Text # <<>>
       /\ curr \in 1..End
       /\ \/ ptr = 1 /\ curr = 1
          \/ ptr = curr + 1 /\ (curr < End => Text[curr] = Ampersand)

LEMMA TextIsSequence ==
  ASSUME args \in Seq(Arguments), NEW k \in DOMAIN args
  PROVE  /\ args[k].text \in Seq(Characters) /\ args[k].is_string \in BOOLEAN
         /\ Len(args[k].text) \in Nat
         /\ DOMAIN args[k].text = 1..Len(args[k].text)
<1>1. args[k] \in Arguments
  <2> HIDE DEF Arguments
  <2>1. QED
    OBVIOUS
<1>2. args[k].text \in Seq(Characters) /\ args[k].is_string \in BOOLEAN
  BY <1>1 DEF Arguments
<1>3. QED
  BY <1>2

LEMMA NumberOfArgs ==
  ASSUME args \in Seq(Arguments)
  PROVE  Len(args) \in Nat /\ DOMAIN args = 1..Len(args)
<1> HIDE DEF Arguments
<1>1. QED
  OBVIOUS

LEMMA EndIs ==
  ASSUME args \in Seq(Arguments), i \in DOMAIN args
  PROVE  Len(Text) \in Nat /\ End = Len(Text) + 1 /\ DOMAIN Text = 1..Len(Text)
BY TextIsSequence DEF Text, End

\* Where a turn of the loop begins.
LEMMA TurnBegins ==
  ASSUME SplitInv, pc = "split", More
  PROVE  ptr \in 1..Len(Text) /\ curr \in 1..Len(Text) /\ ptr \in Starts(Text)
<1>1. Len(Text) \in Nat /\ End = Len(Text) + 1 /\ DOMAIN Text = 1..Len(Text)
  BY EndIs DEF SplitInv
<1>2. Len(Text) > 0
  <2>1. Text \in Seq(Characters) /\ Text # <<>>
    BY TextIsSequence DEF SplitInv, Text
  <2>2. QED
    BY <2>1
<1>3. curr \in 1..Len(Text) /\ curr < End
  BY <1>1 DEF SplitInv, More
<1>4. CASE ptr = 1
  BY <1>1, <1>2, <1>3, <1>4 DEF Starts
<1>5. CASE ptr = curr + 1 /\ Text[curr] = Ampersand
  <2>1. ptr \in 1..Len(Text) /\ ptr - 1 = curr
    BY <1>1, <1>3, <1>5 DEF More
  <2>2. QED
    BY <1>1, <1>3, <1>5, <2>1 DEF Starts
<1>6. QED
  BY <1>3, <1>4, <1>5 DEF SplitInv

LEMMA SplitStep == SplitInv /\ [Next]_vars => SplitInv'
<1> SUFFICES ASSUME SplitInv, [Next]_vars PROVE SplitInv'
  OBVIOUS
<1>0. Len(args) \in Nat /\ DOMAIN args = 1..Len(args)
  BY NumberOfArgs DEF SplitInv
<1>1. CASE EnterArg
  <2>1. Len(Text) \in Nat /\ End = Len(Text) + 1
    BY <1>1, EndIs DEF EnterArg, SplitInv
  <2>2. QED
    BY <1>1, <2>1 DEF EnterArg, SplitInv, Text, End
<1>2. CASE SkipArg
  BY <1>0, <1>2 DEF SkipArg, SplitInv
<1>3. CASE LastArg
  BY <1>0, <1>3 DEF LastArg, SplitInv
<1>4. CASE Split
  <2>1. ptr \in 1..Len(Text) /\ Len(Text) \in Nat /\ End = Len(Text) + 1
    BY <1>4, EndIs, TurnBegins DEF Split, SplitInv
  <2>2. PICK q \in ptr..End :
          FoundAt(Text, Ampersand, ptr, End, q) /\ curr' = q /\ ptr' = q + 1
    BY <1>4 DEF Split
  <2>3. q \in 1..End /\ (q < End => Text[q] = Ampersand)
    BY <2>1, <2>2 DEF FoundAt
  <2>4. UNCHANGED <<args, i, pc>> /\ Text' = Text /\ End' = End
    BY <1>4 DEF Split, Text, End
  <2>5. QED
    BY <1>4, <2>2, <2>3, <2>4 DEF Split, SplitInv
<1>5. CASE SplitEnd
  BY <1>0, <1>5 DEF SplitEnd, SplitInv
<1>6. CASE UNCHANGED vars
  BY <1>6 DEF vars, SplitInv, Text, End
<1>7. QED
  BY <1>1, <1>2, <1>3, <1>4, <1>5, <1>6 DEF Next

-----------------------------------------------------------------------------
(***************************************************************************)
(* The pairs of an argument                                                *)
(***************************************************************************)

LEMMA PairsAre ==
  ASSUME args \in Seq(Arguments)
  PROVE  \A x : x \in Pairs <=>
           /\ x \in [arg : DOMAIN args, from : Nat, equals : Nat, to : Nat]
           /\ args[x.arg].is_string /\ IsPair(x)
           /\ x.from \in Starts(args[x.arg].text)
           /\ x.equals \in DOMAIN args[x.arg].text
           /\ x.to \in 1..(Len(args[x.arg].text) + 1)
<1>1. \A x : x \in Pairs <=> \E k \in DOMAIN args : args[k].is_string /\ x \in PairsOf(k)
  BY DEF Pairs
<1>2. ASSUME NEW k \in DOMAIN args, NEW x
      PROVE  x \in PairsOf(k) <=>
               /\ x \in [arg : DOMAIN args, from : Nat, equals : Nat, to : Nat]
               /\ x.arg = k /\ IsPair(x)
               /\ x.from \in Starts(args[k].text)
               /\ x.equals \in DOMAIN args[k].text
               /\ x.to \in 1..(Len(args[k].text) + 1)
  <2> DEFINE s == args[k].text
             C == [arg : {k}, from : Starts(s), equals : DOMAIN s, to : 1..(Len(s) + 1)]
             D == [arg : DOMAIN args, from : Nat, equals : Nat, to : Nat]
  <2>1. Len(s) \in Nat /\ DOMAIN s = 1..Len(s)
    BY TextIsSequence
  <2>2. x \in PairsOf(k) <=> x \in C /\ IsPair(x)
    BY DEF PairsOf
  <2>3. \A n \in Starts(s) \cup DOMAIN s \cup 1..(Len(s) + 1) : n \in Nat
    BY <2>1 DEF Starts
  <2> HIDE DEF s
  <2>4. x \in C <=>
          /\ x \in D /\ x.arg = k
          /\ x.from \in Starts(s) /\ x.equals \in DOMAIN s /\ x.to \in 1..(Len(s) + 1)
    BY <2>3
  <2> HIDE DEF C, D
  <2>5. QED
    BY <2>2, <2>4 DEF s, D
<1>3. QED
  BY <1>1, <1>2

\* The pair that starts at p and ends at q, where no & comes before q.
PairAt(e, q) == [arg |-> i, from |-> ptr, equals |-> e, to |-> q]

\* What a turn of the loop finds is the pair that starts at ptr, if it is one.
LEMMA TurnFinds ==
  ASSUME SplitInv, pc = "split", More, NEW q \in ptr..End,
         FoundAt(Text, Ampersand, ptr, End, q)
  PROVE  \A x \in Pairs : x.arg = i /\ ptr <= x.from /\ x.from < q + 1 =>
           \E e \in ptr..q : /\ FoundAt(Text, Equals, ptr, q, e)
                             /\ e # q /\ e # ptr /\ e + 1 # q /\ ptr # q
                             /\ x = PairAt(e, q)
<1> SUFFICES ASSUME NEW x \in Pairs, x.arg = i, ptr <= x.from, x.from < q + 1
             PROVE  \E e \in ptr..q : /\ FoundAt(Text, Equals, ptr, q, e)
                                      /\ e # q /\ e # ptr /\ e + 1 # q /\ ptr # q
                                      /\ x = PairAt(e, q)
  OBVIOUS
<1>1. /\ ptr \in 1..Len(Text) /\ Len(Text) \in Nat /\ End = Len(Text) + 1
      /\ DOMAIN Text = 1..Len(Text)
  BY EndIs, TurnBegins DEF SplitInv
<1>2. /\ x \in [arg : DOMAIN args, from : Nat, equals : Nat, to : Nat]
      /\ x.from \in Starts(Text) /\ x.equals \in DOMAIN Text /\ x.to \in 1..End
      /\ IsPair(x)
  BY PairsAre DEF SplitInv, Text, End
<1>3. /\ x.from < x.equals /\ x.equals + 1 < x.to
      /\ Text[x.equals] = Equals
      /\ x.to = End \/ Text[x.to] = Ampersand
      /\ \A r \in x.from..(x.to - 1) :
           Text[r] # Ampersand /\ (r < x.equals => Text[r] # Equals)
  BY <1>1, <1>2 DEF IsPair, Text, End
<1>4. x.from = ptr
  <2>1. CASE ptr < x.from
    <3>1. x.from - 1 \in ptr..(q - 1) /\ x.from # 1
      BY <1>1, <1>2, <2>1
    <3>2. Text[x.from - 1] # Ampersand
      BY <3>1 DEF FoundAt
    <3>3. QED
      BY <1>2, <3>1, <3>2 DEF Starts
  <2>2. QED
    BY <1>1, <1>2, <2>1
<1>5. x.to = q
  <2>1. CASE x.to < q
    <3>1. x.to \in ptr..(q - 1) /\ x.to # End
      BY <1>1, <1>2, <1>3, <1>4, <2>1
    <3>2. QED
      BY <1>3, <3>1 DEF FoundAt
  <2>2. CASE q < x.to
    <3>1. q \in x.from..(x.to - 1) /\ q < End
      BY <1>1, <1>2, <1>4, <2>2
    <3>2. QED
      BY <1>3, <3>1 DEF FoundAt
  <2>3. QED
    BY <1>1, <1>2, <2>1, <2>2
<1>6. x = PairAt(x.equals, q)
  BY <1>2, <1>4, <1>5 DEF PairAt
<1>7. x.equals \in ptr..q /\ x.equals # q /\ x.equals # ptr /\ x.equals + 1 # q /\ ptr # q
  BY <1>1, <1>2, <1>3, <1>4, <1>5
<1>8. FoundAt(Text, Equals, ptr, q, x.equals)
  <2>1. \A r \in ptr..(x.equals - 1) : Text[r] # Equals
    BY <1>1, <1>2, <1>3, <1>4, <1>5
  <2>2. QED
    BY <1>3, <1>7, <2>1 DEF FoundAt
<1>9. QED
  BY <1>6, <1>7, <1>8

\* And such a pair is one of the argument.
LEMMA FoundIsPair ==
  ASSUME SplitInv, pc = "split", More, NEW q \in ptr..End,
         FoundAt(Text, Ampersand, ptr, End, q), ptr # q,
         NEW e \in ptr..q, FoundAt(Text, Equals, ptr, q, e),
         e # q, e # ptr, e + 1 # q
  PROVE  PairAt(e, q) \in Pairs
<1>1. /\ ptr \in 1..Len(Text) /\ Len(Text) \in Nat /\ End = Len(Text) + 1
      /\ DOMAIN Text = 1..Len(Text) /\ ptr \in Starts(Text)
      /\ i \in DOMAIN args /\ args[i].is_string
  BY EndIs, TurnBegins DEF SplitInv
<1> DEFINE x == PairAt(e, q)
<1>2. /\ x \in [arg : DOMAIN args, from : Nat, equals : Nat, to : Nat]
      /\ x.arg = i /\ x.from = ptr /\ x.equals = e /\ x.to = q
  BY <1>1 DEF PairAt
<1>3. e \in DOMAIN Text /\ q \in 1..(Len(Text) + 1)
  BY <1>1
<1> HIDE DEF x
<1>4. IsPair(x)
  <2>1. ptr < e /\ e + 1 < q /\ Text[e] = Equals
    BY <1>1 DEF FoundAt
  <2>2. q = Len(Text) + 1 \/ Text[q] = Ampersand
    BY <1>1 DEF FoundAt
  <2>3. \A r \in ptr..(q - 1) : Text[r] # Ampersand
    BY DEF FoundAt
  <2>4. \A r \in ptr..(q - 1) : r < e => Text[r] # Equals
    BY <1>1 DEF FoundAt
  <2>5. QED
    BY <1>2, <2>1, <2>2, <2>3, <2>4 DEF IsPair, Text
<1>5. x \in Pairs
  BY <1>1, <1>2, <1>3, <1>4, PairsAre DEF SplitInv, Text
<1>6. QED
  BY <1>5 DEF x

LEMMA FoundOnce ==
  ASSUME NEW s, NEW c, NEW from \in Nat, NEW end \in Nat, NEW e \in Nat, NEW f \in Nat,
         FoundAt(s, c, from, end, e), FoundAt(s, c, from, end, f), e # end, f # end
  PROVE  e = f
<1>1. CASE e < f
  BY <1>1 DEF FoundAt
<1>2. CASE f < e
  BY <1>2 DEF FoundAt
<1>3. QED
  BY <1>1, <1>2

LEMMA HeaderOfFound ==
  ASSUME NEW e, NEW q
  PROVE  HeaderOf(PairAt(e, q)) =
           [key |-> SubSeq(Text, ptr, e - 1), value |-> SubSeq(Text, e + 1, q - 1)]
BY DEF HeaderOf, PairAt, Text

\* What a turn pushes, as a sequence of at most one header.
LEMMA SequenceOfNone == SetToSeq({}) = <<>>
<1>1. Cardinality({}) = 0
  BY FS_EmptySet
<1>2. \A f \in [1..0 -> {}] : f = <<>>
  OBVIOUS
<1>3. <<>> \in [1..0 -> {}] /\ IsInjective(<<>>)
  BY DEF IsInjective
<1>4. QED
  BY <1>1, <1>2, <1>3 DEF SetToSeq

LEMMA SequenceOfOne ==
  ASSUME NEW h
  PROVE  SetToSeq({h}) = <<h>>
<1>1. Cardinality({h}) = 1
  BY FS_Singleton
<1>2. \A f \in [1..1 -> {h}] : f = <<h>>
  <2> SUFFICES ASSUME NEW f \in [1..1 -> {h}] PROVE f = <<h>>
    OBVIOUS
  <2>1. f = [n \in 1..1 |-> f[n]]
    OBVIOUS
  <2>2. f[1] = h
    OBVIOUS
  <2>3. QED
    BY <2>1, <2>2
<1>3. <<h>> \in [1..1 -> {h}] /\ IsInjective(<<h>>)
  BY DEF IsInjective
<1>4. QED
  BY <1>1, <1>2, <1>3 DEF SetToSeq

-----------------------------------------------------------------------------
(***************************************************************************)
(* The headers of the frame                                                *)
(***************************************************************************)

\* The pairs that were read: those of arguments before the one at hand, and
\* in it those that start before ptr.
ReadPairs ==
  {x \in Pairs : \/ x.arg < i
                 \/ pc = "split" /\ x.arg = i /\ x.from < ptr}

\* f has the headers of the pairs S, each at its place and nothing else.
Filled(S, f) ==
  /\ IsFiniteSet(S) /\ Cardinality(S) = Len(f)
  /\ \A x \in S : Place(x) \in 1..Len(f) /\ f[Place(x)] = HeaderOf(x)
  /\ \A n \in 1..Len(f) : \E x \in S : Place(x) = n

Typing(S) == \E x \in S : HeaderOf(x).key = ContentType

HeadersNamed == {HeaderOf(x) : x \in Pairs} \cup {Json}

(* The frame has the headers of the pairs read so far, and in the end all  *)
(* of them and at most the default content type.                           *)
FillInv ==
  /\ SplitInv
  /\ frame \in Seq(HeadersNamed) /\ custom \in BOOLEAN
  /\ pc # "done" => Filled(ReadPairs, frame) /\ (custom <=> Typing(ReadPairs))
  /\ pc = "done" =>
       /\ Filled(Pairs, Given) /\ Given \in Seq(HeadersNamed)
       /\ frame = IF json /\ ~Typing(Pairs) THEN Append(Given, Json) ELSE Given

\* The arguments stay as they are, and so does what they mean.
LEMMA MeaningStays ==
  ASSUME args' = args
  PROVE  /\ Pairs' = Pairs /\ Given' = Given /\ HeadersNamed' = HeadersNamed
         /\ \A S : Typing(S)' <=> Typing(S)
         /\ \A S, f : Filled(S, f)' <=> Filled(S, f)
<1>1. Pairs' = Pairs /\ \A x : HeaderOf(x)' = HeaderOf(x)
  BY DEF Pairs, PairsOf, IsPair, HeaderOf
<1>2. \A x : Place(x)' = Place(x)
  BY <1>1 DEF Place, Before
<1>3. HeadersNamed' = HeadersNamed
  BY <1>1 DEF HeadersNamed
<1>4. Given' = Given
  BY DEF Given, Pairs, PairsOf, IsPair, HeaderOf, Place, Before
<1>5. ASSUME NEW S PROVE Typing(S)' <=> Typing(S)
  BY <1>1 DEF Typing
<1>6. ASSUME NEW S, NEW f PROVE Filled(S, f)' <=> Filled(S, f)
  <2>1. ASSUME NEW x \in S
        PROVE  (Place(x) \in 1..Len(f) /\ f[Place(x)] = HeaderOf(x))'
                 <=> (Place(x) \in 1..Len(f) /\ f[Place(x)] = HeaderOf(x))
    BY <1>1, <1>2
  <2>2. ASSUME NEW n \in 1..Len(f)
        PROVE  (\E x \in S : Place(x) = n)' <=> \E x \in S : Place(x) = n
    BY <1>2
  <2>3. QED
    BY <2>1, <2>2 DEF Filled
<1>7. QED
  BY <1>1, <1>3, <1>4, <1>5, <1>6

LEMMA FilledGrows ==
  ASSUME NEW S, NEW f \in Seq(HeadersNamed), Filled(S, f),
         NEW x \in Pairs, x \notin S, Place(x) = Cardinality(S) + 1
  PROVE  /\ Filled(S \cup {x}, Append(f, HeaderOf(x)))
         /\ Append(f, HeaderOf(x)) \in Seq(HeadersNamed)
<1> DEFINE h == HeaderOf(x)
           g == Append(f, h)
<1>1. h \in HeadersNamed
  BY DEF HeadersNamed
<1> HIDE DEF h
<1>2. /\ Len(f) \in Nat /\ g \in Seq(HeadersNamed) /\ Len(g) = Len(f) + 1
      /\ \A n \in 1..Len(f) : g[n] = f[n]
      /\ g[Len(f) + 1] = h
  BY <1>1
<1> HIDE DEF g
<1>3. IsFiniteSet(S \cup {x}) /\ Cardinality(S \cup {x}) = Len(g)
  BY <1>2, FS_AddElement DEF Filled
<1>4. Place(x) = Len(f) + 1
  BY DEF Filled
<1>5. ASSUME NEW y \in S \cup {x}
      PROVE  Place(y) \in 1..Len(g) /\ g[Place(y)] = HeaderOf(y)
  <2>1. CASE y \in S
    BY <1>2, <2>1 DEF Filled
  <2>2. CASE y = x
    BY <1>2, <1>4, <2>2 DEF h
  <2>3. QED
    BY <1>5, <2>1, <2>2
<1>6. ASSUME NEW n \in 1..Len(g)
      PROVE  \E y \in S \cup {x} : Place(y) = n
  <2>1. CASE n \in 1..Len(f)
    BY <2>1 DEF Filled
  <2>2. CASE n = Len(f) + 1
    BY <1>4, <2>2
  <2>3. QED
    BY <1>2, <1>6, <2>1, <2>2
<1>7. QED
  BY <1>2, <1>3, <1>5, <1>6 DEF Filled, g, h

\* All pairs read, the frame is what the arguments mean.
LEMMA FilledIsGiven ==
  ASSUME NEW f \in Seq(HeadersNamed), Filled(Pairs, f)
  PROVE  f = Given
<1>1. f = [n \in 1..Len(f) |-> f[n]]
  BY DEF HeadersNamed
<1>2. ASSUME NEW n \in 1..Len(f)
      PROVE  f[n] = HeaderOf(CHOOSE x \in Pairs : Place(x) = n)
  <2> DEFINE y == CHOOSE x \in Pairs : Place(x) = n
  <2>1. \E x \in Pairs : Place(x) = n
    BY DEF Filled
  <2>2. y \in Pairs /\ Place(y) = n
    BY <2>1
  <2> HIDE DEF y
  <2>3. f[n] = HeaderOf(y)
    BY <2>2 DEF Filled
  <2>4. QED
    BY <2>3 DEF y
<1>3. Cardinality(Pairs) = Len(f)
  BY DEF Filled
<1> DEFINE G == [n \in 1..Len(f) |-> HeaderOf(CHOOSE x \in Pairs : Place(x) = n)]
<1>4. G = Given
  BY <1>3 DEF Given
<1>5. f = G
  <2>1. \A n \in 1..Len(f) : f[n] = G[n]
    BY <1>2
  <2> HIDE DEF G
  <2>2. G = [n \in 1..Len(f) |-> G[n]]
    BY DEF G
  <2>3. QED
    BY <1>1, <2>1, <2>2
<1>6. QED
  BY <1>4, <1>5

\* A header is of a pair read if it is of one that was read before, or of one
\* that is read now.
LEMMA TurnReads ==
  ASSUME SplitInv, pc = "split", More, NEW q \in ptr..End,
         FoundAt(Text, Ampersand, ptr, End, q),
         UNCHANGED <<args, pc, i>>, ptr' = q + 1
  PROVE  ReadPairs' = ReadPairs \cup
           {x \in Pairs : x.arg = i /\ ptr <= x.from /\ x.from < q + 1}
<1>1. ptr \in Nat /\ q \in Nat /\ ptr <= q
  BY EndIs, TurnBegins DEF SplitInv
<1>2. \A x \in Pairs : x.from \in Nat
  BY PairsAre DEF SplitInv
<1>3. Pairs' = Pairs
  BY MeaningStays
<1>4. QED
  BY <1>1, <1>2, <1>3 DEF ReadPairs

LEMMA TurnFills ==
  ASSUME FillInv, Split
  PROVE  FillInv'
<1>1. PICK q \in ptr..End :
        /\ FoundAt(Text, Ampersand, ptr, End, q)
        /\ Push(IF ptr # q THEN Pair(ptr, q) ELSE {})
        /\ curr' = q /\ ptr' = q + 1
  BY DEF Split
<1>2. SplitInv /\ pc = "split" /\ More /\ UNCHANGED <<args, json, pc, i>>
  BY DEF FillInv, Split
<1>3. SplitInv'
  BY <1>2, SplitStep DEF Next
<1>4. Pairs' = Pairs /\ HeadersNamed' = HeadersNamed
  BY <1>2, MeaningStays
<1> DEFINE New == {x \in Pairs : x.arg = i /\ ptr <= x.from /\ x.from < q + 1}
           Found == IF ptr # q THEN Pair(ptr, q) ELSE {}
<1>5. ReadPairs' = ReadPairs \cup New
  BY <1>1, <1>2, TurnReads
<1>6. \A x \in New : \E e \in ptr..q :
        /\ FoundAt(Text, Equals, ptr, q, e)
        /\ e # q /\ e # ptr /\ e + 1 # q /\ ptr # q
        /\ x = PairAt(e, q)
  BY <1>1, <1>2, TurnFinds
<1>7. \A e \in ptr..q : FoundAt(Text, Equals, ptr, q, e) /\ ptr # q
                        /\ e # q /\ e # ptr /\ e + 1 # q
        => PairAt(e, q) \in New
  <2> SUFFICES ASSUME NEW e \in ptr..q, FoundAt(Text, Equals, ptr, q, e), ptr # q,
                      e # q, e # ptr, e + 1 # q
               PROVE  PairAt(e, q) \in New
    OBVIOUS
  <2>1. PairAt(e, q) \in Pairs
    BY <1>1, <1>2, FoundIsPair
  <2>2. PairAt(e, q).arg = i /\ PairAt(e, q).from = ptr
    BY DEF PairAt
  <2>3. ptr \in Nat /\ q \in Nat /\ ptr <= q
    BY <1>2, EndIs, TurnBegins DEF SplitInv
  <2>4. QED
    BY <2>1, <2>2, <2>3
<1>8. /\ frame \in Seq(HeadersNamed) /\ custom \in BOOLEAN
      /\ Filled(ReadPairs, frame) /\ (custom <=> Typing(ReadPairs))
  BY <1>2 DEF FillInv
<1>9. CASE New = {}
  <2>1. Found = {}
    <3>1. SUFFICES ASSUME ptr # q PROVE Pair(ptr, q) = {}
      OBVIOUS
    <3>2. \A e \in ptr..q : ~(FoundAt(Text, Equals, ptr, q, e)
                              /\ e # q /\ e # ptr /\ e + 1 # q)
      BY <1>7, <1>9, <3>1
    <3>3. QED
      BY <3>2 DEF Pair
  <2>2. frame' = frame /\ custom' = custom
    <3>1. frame' = frame \o SetToSeq({}) /\ custom' = (custom \/ FALSE)
      BY <1>1, <2>1 DEF Push
    <3>2. frame \o <<>> = frame
      BY <1>8
    <3>3. QED
      BY <1>8, <3>1, <3>2, SequenceOfNone
  <2>3. ReadPairs' = ReadPairs
    BY <1>5, <1>9
  <2>4. Filled(ReadPairs, frame)' /\ (custom <=> Typing(ReadPairs))'
    BY <1>2, <1>8, <2>2, <2>3, MeaningStays
  <2>5. QED
    BY <1>2, <1>3, <1>4, <1>8, <2>2, <2>4 DEF FillInv
<1>10. CASE New # {}
  <2>1. PICK x \in New : TRUE
    BY <1>10
  <2>2. PICK e \in ptr..q :
          /\ FoundAt(Text, Equals, ptr, q, e)
          /\ e # q /\ e # ptr /\ e + 1 # q /\ ptr # q
          /\ x = PairAt(e, q)
    BY <1>6, <2>1
  <2>3. ptr \in Nat /\ q \in Nat
    BY <1>2, EndIs, TurnBegins DEF SplitInv
  <2>4. \A f \in ptr..q : FoundAt(Text, Equals, ptr, q, f) /\ f # q => f = e
    <3>1. \A f \in ptr..q : f \in Nat
      BY <2>3
    <3>2. QED
      BY <2>2, <2>3, <3>1, FoundOnce
  <2>5. New = {x}
    BY <1>6, <2>1, <2>2, <2>4
  <2>6. Found = {HeaderOf(x)}
    <3>1. Pair(ptr, q) =
            {[key |-> SubSeq(Text, ptr, f - 1), value |-> SubSeq(Text, f + 1, q - 1)] :
               f \in {e}}
      BY <2>2, <2>4 DEF Pair
    <3>2. QED
      BY <2>2, <3>1, HeaderOfFound
  <2>7. x \in Pairs /\ x.arg = i /\ x.from = ptr
    BY <2>1, <2>2 DEF PairAt
  <2>8. x \notin ReadPairs
    <3>1. i \in Nat
      BY <1>2 DEF SplitInv
    <3>2. QED
      BY <2>3, <2>7, <3>1 DEF ReadPairs
  <2>9. Place(x) = Cardinality(ReadPairs) + 1
    <3>1. {y \in Pairs : Before(y, x)} = ReadPairs
      BY <1>2, <2>7 DEF ReadPairs, Before
    <3>2. QED
      BY <3>1 DEF Place
  <2>10. /\ frame' = Append(frame, HeaderOf(x))
         /\ custom' = (custom \/ HeaderOf(x).key = ContentType)
    <3>1. /\ frame' = frame \o SetToSeq({HeaderOf(x)})
          /\ custom' = (custom \/ \E h \in {HeaderOf(x)} : h.key = ContentType)
      BY <1>1, <2>6 DEF Push
    <3>2. SetToSeq({HeaderOf(x)}) = <<HeaderOf(x)>>
      BY SequenceOfOne
    <3>3. HeaderOf(x) \in HeadersNamed
      BY <2>7 DEF HeadersNamed
    <3>4. ASSUME NEW h \in HeadersNamed
          PROVE  frame \o <<h>> = Append(frame, h)
      BY <1>8
    <3>5. QED
      BY <3>1, <3>2, <3>3, <3>4
  <2>11. /\ Filled(ReadPairs \cup {x}, frame')
         /\ frame' \in Seq(HeadersNamed)
    BY <1>8, <2>7, <2>8, <2>9, <2>10, FilledGrows
  <2>12. custom' \in BOOLEAN /\ (custom' <=> Typing(ReadPairs \cup {x}))
    BY <1>8, <2>10 DEF Typing
  <2>13. ReadPairs' = ReadPairs \cup {x}
    BY <1>5, <2>5
  <2>14. Filled(ReadPairs, frame)' /\ (custom <=> Typing(ReadPairs))'
    BY <1>2, <2>11, <2>12, <2>13, MeaningStays
  <2>15. QED
    BY <1>2, <1>3, <1>4, <2>11, <2>12, <2>14 DEF FillInv
<1>11. QED
  BY <1>9, <1>10

\* Nothing is found in a step that leaves the frame and the pairs read alone.
LEMMA NothingFills ==
  ASSUME FillInv, SplitInv', UNCHANGED <<args, json, frame, custom>>,
         pc # "done", pc' # "done", ReadPairs' = ReadPairs
  PROVE  FillInv'
<1>1. Filled(ReadPairs, frame)' /\ (custom <=> Typing(ReadPairs))'
  BY MeaningStays DEF FillInv
<1>2. HeadersNamed' = HeadersNamed
  BY MeaningStays
<1>3. QED
  BY <1>1, <1>2 DEF FillInv

LEMMA FillStep == FillInv /\ [Next]_vars => FillInv'
<1> SUFFICES ASSUME FillInv, [Next]_vars PROVE FillInv'
  OBVIOUS
<1>0. /\ SplitInv /\ SplitInv' /\ args \in Seq(Arguments) /\ i \in Nat
      /\ Len(args) \in Nat /\ DOMAIN args = 1..Len(args)
  BY SplitStep, NumberOfArgs DEF FillInv, SplitInv
<1>1. \A x \in Pairs : /\ x.arg \in 1..Len(args) /\ args[x.arg].is_string
                      /\ x.from \in DOMAIN args[x.arg].text
                      /\ x.from \in Nat /\ x.from >= 1
                      /\ x.from <= Len(args[x.arg].text)
  <2> SUFFICES ASSUME NEW x \in Pairs
               PROVE  /\ x.arg \in 1..Len(args) /\ args[x.arg].is_string
                      /\ x.from \in DOMAIN args[x.arg].text
                      /\ x.from \in Nat /\ x.from >= 1
                      /\ x.from <= Len(args[x.arg].text)
    OBVIOUS
  <2>1. x.arg \in DOMAIN args /\ args[x.arg].is_string
        /\ x.from \in DOMAIN args[x.arg].text
    BY <1>0, PairsAre DEF Starts
  <2>2. DOMAIN args[x.arg].text = 1..Len(args[x.arg].text)
        /\ Len(args[x.arg].text) \in Nat
    BY <1>0, <2>1, TextIsSequence
  <2>3. QED
    BY <1>0, <2>1, <2>2
<1>2. args' = args => Pairs' = Pairs
  BY MeaningStays
<1>3. CASE EnterArg
  <2>1. /\ pc = "args" /\ pc' = "split" /\ ptr' = 1
        /\ UNCHANGED <<args, json, i, frame, custom>>
    BY <1>3 DEF EnterArg
  <2>2. ReadPairs' = ReadPairs
    BY <1>1, <1>2, <2>1 DEF ReadPairs
  <2>3. QED
    BY <1>0, <2>1, <2>2, NothingFills
<1>4. CASE SkipArg
  <2>1. /\ pc = "args" /\ pc' = "args" /\ i' = i + 1
        /\ UNCHANGED <<args, json, frame, custom>>
        /\ ~args[i].is_string \/ Text = <<>>
    BY <1>4 DEF SkipArg
  <2>2. \A x \in Pairs : x.arg # i
    <3>1. ASSUME NEW x \in Pairs, x.arg = i PROVE FALSE
      <4>1. args[i].is_string /\ x.from \in DOMAIN Text
        BY <1>1, <3>1 DEF Text
      <4>2. DOMAIN <<>> = {}
        OBVIOUS
      <4>3. QED
        BY <2>1, <4>1, <4>2
    <3>2. QED
      BY <3>1
  <2>3. ReadPairs' = ReadPairs
    BY <1>0, <1>1, <1>2, <2>1, <2>2 DEF ReadPairs
  <2>4. QED
    BY <1>0, <2>1, <2>3, NothingFills
<1>5. CASE LastArg
  <2>1. /\ pc = "args" /\ pc' = "done" /\ i = Len(args) + 1
        /\ frame' = IF json /\ ~custom THEN Append(frame, Json) ELSE frame
        /\ UNCHANGED <<args, json, i, custom>>
    BY <1>0, <1>5 DEF LastArg, SplitInv
  <2>2. ReadPairs = Pairs
    BY <1>0, <1>1, <2>1 DEF ReadPairs
  <2>3. /\ Filled(Pairs, frame) /\ (custom <=> Typing(Pairs))
        /\ frame \in Seq(HeadersNamed) /\ custom \in BOOLEAN
    BY <2>1, <2>2 DEF FillInv
  <2>4. frame = Given
    BY <2>3, FilledIsGiven
  <2>5. /\ Pairs' = Pairs /\ Given' = Given /\ HeadersNamed' = HeadersNamed
        /\ (Typing(Pairs)' <=> Typing(Pairs))
        /\ (Filled(Pairs, Given)' <=> Filled(Pairs, Given))
    BY <2>1, MeaningStays
  <2>6. frame' \in Seq(HeadersNamed)
    BY <2>1, <2>3 DEF HeadersNamed
  <2>7. QED
    BY <1>0, <2>1, <2>3, <2>4, <2>5, <2>6 DEF FillInv
<1>6. CASE Split
  BY <1>6, TurnFills
<1>7. CASE SplitEnd
  <2>1. /\ pc = "split" /\ pc' = "args" /\ i' = i + 1 /\ ~More
        /\ UNCHANGED <<args, json, frame, custom>>
    BY <1>7 DEF SplitEnd
  <2>2. Len(Text) \in Nat /\ Len(Text) > 0 /\ ptr \in Nat /\ ptr > Len(Text)
    <3>1. i \in DOMAIN args /\ Text \in Seq(Characters) /\ Text # <<>>
      BY <1>0, <2>1, TextIsSequence DEF SplitInv, Text
    <3>2. Len(Text) \in Nat /\ Len(Text) > 0 /\ End = Len(Text) + 1
      BY <1>0, <3>1, EndIs
    <3>3. QED
      BY <1>0, <2>1, <3>2 DEF SplitInv, More
  <2>3. \A x \in Pairs : x.arg = i => x.from < ptr
    BY <1>1, <2>2 DEF Text
  <2>4. ReadPairs' = ReadPairs
    BY <1>0, <1>1, <1>2, <2>1, <2>3 DEF ReadPairs
  <2>5. QED
    BY <1>0, <2>1, <2>4, NothingFills
<1>8. CASE UNCHANGED vars
  <2>1. /\ UNCHANGED <<args, json, pc, i, ptr, frame, custom>>
    BY <1>8 DEF vars
  <2>2. /\ Pairs' = Pairs /\ Given' = Given /\ HeadersNamed' = HeadersNamed
        /\ \A S : Typing(S)' <=> Typing(S)
        /\ \A S, f : Filled(S, f)' <=> Filled(S, f)
    BY <2>1, MeaningStays
  <2>3. ReadPairs' = ReadPairs
    BY <2>1, <2>2 DEF ReadPairs
  <2>4. CASE pc # "done"
    BY <1>0, <2>1, <2>3, <2>4, NothingFills
  <2>5. CASE pc = "done"
    <3>1. Filled(Pairs, Given)' /\ (Typing(Pairs)' <=> Typing(Pairs))
      BY <2>2, <2>5 DEF FillInv
    <3>2. QED
      BY <1>0, <2>1, <2>2, <2>5, <3>1 DEF FillInv
  <2>6. QED
    BY <2>4, <2>5
<1>9. QED
  BY <1>3, <1>4, <1>5, <1>6, <1>7, <1>8 DEF Next

LEMMA StartFills ==
  ASSUME Start, args \in Seq(Arguments)
  PROVE  FillInv
<1>1. SplitInv
  BY NumberOfArgs DEF Start, SplitInv
<1>2. ReadPairs = {}
  BY <1>1, PairsAre, NumberOfArgs DEF ReadPairs, Start
<1>3. Filled({}, <<>>)
  BY FS_EmptySet DEF Filled
<1>4. <<>> \in Seq(HeadersNamed)
  OBVIOUS
<1>5. QED
  BY <1>1, <1>2, <1>3, <1>4 DEF Start, FillInv, Typing

(* The loops run by themselves, or within a statement.                     *)
LEMMA FillInvariant == Spec \/ MessageSpec => []FillInv
<1>1. Init => FillInv
  BY StartFills, InputsAssumption DEF Init, Arguments
<1>2. MessageInit => FillInv
  BY StartFills, MessageAssumption DEF MessageInit, Arguments
<1>3. [MessageNext]_allVars => [Next]_vars
  BY DEF MessageNext, Parse, Fill, SendContent, allVars
<1>4. QED
  BY <1>1, <1>2, <1>3, FillStep, PTL DEF Spec, MessageSpec

(* No turn of the loop reads beyond an argument, whatever its characters   *)
(* are and however long it is (udf.cpp:215).                               *)
THEOREM LoopStaysInBounds == Spec \/ MessageSpec => []InBounds
<1>1. FillInv => InBounds
  <2>1. SplitInv /\ pc = "split" /\ More => ptr \in 1..Len(Text) /\ curr <= Len(Text)
    <3> SUFFICES ASSUME SplitInv, pc = "split", More
                 PROVE  ptr \in 1..Len(Text) /\ curr <= Len(Text)
      OBVIOUS
    <3>1. Len(Text) \in Nat /\ ptr \in 1..Len(Text) /\ curr \in 1..Len(Text)
      BY EndIs, TurnBegins DEF SplitInv
    <3>2. QED
      BY <3>1
  <2>2. QED
    BY <2>1 DEF FillInv, InBounds
<1>2. QED
  BY <1>1, FillInvariant, PTL

(* The frame has exactly the headers the arguments name, each once and in  *)
(* their order, for arguments of every number and length                   *)
(* (udf.cpp:154-265).                                                      *)
THEOREM FrameIsAlwaysGiven == Spec \/ MessageSpec => []FrameIsGiven
<1>1. FillInv => FrameIsGiven
  BY DEF FillInv, FrameIsGiven
<1>2. QED
  BY <1>1, FillInvariant, PTL

(* A message of capstomp_json() has the default content type exactly if    *)
(* its arguments name none, and one of capstomp() never has it             *)
(* (udf.cpp:181, 220, 257, 300-304).                                       *)
THEOREM ContentTypeIsOnce == Spec \/ MessageSpec => []ContentTypeOnce
<1>1. FillInv => ContentTypeOnce
  <2> SUFFICES ASSUME FillInv, pc = "done"
               PROVE  Len(frame) > Len(Given)
                        <=> json /\ \A k \in DOMAIN Given : Given[k].key # ContentType
    BY DEF ContentTypeOnce
  <2>1. /\ Filled(Pairs, Given) /\ Given \in Seq(HeadersNamed)
        /\ frame = IF json /\ ~Typing(Pairs) THEN Append(Given, Json) ELSE Given
    BY DEF FillInv
  <2>2. Len(Given) \in Nat /\ DOMAIN Given = 1..Len(Given)
        /\ Len(Append(Given, Json)) = Len(Given) + 1
    BY <2>1
  <2>3. Typing(Pairs) <=> \E k \in DOMAIN Given : Given[k].key = ContentType
    <3>1. ASSUME NEW x \in Pairs
          PROVE  Place(x) \in DOMAIN Given /\ Given[Place(x)] = HeaderOf(x)
      BY <2>1, <2>2 DEF Filled
    <3>2. ASSUME NEW k \in DOMAIN Given
          PROVE  \E x \in Pairs : Given[k] = HeaderOf(x)
      BY <2>1, <2>2, <3>1 DEF Filled
    <3>3. QED
      BY <3>1, <3>2 DEF Typing
  <2>4. QED
    BY <2>1, <2>2, <2>3
<1>2. QED
  BY <1>1, FillInvariant, PTL

-----------------------------------------------------------------------------
(***************************************************************************)
(* The message                                                             *)
(***************************************************************************)

\* What is proved of the options of a uri, for the uri of the statement.
UriProofs == INSTANCE SettingsProofs WITH
  Queries <- {s.query : s \in Statements}, pc <- parsing, i <- pair

\* A statement reads its uri, whatever its rows do in between.
LEMMA MessageReadsUri == MessageSpec => UriProofs!Spec
<1>1. MessageInit => UriProofs!Init
  BY DEF MessageInit, UriProofs!Init, Uri!Start, UriProofs!Start, Uri!Default,
         UriProofs!Default, Uri!Members, UriProofs!Members
<1>2. [MessageNext]_allVars => [UriProofs!Next]_(UriProofs!vars)
  BY DEF MessageNext, Parse, Fill, SendContent, allVars, uriVars, UriProofs!vars,
         Uri!Next, Uri!Skip, Uri!Enter, Uri!Pair, Uri!End, Uri!WellFormed,
         Uri!Known, Uri!Members, Uri!Member, Uri!ReadBool,
         UriProofs!Next, UriProofs!Skip, UriProofs!Enter, UriProofs!Pair,
         UriProofs!End, UriProofs!WellFormed, UriProofs!Known,
         UriProofs!Members, UriProofs!Member, UriProofs!ReadBool
<1>3. QED
  BY <1>1, <1>2, PTL DEF MessageSpec, UriProofs!Spec

(* An option is on exactly if the last pair of the statement's uri that    *)
(* names it is true, for queries of every length and order                 *)
(* (settings.cpp:34-113).                                                  *)
THEOREM OptionsOfTheUri == MessageSpec => []LastPairDecides
<1>1. UriProofs!QueriesTyped
  BY MessageAssumption DEF Uri!QueriesTyped, UriProofs!QueriesTyped
<1>2. UriProofs!LastPairDecides => LastPairDecides
  BY DEF LastPairDecides, Uri!LastPairDecides, UriProofs!LastPairDecides,
         Uri!Members, UriProofs!Members, Uri!WellFormed, UriProofs!WellFormed,
         Uri!Decides, UriProofs!Decides, Uri!Known, UriProofs!Known,
         Uri!Member, UriProofs!Member, Uri!ReadBool, UriProofs!ReadBool
<1>3. UriProofs!Spec => []UriProofs!LastPairDecides
  BY <1>1, UriProofs!LastPairAlwaysDecides
<1>4. QED
  BY <1>2, <1>3, MessageReadsUri, PTL

(* The uri is read before the arguments, and both before the frame is      *)
(* written.                                                                *)
SentInv ==
  /\ pc = "done" => parsing = "done"
  /\ receipt # "unsent" =>
       /\ pc = "done" /\ sent = frame \o Options
       /\ receipt = IF Asks THEN "asked" ELSE "not asked"

LEMMA SentStep == SentInv /\ [MessageNext]_allVars => SentInv'
<1> SUFFICES ASSUME SentInv, [MessageNext]_allVars PROVE SentInv'
  OBVIOUS
<1>1. CASE Parse
  <2>1. parsing # "done" /\ UNCHANGED <<pc, receipt>>
    BY <1>1 DEF Parse, Uri!Next, Uri!Skip, Uri!Enter, Uri!Pair, Uri!End, vars
  <2>2. QED
    BY <2>1 DEF SentInv
<1>2. CASE Fill
  <2>1. pc # "done" /\ parsing = "done" /\ UNCHANGED <<parsing, receipt>>
    BY <1>2 DEF Fill, Next, EnterArg, SkipArg, LastArg, Split, SplitEnd, uriVars
  <2>2. QED
    BY <2>1 DEF SentInv
<1>3. CASE SendContent
  BY <1>3 DEF SendContent, SentInv, vars, uriVars, Options, Asks
<1>4. CASE UNCHANGED allVars
  BY <1>4 DEF allVars, vars, uriVars, SentInv, Options, Asks
<1>5. QED
  BY <1>1, <1>2, <1>3, <1>4 DEF MessageNext

LEMMA ConcatAssociates ==
  ASSUME NEW S, NEW s \in Seq(S), NEW t \in Seq(S), NEW u \in Seq(S)
  PROVE  /\ s \o (t \o u) = (s \o t) \o u
         /\ t \o u \in Seq(S)
BY ConcatAssociative

\* \o, for the provers a name without a meaning.
Concat(s, t) == s \o t

LEMMA ConcatIsFlat ==
  ASSUME NEW S, NEW s \in Seq(S), NEW a \in Seq(S), NEW b \in Seq(S), NEW c \in Seq(S)
  PROVE  Concat(s, Concat(Concat(a, b), c)) = Concat(Concat(Concat(s, a), b), c)
<1>1. /\ \A t, u \in Seq(S) : Concat(s, Concat(t, u)) = Concat(Concat(s, t), u)
      /\ Concat(a, b) \in Seq(S)
  BY ConcatAssociates DEF Concat
<1>2. QED
  BY <1>1

\* The headers of a frame: those of its content and those of options.
LEMMA HeadersAreSequences ==
  /\ \A H : \A s \in Seq(H) : s \in Seq(H \cup {Time, Persistent, Transaction})
  /\ If("timestamp", Time) \in Seq({Time})
  /\ If("persistent", Persistent) \in Seq({Persistent})
  /\ If("transaction", Transaction) \in Seq({Transaction})
<1>1. \A H, G : \A s \in Seq(H) : s \in Seq(H \cup G)
  OBVIOUS
<1>2. \A h : <<>> \in Seq({h}) /\ <<h>> \in Seq({h})
  OBVIOUS
<1>3. QED
  BY <1>1, <1>2 DEF If

(* What is written has exactly the headers the arguments name and those    *)
(* the uri asks for, and asks for a receipt as the uri says, never within  *)
(* a transaction (udf.cpp:299-325, settings.cpp:21-117,                    *)
(* connection.cpp:663-688).                                                *)
THEOREM MessageIsAlwaysAsked == MessageSpec => []MessageIsAsked
<1>1. MessageInit => SentInv
  BY DEF MessageInit, Start, SentInv
<1>2. FillInv /\ LastPairDecides /\ SentInv => MessageIsAsked
  <2> SUFFICES ASSUME FillInv, LastPairDecides, SentInv, receipt # "unsent"
               PROVE  /\ \E content \in {Given, Append(Given, Json)} :
                           sent = content \o If("timestamp", Time)
                                          \o If("persistent", Persistent)
                                          \o If("transaction", Transaction)
                      /\ receipt = "asked" => ~Chosen("transaction")
                      /\ Chosen("receipt") /\ ~Chosen("transaction")
                           => receipt = "asked"
    BY DEF MessageIsAsked
  <2>1. /\ pc = "done" /\ parsing = "done" /\ sent = frame \o Options
        /\ receipt = IF Asks THEN "asked" ELSE "not asked"
    BY DEF SentInv
  <2>2. ASSUME NEW m \in {"receipt", "timestamp", "persistent", "transaction"}
        PROVE  settings[m] <=> Chosen(m)
    BY <2>1 DEF LastPairDecides, Uri!LastPairDecides, Uri!Members, Chosen
  <2>3. Options = If("timestamp", Time) \o If("persistent", Persistent)
                    \o If("transaction", Transaction)
    BY <2>2 DEF Options, If
  <2>4. frame \in {Given, Append(Given, Json)} /\ frame \in Seq(HeadersNamed)
    BY <2>1 DEF FillInv
  <2>5. sent = frame \o If("timestamp", Time) \o If("persistent", Persistent)
                     \o If("transaction", Transaction)
    <3> DEFINE All == HeadersNamed \cup {Time, Persistent, Transaction}
    <3>1. /\ frame \in Seq(All) /\ If("timestamp", Time) \in Seq(All)
          /\ If("persistent", Persistent) \in Seq(All)
          /\ If("transaction", Transaction) \in Seq(All)
      BY <2>4, HeadersAreSequences
    <3> HIDE DEF All
    <3>2. Concat(frame, Concat(Concat(If("timestamp", Time),
                                      If("persistent", Persistent)),
                               If("transaction", Transaction)))
            = Concat(Concat(Concat(frame, If("timestamp", Time)),
                            If("persistent", Persistent)),
                     If("transaction", Transaction))
      BY <3>1, ConcatIsFlat
    <3>3. QED
      BY <2>1, <2>3, <3>2 DEF Concat
  <2>6. Asks => ~Chosen("transaction")
    BY <2>2 DEF Asks
  <2>7. Chosen("receipt") /\ ~Chosen("transaction") => Asks
    BY <2>2 DEF Asks
  <2>8. QED
    BY <2>1, <2>4, <2>5, <2>6, <2>7
<1>3. QED
  BY <1>1, <1>2, SentStep, FillInvariant, OptionsOfTheUri, PTL DEF MessageSpec
=============================================================================

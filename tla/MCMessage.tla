----------------------------- MODULE MCMessage ------------------------------
(* Values of the constants of Message for TLC: "c" is the key              *)
(* content-type.                                                           *)
EXTENDS Message

\* Header arguments.
Letters == {"c", "x", "=", "&"}
Texts(n) == BoundedSeq(Letters, n)
Argument(text, is_string) == [text |-> text, is_string |-> is_string]

\* One argument of up to six characters, or two of up to three one of which
\* is short or a pair; the second may be a number, the first NULL.
OneArgument == {<<Argument(s, TRUE)>> : s \in Texts(6)}
Short == {<<>>, <<"x">>, <<"x", "=", "x">>, <<"c", "=", "x">>}
TwoArguments ==
  {<<Argument(s, TRUE), Argument(t, is)>> :
     s \in Texts(3), t \in Short, is \in BOOLEAN} \cup
  {<<Argument(s, TRUE), Argument(t, TRUE)>> : s \in Short, t \in Texts(3)}
AllInputs == {<<>>} \cup OneArgument \cup TwoArguments

Header(text) == [key |-> <<text>>, value |-> <<text>>]
ContentTypeKey == <<"c">>
JsonHeader == Header("json")
TimeHeader == Header("time")
PersistentHeader == Header("persistent")
TransactionHeader == Header("transaction")

\* Options: all keys with some values, and all values of two keys.
Keys == {"transaction", "receipt", "timestamp", "persistent", "no_error",
         "skip_error", "vhost"}
AtoI == [v \in {"1", "0", "-1", "2x", "yes"} |->
  CASE v = "1" -> 1 [] v = "-1" -> -1 [] v = "2x" -> 2 [] OTHER -> 0]
Values == {"true", "false", NoValue} \cup DOMAIN AtoI
UpToThree == BoundedSeq([key : Keys, value : {"true", "false", NoValue}], 3)
UpToTwo == BoundedSeq([key : {"no_error", "skip_error"}, value : Values], 2)
AllQueries == UpToThree \cup UpToTwo

\* All arguments, or all queries, with few of the other.
FewQueries == {<<>>, <<[key |-> "transaction", value |-> "true"]>>}
FewInputs == {<<Argument(<<"x", "=", "x">>, TRUE)>>}
AllStatements ==
  [query : FewQueries, args : AllInputs] \cup [query : AllQueries, args : FewInputs]
=============================================================================

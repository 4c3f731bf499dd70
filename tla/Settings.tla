------------------------------ MODULE Settings ------------------------------
(***************************************************************************)
(* capst::settings (settings.cpp): the options in the query of a uri, read *)
(* pair by pair.  What a query string is split into is libevent's concern. *)
(***************************************************************************)
EXTENDS Integers, Sequences

CONSTANTS
  Queries,   \* sequences of pairs [key, value]
  NoValue,   \* the value of a key without =
  Number     \* std::atoi of the values that are neither true nor false

QueriesTyped ==
  /\ Queries \subseteq
       Seq([key : STRING, value : {"true", "false", NoValue} \cup DOMAIN Number])
  /\ \A v \in DOMAIN Number : Number[v] \in Int

VARIABLES
  query,     \* the pairs of the query string
  pc,        \* "query", "pairs" or "done"
  i,         \* the pair at hand
  settings   \* the members of capst::settings

vars == <<query, pc, i, settings>>

Members == {"receipt", "timestamp", "persistent", "transaction", "no_error"}
Default == [m \in Members |-> FALSE]

Start == pc = "query" /\ i = 1 /\ settings = Default

Init == query \in Queries /\ Start

\* read_bool
ReadBool(value) == value = "true" \/ (value # "false" /\ Number[value] > 0)

\* evhttp_parse_query_str gives up at a key without value.
WellFormed == \A k \in DOMAIN query : query[k].value # NoValue

\* An empty query, or one that cannot be parsed, leaves the defaults.
Skip ==
  /\ pc = "query" /\ (query = <<>> \/ ~WellFormed)
  /\ pc' = "done"
  /\ UNCHANGED <<query, i, settings>>

Enter ==
  /\ pc = "query" /\ query # <<>> /\ WellFormed
  /\ pc' = "pairs"
  /\ UNCHANGED <<query, i, settings>>

\* The member a key sets; skip_error is another name of no_error.
Member(key) == IF key = "skip_error" THEN "no_error" ELSE key

Known == Members \cup {"skip_error"}

\* Mutant: an option once on stays on.
PairSticks ==
  /\ pc = "pairs" /\ i \in DOMAIN query
  /\ settings' = IF query[i].key \in Known
       THEN [settings EXCEPT ![Member(query[i].key)] =
               @ \/ ReadBool(query[i].value)]
       ELSE settings
  /\ i' = i + 1
  /\ UNCHANGED <<query, pc>>

Pair ==
  /\ pc = "pairs" /\ i \in DOMAIN query
  /\ settings' = IF query[i].key \in Known
       THEN [settings EXCEPT ![Member(query[i].key)] = ReadBool(query[i].value)]
       ELSE settings
  /\ i' = i + 1
  /\ UNCHANGED <<query, pc>>

End ==
  /\ pc = "pairs" /\ i \notin DOMAIN query
  /\ pc' = "done"
  /\ UNCHANGED <<query, i, settings>>

Next == Skip \/ Enter \/ Pair \/ End

Spec == Init /\ [][Next]_vars
-----------------------------------------------------------------------------
\* k is the last pair of the query that sets member m.
Decides(k, m) ==
  /\ query[k].key \in Known /\ Member(query[k].key) = m
  /\ \A l \in DOMAIN query : l > k => Member(query[l].key) # m

(* An option is on exactly if the last pair that names it, under either    *)
(* name, has a true value; a query with one broken pair sets nothing, the  *)
(* pairs in front of it included (settings.cpp:21-117).                    *)
LastPairDecides ==
  pc = "done" => \A m \in Members :
    settings[m] <=>
      /\ WellFormed
      /\ \E k \in DOMAIN query : Decides(k, m) /\ ReadBool(query[k].value)
=============================================================================

------------------------------- MODULE Message ------------------------------
(***************************************************************************)
(* From the strings of a statement to a message: capstomp_init reads the   *)
(* options in the query of the uri (Settings), capstomp_content the header *)
(* arguments of a row (KvHeaders), and connection::send_content adds what  *)
(* the options ask for (connection.cpp:663-688).                           *)
(***************************************************************************)
EXTENDS KvHeaders

CONSTANTS
  Statements,    \* the strings of statements: [query, args]
  NoValue, Number,   \* as in Settings
  Time,          \* the header time_since_epoch()
  Persistent,    \* the header persistent_on()
  Transaction    \* the header transaction(transaction_id_)

VARIABLES
  query, parsing, pair, settings,  \* as in Settings, pc and i renamed
  limited,   \* request_count_ has reached the limit
  sent,      \* headers of the frame that is written
  receipt    \* the frame asks for a receipt, or "unsent"

Uri == INSTANCE Settings WITH
  Queries <- {s.query : s \in Statements}, pc <- parsing, i <- pair

ASSUME MessageAssumption ==
  /\ Uri!QueriesTyped
  /\ \A s \in Statements :
       s.args \in Seq([text : Seq(Characters), is_string : BOOLEAN])

uriVars == <<query, parsing, pair, settings>>
allVars == <<vars, uriVars, limited, sent, receipt>>

MessageInit ==
  /\ \E s \in Statements : query = s.query /\ args = s.args
  /\ json \in BOOLEAN /\ Start /\ Uri!Start
  /\ limited \in BOOLEAN
  /\ sent = <<>> /\ receipt = "unsent"

Options ==
  (IF settings["timestamp"] THEN <<Time>> ELSE <<>>) \o
  (IF settings["persistent"] THEN <<Persistent>> ELSE <<>>) \o
  (IF settings["transaction"] THEN <<Transaction>> ELSE <<>>)

\* Mutant: a row within a transaction may ask for a receipt.
AsksAlways == settings["receipt"] \/ limited

\* Within a transaction only BEGIN and COMMIT are confirmed.
Asks == (settings["receipt"] \/ limited) /\ ~settings["transaction"]

\* settings::create
Parse ==
  /\ Uri!Next
  /\ UNCHANGED <<vars, limited, sent, receipt>>

\* capstomp_fill_headers
Fill ==
  /\ parsing = "done" /\ Next
  /\ UNCHANGED <<uriVars, limited, sent, receipt>>

SendContent ==
  /\ pc = "done" /\ receipt = "unsent"
  /\ sent' = frame \o Options
  /\ receipt' = IF Asks THEN "asked" ELSE "not asked"
  /\ UNCHANGED <<vars, uriVars, limited>>

MessageNext == Parse \/ Fill \/ SendContent

MessageSpec == MessageInit /\ [][MessageNext]_allVars

FairMessageSpec == MessageSpec /\ WF_allVars(MessageNext)
-----------------------------------------------------------------------------
(***************************************************************************)
(* Properties                                                              *)
(***************************************************************************)
(* Of the names an option has the last pair decides (settings.cpp:34-113). *)
LastPairDecides == Uri!LastPairDecides

Chosen(option) ==
  /\ Uri!WellFormed
  /\ \E k \in DOMAIN query :
       Uri!Decides(k, option) /\ Uri!ReadBool(query[k].value)

If(option, header) == IF Chosen(option) THEN <<header>> ELSE <<>>

(* What is written is what the statement says and nothing else: the        *)
(* headers its arguments name, with at most the default content type, and  *)
(* those its uri asks for, in a transaction exactly if the last pair of    *)
(* the query about it says so, and then never with a receipt               *)
(* (udf.cpp:299-325, settings.cpp:21-117, connection.cpp:663-688).         *)
MessageIsAsked ==
  receipt # "unsent" =>
    /\ \E content \in {Given, Append(Given, Json)} :
         sent = content \o If("timestamp", Time) \o If("persistent", Persistent)
                        \o If("transaction", Transaction)
    /\ receipt = "asked" => ~Chosen("transaction")
    /\ Chosen("receipt") /\ ~Chosen("transaction") => receipt = "asked"

(* The row is written whatever its strings are: all loops end              *)
(* (udf.cpp:215, 248, settings.cpp:34).                                    *)
EveryRowIsWritten == <>(receipt # "unsent")
=============================================================================

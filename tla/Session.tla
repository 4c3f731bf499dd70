------------------------------ MODULE Session -------------------------------
(***************************************************************************)
(* What Pool assumes of one connection and its socket: the outcomes of     *)
(* each exchange with the broker, without frames, receipts or errors.      *)
(* The actions are those of Pool for a connection c, with link[c] as link  *)
(* and tx[c] # 0 as tx; module Connection implements them.                 *)
(***************************************************************************)

CONSTANTS
  AllSettings   \* transaction and no_error of a statement

VARIABLES
  phase,   \* where the statement that has the connection stands
  link,    \* the socket, as in Pool
  conf,    \* the settings of the statement
  tx,      \* the connection is in a transaction
  reused,  \* its socket was open when the statement got it
  sent,    \* the COMMIT of the statement was written to a live session
  result   \* what the statement reports

vars == <<phase, link, conf, tx, reused, sent, result>>

Link == {"closed", "up", "lost"}

Init ==
  /\ phase = "pooled" /\ link = "closed"
  /\ conf \in AllSettings
  /\ tx = FALSE /\ reused = FALSE /\ sent = FALSE /\ result = "ok"

Lease ==
  /\ phase = "pooled" /\ phase' = "connect"
  /\ conf' \in AllSettings
  /\ tx' = FALSE /\ sent' = FALSE /\ result' = "ok"
  /\ reused' = (link # "closed")
  /\ UNCHANGED link

\* connection::connect closes the socket and opens another.
Reconnect ==
  /\ phase = "connect"
  /\ link' \in Link
  /\ UNCHANGED <<phase, conf, tx, reused, sent, result>>

\* Only a connection that was open before may come out with a closed socket.
ConnectOk ==
  /\ phase = "connect"
  /\ link = "closed" => reused
  /\ tx' = conf.transaction
  /\ phase' = IF conf.transaction THEN "begin" ELSE "rows"
  /\ UNCHANGED <<link, conf, reused, sent, result>>

\* The catch block of capstomp_init.
InitFails ==
  /\ phase \in {"connect", "begin"}
  /\ link' = "closed"
  /\ IF conf.no_error
       THEN phase' = "rows" /\ UNCHANGED result
       ELSE phase' = "finish" /\ result' = "error"
  /\ UNCHANGED <<conf, tx, reused, sent>>

BeginOk ==
  /\ phase = "begin" /\ link # "closed"
  /\ phase' = "rows"
  /\ \/ link' = link
     \/ link = "lost" /\ link' = "closed"
  /\ UNCHANGED <<conf, tx, reused, sent, result>>

\* A row that reports success; within a transaction it waits for nothing and
\* notices no loss.
RowOk ==
  /\ phase = "rows" /\ link = "lost"
  /\ ~tx /\ link' = "closed"
  /\ UNCHANGED <<phase, conf, tx, reused, sent, result>>

RowFail ==
  /\ phase = "rows"
  /\ ~(link = "closed" /\ conf.no_error)
  /\ link' = "closed" /\ phase' = "finish" /\ result' = "error"
  /\ UNCHANGED <<conf, tx, reused, sent>>

Deinit ==
  /\ phase = "rows" /\ phase' = "finish"
  /\ UNCHANGED <<link, conf, tx, reused, sent, result>>

\* connection::commit
Finish ==
  /\ phase = "finish"
  /\ phase' = IF tx THEN "commit" ELSE "release"
  /\ UNCHANGED <<link, conf, tx, reused, sent, result>>

\* commit_transaction: the COMMIT is written at most once, to a live session,
\* and whatever happens nothing but a closed socket is left of it.
SendCommit ==
  /\ phase = "commit" /\ link = "up" /\ ~sent
  /\ sent' = TRUE
  /\ UNCHANGED <<phase, link, conf, tx, reused, result>>

CommitEnd ==
  /\ phase = "commit" /\ phase' = "release"
  /\ link' \in {link, "closed"}
  /\ UNCHANGED <<conf, tx, reused, sent, result>>

\* The connection is kept, or destroyed and a new one in its place.
Release ==
  /\ phase = "release" /\ phase' = "pooled"
  /\ link' \in {link, "closed"} /\ tx' \in {tx, FALSE}
  /\ UNCHANGED <<conf, reused, sent, result>>

Drop ==
  /\ link = "up" /\ link' = "lost"
  /\ UNCHANGED <<phase, conf, tx, reused, sent, result>>

Next ==
  \/ Lease \/ Reconnect \/ ConnectOk \/ InitFails \/ BeginOk
  \/ RowOk \/ RowFail \/ Deinit \/ Finish \/ SendCommit \/ CommitEnd \/ Release
  \/ Drop

Spec == Init /\ [][Next]_vars
=============================================================================

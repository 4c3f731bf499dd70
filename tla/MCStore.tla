------------------------------ MODULE MCStore -------------------------------
(* Instances of Store for TLC. *)
EXTENDS Store, TLC

CONSTANTS guest, h1, h2, h3, vhost, queue, secret, changed

Uri(host, port, passcode) ==
  [login |-> guest, host |-> host, port |-> port, path |-> vhost,
   fragment |-> queue, passcode |-> passcode]

OneHost    == {Uri(h1, NoPort, secret)}

\* Three endpoints, one of them by two uris: with its default port named or
\* not, and another passcode.
ThreeHosts ==
  {Uri(h, NoPort, secret) : h \in {h1, h2, h3}} \cup {Uri(h1, StompPort, changed)}
=============================================================================

----------------------------- MODULE MCPeppol -----------------------------
(* Small instances of Peppol: request handlers and the poller of a server,  *)
(* or one handler and a command-line process.                               *)
EXTENDS Peppol, TLC

CONSTANTS h1, h2, inv, in1, in2

OneServer == {Workers}
TwoProcesses == {{w} : w \in Workers}
MCIncoming == {[id |-> in1, doc |-> inv, status |-> "delivered"]}

\* Two messages with the same invoice in them, one of which comes marked failed.
MCTwoIncoming == MCIncoming \cup {[id |-> in2, doc |-> inv, status |-> "failed"]}

Handlers == Permutations({h1, h2})
=============================================================================

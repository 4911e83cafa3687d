------------------------------ MODULE MCSession ------------------------------
(***************************************************************************)
(* Small instances of the session for TLC.                                  *)
(***************************************************************************)
EXTENDS Session, TLC

CONSTANTS t1, t2

\* All the optional parts of connect at once, a plain tunnel without VS Code
\* and reconnect, and VS Code without remote setup for a second target.
FullRequest  == [target |-> t1, manage |-> TRUE, code |-> TRUE, remote |-> TRUE,
                 isolated |-> TRUE, reconnect |-> TRUE, timeout |-> TRUE]
PlainRequest == [target |-> t1, manage |-> FALSE, code |-> FALSE, remote |-> FALSE,
                 isolated |-> FALSE, reconnect |-> FALSE, timeout |-> TRUE]
CodeRequest  == [target |-> t2, manage |-> FALSE, code |-> TRUE, remote |-> FALSE,
                 isolated |-> FALSE, reconnect |-> TRUE, timeout |-> FALSE]

\* A tunnel only, for either target.
BareRequests  == {PlainRequest, [PlainRequest EXCEPT !.target = t2]}
\* All but the remote set-up, which fails late whenever the tunnel is down.
LocalRequest  == [FullRequest EXCEPT !.remote = FALSE]
AllRequests   == {LocalRequest, PlainRequest, CodeRequest}
TimedRequests == {FullRequest, [CodeRequest EXCEPT !.timeout = TRUE]}
MixedRequests == {LocalRequest, CodeRequest}
LocalOnly     == {LocalRequest}

EarlyFaults  == {"alloc", "preflight", "start", "supervisor"}
UndoneFaults == EarlyFaults \cup {"resave", "remote", "launch"}

SlotsAndPids == Permutations(Commands) \cup Permutations(Pids)
                   \cup Permutations(Ports)
=============================================================================

-------------------------- MODULE MCConnectPrograms --------------------------
(***************************************************************************)
(* A small instance of the programs of a connect for TLC.                   *)
(***************************************************************************)
EXTENDS ConnectPrograms, TLC

\* Every option set; few set and a blank list; and no proxy, which is refused.
SomeOptions ==
    {[http |-> "p", https |-> "q", no |-> "hosts", support |-> Unset],
     [http |-> "p", https |-> Unset, no |-> Blank, support |-> "off"],
     [http |-> Unset, https |-> Unset, no |-> Unset, support |-> Unset]}

\* The remote user's settings, with and without an entry dev-connect manages.
SomeSettings == {Missing, Partial, "theme" :> "dark" @@ "http.proxy" :> "own"}
=============================================================================

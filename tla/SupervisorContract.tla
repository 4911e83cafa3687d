-------------------------- MODULE SupervisorContract --------------------------
(***************************************************************************)
(* What the rest of dev-connect relies on about a tunnel supervisor that   *)
(* has read its session: it dials, it listens once kubectl has announced a *)
(* tunnel, it reports readiness only while it listens, and it goes back to *)
(* dialling when it reconnects and ends when it does not or is stopped.    *)
(***************************************************************************)
CONSTANT Stoppable   \* TRUE: it may be stopped from outside

VARIABLES
    mode,       \* dial, listen or dead
    keeps,      \* it reconnects
    reported    \* supervisor.ready has been written

contractVars == <<mode, keeps, reported>>

ContractInit == mode = "dial" /\ keeps \in BOOLEAN /\ reported = FALSE

Up ==
    /\ mode = "dial"
    /\ mode' = "listen"
    /\ UNCHANGED <<keeps, reported>>

Report ==
    /\ mode = "listen"
    /\ reported' = TRUE
    /\ UNCHANGED <<mode, keeps>>

Down ==
    /\ mode \in {"dial", "listen"}
    /\ mode' = IF keeps THEN "dial" ELSE "dead"
    /\ UNCHANGED <<keeps, reported>>

Stop ==
    /\ Stoppable
    /\ mode' = "dead"
    /\ UNCHANGED <<keeps, reported>>

ContractNext == Up \/ Report \/ Down \/ Stop

ContractSpec == ContractInit /\ [][ContractNext]_contractVars
=============================================================================

----------------------------- MODULE TunnelLease -----------------------------
(***************************************************************************)
(* What the commands promise of the tunnel, as if there were one lease of  *)
(* it.  A supervisor is started only while nobody has the lease, it is     *)
(* pending until connect records it in session.json, and the record is     *)
(* given up only after the supervisor is gone: the next connect, and the   *)
(* next disconnect, always find the one process there can be.              *)
(***************************************************************************)
CONSTANTS Holders, None

VARIABLES
    live,     \* supervisors that are alive
    pending,  \* the one a connect has started and not recorded yet
    record    \* the one session.json records

leaseVars == <<live, pending, record>>

LeaseInit == live = {} /\ pending = None /\ record = None

Grant(h) ==
    /\ live = {} /\ pending = None /\ record = None
    /\ live' = {h} /\ pending' = h
    /\ UNCHANGED record

Record ==
    /\ pending # None
    /\ record' = pending /\ pending' = None
    /\ UNCHANGED live

\* connect gives up on a supervisor, which is dead by then or dies with it.
Withdraw ==
    /\ pending # None
    /\ live' = {} /\ pending' = None
    /\ UNCHANGED record

\* The supervisor ends by itself or is stopped.
Lose ==
    /\ live # {}
    /\ live' = {}
    /\ UNCHANGED <<pending, record>>

Release ==
    /\ live = {}
    /\ record # None /\ record' = None
    /\ UNCHANGED <<live, pending>>

LeaseNext == (\E h \in Holders : Grant(h)) \/ Record \/ Withdraw \/ Lose \/ Release

LeaseSpec == LeaseInit /\ [][LeaseNext]_leaseVars
=============================================================================

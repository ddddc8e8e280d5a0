--------------------------- MODULE MCScanAttempts ---------------------------
(***************************************************************************)
(* ScanAttempts on a small instance: which faults happen is each run's.    *)
(***************************************************************************)
EXTENDS ScanAttempts

MCAllFaults == FaultPlaces
MCNoFaults == {}
=============================================================================

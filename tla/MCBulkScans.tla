---------------------------- MODULE MCBulkScans ----------------------------
(***************************************************************************)
(* BulkScans on a small instance: files with every kind of line, at the    *)
(* first, a middle and the last place.                                     *)
(***************************************************************************)
EXTENDS BulkScans

CONSTANTS s1, s2

MCFiles == {<<>>, <<Rejected, s1>>, <<s1, Rejected, s2>>, <<s1, Malformed, s2>>,
            <<s1, s2, Rejected, Rejected>>}

\* Whatever happens at most once to a scan and before its report is committed,
\* or leaves its status alone.
MCEarly == {"lookup", "api_db", "enqueue", "start", "scan", "options",
            "persist", "mark_failed", "lost"}
=============================================================================

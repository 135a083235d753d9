------------------------------- MODULE MC_Touch -------------------------------
(* Four contacts for a table of three, so that a contact in the middle of    *)
(* the table is lifted and a crowd occurs; two positions.                    *)
EXTENDS Touch
MCIds == 0..3
MCPositions == {"here", "there"}
=============================================================================

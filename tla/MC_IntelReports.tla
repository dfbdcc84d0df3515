--------------------------- MODULE MC_IntelReports --------------------------
(* The instance of IntelReports for TLC.                                     *)
EXTENDS IntelReports

CONSTANTS q1, q2, q3

ThreeSubmissions == {q1, q2, q3}

\* With a window of 2: q1 and q2 are different reports, q3 is the same as q1,
\* the same as both, or a third one.
LineTimes == [q \in ThreeSubmissions |->
                CASE q = q1 -> {0} [] q = q2 -> {2} [] q = q3 -> {0, 1, 4}]
=============================================================================

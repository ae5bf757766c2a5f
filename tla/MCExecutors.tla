----------------------------- MODULE MCExecutors -----------------------------
(* Small instances of Executors for TLC.                                    *)
EXTENDS Executors, TLC

\* Two tests that expect different answers: either may be left in the answer file.
MCExpected == <<"yes", "no">>

\* The arrays of up to two entries.
MCPrinted ==
    UNION {[1 .. n -> [verdict : {"Accepted", "WrongAnswer"}, escape : BOOLEAN]] : n \in 0 .. 2}
=============================================================================

---------------------------- MODULE MCRateLimit ----------------------------
(* Small instances of RateLimit for TLC.                                    *)
EXTENDS RateLimit, TLC

CONSTANTS k1, k2

\* One key slides its window several times, the other competes for windows.
MCMaxAdmitted == (k1 :> 3) @@ (k2 :> 1)
MCSymmetry == Permutations(Requests) \cup Permutations(Windows)
============================================================================

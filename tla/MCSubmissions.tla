---------------------------- MODULE MCSubmissions ----------------------------
(* Small instances of Submissions for TLC.                                  *)
EXTENDS Submissions, TLC

CONSTANT user

MCJobs == 1 .. MaxJobs
\* One user owns every submission, so that their security events add up.
MCUserOf == [s \in Ids |-> user]
\* Allowed, refused, an object without the answer, and text that is not JSON.
MCReplies == {[kind |-> "json", is_allowed |-> "true", severity |-> "info"],
              [kind |-> "json", is_allowed |-> "false", severity |-> "block"],
              [kind |-> "json", is_allowed |-> "none", severity |-> "none"],
              [kind |-> "text", is_allowed |-> "none", severity |-> "none"]}
\* Allowed, and refused with a severity that is no label of the database's
\* enumeration.
MCFewReplies == {[kind |-> "json", is_allowed |-> "true", severity |-> "info"],
                 [kind |-> "json", is_allowed |-> "false", severity |-> "critical"]}
MCSymmetry == Permutations(Ids) \cup Permutations(Readers)
=============================================================================

---------------------------- MODULE MCJobQueue ----------------------------
(* JobQueue on small instances: see the runs in the .cfg files.          *)
EXTENDS JobQueue, TLC

\* Every query may be answered by every release.
AnyAnswer == [q \in Queries |-> Releases]

\* One release answers each query, and a different one: CONSTANT Releases has
\* the queries themselves for releases.
OwnAnswer == [q \in Queries |-> {q}]

RaceOperations == {"create", "retry", "cancel", "delete"}
SerialOperations == {"create", "retry", "delete", "consume"}
CancelOperations == {"create", "cancel"}
RemoveOperations == {"create", "delete"}
LiveOperations == {"create", "cancel", "delete"}

RaceSymmetry == Permutations(Workers) \cup Permutations(Handlers) \cup Permutations(Releases)
                  \cup Permutations(TempNames)
SerialSymmetry == Permutations(Workers) \cup Permutations(Ids) \cup Permutations(TempNames)
===========================================================================

------------------------------ MODULE MCQueues ------------------------------
(* Work in several transactions that is resumed and repeated: the queue of the  *)
(* embedding worker, that of the API for GitHub, and imports.  Their tables and *)
(* workers are their own, and each behaviour takes the steps of one of them.    *)
EXTENDS MCEmbeddingQueue, IntegrationJobs, PortfolioImport, TLC

VARIABLE part

QueuesInit ==
    /\ part \in {"embedding", "jobs", "imports"}
    /\ Init /\ JobsInit /\ ImportInit

QueuesNext ==
    /\ UNCHANGED part
    /\ \/ part = "embedding" /\ Next /\ UNCHANGED <<jobsVars, importVars>>
       \/ part = "jobs" /\ JobsNext /\ UNCHANGED <<vars, importVars>>
       \/ part = "imports" /\ ImportNext /\ UNCHANGED <<vars, jobsVars>>

QueuesSpec == QueuesInit /\ [][QueuesNext]_<<vars, jobsVars, importVars, part>>

(* Requests are given the values of Sweeps.                                     *)
Symmetry == Permutations(Sources) \cup Permutations(Sweeps)
=============================================================================

----------------------------- MODULE MCRecords -----------------------------
(* What concurrent requests may do to the records of a workspace: blocking      *)
(* relations, parents of tasks, identifiers, workflow states, decisions,        *)
(* claims, uploads of evidence, knowledge, and the runs through which a task    *)
(* changes machines.  No guard of one part reads what another writes, but for   *)
(* the existence of a task and its deletion, and a part that looks at them has  *)
(* actions of its own for them.  So each behaviour takes the steps of one part. *)
EXTENDS Blocking, WorkflowStates, Memory, Evidence, Knowledge, Identifiers, Hierarchy,
        Handoff, TLC

CONSTANTS
    Three, Two  \* the sets the parts are given: two, so that there is one
                \* small group of symmetries
VARIABLE part

(* Two answers to each of two questions.                                        *)
Answers == Two \X {1, 2}
Questions == [d \in Answers |-> d[1]]

(* Of two commits the first is an ancestor of the second.                       *)
InARow == {<<1, 2>>}

vars == <<part, blockVars, hierarchyVars, identifierVars, workflowVars, memoryVars, handoffVars,
          evidenceVars, knowledgeVars>>

(* A part that takes no steps needs one initial state.                          *)
Init ==
    /\ part \in {"blocking", "hierarchy", "identifiers", "workflow", "decisions", "claims",
                 "handoff", "evidence", "artifacts", "milestones"}
    /\ BlockingInit /\ WorkflowInit /\ MemoryInit /\ EvidenceInit /\ KnowledgeInit
    /\ HierarchyInit /\ IdentifierInit /\ HandoffInit
    /\ part # "workflow" => kind = "task"
    /\ part # "handoff" => \A m \in Machines : tree[m].head = 1

Next ==
    /\ UNCHANGED part
    /\ \/ /\ part = "blocking" /\ BlockingNext
          /\ UNCHANGED <<hierarchyVars, identifierVars, workflowVars, memoryVars, handoffVars,
                         evidenceVars, knowledgeVars>>
       \/ /\ part = "hierarchy" /\ HierarchyNext
          /\ UNCHANGED <<blockVars, identifierVars, workflowVars, memoryVars, handoffVars,
                         evidenceVars, knowledgeVars>>
       \/ /\ part = "identifiers" /\ IdentifierNext
          /\ UNCHANGED <<blockVars, hierarchyVars, workflowVars, memoryVars, handoffVars,
                         evidenceVars, knowledgeVars>>
       \/ /\ part = "workflow" /\ WorkflowNext
          /\ UNCHANGED <<blockVars, hierarchyVars, identifierVars, memoryVars, handoffVars,
                         evidenceVars, knowledgeVars>>
       \/ /\ \/ part = "decisions" /\ MemoryNext /\ \A x \in Claims : status'[x] = "absent"
             \/ part = "claims" /\ MemoryNext /\ \A x \in Decisions : status'[x] = "absent"
          /\ UNCHANGED <<blockVars, hierarchyVars, identifierVars, workflowVars, handoffVars,
                         evidenceVars, knowledgeVars>>
       \/ /\ part = "handoff" /\ HandoffNext
          /\ UNCHANGED <<blockVars, hierarchyVars, identifierVars, workflowVars, memoryVars,
                         evidenceVars, knowledgeVars>>
       \/ /\ part = "evidence" /\ EvidenceNext
          /\ UNCHANGED <<blockVars, hierarchyVars, identifierVars, workflowVars, memoryVars,
                         handoffVars, knowledgeVars>>
       \/ /\ \/ part = "artifacts" /\ KnowledgeNext /\ milestone' = Nothing
             \/ part = "milestones" /\ KnowledgeNext /\ artifact' = Nothing
          /\ UNCHANGED <<blockVars, hierarchyVars, identifierVars, workflowVars, memoryVars,
                         handoffVars, evidenceVars>>

Spec == Init /\ [][Next]_vars

Symmetry == Permutations(Three) \cup Permutations(Two)

------------------------------------------------------------------------------
(* Each part's variables have the values its module gives them.                 *)
TypeOK ==
    /\ BlockingTypeOK /\ WorkflowTypeOK /\ MemoryTypeOK /\ EvidenceTypeOK /\ KnowledgeTypeOK
    /\ HierarchyTypeOK /\ IdentifierTypeOK /\ HandoffTypeOK
=============================================================================

----------------------------- MODULE MCWorkflow -----------------------------
EXTENDS Workflow

(* A task that is reviewed and approved beside a Map that is joined.       *)
MCKind == <<"task", "map", "check", "approval", "join">>
MCPreds == <<{}, {}, {1}, {3}, {2}>>
MCParent == [k \in Children |-> 2]
=============================================================================

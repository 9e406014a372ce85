----------------------- MODULE MCSupervisorLifecycle -----------------------
EXTENDS SupervisorLifecycle

CONSTANTS root, child

OwnedByRoot == [a \in Agents |-> IF a = child THEN {root} ELSE {}]
=============================================================================

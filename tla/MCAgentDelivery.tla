-------------------------- MODULE MCAgentDelivery --------------------------
EXTENDS AgentDelivery, TLC

Processes == Permutations(Process)
=============================================================================

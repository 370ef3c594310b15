--------------------------- MODULE MCAgentOffice ---------------------------
(* Instances of AgentOffice: two agents of one role and one task, which is *)
(* discussed where there is one slot, and not where there are two.         *)
EXTENDS AgentOffice, TLC

CONSTANTS a1, a2, t1

SmallOffices == {<<1, Tasks>>, <<2, {}>>}

Sym == Permutations(Agents)
=============================================================================

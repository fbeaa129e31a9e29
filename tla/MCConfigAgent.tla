---- MODULE MCConfigAgent ----
(* ConfigAgent with two clients, two jobs and two processes of the agent.  *)
(* The mailbox and the compile queue share nothing but the life of the     *)
(* agent, so a behaviour has clients of one of them only: the states of    *)
(* the two add up instead of multiplying.                                  *)
EXTENDS ConfigAgent

OneHalf == (\A c \in Clients : client[c] = "new") \/ (\A j \in Jobs : barrac[j] = "new")

MCSpec ==
  /\ AgentInit /\ [][AgentNext /\ OneHalf']_agentVars /\ WF_agentVars(\E a \in Agents : StartAgent(a))
  /\ \A a \in Agents : WF_agentVars(AgentStep(a)) /\ WF_agentVars(WorkerStep(a))
====

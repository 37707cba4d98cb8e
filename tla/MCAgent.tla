------------------------------ MODULE MCAgent ------------------------------
(* A small instance: commands that the policy tells apart, one message.    *)
EXTENDS AgentProperties

MCProposals ==
    {cmd \in [effect : {"unknown"}, protected : BOOLEAN, private : BOOLEAN, rule : {"none"}] :
        ~(cmd.protected /\ cmd.private)}
=============================================================================

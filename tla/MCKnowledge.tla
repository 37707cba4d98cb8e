---------------------------- MODULE MCKnowledge ----------------------------
(* A desktop that replaces a document while the command-line tool fills a  *)
(* bucket of the same database, and on another machine replaces the same   *)
(* document.                                                               *)
EXTENDS KnowledgeProperties

CONSTANTS here, there, doc, fill, rival

MCHome == [j \in Job |-> IF j = rival THEN there ELSE here]
=============================================================================

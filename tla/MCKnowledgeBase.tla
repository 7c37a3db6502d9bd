---------------------------- MODULE MCKnowledgeBase ----------------------------
(* Small instance of KnowledgeBase: a text of one chunk and one of two.    *)
EXTENDS KnowledgeBase

CONSTANTS short, long

MCPieces == [t \in Texts |-> IF t = long THEN 2 ELSE 1]

=============================================================================

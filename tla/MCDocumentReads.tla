-------------------------- MODULE MCDocumentReads --------------------------
EXTENDS DocumentReads
CONSTANTS q1, q2, r1, r2, t
BesideTable == [r \in Reads |-> IF r \in Tables THEN q2 ELSE q1]
=============================================================================

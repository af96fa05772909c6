----------------------------- MODULE MCChangeFeed -----------------------------
EXTENDS ChangeFeed

MCRank == [s \in Sessions |-> IF s = "a" THEN 1 ELSE IF s = "b" THEN 2 ELSE 3]
=============================================================================

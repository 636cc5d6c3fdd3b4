------------------------------ MODULE MCCheckpoint ------------------------------
\* Values for the constants of CheckpointTrim that a configuration cannot write down.
EXTENDS CheckpointTrim

EveryoneKnown == [n \in Nodes |-> Nodes]
NobodySeen == [n \in Nodes |-> {}]
None == [n \in Nodes |-> 0]
OneEach == [n \in Nodes |-> 1]
TwoEach == [n \in Nodes |-> 2]
NineEach == [n \in Nodes |-> 9]
OnlyFirst == [n \in Nodes |-> IF n = 1 THEN 1 ELSE 0]
OnlySecond == [n \in Nodes |-> IF n = 2 THEN 1 ELSE 0]
OneAndTwo == [n \in Nodes |-> IF n = 1 THEN 1 ELSE 2]
TwoByFirst == [n \in Nodes |-> IF n = 1 THEN 2 ELSE 0]
================================================================================

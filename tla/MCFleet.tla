-------------------------------- MODULE MCFleet --------------------------------
\* Small fleets: machine "r2" takes over the name of machine "r".
EXTENDS Fleet

OwnNames == [m \in Machines |-> IF m = "r2" THEN "r" ELSE m]
Only(M) == [m \in Machines |-> IF m \in M THEN 1 ELSE 0]
Nobody == Only({})
ByA == Only({"a"})
ByR == Only({"r"})
ByAB == Only({"a", "b"})
ByBR == Only({"b", "r"})

AdmitsBR == <<<<"a", "b">>, <<"a", "r">>>>
================================================================================

------------------------------- MODULE MCResidency -------------------------------
(* Small instances of ResidencyHost for TLC: a provider and one task beside it. *)
EXTENDS ResidencyHost

TheTasks == {"agent", "watch"}
AllFaults == {"misread", "death", "spawn", "store", "crash"}
OnlyDeaths == {"death"}
================================================================================

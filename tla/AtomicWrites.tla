------------------------------ MODULE AtomicWrites ------------------------------
(***************************************************************************)
(* What the writer of a store promises its callers: a write takes effect   *)
(* in one step, some writes together with others; a caller is told that    *)
(* its write succeeded only when it has taken effect, and that it failed   *)
(* only when it has not and never will.  A crash leaves the callers that   *)
(* wait without an answer.                                                 *)
(***************************************************************************)
CONSTANT Callers  \* each makes one write

VARIABLES
    done,   \* the callers whose writes have taken effect
    status  \* what each caller knows of its write

vars == <<done, status>>

Failures == {"refused", "failed"}
Statuses == {"idle", "asked", "ok", "lost"} \cup Failures

Init ==
    /\ done = {}
    /\ status = [c \in Callers |-> "idle"]

Ask(c) ==
    /\ status[c] = "idle"
    /\ status' = [status EXCEPT ![c] = "asked"]
    /\ UNCHANGED done

TakeEffect(S) ==
    /\ \A c \in S : status[c] = "asked"
    /\ done' = done \cup S
    /\ UNCHANGED status

Succeed(c) ==
    /\ status[c] = "asked" /\ c \in done
    /\ status' = [status EXCEPT ![c] = "ok"]
    /\ UNCHANGED done

Fail(c, why) ==
    /\ status[c] = "asked" /\ c \notin done
    /\ status' = [status EXCEPT ![c] = why]
    /\ UNCHANGED done

Crash ==
    /\ status' = [c \in Callers |-> IF status[c] = "asked" THEN "lost" ELSE status[c]]
    /\ UNCHANGED done

Next ==
    \/ \E c \in Callers : Ask(c) \/ Succeed(c) \/ \E why \in Failures : Fail(c, why)
    \/ \E S \in SUBSET Callers : TakeEffect(S)
    \/ Crash

Spec == Init /\ [][Next]_vars
================================================================================

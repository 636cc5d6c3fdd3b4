-------------------------------- MODULE Residency --------------------------------
(***************************************************************************)
(* The ledger of an on-demand agent: which step of going cold or of being  *)
(* woken it is in.  Every event is fenced by the generation it belongs to; *)
(* one that comes too late changes nothing.                                *)
(*                                                                         *)
(* A step of RuntimeResidency is a state of its own here: "stopping" and   *)
(* "absent" are the two stop steps, "preparing", "launching" and           *)
(* "verifying" the three start steps.  The fence of a ledger is the        *)
(* generation it resumes as while it goes cold, the one it came from while *)
(* it starts, and 0 otherwise.                                             *)
(***************************************************************************)
EXTENDS Integers

CONSTANT MaxGeneration  \* the largest generation a ledger can number

ASSUME GenerationAssumption == MaxGeneration \in Nat \ {0}

GoingCold == {"quiescing", "stopping", "absent", "cold"}
Starting == {"preparing", "launching", "verifying"}
Residencies == GoingCold \cup Starting \cup {"active", "refused"}

Ledgers == [generation : 1 .. MaxGeneration, state : Residencies,
            fence : 0 .. MaxGeneration, wake : BOOLEAN]

Entry(g, state, fence, wake) ==
    [generation |-> g, state |-> state, fence |-> fence, wake |-> wake]

ActiveLedger == Entry(1, "active", 0, FALSE)

\* What store and load insist on.
Valid(l) ==
    /\ l.state = "cold" => ~l.wake
    /\ l.state \in GoingCold => l.fence = l.generation + 1
    /\ l.state \in Starting => l.fence + 1 = l.generation

\* The step the host is to take, if the ledger asks for one.
HasNextAction(l) == l.state \notin {"active", "cold", "refused"}

(***************************************************************************)
(* Events                                                                  *)
(***************************************************************************)
\* An event of generation g that ends one step and begins the next.
Step(l, g, from, to) ==
    IF g = l.generation /\ l.state = from THEN Entry(g, to, l.fence, l.wake) ELSE l

\* The generation that was stopped is resumed as the next one.
Resumed(l) == Entry(l.fence, "preparing", l.generation, TRUE)

\* Mutant: demand that comes while the agent goes cold is not noted.
WakeDemandObservedCold(l) == IF l.state = "cold" THEN Resumed(l) ELSE l

WakeDemandObserved(l) ==
    IF l.state = "active" \/ l.wake THEN l
    ELSE IF l.state = "cold" THEN Resumed(l)
    ELSE Entry(l.generation, l.state, l.fence, TRUE)

Refused(l, g) ==
    IF g = l.generation /\ HasNextAction(l) THEN Entry(g, "refused", 0, l.wake)
    ELSE l

IdleConfirmed(l, g) ==
    IF g # l.generation \/ l.state # "active" \/ l.wake THEN l
    ELSE IF g = MaxGeneration THEN Entry(g, "refused", 0, FALSE)
    ELSE Entry(g, "quiescing", g + 1, FALSE)

CheckpointStored(l, g, resume) ==
    IF resume = l.fence THEN Step(l, g, "quiescing", "stopping") ELSE l

OwnedGroupStopped(l, g) == Step(l, g, "stopping", "absent")

\* Mutant: the group is cold, whoever has asked for it meanwhile.
AbsenceVerifiedCold(l, g) == Step(l, g, "absent", "cold")

AbsenceVerified(l, g) ==
    IF g = l.generation /\ l.state = "absent" /\ l.wake THEN Resumed(l)
    ELSE Step(l, g, "absent", "cold")

NativeResumePrepared(l, g) == Step(l, g, "preparing", "launching")

OwnedGroupLaunched(l, g) == Step(l, g, "launching", "verifying")

NativeSessionVerified(l, g) ==
    IF g = l.generation /\ l.state = "verifying"
    THEN Entry(g, "active", 0, FALSE)
    ELSE l
================================================================================

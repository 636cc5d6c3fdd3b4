------------------------------ MODULE ResidencyHost ------------------------------
(***************************************************************************)
(* The host supervisor's side of residency, for one on-demand agent: each  *)
(* reconcile pass lists the running tasks, reads demand, takes the steps   *)
(* the ledger asks for, launches what is missing and lists again.  Beside  *)
(* it run the agent's tasks, which start, bind their native session and    *)
(* die, and people, who ask for a wake or send a message.                  *)
(*                                                                         *)
(* The ledger, the wake request, the launch attempt, the checkpoint and    *)
(* the provider's binding are files; the pass and the debounce are memory. *)
(* The provider behaves as the omp driver does: it binds once its channel  *)
(* is ready.  A pass whose catalog, listing or ledger cannot be read does  *)
(* nothing and is no pass here.  Only the equality of incarnations and     *)
(* sessions matters, so a fresh one is one that nothing names any more.    *)
(***************************************************************************)
EXTENDS Residency, FiniteSets

CONSTANTS
    Tasks,      \* the tasks of the agent's owned group
    Agent,      \* its canonical task, the provider
    FaultKinds, \* which faults happen: "misread", "death", "spawn", "store", "crash"
    MaxFaults   \* bound on the faults of a behaviour

ASSUME HostAssumption ==
    /\ Agent \in Tasks
    /\ FaultKinds \subseteq {"misread", "death", "spawn", "store", "crash"}
    /\ MaxFaults \in Nat

VARIABLES
    ledger,     \* the residency ledger
    request,    \* whether the wake request file is there
    inbox,      \* whether the inbox holds an unread message
    attempt,    \* the launch attempt file: generation and incarnation
    checkpoint, \* the residency checkpoint: the generation it resumes, the binding
    binding,    \* the native session binding the provider published
    provider,   \* the provider's incarnation, resume generation and session, 0 until ready
    alive,      \* the tasks that run
    killed,     \* those of them that were told to stop
    recent,     \* the tasks the debounce saw alive within its grace
    pass,       \* the reconcile pass in progress
    faults,     \* how many faults happened
    owed,       \* history: a wake was requested of an agent that was not active
    left        \* history: the session the group worked in when it was found absent

files == <<ledger, request, inbox, attempt, checkpoint, binding>>
vars == <<files, provider, alive, killed, recent, pass, faults, owed, left>>

NoAttempt == [generation |-> 0, inc |-> 0]
\* What a pass holds: its stage, the tasks it listed, and the generation and incarnation
\* it launches.  In stage "suspend" an idle agent is to be suspended unless there is
\* demand; in stage "hold" the tasks may be adopted but not launched.
Pass(stage, seen, receipt, inc) ==
    [stage |-> stage, seen |-> seen, receipt |-> receipt, inc |-> inc]
NoPass == Pass("idle", {}, 0, 0)

Unused(S) == CHOOSE n \in 1 .. 6 : n \notin S
FreshInc == Unused({attempt.inc, checkpoint.binding.inc, binding.inc, provider.inc, pass.inc})
FreshSession == Unused({checkpoint.binding.session, binding.session, provider.session, left})

NoFault == UNCHANGED faults
AFault(kind) == kind \in FaultKinds /\ faults < MaxFaults /\ faults' = faults + 1

\* The ledger is replaced by l, atomically and durably.
Store(l) ==
    /\ ledger' = l
    /\ owed' = (owed /\ l.state \notin {"active", "refused"})
NoStore == UNCHANGED <<ledger, owed>>

(***************************************************************************)
(* People and the agent's own tasks                                        *)
(***************************************************************************)
RequestWake ==
    /\ ~request /\ request' = TRUE
    /\ owed' = (ledger.state \notin {"active", "refused"})
    /\ UNCHANGED <<ledger, inbox, attempt, checkpoint, binding, provider, alive, killed,
                   recent, pass, faults, left>>

SendMessage ==
    /\ ~inbox /\ inbox' = TRUE
    /\ UNCHANGED <<ledger, request, attempt, checkpoint, binding, provider, alive, killed,
                   recent, pass, faults, owed, left>>

ProviderRuns == Agent \in alive /\ provider.session # 0

ReadInbox ==
    /\ inbox /\ ProviderRuns /\ inbox' = FALSE
    /\ UNCHANGED <<ledger, request, attempt, checkpoint, binding, provider, alive, killed,
                   recent, pass, faults, owed, left>>

\* Mutant: the checkpoint's generation is all that counts.
RequiredResumeOfGeneration(g) == checkpoint.resume = g
\* required_residency_resume: the checkpoint is for this generation and nothing was bound
\* since it was taken.
RequiredResume(g) == checkpoint.resume = g /\ binding = checkpoint.binding

Bind(s) ==
    /\ provider' = [session |-> s, inc |-> provider.inc, generation |-> provider.generation]
    /\ binding' = provider'

\* The provider is ready: it resumes the saved session when it was launched to, and may
\* go on or start afresh when it was launched as usual.
ProviderReady ==
    /\ Agent \in alive /\ provider.session = 0
    /\ \/ provider.generation = 0 /\ \E s \in {binding.session, FreshSession} : Bind(s)
       \/ /\ provider.generation # 0 /\ RequiredResume(provider.generation)
          /\ Bind(checkpoint.binding.session)
    /\ UNCHANGED <<ledger, request, inbox, attempt, checkpoint, alive, killed, recent, pass,
                   faults, owed, left>>

\* A provider that cannot resume what it was launched for exits.
ProviderExits ==
    /\ Agent \in alive /\ provider.session = 0
    /\ provider.generation # 0 /\ ~RequiredResume(provider.generation)
    /\ alive' = alive \ {Agent} /\ killed' = killed \ {Agent}
    /\ UNCHANGED <<files, provider, recent, pass, faults, owed, left>>

\* A session switch inside a provider that is not held to one.
SwitchSession ==
    /\ ProviderRuns /\ provider.generation = 0
    /\ Bind(FreshSession)
    /\ UNCHANGED <<ledger, request, inbox, attempt, checkpoint, alive, killed, recent, pass,
                   faults, owed, left>>

KilledDies(t) ==
    /\ t \in killed
    /\ alive' = alive \ {t} /\ killed' = killed \ {t}
    /\ UNCHANGED <<files, provider, recent, pass, faults, owed, left>>

TaskDies(t) ==
    /\ t \in alive \ killed /\ AFault("death")
    /\ alive' = alive \ {t}
    /\ UNCHANGED <<files, provider, killed, recent, pass, owed, left>>

\* Ten seconds since the debounce last saw t alive.
GraceOver(t) ==
    /\ pass.stage = "idle" /\ t \in recent
    /\ recent' = recent \ {t}
    /\ UNCHANGED <<files, provider, alive, killed, pass, faults, owed, left>>

(***************************************************************************)
(* The reconcile pass                                                      *)
(***************************************************************************)
\* The pass lists the running tasks.  A listing may miss a task, but only one that was
\* seen a moment ago: this is what the debounce is there for.  An agent that has been
\* idle for long enough is to be suspended (no active agent is kept warm).
Observe ==
    /\ pass.stage = "idle"
    /\ \E seen \in SUBSET alive, idle \in BOOLEAN :
        /\ alive \ seen \subseteq recent
        /\ IF seen = alive THEN NoFault ELSE AFault("misread")
        /\ idle => ledger.state = "active" /\ Agent \in seen /\ provider.session # 0
        /\ pass' = Pass(IF idle THEN "suspend" ELSE "demand", seen, 0, 0)
        /\ recent' = recent \cup seen
    /\ UNCHANGED <<files, provider, alive, killed, owed, left>>

GoTo(stage) == pass' = Pass(stage, pass.seen, 0, 0)

\* Demand is recorded, or fails to be; without demand an idle agent begins to go cold.
Demand ==
    /\ pass.stage \in {"demand", "suspend"}
    /\ \/ /\ request \/ inbox
          /\ Store(WakeDemandObserved(ledger)) /\ NoFault
          /\ GoTo(IF request THEN "forget" ELSE "loop")
       \/ /\ request \/ inbox
          /\ NoStore /\ AFault("store")
          /\ GoTo("loop")
       \/ /\ ~request /\ ~inbox /\ NoFault
          /\ IF pass.stage = "suspend" THEN Store(IdleConfirmed(ledger, ledger.generation)) ELSE NoStore
          /\ GoTo("loop")
    /\ UNCHANGED <<request, inbox, attempt, checkpoint, binding, provider, alive, killed,
                   recent, left>>

\* The wake request that was read is removed, and with it one written since.
Forget ==
    /\ pass.stage = "forget"
    /\ request' = FALSE
    /\ GoTo("loop")
    /\ UNCHANGED <<ledger, inbox, attempt, checkpoint, binding, provider, alive, killed,
                   recent, faults, owed, left>>

EndLoop == GoTo("hold")

\* The event that ends a step is stored and the loop goes on.  When the step or the store
\* fails, the pass refuses to go on with the ledger, if it can store that.
Fails == AFault("store") /\ EndLoop /\ (NoStore \/ Store(Refused(ledger, ledger.generation)))
Done(l) == Fails \/ (Store(l) /\ NoFault /\ UNCHANGED pass)
Refuse == Fails \/ (Store(Refused(ledger, ledger.generation)) /\ NoFault /\ EndLoop)
Wait == NoStore /\ NoFault /\ EndLoop

At(state) == pass.stage = "loop" /\ ledger.state = state

CheckpointNativeSession ==
    /\ At("quiescing")
    /\ \/ /\ checkpoint' = [resume |-> ledger.fence, binding |-> binding]
          /\ Done(CheckpointStored(ledger, ledger.generation, ledger.fence))
       \/ UNCHANGED checkpoint /\ Fails
    /\ UNCHANGED <<request, inbox, attempt, binding, provider, alive, killed, recent, left>>

\* The tasks that were listed are told to stop.  When that fails for some of them the
\* step is tried again by the next pass.
StopOwnedGroup ==
    /\ At("stopping")
    /\ \/ /\ killed' = killed \cup (pass.seen \cap alive)
          /\ Store(OwnedGroupStopped(ledger, ledger.generation)) /\ NoFault /\ UNCHANGED pass
       \/ /\ \E K \in SUBSET (pass.seen \cap alive) : killed' = killed \cup K
          /\ NoStore /\ AFault("store") /\ EndLoop
    /\ UNCHANGED <<request, inbox, attempt, checkpoint, binding, provider, alive, recent, left>>

\* Mutant: one listing without the tasks is enough.
VerifyAbsentAtOnce ==
    /\ At("absent")
    /\ \/ /\ pass.seen = {}
          /\ Done(AbsenceVerified(ledger, ledger.generation))
          /\ left' = provider.session
       \/ pass.seen # {} /\ Wait /\ UNCHANGED left
    /\ UNCHANGED <<request, inbox, attempt, checkpoint, binding, provider, alive, killed, recent>>

VerifyAbsent ==
    /\ At("absent")
    /\ \/ /\ pass.seen = {} /\ recent = {}
          /\ Done(AbsenceVerified(ledger, ledger.generation))
          /\ left' = provider.session
       \/ pass.seen \cup recent # {} /\ Wait /\ UNCHANGED left
    /\ UNCHANGED <<request, inbox, attempt, checkpoint, binding, provider, alive, killed, recent>>

PrepareNativeResume ==
    /\ At("preparing")
    /\ IF RequiredResume(ledger.generation)
       THEN Done(NativeResumePrepared(ledger, ledger.generation))
       ELSE Refuse
    /\ UNCHANGED <<request, inbox, attempt, checkpoint, binding, provider, alive, killed,
                   recent, left>>

\* Mutant: the tasks of a group that is being launched are held as well.
LaunchingHeld(inc) == NoStore /\ NoFault /\ EndLoop
\* The group is left to this pass to launch, with the generation and this incarnation.
Launching(inc) ==
    /\ NoStore /\ NoFault
    /\ pass' = Pass("reconcile", pass.seen, ledger.generation, inc)

\* Mutant: the fence is not renewed for the new launch.
LaunchOwnedGroupUnfenced ==
    /\ At("launching")
    /\ Launching(FreshInc)
    /\ UNCHANGED <<request, inbox, attempt, checkpoint, binding, provider, alive, killed,
                   recent, left>>

\* A provider that runs keeps the fence it was launched with; otherwise a new one is
\* stored, for the launch this pass makes.
LaunchOwnedGroup ==
    /\ At("launching")
    /\ \/ /\ Agent \in pass.seen /\ UNCHANGED attempt
          /\ IF attempt.generation = ledger.generation THEN Launching(attempt.inc) ELSE Refuse
       \/ /\ Agent \notin pass.seen /\ Launching(FreshInc)
          /\ attempt' = [generation |-> ledger.generation, inc |-> FreshInc]
       \/ Agent \notin pass.seen /\ Fails /\ UNCHANGED attempt
    /\ UNCHANGED <<request, inbox, checkpoint, binding, provider, alive, killed, recent, left>>

\* residency_ready, with its errors.
Unbound == binding = checkpoint.binding
ReadyFails ==
    \/ attempt.generation # ledger.generation
    \/ checkpoint.resume # ledger.generation
    \/ /\ ~Unbound
       /\ \/ binding.generation # ledger.generation
          \/ binding.session # checkpoint.binding.session
Ready == ~ReadyFails /\ ~Unbound /\ binding.inc = attempt.inc

\* The ledger becomes active when the launched provider has bound the saved session; the
\* launch attempt is removed after that, if it can be.
VerifyNativeSession ==
    /\ At("verifying")
    /\ IF Tasks \subseteq pass.seen /\ Ready
       THEN \/ /\ Store(NativeSessionVerified(ledger, ledger.generation)) /\ UNCHANGED pass
               /\ (attempt' = NoAttempt /\ NoFault) \/ (UNCHANGED attempt /\ AFault("store"))
            \/ Fails /\ UNCHANGED attempt
       ELSE /\ UNCHANGED attempt
            /\ IF Tasks \subseteq pass.seen /\ ReadyFails THEN Refuse ELSE Wait
    /\ UNCHANGED <<request, inbox, checkpoint, binding, provider, alive, killed, recent, left>>

\* The ledger asks for nothing more: only the tasks of an active agent may be launched.
NothingToDo ==
    /\ pass.stage = "loop" /\ ~HasNextAction(ledger)
    /\ GoTo(IF ledger.state = "active" THEN "reconcile" ELSE "hold")
    /\ UNCHANGED <<files, provider, alive, killed, recent, faults, owed, left>>

\* What reconcile and defer_flickers leave to launch.
Missing == IF pass.stage = "hold" THEN {} ELSE Tasks \ (pass.seen \cup recent)

\* The missing tasks are launched, the provider with the resume fence of this pass.  A
\* name that is still running cannot be launched again.
Reconcile ==
    /\ pass.stage \in {"reconcile", "hold"}
    /\ \E spawned \in SUBSET (Missing \ alive) :
        /\ IF spawned = Missing \ alive THEN NoFault ELSE AFault("spawn")
        /\ alive' = alive \cup spawned
        /\ provider' = IF Agent \notin spawned THEN provider
                       ELSE [inc |-> IF pass.receipt # 0 THEN pass.inc ELSE FreshInc,
                             generation |-> pass.receipt, session |-> 0]
    /\ pass' = IF pass.receipt = 0 THEN NoPass
               ELSE Pass("after", {}, pass.receipt, 0)
    /\ UNCHANGED <<files, killed, recent, owed, left>>

\* The launch is recorded once a second listing shows the whole group.
AfterReconcile ==
    /\ pass.stage = "after" /\ pass' = NoPass
    /\ \/ Tasks \subseteq alive /\ Store(OwnedGroupLaunched(ledger, pass.receipt)) /\ NoFault
       \/ Tasks \subseteq alive /\ NoStore /\ (AFault("store") \/ AFault("misread"))
       \/ ~(Tasks \subseteq alive) /\ NoStore /\ NoFault
    /\ UNCHANGED <<request, inbox, attempt, checkpoint, binding, provider, alive, killed,
                   recent, left>>

\* The supervisor dies and starts again: the pass and the debounce are gone.
Crash ==
    /\ AFault("crash") /\ pass' = NoPass /\ recent' = {}
    /\ UNCHANGED <<files, provider, alive, killed, owed, left>>

(***************************************************************************)
(* The specification                                                       *)
(***************************************************************************)
Init ==
    /\ ledger = ActiveLedger
    /\ request = FALSE /\ inbox = FALSE
    /\ attempt = NoAttempt
    /\ checkpoint = [resume |-> 0, binding |-> [session |-> 0, inc |-> 0, generation |-> 0]]
    /\ binding = [session |-> 1, inc |-> 1, generation |-> 0]
    /\ provider = [session |-> 1, inc |-> 1, generation |-> 0]
    /\ alive = Tasks /\ killed = {} /\ recent = {}
    /\ pass = NoPass
    /\ faults = 0 /\ owed = FALSE /\ left = 0

PassStep ==
    \/ Observe \/ Demand \/ Forget
    \/ CheckpointNativeSession \/ StopOwnedGroup \/ VerifyAbsent
    \/ PrepareNativeResume \/ LaunchOwnedGroup \/ VerifyNativeSession
    \/ NothingToDo \/ Reconcile \/ AfterReconcile

Next ==
    \/ PassStep \/ Crash
    \/ RequestWake \/ SendMessage \/ ReadInbox
    \/ ProviderReady \/ ProviderExits \/ SwitchSession
    \/ \E t \in Tasks : KilledDies(t) \/ TaskDies(t) \/ GraceOver(t)

Spec == Init /\ [][Next]_vars

\* The supervisor's loop goes on; a task that was told to stop stops; a provider comes to
\* its first binding or exits; and ten seconds pass, however many passes they hold.
Fairness ==
    /\ WF_vars(PassStep)
    /\ WF_vars(ProviderReady \/ ProviderExits)
    /\ \A t \in Tasks : WF_vars(KilledDies(t)) /\ SF_vars(GraceOver(t))

FairSpec == Spec /\ Fairness

(***************************************************************************)
(* Properties                                                              *)
(***************************************************************************)
Bindings == [session : 0 .. 6, inc : 0 .. 6, generation : 0 .. MaxGeneration]
Attempts == [generation : 0 .. MaxGeneration, inc : 0 .. 6]
Checkpoints == [resume : 0 .. MaxGeneration, binding : Bindings]
Stages == {"idle", "demand", "suspend", "forget", "loop", "reconcile", "hold", "after"}
Passes == [stage : Stages, seen : SUBSET Tasks, receipt : 0 .. MaxGeneration, inc : 0 .. 6]

\* The stored values are well formed; the ledger is one that validate lets through.
TypeOK ==
    /\ ledger \in Ledgers /\ Valid(ledger)
    /\ request \in BOOLEAN /\ inbox \in BOOLEAN
    /\ attempt \in Attempts /\ checkpoint \in Checkpoints
    /\ binding \in Bindings /\ provider \in Bindings
    /\ alive \subseteq Tasks /\ killed \subseteq alive /\ recent \subseteq Tasks
    /\ pass \in Passes /\ faults \in 0 .. MaxFaults
    /\ owed \in BOOLEAN /\ left \in 0 .. 6

\* before_reconcile: no task of the old group runs once its absence was verified, and a
\* provider that runs while the group is being woken was launched for this generation.
OldGroupIsGone ==
    /\ ledger.state \in {"cold", "preparing"} => alive = {}
    /\ ledger.state \in {"launching", "verifying"} /\ Agent \in alive
         => provider.generation = ledger.generation

\* prepare_launch_attempt and residency_ready: a provider that runs while the group is
\* being woken finds the launch attempt of its generation, and what is bound by then is
\* what was bound before or the saved session resumed: neither check refuses such a wake.
FenceIsThere ==
    /\ At("launching") /\ Agent \in pass.seen => attempt.generation = ledger.generation
    /\ At("verifying") => ~ReadyFails

\* before_reconcile: an agent becomes active again only in the session its last group
\* worked in, and its provider, if it still runs, works in it.
SameSession ==
    [][ledger.state = "verifying" /\ ledger'.state = "active" =>
         /\ binding.session = left
         /\ Agent \in alive => provider.session = left]_vars

\* demand and store_event: a wake that was asked for while the agent was not active stays
\* asked for, in the request file or in the ledger, until the agent is active or refused.
DemandIsKept == owed => request \/ ledger.wake

\* The situations that before_reconcile never leaves: a task it did not list and so did
\* not stop runs on; a group that lost a task after its launch was recorded is held; the
\* provider carries another fence than the stored one; a provider that bound and died has
\* left a binding its successors refuse to resume.
Stuck ==
    \/ ledger.state = "absent" /\ alive \ killed # {}
    \/ ledger.state = "verifying" /\ ~(Tasks \subseteq alive)
    \/ ledger.state = "verifying" /\ provider.inc # attempt.inc
    \/ ledger.state = "launching" /\ ~RequiredResume(ledger.generation)

\* before_reconcile: demand that was recorded is served, or the agent is refused, unless
\* one of those situations is met.
ServedUnlessStuck == ledger.wake ~> (ledger.state \in {"active", "refused"} \/ Stuck)

\* What the documentation says of a wake: a start that fails is tried again.
WakeIsServed == ledger.wake ~> ledger.state \in {"active", "refused"}
================================================================================

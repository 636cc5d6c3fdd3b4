----------------------------- MODULE ResidencyProofs -----------------------------
(***************************************************************************)
(* Proofs about ResidencyHost, for every group of tasks, every kind and    *)
(* number of faults and every number of generations.                       *)
(***************************************************************************)
EXTENDS ResidencyHost, TLAPS

\* What a pass may rely on: it has seen, or its debounce remembers, every task that runs;
\* it forgets a request only after the ledger has taken note of it; it launches only for an
\* active ledger or for the generation that is being launched.
PassIsFenced ==
    /\ pass.stage \in {"demand", "suspend", "forget", "loop"} =>
         alive \subseteq pass.seen \cup recent
    /\ pass.stage = "hold" => pass.receipt = 0
    /\ pass.stage = "forget" => ledger.wake \/ ledger.state = "active"
    /\ owed => ledger.state \notin {"active", "refused"}
    /\ pass.stage \in {"reconcile", "after"} =>
         /\ pass.receipt # 0 => /\ ledger.state = "launching"
                                /\ pass.receipt = ledger.generation
         /\ pass.receipt = 0 => ledger.state = "active"

\* The inductive invariant.
IInv == TypeOK /\ OldGroupIsGone /\ DemandIsKept /\ PassIsFenced

(***************************************************************************)
(* Lemmas                                                                  *)
(***************************************************************************)
\* A fresh incarnation or session is a number: at most five are in use.
LEMMA UnusedType == \A a, b, c, d, e : Unused({a, b, c, d, e}) \in 1 .. 6
<1> SUFFICES ASSUME NEW a, NEW b, NEW c, NEW d, NEW e
             PROVE  Unused({a, b, c, d, e}) \in 1 .. 6
  OBVIOUS
<1>1. \E n \in 1 .. 6 : n \notin {a, b, c, d, e}
  <2>1. 1 \in 1 .. 6 /\ 2 \in 1 .. 6 /\ 3 \in 1 .. 6 /\ 4 \in 1 .. 6 /\ 5 \in 1 .. 6 /\ 6 \in 1 .. 6
    OBVIOUS
  <2> QED BY <2>1
<1> QED BY <1>1 DEF Unused

\* So is the one a new provider gets, and the session it opens.
LEMMA FreshType == FreshInc \in 1 .. 6 /\ FreshSession \in 1 .. 6
<1>1. FreshSession = Unused({checkpoint.binding.session, binding.session,
                             provider.session, left, left})
  BY DEF FreshSession
<1> QED BY <1>1, UnusedType DEF FreshInc

\* Every event of residency.rs turns a valid ledger into a valid one.
LEMMA EventsKeepLedger ==
    ASSUME NEW l \in Ledgers, Valid(l)
    PROVE  /\ WakeDemandObserved(l) \in Ledgers /\ Valid(WakeDemandObserved(l))
           /\ \A g : /\ Refused(l, g) \in Ledgers /\ Valid(Refused(l, g))
                     /\ IdleConfirmed(l, g) \in Ledgers /\ Valid(IdleConfirmed(l, g))
                     /\ \A r : /\ CheckpointStored(l, g, r) \in Ledgers
                               /\ Valid(CheckpointStored(l, g, r))
                     /\ OwnedGroupStopped(l, g) \in Ledgers /\ Valid(OwnedGroupStopped(l, g))
                     /\ AbsenceVerified(l, g) \in Ledgers /\ Valid(AbsenceVerified(l, g))
                     /\ NativeResumePrepared(l, g) \in Ledgers
                     /\ Valid(NativeResumePrepared(l, g))
                     /\ OwnedGroupLaunched(l, g) \in Ledgers /\ Valid(OwnedGroupLaunched(l, g))
                     /\ NativeSessionVerified(l, g) \in Ledgers
                     /\ Valid(NativeSessionVerified(l, g))
<1> USE GenerationAssumption DEF Ledgers, Valid, GoingCold, Starting, Residencies, Entry
<1>1. WakeDemandObserved(l) \in Ledgers /\ Valid(WakeDemandObserved(l))
  <2>1. CASE l.state = "active" \/ l.wake
    BY <2>1 DEF WakeDemandObserved
  <2>2. CASE ~(l.state = "active" \/ l.wake) /\ l.state = "cold"
    BY <2>2 DEF WakeDemandObserved, Resumed
  <2>3. CASE ~(l.state = "active" \/ l.wake) /\ l.state # "cold"
    BY <2>3 DEF WakeDemandObserved
  <2> QED BY <2>1, <2>2, <2>3
<1>2. ASSUME NEW g PROVE Refused(l, g) \in Ledgers /\ Valid(Refused(l, g))
  BY DEF Refused, HasNextAction
<1>3. ASSUME NEW g PROVE IdleConfirmed(l, g) \in Ledgers /\ Valid(IdleConfirmed(l, g))
  BY DEF IdleConfirmed
<1>4. ASSUME NEW g, NEW r
      PROVE  CheckpointStored(l, g, r) \in Ledgers /\ Valid(CheckpointStored(l, g, r))
  BY DEF CheckpointStored, Step
<1>5. ASSUME NEW g PROVE OwnedGroupStopped(l, g) \in Ledgers /\ Valid(OwnedGroupStopped(l, g))
  BY DEF OwnedGroupStopped, Step
<1>6. ASSUME NEW g PROVE AbsenceVerified(l, g) \in Ledgers /\ Valid(AbsenceVerified(l, g))
  BY DEF AbsenceVerified, Step, Resumed
<1>7. ASSUME NEW g
      PROVE  NativeResumePrepared(l, g) \in Ledgers /\ Valid(NativeResumePrepared(l, g))
  BY DEF NativeResumePrepared, Step
<1>8. ASSUME NEW g PROVE OwnedGroupLaunched(l, g) \in Ledgers /\ Valid(OwnedGroupLaunched(l, g))
  BY DEF OwnedGroupLaunched, Step
<1>9. ASSUME NEW g
      PROVE  NativeSessionVerified(l, g) \in Ledgers /\ Valid(NativeSessionVerified(l, g))
  BY DEF NativeSessionVerified
<1> HIDE DEF Ledgers, Valid
<1> QED BY <1>1, <1>2, <1>3, <1>4, <1>5, <1>6, <1>7, <1>8, <1>9

\* A pass that is put together from parts of the right types is one.
LEMMA PassType ==
    \A stage \in Stages, seen \in SUBSET Tasks, receipt \in 0 .. MaxGeneration, inc \in 0 .. 6 :
        Pass(stage, seen, receipt, inc) \in Passes
BY DEF Pass, Passes

(***************************************************************************)
(* The invariant                                                           *)
(***************************************************************************)
\* The supervisor starts with an active agent whose tasks run.
LEMMA InitInv == Init => IInv
<1> SUFFICES ASSUME Init PROVE IInv
  OBVIOUS
<1> USE GenerationAssumption, HostAssumption DEF Init
<1>1. ledger \in Ledgers /\ Valid(ledger)
  BY DEF Ledgers, Valid, ActiveLedger, Entry, GoingCold, Starting, Residencies
<1>2. binding \in Bindings /\ provider \in Bindings
  BY DEF Bindings
<1>3. checkpoint \in Checkpoints
  BY DEF Checkpoints, Bindings
<1>4. attempt \in Attempts
  BY DEF NoAttempt, Attempts
<1>5. pass \in Passes
  BY PassType DEF NoPass, Stages
<1>6. TypeOK
  <2>1. faults \in 0 .. MaxFaults /\ left \in 0 .. 6
    OBVIOUS
  <2>2. /\ alive \subseteq Tasks /\ killed \subseteq alive /\ recent \subseteq Tasks
        /\ request \in BOOLEAN /\ inbox \in BOOLEAN /\ owed \in BOOLEAN
    OBVIOUS
  <2> HIDE DEF Init
  <2> QED BY <1>1, <1>2, <1>3, <1>4, <1>5, <2>1, <2>2 DEF TypeOK
<1>7. OldGroupIsGone /\ DemandIsKept /\ PassIsFenced
  BY DEF OldGroupIsGone, DemandIsKept, PassIsFenced, ActiveLedger, Entry, NoPass, Pass
<1> QED BY <1>6, <1>7 DEF IInv

\* A step of the loop that goes on to a later state with the wake as it is, that refuses or
\* that waits keeps the request and the fences of the pass.
LEMMA LoopStep ==
    ASSUME IInv, pass.stage = "loop", HasNextAction(ledger),
           NEW l, l.wake = ledger.wake, l.state \notin {"active", "refused"},
           Done(l) \/ Refuse \/ Wait,
           UNCHANGED <<request, alive, recent>>
    PROVE  DemandIsKept' /\ PassIsFenced'
<1> DEFINE r == Refused(ledger, ledger.generation)
<1>1. CASE Store(l) /\ UNCHANGED pass
  BY <1>1 DEF Store, IInv, DemandIsKept, PassIsFenced
<1>2. CASE EndLoop /\ NoStore
  BY <1>2 DEF EndLoop, GoTo, Pass, NoStore, IInv, DemandIsKept, PassIsFenced
<1>3. CASE EndLoop /\ Store(r)
  <2>1. r.state = "refused"
    BY DEF Refused, Entry
  <2> HIDE DEF r
  <2>2. ~owed'
    BY <1>3, <2>1 DEF Store
  <2> QED BY <1>3, <2>2 DEF EndLoop, GoTo, Pass, DemandIsKept, PassIsFenced
<1> QED BY <1>1, <1>2, <1>3 DEF Done, Fails, Refuse, Wait

\* Every step of the supervisor, its tasks and its users keeps the invariant.
LEMMA NextInv == IInv /\ [Next]_vars => IInv'
<1> SUFFICES ASSUME IInv, [Next]_vars PROVE IInv'
  OBVIOUS
<1> USE GenerationAssumption, HostAssumption DEF IInv
<1> USE DEF NoFault, AFault, GoTo, EndLoop, At, Wait, Fails, Done, Refuse, Store, NoStore
<1>1. /\ pass.seen \in SUBSET Tasks /\ pass.receipt \in 0 .. MaxGeneration
      /\ ledger.generation \in 1 .. MaxGeneration /\ ledger.fence \in 0 .. MaxGeneration
  BY DEF TypeOK, Passes, Ledgers
<1>2. CASE UNCHANGED vars
  BY <1>2 DEF vars, files, TypeOK, OldGroupIsGone, DemandIsKept, PassIsFenced
<1>3. CASE RequestWake
  BY <1>3 DEF RequestWake, TypeOK, OldGroupIsGone, DemandIsKept, PassIsFenced
<1>4. CASE SendMessage
  BY <1>4 DEF SendMessage, TypeOK, OldGroupIsGone, DemandIsKept, PassIsFenced
<1>5. CASE ReadInbox
  BY <1>5 DEF ReadInbox, TypeOK, OldGroupIsGone, DemandIsKept, PassIsFenced, ProviderRuns
<1>6. CASE ProviderReady
  BY <1>6, FreshType
     DEF ProviderReady, TypeOK, OldGroupIsGone, DemandIsKept, PassIsFenced, Bind,
         RequiredResume, Bindings, Checkpoints
<1>7. CASE ProviderExits
  BY <1>7 DEF ProviderExits, TypeOK, OldGroupIsGone, DemandIsKept, PassIsFenced, files
<1>8. CASE SwitchSession
  BY <1>8, FreshType
     DEF SwitchSession, TypeOK, OldGroupIsGone, DemandIsKept, PassIsFenced, Bind,
         Bindings, ProviderRuns
<1>9. ASSUME NEW t \in Tasks, KilledDies(t) PROVE IInv'
  BY <1>9 DEF KilledDies, TypeOK, OldGroupIsGone, DemandIsKept, PassIsFenced, files
<1>10. ASSUME NEW t \in Tasks, TaskDies(t) PROVE IInv'
  BY <1>10 DEF TaskDies, TypeOK, OldGroupIsGone, DemandIsKept, PassIsFenced, files, AFault
<1>11. ASSUME NEW t \in Tasks, GraceOver(t) PROVE IInv'
  BY <1>11 DEF GraceOver, TypeOK, OldGroupIsGone, DemandIsKept, PassIsFenced, files
<1>12. CASE Crash
  <2>1. ledger' \in Ledgers /\ Valid(ledger')
    BY <1>12 DEF Crash, TypeOK, files
  <2>2. pass' \in Passes
    BY <1>1, <1>12, PassType DEF Crash, TypeOK, Stages, Attempts, NoPass
  <2>3. owed' \in BOOLEAN
    BY <1>12 DEF Crash, TypeOK, files, NoPass
  <2>4. TypeOK'
    BY <1>1, <1>12, <2>1, <2>2, <2>3
       DEF Crash, TypeOK, files, Bindings, Attempts, Checkpoints, NoPass
  <2>5. OldGroupIsGone' /\ DemandIsKept' /\ PassIsFenced'
    BY <1>1, <1>12
       DEF Crash, files, Refused, HasNextAction, Entry, NoPass, TypeOK, OldGroupIsGone,
           DemandIsKept, PassIsFenced, Pass
  <2> QED BY <2>4, <2>5
<1>13. CASE Forget
  <2>1. ledger' \in Ledgers /\ Valid(ledger')
    BY <1>13 DEF Forget, TypeOK, files
  <2>2. pass' \in Passes
    BY <1>1, <1>13, PassType DEF Forget, TypeOK, Stages, Attempts
  <2>3. owed' \in BOOLEAN
    BY <1>13 DEF Forget, TypeOK, files
  <2>4. TypeOK'
    BY <1>1, <1>13, <2>1, <2>2, <2>3
       DEF Forget, TypeOK, files, Bindings, Attempts, Checkpoints
  <2>5. OldGroupIsGone' /\ DemandIsKept' /\ PassIsFenced'
    BY <1>1, <1>13
       DEF Forget, files, Refused, HasNextAction, Entry, TypeOK, OldGroupIsGone,
           DemandIsKept, PassIsFenced, Pass
  <2> QED BY <2>4, <2>5
<1>14. CASE NothingToDo
  <2>1. ledger' \in Ledgers /\ Valid(ledger')
    BY <1>14 DEF NothingToDo, TypeOK, files
  <2>2. pass' \in Passes
    BY <1>1, <1>14, PassType DEF NothingToDo, TypeOK, Stages, Attempts
  <2>3. owed' \in BOOLEAN
    BY <1>14 DEF NothingToDo, TypeOK, files
  <2>4. TypeOK'
    BY <1>1, <1>14, <2>1, <2>2, <2>3
       DEF NothingToDo, TypeOK, files, Bindings, Attempts, Checkpoints
  <2>5. OldGroupIsGone' /\ DemandIsKept' /\ PassIsFenced'
    BY <1>1, <1>14
       DEF NothingToDo, files, Refused, HasNextAction, Entry, TypeOK, OldGroupIsGone,
           DemandIsKept, PassIsFenced, Pass
  <2> QED BY <2>4, <2>5
<1>15. CASE Observe
  <2>1. ledger' \in Ledgers /\ Valid(ledger')
    BY <1>15 DEF Observe, TypeOK, files
  <2>2. pass' \in Passes
    BY <1>1, <1>15, PassType DEF Observe, TypeOK, Stages, Attempts, NoPass
  <2>3. owed' \in BOOLEAN
    BY <1>15 DEF Observe, TypeOK, files, NoPass
  <2>4. TypeOK'
    BY <1>1, <1>15, <2>1, <2>2, <2>3
       DEF Observe, TypeOK, files, Bindings, Attempts, Checkpoints, NoPass
  <2>5. OldGroupIsGone' /\ DemandIsKept' /\ PassIsFenced'
    BY <1>1, <1>15
       DEF Observe, files, Refused, HasNextAction, Entry, NoPass, TypeOK,
           OldGroupIsGone, DemandIsKept, PassIsFenced, Pass
  <2> QED BY <2>4, <2>5
<1>16. CASE Demand
  <2>1. ledger' \in Ledgers /\ Valid(ledger')
    BY <1>16, EventsKeepLedger DEF Demand, TypeOK
  <2>2. pass' \in Passes
    BY <1>1, <1>16, PassType DEF Demand, TypeOK, Stages, Attempts
  <2>3. owed' \in BOOLEAN
    BY <1>16 DEF Demand, TypeOK, files
  <2>4. TypeOK'
    BY <1>1, <1>16, <2>1, <2>2, <2>3
       DEF Demand, TypeOK, files, Bindings, Attempts, Checkpoints
  <2>5. OldGroupIsGone' /\ DemandIsKept' /\ PassIsFenced'
    BY <1>1, <1>16
       DEF Demand, files, Refused, HasNextAction, Entry, WakeDemandObserved,
           IdleConfirmed, Resumed, TypeOK, OldGroupIsGone, DemandIsKept, PassIsFenced, Pass
  <2> QED BY <2>4, <2>5
<1>17. CASE CheckpointNativeSession
  <2>1. ledger' \in Ledgers /\ Valid(ledger')
    BY <1>17, EventsKeepLedger DEF CheckpointNativeSession, TypeOK
  <2>2. pass' \in Passes
    BY <1>1, <1>17, PassType DEF CheckpointNativeSession, TypeOK, Stages, Attempts
  <2>3. owed' \in BOOLEAN
    BY <1>17 DEF CheckpointNativeSession, TypeOK, files
  <2>4. TypeOK'
    BY <1>1, <1>17, <2>1, <2>2, <2>3
       DEF CheckpointNativeSession, TypeOK, files, Bindings, Attempts, Checkpoints
  <2>5. OldGroupIsGone'
    BY <1>1, <1>17
       DEF CheckpointNativeSession, files, Refused, HasNextAction, Entry,
           CheckpointStored, Step, TypeOK, OldGroupIsGone, PassIsFenced
  <2>6. DemandIsKept' /\ PassIsFenced'
    <3> DEFINE l == CheckpointStored(ledger, ledger.generation, ledger.fence)
    <3>1. l.wake = ledger.wake /\ l.state \notin {"active", "refused"}
      BY <1>17
         DEF CheckpointNativeSession, At, Entry, CheckpointStored, Step, TypeOK, Ledgers
    <3>2. Done(l) \/ Refuse \/ Wait
      BY <1>17 DEF CheckpointNativeSession
    <3> HIDE DEF l
    <3> QED BY <1>17, <3>1, <3>2, LoopStep DEF CheckpointNativeSession, At, HasNextAction
  <2> QED BY <2>4, <2>5, <2>6
<1>18. CASE StopOwnedGroup
  <2>1. ledger' \in Ledgers /\ Valid(ledger')
    BY <1>18, EventsKeepLedger DEF StopOwnedGroup, TypeOK
  <2>2. pass' \in Passes
    BY <1>1, <1>18, PassType DEF StopOwnedGroup, TypeOK, Stages, Attempts
  <2>3. owed' \in BOOLEAN
    BY <1>18 DEF StopOwnedGroup, TypeOK, files
  <2>4. TypeOK'
    BY <1>1, <1>18, <2>1, <2>2, <2>3
       DEF StopOwnedGroup, TypeOK, files, Bindings, Attempts, Checkpoints
  <2>5. OldGroupIsGone' /\ DemandIsKept' /\ PassIsFenced'
    BY <1>1, <1>18
       DEF StopOwnedGroup, files, Refused, HasNextAction, Entry, OwnedGroupStopped,
           Step, TypeOK, OldGroupIsGone, DemandIsKept, PassIsFenced, Pass
  <2> QED BY <2>4, <2>5
<1>19. CASE VerifyAbsent
  <2>1. ledger' \in Ledgers /\ Valid(ledger')
    BY <1>19, EventsKeepLedger DEF VerifyAbsent, TypeOK
  <2>2. pass' \in Passes
    BY <1>1, <1>19, PassType DEF VerifyAbsent, TypeOK, Stages, Attempts
  <2>3. owed' \in BOOLEAN
    BY <1>19 DEF VerifyAbsent, TypeOK, files
  <2>4. TypeOK'
    BY <1>1, <1>19, <2>1, <2>2, <2>3
       DEF VerifyAbsent, TypeOK, files, Bindings, Attempts, Checkpoints
  <2>5. OldGroupIsGone'
    BY <1>1, <1>19
       DEF VerifyAbsent, files, Refused, HasNextAction, Entry, AbsenceVerified, Step,
           Resumed, TypeOK, OldGroupIsGone, PassIsFenced
  <2>6. DemandIsKept' /\ PassIsFenced'
    <3> DEFINE l == AbsenceVerified(ledger, ledger.generation)
    <3>1. l.wake = ledger.wake /\ l.state \notin {"active", "refused"}
      BY <1>19 DEF VerifyAbsent, At, Entry, AbsenceVerified, Step, Resumed, TypeOK, Ledgers
    <3>2. Done(l) \/ Refuse \/ Wait
      BY <1>19 DEF VerifyAbsent
    <3> HIDE DEF l
    <3> QED BY <1>19, <3>1, <3>2, LoopStep DEF VerifyAbsent, At, HasNextAction
  <2> QED BY <2>4, <2>5, <2>6
<1>20. CASE PrepareNativeResume
  <2>1. ledger' \in Ledgers /\ Valid(ledger')
    BY <1>20, EventsKeepLedger DEF PrepareNativeResume, TypeOK
  <2>2. pass' \in Passes
    BY <1>1, <1>20, PassType DEF PrepareNativeResume, TypeOK, Stages, Attempts
  <2>3. owed' \in BOOLEAN
    BY <1>20 DEF PrepareNativeResume, TypeOK, files
  <2>4. TypeOK'
    BY <1>1, <1>20, <2>1, <2>2, <2>3
       DEF PrepareNativeResume, TypeOK, files, Bindings, Attempts, Checkpoints
  <2>5. OldGroupIsGone'
    BY <1>1, <1>20
       DEF PrepareNativeResume, files, Refused, HasNextAction, Entry,
           NativeResumePrepared, Step, TypeOK, OldGroupIsGone, PassIsFenced
  <2>6. DemandIsKept' /\ PassIsFenced'
    <3> DEFINE l == NativeResumePrepared(ledger, ledger.generation)
    <3>1. l.wake = ledger.wake /\ l.state \notin {"active", "refused"}
      BY <1>20
         DEF PrepareNativeResume, At, Entry, NativeResumePrepared, Step, TypeOK, Ledgers
    <3>2. Done(l) \/ Refuse \/ Wait
      BY <1>20 DEF PrepareNativeResume
    <3> HIDE DEF l
    <3> QED BY <1>20, <3>1, <3>2, LoopStep DEF PrepareNativeResume, At, HasNextAction
  <2> QED BY <2>4, <2>5, <2>6
<1>21. CASE LaunchOwnedGroup
  <2>1. ledger' \in Ledgers /\ Valid(ledger')
    BY <1>21, EventsKeepLedger DEF LaunchOwnedGroup, TypeOK, Launching
  <2>2. pass' \in Passes
    BY <1>1, <1>21, PassType, FreshType
       DEF LaunchOwnedGroup, TypeOK, Stages, Attempts, Launching
  <2>3. owed' \in BOOLEAN
    BY <1>21 DEF LaunchOwnedGroup, TypeOK, files, Launching
  <2>4. TypeOK'
    BY <1>1, <1>21, <2>1, <2>2, <2>3, FreshType
       DEF LaunchOwnedGroup, TypeOK, files, Bindings, Attempts, Checkpoints, Launching
  <2>5. OldGroupIsGone'
    BY <1>1, <1>21
       DEF LaunchOwnedGroup, files, Refused, HasNextAction, Entry, Step, Launching,
           TypeOK, OldGroupIsGone, PassIsFenced
  <2>6. DemandIsKept' /\ PassIsFenced'
    <3>1. CASE Launching(attempt.inc) \/ Launching(FreshInc)
      BY <1>1, <1>21, <3>1
         DEF LaunchOwnedGroup, At, Launching, NoStore, Pass, DemandIsKept, PassIsFenced
    <3>2. CASE Refuse \/ Fails
      BY <1>21, <3>2, LoopStep DEF LaunchOwnedGroup, At, HasNextAction, Done
    <3> QED BY <1>21, <3>1, <3>2 DEF LaunchOwnedGroup, Fails
  <2> QED BY <2>4, <2>5, <2>6
<1>22. CASE VerifyNativeSession
  <2>1. ledger' \in Ledgers /\ Valid(ledger')
    BY <1>22, EventsKeepLedger DEF VerifyNativeSession, TypeOK, NoAttempt
  <2>2. pass' \in Passes
    BY <1>1, <1>22, PassType DEF VerifyNativeSession, TypeOK, Stages, Attempts, NoAttempt
  <2>3. owed' \in BOOLEAN
    BY <1>22 DEF VerifyNativeSession, TypeOK, files, NoAttempt
  <2>4. TypeOK'
    BY <1>1, <1>22, <2>1, <2>2, <2>3
       DEF VerifyNativeSession, TypeOK, files, Bindings, Attempts, Checkpoints,
           NoAttempt
  <2>5. OldGroupIsGone'
    BY <1>1, <1>22
       DEF VerifyNativeSession, files, Refused, HasNextAction, Entry,
           NativeSessionVerified, NoAttempt, TypeOK, OldGroupIsGone, PassIsFenced
  <2>6. DemandIsKept' /\ PassIsFenced'
    <3>1. CASE Store(NativeSessionVerified(ledger, ledger.generation)) /\ UNCHANGED pass
      BY <1>22, <3>1
         DEF VerifyNativeSession, At, Store, Entry, NativeSessionVerified, DemandIsKept,
             PassIsFenced
    <3>2. CASE Refuse \/ Wait \/ Fails
      BY <1>22, <3>2, LoopStep DEF VerifyNativeSession, At, HasNextAction, Done
    <3> QED BY <1>22, <3>1, <3>2 DEF VerifyNativeSession
  <2> QED BY <2>4, <2>5, <2>6
<1>23. CASE Reconcile
  <2> USE <1>23 DEF Reconcile
  <2>1. PICK spawned \in SUBSET (Missing \ alive) :
          /\ IF spawned = Missing \ alive THEN NoFault ELSE AFault("spawn")
          /\ alive' = alive \cup spawned
          /\ provider' = IF Agent \notin spawned THEN provider
                         ELSE [inc |-> IF pass.receipt # 0 THEN pass.inc ELSE FreshInc,
                               generation |-> pass.receipt, session |-> 0]
    OBVIOUS
  <2>2. spawned \subseteq Tasks /\ (pass.stage = "hold" => spawned = {})
    BY <2>1 DEF Missing
  <2>3. pass' \in Passes
    BY <1>1, PassType DEF NoPass, Stages
  <2>4. provider' \in Bindings
    BY <1>1, <2>1, FreshType DEF TypeOK, Bindings, Passes
  <2>5. faults' \in 0 .. MaxFaults
    BY <2>1 DEF NoFault, AFault, TypeOK
  <2>6. TypeOK'
    BY <2>1, <2>2, <2>3, <2>4, <2>5 DEF TypeOK, files
  <2>7. OldGroupIsGone'
    <3>1. CASE pass.stage = "hold"
      BY <2>1, <2>2, <3>1 DEF OldGroupIsGone, files
    <3>2. CASE pass.stage = "reconcile"
      <4>1. CASE pass.receipt = 0
        BY <3>2, <4>1 DEF PassIsFenced, OldGroupIsGone, files
      <4>2. CASE pass.receipt # 0
        BY <2>1, <3>2, <4>2 DEF PassIsFenced, OldGroupIsGone, files
      <4> QED BY <4>1, <4>2
    <3> QED BY <3>1, <3>2
  <2>8. DemandIsKept' /\ PassIsFenced'
    <3>1. CASE pass.receipt = 0
      BY <3>1 DEF DemandIsKept, PassIsFenced, NoPass, Pass, files
    <3>2. CASE pass.receipt # 0 /\ pass.stage = "reconcile"
      BY <3>2 DEF DemandIsKept, PassIsFenced, Pass, files
    <3>3. pass.stage = "hold" => pass.receipt = 0
      BY DEF PassIsFenced
    <3> QED BY <3>1, <3>2, <3>3
  <2> QED BY <2>6, <2>7, <2>8
<1>24. CASE AfterReconcile
  <2>1. ledger' \in Ledgers /\ Valid(ledger')
    BY <1>24, EventsKeepLedger DEF AfterReconcile, TypeOK, NoPass
  <2>2. pass' \in Passes
    BY <1>1, <1>24, PassType DEF AfterReconcile, TypeOK, Stages, Attempts, NoPass
  <2>3. owed' \in BOOLEAN
    BY <1>24 DEF AfterReconcile, TypeOK, files, NoPass
  <2>4. TypeOK'
    BY <1>1, <1>24, <2>1, <2>2, <2>3
       DEF AfterReconcile, TypeOK, files, Bindings, Attempts, Checkpoints, NoPass
  <2>5. OldGroupIsGone' /\ DemandIsKept' /\ PassIsFenced'
    BY <1>1, <1>24
       DEF AfterReconcile, files, Refused, HasNextAction, Entry, OwnedGroupLaunched,
           Step, NoPass, TypeOK, OldGroupIsGone, DemandIsKept, PassIsFenced, Pass
  <2> QED BY <2>4, <2>5
<1> QED
  BY <1>2, <1>3, <1>4, <1>5, <1>6, <1>7, <1>8, <1>9, <1>10, <1>11, <1>12, <1>13, <1>14,
     <1>15, <1>16, <1>17, <1>18, <1>19, <1>20, <1>21, <1>22, <1>23, <1>24
     DEF Next, PassStep

\* The inductive invariant holds of every behaviour.
THEOREM ResidencyInvariance == Spec => []IInv
BY InitInv, NextInv, PTL DEF Spec

\* The stored values stay well formed: validate never refuses a ledger that apply made.
THEOREM ResidencyTypeCorrect == Spec => []TypeOK
<1>1. IInv => TypeOK
  BY DEF IInv
<1> QED BY <1>1, ResidencyInvariance, PTL

\* No task of a stopped group runs when its absence was verified, whatever tasks the group
\* has and whatever fails, as long as the listing only misses what it has just seen.
THEOREM StoppedGroupIsGone == Spec => []OldGroupIsGone
<1>1. IInv => OldGroupIsGone
  BY DEF IInv
<1> QED BY <1>1, ResidencyInvariance, PTL

\* A wake request is never lost between its file and the ledger.
THEOREM WakesAreKept == Spec => []DemandIsKept
<1>1. IInv => DemandIsKept
  BY DEF IInv
<1> QED BY <1>1, ResidencyInvariance, PTL

(***************************************************************************)
(* The session that is resumed                                             *)
(***************************************************************************)
Waking == {"launching", "verifying"}

\* What is bound follows the provider: while the group goes cold nobody else binds, and
\* what was last bound is what it worked in.
BindingFollows ==
    /\ binding.session # 0
    /\ provider.session # 0 => provider = binding
    /\ ledger.state \in GoingCold \cup {"preparing"} => provider = binding
    /\ pass.stage = "suspend" => provider = binding
    /\ ledger.state \in {"cold", "preparing"} => left = provider.session

\* While the group is woken the checkpoint names the session it left, and only that
\* session has been bound since.
CheckpointFollows ==
    ledger.state \in Waking =>
      /\ checkpoint.resume = ledger.generation
      /\ left = checkpoint.binding.session
      /\ \/ binding = checkpoint.binding
         \/ /\ binding.generation = ledger.generation
            /\ binding.session = checkpoint.binding.session

\* The stored launch attempt is of this generation, and has not been bound by a provider
\* that is yet to bind.
AttemptFollows ==
    /\ (/\ ledger.state \in {"cold", "preparing"}
        /\ pass.stage \in {"demand", "suspend", "forget", "loop"})
         => pass.seen = {}
    /\ ledger.state = "launching" /\ (Agent \in alive \/ Agent \in pass.seen)
         => attempt.generation = ledger.generation
    /\ ledger.state = "verifying" => attempt.generation = ledger.generation
    /\ ledger.state \in Waking /\ Agent \in alive /\ provider.session = 0
         => binding.inc # attempt.inc
    /\ pass.stage = "reconcile" /\ pass.receipt # 0 =>
         /\ alive \subseteq pass.seen \cup recent
         /\ attempt.generation = ledger.generation
         /\ Agent \notin pass.seen \cup recent =>
              pass.inc = attempt.inc /\ binding.inc # attempt.inc
    /\ pass.stage = "after" => attempt.generation = ledger.generation

SInv == IInv /\ BindingFollows /\ CheckpointFollows /\ AttemptFollows

\* The checkpoint and the binding start out as a running provider leaves them.
LEMMA InitSaved == Init => SInv
<1> SUFFICES ASSUME Init PROVE SInv
  OBVIOUS
<1>1. BindingFollows /\ CheckpointFollows /\ AttemptFollows
  BY
     DEF Init, ActiveLedger, Entry, NoPass, Pass, GoingCold, Waking, BindingFollows,
         CheckpointFollows, AttemptFollows
<1> QED BY <1>1, InitInv DEF SInv

\* A fresh incarnation is not the one that is bound.
LEMMA FreshIsFresh == FreshInc # binding.inc
<1>1. \E n \in 1 .. 6 : n \notin {attempt.inc, checkpoint.binding.inc, binding.inc,
                                  provider.inc, pass.inc}
  <2>1. 1 \in 1 .. 6 /\ 2 \in 1 .. 6 /\ 3 \in 1 .. 6 /\ 4 \in 1 .. 6 /\ 5 \in 1 .. 6 /\ 6 \in 1 .. 6
    OBVIOUS
  <2> QED BY <2>1
<1> QED BY <1>1 DEF FreshInc, Unused

\* Every step keeps what is known of the session.
LEMMA NextSaved == SInv /\ [Next]_vars => SInv'
<1> SUFFICES ASSUME SInv, [Next]_vars PROVE SInv'
  OBVIOUS
<1>0. IInv /\ IInv'
  BY NextInv DEF SInv
<1> SUFFICES BindingFollows' /\ CheckpointFollows' /\ AttemptFollows'
  BY <1>0 DEF SInv
<1> USE GenerationAssumption, HostAssumption DEF SInv, GoingCold, Waking
<1> USE DEF NoFault, AFault, GoTo, EndLoop, At, Wait, Fails, Done, Refuse, Store, NoStore
<1>1. /\ ledger.generation \in 1 .. MaxGeneration /\ Agent \in Tasks
      /\ OldGroupIsGone /\ OldGroupIsGone' /\ PassIsFenced /\ PassIsFenced'
  BY <1>0 DEF IInv, TypeOK, Ledgers
<1>2. CASE UNCHANGED vars
  BY <1>2 DEF vars, files, BindingFollows, CheckpointFollows, AttemptFollows
<1>3. CASE RequestWake
  <2>1. BindingFollows'
    BY <1>1, <1>3 DEF RequestWake, BindingFollows, files, PassIsFenced, OldGroupIsGone
  <2>2. CheckpointFollows'
    BY <1>1, <1>3 DEF RequestWake, CheckpointFollows, files, PassIsFenced, OldGroupIsGone
  <2>3. AttemptFollows'
    BY <1>1, <1>3 DEF RequestWake, AttemptFollows, files, PassIsFenced, OldGroupIsGone
  <2> QED BY <2>1, <2>2, <2>3
<1>4. CASE SendMessage
  <2>1. BindingFollows'
    BY <1>1, <1>4 DEF SendMessage, BindingFollows, files, PassIsFenced, OldGroupIsGone
  <2>2. CheckpointFollows'
    BY <1>1, <1>4 DEF SendMessage, CheckpointFollows, files, PassIsFenced, OldGroupIsGone
  <2>3. AttemptFollows'
    BY <1>1, <1>4 DEF SendMessage, AttemptFollows, files, PassIsFenced, OldGroupIsGone
  <2> QED BY <2>1, <2>2, <2>3
<1>5. CASE ReadInbox
  <2>1. BindingFollows'
    BY <1>1, <1>5 DEF ReadInbox, BindingFollows, files, PassIsFenced, OldGroupIsGone
  <2>2. CheckpointFollows'
    BY <1>1, <1>5 DEF ReadInbox, CheckpointFollows, files, PassIsFenced, OldGroupIsGone
  <2>3. AttemptFollows'
    BY <1>1, <1>5 DEF ReadInbox, AttemptFollows, files, PassIsFenced, OldGroupIsGone
  <2> QED BY <2>1, <2>2, <2>3
<1>6. CASE ProviderReady
  <2>1. BindingFollows'
    BY <1>1, <1>6, FreshType
       DEF ProviderReady, BindingFollows, files, PassIsFenced, OldGroupIsGone, Bind,
           RequiredResume
  <2>2. CheckpointFollows'
    BY <1>1, <1>6, FreshType
       DEF ProviderReady, CheckpointFollows, files, PassIsFenced, OldGroupIsGone, Bind,
           RequiredResume, BindingFollows
  <2>3. AttemptFollows'
    BY <1>1, <1>6, FreshType
       DEF ProviderReady, AttemptFollows, files, PassIsFenced, OldGroupIsGone, Bind,
           RequiredResume, BindingFollows
  <2> QED BY <2>1, <2>2, <2>3
<1>7. CASE ProviderExits
  <2>1. BindingFollows'
    BY <1>1, <1>7 DEF ProviderExits, BindingFollows, files, PassIsFenced, OldGroupIsGone
  <2>2. CheckpointFollows'
    BY <1>1, <1>7 DEF ProviderExits, CheckpointFollows, files, PassIsFenced, OldGroupIsGone
  <2>3. AttemptFollows'
    BY <1>1, <1>7 DEF ProviderExits, AttemptFollows, files, PassIsFenced, OldGroupIsGone
  <2> QED BY <2>1, <2>2, <2>3
<1>8. CASE SwitchSession
  <2>1. BindingFollows'
    BY <1>1, <1>8, FreshType
       DEF SwitchSession, BindingFollows, files, PassIsFenced, OldGroupIsGone, Bind,
           ProviderRuns
  <2>2. CheckpointFollows'
    BY <1>1, <1>8, FreshType
       DEF SwitchSession, CheckpointFollows, files, PassIsFenced, OldGroupIsGone, Bind,
           ProviderRuns
  <2>3. AttemptFollows'
    BY <1>1, <1>8, FreshType
       DEF SwitchSession, AttemptFollows, files, PassIsFenced, OldGroupIsGone, Bind,
           ProviderRuns
  <2> QED BY <2>1, <2>2, <2>3
<1>9. ASSUME NEW t \in Tasks, KilledDies(t)
      PROVE  BindingFollows' /\ CheckpointFollows' /\ AttemptFollows'
  <2>1. BindingFollows'
    BY <1>1, <1>9 DEF KilledDies, BindingFollows, files, PassIsFenced, OldGroupIsGone
  <2>2. CheckpointFollows'
    BY <1>1, <1>9 DEF KilledDies, CheckpointFollows, files, PassIsFenced, OldGroupIsGone
  <2>3. AttemptFollows'
    BY <1>1, <1>9 DEF KilledDies, AttemptFollows, files, PassIsFenced, OldGroupIsGone
  <2> QED BY <2>1, <2>2, <2>3
<1>10. ASSUME NEW t \in Tasks, TaskDies(t)
      PROVE  BindingFollows' /\ CheckpointFollows' /\ AttemptFollows'
  <2>1. BindingFollows'
    BY <1>1, <1>10 DEF TaskDies, BindingFollows, files, PassIsFenced, OldGroupIsGone
  <2>2. CheckpointFollows'
    BY <1>1, <1>10 DEF TaskDies, CheckpointFollows, files, PassIsFenced, OldGroupIsGone
  <2>3. AttemptFollows'
    BY <1>1, <1>10 DEF TaskDies, AttemptFollows, files, PassIsFenced, OldGroupIsGone
  <2> QED BY <2>1, <2>2, <2>3
<1>11. ASSUME NEW t \in Tasks, GraceOver(t)
      PROVE  BindingFollows' /\ CheckpointFollows' /\ AttemptFollows'
  <2>1. BindingFollows'
    BY <1>1, <1>11 DEF GraceOver, BindingFollows, files, PassIsFenced, OldGroupIsGone
  <2>2. CheckpointFollows'
    BY <1>1, <1>11 DEF GraceOver, CheckpointFollows, files, PassIsFenced, OldGroupIsGone
  <2>3. AttemptFollows'
    BY <1>1, <1>11 DEF GraceOver, AttemptFollows, files, PassIsFenced, OldGroupIsGone
  <2> QED BY <2>1, <2>2, <2>3
<1>12. CASE Crash
  <2>1. BindingFollows'
    BY <1>1, <1>12
       DEF Crash, BindingFollows, files, PassIsFenced, OldGroupIsGone, NoPass, Pass
  <2>2. CheckpointFollows'
    BY <1>1, <1>12
       DEF Crash, CheckpointFollows, files, PassIsFenced, OldGroupIsGone, NoPass, Pass
  <2>3. AttemptFollows'
    BY <1>1, <1>12
       DEF Crash, AttemptFollows, files, PassIsFenced, OldGroupIsGone, NoPass, Pass
  <2> QED BY <2>1, <2>2, <2>3
<1>13. CASE Observe
  <2>1. BindingFollows'
    BY <1>1, <1>13 DEF Observe, BindingFollows, files, PassIsFenced, OldGroupIsGone, Pass
  <2>2. CheckpointFollows'
    BY <1>1, <1>13 DEF Observe, CheckpointFollows, files, PassIsFenced, OldGroupIsGone, Pass
  <2>3. AttemptFollows'
    BY <1>1, <1>13 DEF Observe, AttemptFollows, files, PassIsFenced, OldGroupIsGone, Pass
  <2> QED BY <2>1, <2>2, <2>3
<1>14. CASE Demand
  <2>1. BindingFollows'
    BY <1>1, <1>14
       DEF Demand, BindingFollows, files, PassIsFenced, OldGroupIsGone, Pass, Entry,
           Step, Resumed, Refused, HasNextAction, WakeDemandObserved, IdleConfirmed
  <2>2. CheckpointFollows'
    BY <1>1, <1>14
       DEF Demand, CheckpointFollows, files, PassIsFenced, OldGroupIsGone, Pass, Entry,
           Step, Resumed, Refused, HasNextAction, WakeDemandObserved, IdleConfirmed,
           BindingFollows
  <2>3. AttemptFollows'
    BY <1>1, <1>14
       DEF Demand, AttemptFollows, files, PassIsFenced, OldGroupIsGone, Pass, Entry,
           Step, Resumed, Refused, HasNextAction, WakeDemandObserved, IdleConfirmed,
           BindingFollows
  <2> QED BY <2>1, <2>2, <2>3
<1>15. CASE Forget
  <2>1. BindingFollows'
    BY <1>1, <1>15
       DEF Forget, BindingFollows, files, PassIsFenced, OldGroupIsGone, GoTo, Pass
  <2>2. CheckpointFollows'
    BY <1>1, <1>15
       DEF Forget, CheckpointFollows, files, PassIsFenced, OldGroupIsGone, GoTo, Pass
  <2>3. AttemptFollows'
    BY <1>1, <1>15
       DEF Forget, AttemptFollows, files, PassIsFenced, OldGroupIsGone, GoTo, Pass
  <2> QED BY <2>1, <2>2, <2>3
<1>16. CASE CheckpointNativeSession
  <2>1. BindingFollows'
    BY <1>1, <1>16
       DEF CheckpointNativeSession, BindingFollows, files, PassIsFenced, OldGroupIsGone,
           Pass, Entry, Step, Resumed, Refused, HasNextAction, CheckpointStored
  <2>2. CheckpointFollows'
    BY <1>1, <1>16
       DEF CheckpointNativeSession, CheckpointFollows, files, PassIsFenced,
           OldGroupIsGone, Pass, Entry, Step, Resumed, Refused, HasNextAction,
           CheckpointStored
  <2>3. AttemptFollows'
    BY <1>1, <1>16
       DEF CheckpointNativeSession, AttemptFollows, files, PassIsFenced, OldGroupIsGone,
           Pass, Entry, Step, Resumed, Refused, HasNextAction, CheckpointStored
  <2> QED BY <2>1, <2>2, <2>3
<1>17. CASE StopOwnedGroup
  <2>1. BindingFollows'
    BY <1>1, <1>17
       DEF StopOwnedGroup, BindingFollows, files, PassIsFenced, OldGroupIsGone, Pass,
           Entry, Step, Resumed, Refused, HasNextAction, OwnedGroupStopped
  <2>2. CheckpointFollows'
    BY <1>1, <1>17
       DEF StopOwnedGroup, CheckpointFollows, files, PassIsFenced, OldGroupIsGone, Pass,
           Entry, Step, Resumed, Refused, HasNextAction, OwnedGroupStopped
  <2>3. AttemptFollows'
    BY <1>1, <1>17
       DEF StopOwnedGroup, AttemptFollows, files, PassIsFenced, OldGroupIsGone, Pass,
           Entry, Step, Resumed, Refused, HasNextAction, OwnedGroupStopped
  <2> QED BY <2>1, <2>2, <2>3
<1>18. CASE VerifyAbsent
  <2>1. BindingFollows'
    BY <1>1, <1>18
       DEF VerifyAbsent, BindingFollows, files, PassIsFenced, OldGroupIsGone, Pass,
           Entry, Step, Resumed, Refused, HasNextAction, AbsenceVerified
  <2>2. CheckpointFollows'
    BY <1>1, <1>18
       DEF VerifyAbsent, CheckpointFollows, files, PassIsFenced, OldGroupIsGone, Pass,
           Entry, Step, Resumed, Refused, HasNextAction, AbsenceVerified
  <2>3. AttemptFollows'
    BY <1>1, <1>18
       DEF VerifyAbsent, AttemptFollows, files, PassIsFenced, OldGroupIsGone, Pass,
           Entry, Step, Resumed, Refused, HasNextAction, AbsenceVerified
  <2> QED BY <2>1, <2>2, <2>3
<1>19. CASE PrepareNativeResume
  <2>1. BindingFollows'
    BY <1>1, <1>19
       DEF PrepareNativeResume, BindingFollows, files, PassIsFenced, OldGroupIsGone,
           Pass, Entry, Step, Resumed, Refused, HasNextAction, NativeResumePrepared,
           RequiredResume, AttemptFollows
  <2>2. CheckpointFollows'
    BY <1>1, <1>19
       DEF PrepareNativeResume, CheckpointFollows, files, PassIsFenced, OldGroupIsGone,
           Pass, Entry, Step, Resumed, Refused, HasNextAction, NativeResumePrepared,
           RequiredResume, BindingFollows, AttemptFollows
  <2>3. AttemptFollows'
    BY <1>1, <1>19
       DEF PrepareNativeResume, AttemptFollows, files, PassIsFenced, OldGroupIsGone,
           Pass, Entry, Step, Resumed, Refused, HasNextAction, NativeResumePrepared,
           RequiredResume, BindingFollows
  <2> QED BY <2>1, <2>2, <2>3
<1>20. CASE LaunchOwnedGroup
  <2>1. BindingFollows'
    BY <1>1, <1>20, FreshIsFresh
       DEF LaunchOwnedGroup, BindingFollows, files, PassIsFenced, OldGroupIsGone, Pass,
           Entry, Step, Resumed, Refused, HasNextAction, Launching
  <2>2. CheckpointFollows'
    BY <1>1, <1>20, FreshIsFresh
       DEF LaunchOwnedGroup, CheckpointFollows, files, PassIsFenced, OldGroupIsGone,
           Pass, Entry, Step, Resumed, Refused, HasNextAction, Launching
  <2>3. AttemptFollows'
    BY <1>1, <1>20, FreshIsFresh
       DEF LaunchOwnedGroup, AttemptFollows, files, PassIsFenced, OldGroupIsGone, Pass,
           Entry, Step, Resumed, Refused, HasNextAction, Launching
  <2> QED BY <2>1, <2>2, <2>3
<1>21. CASE VerifyNativeSession
  <2>1. BindingFollows'
    BY <1>1, <1>21
       DEF VerifyNativeSession, BindingFollows, files, PassIsFenced, OldGroupIsGone,
           Pass, Entry, Step, Resumed, Refused, HasNextAction, NativeSessionVerified
  <2>2. CheckpointFollows'
    BY <1>1, <1>21
       DEF VerifyNativeSession, CheckpointFollows, files, PassIsFenced, OldGroupIsGone,
           Pass, Entry, Step, Resumed, Refused, HasNextAction, NativeSessionVerified
  <2>3. AttemptFollows'
    BY <1>1, <1>21
       DEF VerifyNativeSession, AttemptFollows, files, PassIsFenced, OldGroupIsGone,
           Pass, Entry, Step, Resumed, Refused, HasNextAction, NativeSessionVerified
  <2> QED BY <2>1, <2>2, <2>3
<1>22. CASE NothingToDo
  <2>1. BindingFollows'
    BY <1>1, <1>22
       DEF NothingToDo, BindingFollows, files, PassIsFenced, OldGroupIsGone, GoTo, Pass,
           HasNextAction
  <2>2. CheckpointFollows'
    BY <1>1, <1>22
       DEF NothingToDo, CheckpointFollows, files, PassIsFenced, OldGroupIsGone, GoTo,
           Pass, HasNextAction
  <2>3. AttemptFollows'
    BY <1>1, <1>22
       DEF NothingToDo, AttemptFollows, files, PassIsFenced, OldGroupIsGone, GoTo, Pass,
           HasNextAction
  <2> QED BY <2>1, <2>2, <2>3
<1>23. CASE Reconcile
  <2>1. BindingFollows'
    BY <1>1, <1>23, SMTT(30)
       DEF Reconcile, BindingFollows, files, PassIsFenced, OldGroupIsGone, Missing,
           NoPass, Pass
  <2>2. CheckpointFollows'
    BY <1>1, <1>23
       DEF Reconcile, CheckpointFollows, files, PassIsFenced, OldGroupIsGone, Missing,
           NoPass, Pass
  <2>3. AttemptFollows'
    BY <1>1, <1>23
       DEF Reconcile, AttemptFollows, files, PassIsFenced, OldGroupIsGone, Missing,
           NoPass, Pass
  <2> QED BY <2>1, <2>2, <2>3
<1>24. CASE AfterReconcile
  <2>1. BindingFollows'
    BY <1>1, <1>24
       DEF AfterReconcile, BindingFollows, files, PassIsFenced, OldGroupIsGone, Pass,
           Entry, Step, Resumed, Refused, HasNextAction, OwnedGroupLaunched, NoPass
  <2>2. CheckpointFollows'
    BY <1>1, <1>24
       DEF AfterReconcile, CheckpointFollows, files, PassIsFenced, OldGroupIsGone, Pass,
           Entry, Step, Resumed, Refused, HasNextAction, OwnedGroupLaunched, NoPass
  <2>3. AttemptFollows'
    BY <1>1, <1>24
       DEF AfterReconcile, AttemptFollows, files, PassIsFenced, OldGroupIsGone, Pass,
           Entry, Step, Resumed, Refused, HasNextAction, OwnedGroupLaunched, NoPass
  <2> QED BY <2>1, <2>2, <2>3
<1> QED
  BY <1>2, <1>3, <1>4, <1>5, <1>6, <1>7, <1>8, <1>9, <1>10, <1>11, <1>12, <1>13, <1>14,
     <1>15, <1>16, <1>17, <1>18, <1>19, <1>20, <1>21, <1>22, <1>23, <1>24
     DEF Next, PassStep

\* What is known of the session holds of every behaviour.
THEOREM SessionInvariance == Spec => []SInv
BY InitSaved, NextSaved, PTL DEF Spec

\* Neither check of the launch attempt or of the binding refuses a wake.
THEOREM FencesAreThere == Spec => []FenceIsThere
<1>1. SInv => FenceIsThere
  BY
     DEF SInv, FenceIsThere, CheckpointFollows, AttemptFollows, Waking, At, ReadyFails,
         Unbound
<1> QED BY <1>1, SessionInvariance, PTL

\* An agent that was woken works in the session it left, whatever failed on the way.
THEOREM SessionIsResumed == Spec => SameSession
<1> DEFINE Resumes == ledger.state = "verifying" /\ ledger'.state = "active" =>
                        /\ binding.session = left
                        /\ Agent \in alive => provider.session = left
<1>1. ASSUME SInv, [Next]_vars PROVE [Resumes]_vars
  <2> SUFFICES ASSUME ledger.state = "verifying", ledger'.state = "active"
               PROVE  binding.session = left /\ (Agent \in alive => provider.session = left)
    OBVIOUS
  <2>1. VerifyNativeSession /\ Ready
    <3>1. CASE VerifyNativeSession
      BY <3>1
         DEF VerifyNativeSession, At, Refuse, Fails, Wait, NoStore, Store, Refused,
             HasNextAction, Entry
    <3>2. CASE AfterReconcile
      BY <3>2 DEF AfterReconcile, Store, NoStore, OwnedGroupLaunched, Step
    <3>3. CASE Demand
      BY <3>3 DEF Demand, Store, NoStore, WakeDemandObserved, IdleConfirmed, Entry
    <3>4. CASE UNCHANGED ledger
      BY <3>4
    <3> QED
      BY <1>1, <3>1, <3>2, <3>3, <3>4
         DEF Next, PassStep, vars, files, Observe, Forget, CheckpointNativeSession,
             StopOwnedGroup, VerifyAbsent, PrepareNativeResume, LaunchOwnedGroup,
             NothingToDo, Reconcile, Crash, RequestWake, SendMessage, ReadInbox,
             ProviderReady, ProviderExits, SwitchSession, KilledDies, TaskDies, GraceOver,
             At
  <2>2. binding.session = left /\ binding.inc = attempt.inc
    BY <1>1, <2>1 DEF Ready, ReadyFails, Unbound, SInv, CheckpointFollows, Waking
  <2>3. Agent \in alive => provider.session = left
    BY <1>1, <2>2 DEF SInv, AttemptFollows, BindingFollows, Waking
  <2> QED BY <2>2, <2>3
<1> QED BY <1>1, SessionInvariance, PTL DEF Spec, SameSession
================================================================================

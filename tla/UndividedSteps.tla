----------------------------- MODULE UndividedSteps -----------------------------
(***************************************************************************)
(* A fleet that is not divided: every node is known to all, nobody is      *)
(* excused, and nothing an exchange brings is held back.  Here is the      *)
(* inductive invariant that relates what such nodes list, plan, verify and *)
(* tombstone, and what steps that leave tombstones alone do to it.         *)
(***************************************************************************)
EXTENDS CheckpointProofs

(***************************************************************************)
(* Everyone counts                                                         *)
(***************************************************************************)
\* Nobody can be excused, and every node counts every other as a peer.
EveryoneCounts ==
    \A n \in Nodes : MaxExcusals[n] = 0 /\ Nodes \subseteq Peers[n] \cup {n}

\* The stages of a pass that lead to a seal or a verification.
AgreeStages == {"seal", "sealed", "verify", "proved", "verified"}

\* Every pass and every verification counts every node, and nobody is excused.
Counted ==
    \A n \in Nodes :
        /\ pass[n].stage \in AgreeStages => pass[n].parts = Nodes
        /\ \A s \in DOMAIN log[n] :
              /\ log[n][s].body.kind # "excused"
              /\ log[n][s].body.kind = "verified" => log[n][s].body.parts = Nodes

\* What n may write: an observation or a diagnostic, or what its pass recorded.
Owed(n, body) ==
    \/ body.kind = "observed"
    \/ body.kind = "sealed" /\ pass[n].stage = "sealed"
    \/ /\ body = VerifiedTerms(pass[n].cut, pass[n].parts, pass[n].ids, pass[n].drop)
       /\ pass[n].stage = "verified" /\ pass'[n] = Idle

\* One write at most.
Writes(n) ==
    \/ UNCHANGED <<log, held, admitted>>
    \/ \E now \in Days, body \in Bodies : Append1(n, now, body) /\ Owed(n, body)

\* A diagnostic that is written, or was before, is one write at most.
LEMMA DiagnosticWrites ==
    ASSUME NEW n \in Nodes, NEW now \in Days, NEW c \in Cuts, NEW code \in Codes,
           NEW drop \in SUBSET Ids, AppendOnce(n, now, Diagnostic(n, code, c, drop))
    PROVE  Writes(n)
<1>1. Diagnostic(n, code, c, drop) \in Bodies /\ Diagnostic(n, code, c, drop).kind = "observed"
  BY PassTypes
<1> QED BY <1>1 DEF AppendOnce, Writes, Owed

\* What a node writes: nothing, an observation or a diagnostic, a seal, or the verification
\* its pass recorded.  Nobody is excused.
LEMMA ActionWrites ==
    ASSUME IInv, EveryoneCounts, NEW n \in Nodes, NEW now \in Days,
           \/ WriteObservation(n, now)
           \/ \E w \in Nodes : ExcuseWriter(n, w, now)
           \/ PublishSeal(n, now) \/ PublishVerification(n, now) \/ FailProof(n, now)
           \/ \E c \in Cuts : ChangePlan(n, c, now)
           \/ StopTrim(n, pass[n], now) \/ StopTrim(n, sync[n], now)
    PROVE  Writes(n)
<1>1. /\ pass[n] \in Passes
      /\ pass[n].stage # "idle" => pass[n].cut \in Cuts
      /\ sync[n].stage # "idle" => sync[n].cut \in Cuts
  BY DEF IInv, TypeOK, BusyWithCut
<1>2. CASE WriteObservation(n, now)
  BY <1>2, PassTypes DEF WriteObservation, Writes, Owed
<1>3. ASSUME NEW w \in Nodes, ExcuseWriter(n, w, now) PROVE FALSE
  <2>1. WrittenOf(n, "excused") < 0
    BY <1>3 DEF ExcuseWriter, EveryoneCounts
  <2>2. IsFiniteSet(DOMAIN log[n])
    BY AllIdsAre, FS_Interval, 1 \in Int, Len(log[n]) \in Int DEF IInv
  <2>3. IsFiniteSet({s \in DOMAIN log[n] : log[n][s].body.kind = "excused"})
    BY <2>2, FS_Subset
  <2>4. WrittenOf(n, "excused") \in Nat
    BY <2>3, FS_CardinalityType DEF WrittenOf
  <2> QED BY <2>1, <2>4
<1>4. CASE PublishSeal(n, now)
  <2> DEFINE body == SealTerms(pass[n].cut, pass[n].parts, pass[n].ids)
  <2>1. Append1(n, now, body) /\ pass[n].stage = "sealed"
    BY <1>4 DEF PublishSeal
  <2>2. body \in Bodies /\ body.kind = "sealed"
    BY <1>1, <2>1 DEF SealTerms, Bodies, Passes
  <2> HIDE DEF body
  <2> QED BY <2>1, <2>2 DEF Writes, Owed
<1>5. CASE PublishVerification(n, now)
  <2> DEFINE body == VerifiedTerms(pass[n].cut, pass[n].parts, pass[n].ids, pass[n].drop)
  <2>1. Append1(n, now, body) /\ pass[n].stage = "verified" /\ pass' = [pass EXCEPT ![n] = Idle]
    BY <1>5 DEF PublishVerification
  <2>2. body \in Bodies
    BY <1>1, <2>1 DEF VerifiedTerms, Bodies, Passes
  <2>3. pass'[n] = Idle
    BY <2>1 DEF IInv, TypeOK
  <2>4. body = VerifiedTerms(pass[n].cut, pass[n].parts, pass[n].ids, pass[n].drop)
    OBVIOUS
  <2> HIDE DEF body
  <2> QED BY <2>1, <2>2, <2>3, <2>4 DEF Writes, Owed
<1>6. CASE FailProof(n, now)
  <2>1. pass[n].cut \in Cuts
    BY <1>1, <1>6 DEF FailProof
  <2>2. PlannedDigest(n, pass[n].cut, pass[n].rows) \in SUBSET Ids
    BY <2>1, PlannedAreReplaced
  <2> QED BY <1>6, <2>1, <2>2, DiagnosticWrites DEF FailProof, Codes
<1>7. ASSUME NEW c \in Cuts, ChangePlan(n, c, now) PROVE Writes(n)
  BY <1>7, DiagnosticWrites DEF ChangePlan, Codes
<1>8. ASSUME NEW t \in {pass[n], sync[n]}, StopTrim(n, t, now) PROVE Writes(n)
  <2>1. t.cut \in Cuts
    BY <1>1, <1>8 DEF StopTrim
  <2> QED BY <1>8, <2>1, DiagnosticWrites DEF StopTrim, Codes
<1> QED BY <1>2, <1>3, <1>4, <1>5, <1>6, <1>7, <1>8

\* A pass counts every node: everyone is known, and nobody is excused.
LEMMA ReadingCounts ==
    ASSUME IInv, EveryoneCounts, Counted, NEW n \in Nodes, NEW c \in Cuts,
           NEW stage \in {"seal", "verify"}
    PROVE  Reading(n, c, stage).parts = Nodes
<1>1. Reading(n, c, stage) \in Passes
  BY ReadingType
<1>2. Reading(n, c, stage).parts \subseteq Nodes
  BY <1>1 DEF Passes
<1>3. Reading(n, c, stage).parts = Participants(n) \cup {n}
  BY DEF Reading, TermsNow, SealTerms, Idle
<1>4. OfKind(n, "excused") = {}
  BY AllIdsAre DEF IInv, TypeOK, Counted, OfKind, Body, Env
<1>5. ExcusedWriters(n) = {}
  BY <1>4 DEF ExcusedWriters
<1>6. Nodes \subseteq KnownWriters(n)
  BY DEF KnownWriters, EveryoneCounts
<1> QED BY <1>2, <1>3, <1>5, <1>6 DEF Participants

\* A write and a step of the passes that keep Counted.
LEMMA CountedStep ==
    ASSUME IInv, Counted, NEW n \in Nodes, log' = log \/ Writes(n),
           \A m \in Nodes : pass'[m].stage \in AgreeStages =>
               pass'[m].parts = Nodes \/ (pass'[m].parts = pass[m].parts
                                            /\ pass[m].stage \in AgreeStages)
    PROVE  Counted'
<1>1. \A m \in Nodes : pass'[m].stage \in AgreeStages => pass'[m].parts = Nodes
  BY DEF Counted
<1>2. CASE log' = log
  BY <1>1, <1>2 DEF Counted
<1>3. ASSUME NEW now \in Days, NEW body \in Bodies, Append1(n, now, body),
             Owed(n, body)
      PROVE  Counted'
  <2>1. /\ \A m \in Nodes \ {n} : log'[m] = log[m]
        /\ Len(log[n]) \in Nat /\ DOMAIN log[n] = 1 .. Len(log[n])
        /\ DOMAIN log'[n] = 1 .. Len(log[n]) + 1
        /\ \A s \in DOMAIN log[n] : log'[n][s] = log[n][s]
        /\ log'[n][Len(log[n]) + 1] = [at |-> WriteTime(n, now), body |-> body]
    BY <1>3, AppendExtends
  <2>2. body.kind # "excused" /\ (body.kind = "verified" => body.parts = Nodes)
    BY <1>3 DEF Owed, VerifiedTerms, Counted, AgreeStages
  <2>3. \A s \in DOMAIN log'[n] : s \in DOMAIN log[n] \/ s = Len(log[n]) + 1
    BY <2>1
  <2>4. log'[n][Len(log[n]) + 1].body = body
    BY <2>1
  <2>5. \A s \in DOMAIN log'[n] :
           /\ log'[n][s].body.kind # "excused"
           /\ log'[n][s].body.kind = "verified" => log'[n][s].body.parts = Nodes
    BY <2>1, <2>2, <2>3, <2>4 DEF Counted
  <2>6. \A m \in Nodes \ {n} : \A s \in DOMAIN log'[m] :
           /\ log'[m][s].body.kind # "excused"
           /\ log'[m][s].body.kind = "verified" => log'[m][s].body.parts = Nodes
    BY <2>1 DEF Counted
  <2>7. \A m \in Nodes : \A s \in DOMAIN log'[m] :
           /\ log'[m][s].body.kind # "excused"
           /\ log'[m][s].body.kind = "verified" => log'[m][s].body.parts = Nodes
    BY <2>5, <2>6
  <2> QED BY <1>1, <2>7 DEF Counted
<1> QED BY <1>2, <1>3 DEF Writes

\* Every step counts everyone, as long as everyone is known and nobody excused.
LEMMA CountedNext == EveryoneCounts /\ IInv /\ Counted /\ [Next]_vars => Counted'
<1> SUFFICES ASSUME EveryoneCounts, IInv, Counted, [Next]_vars PROVE Counted'
  OBVIOUS
<1> DEFINE Carried == \A m \in Nodes : pass'[m].stage \in AgreeStages =>
               pass'[m].parts = Nodes \/ (pass'[m].parts = pass[m].parts
                                            /\ pass[m].stage \in AgreeStages)
<1>0. /\ pass \in [Nodes -> Passes]
      /\ Idle.stage = "idle"
      /\ \A c \in Cuts : Trimming(c).stage = "trim"
  BY PassTypes DEF IInv, TypeOK
<1>1. CASE UNCHANGED vars
  <2>1. Carried /\ log' = log
    BY <1>1 DEF vars
  <2> QED BY <2>1, <1>1, CountedStep DEF vars, Counted
<1>2. ASSUME NEW n \in Nodes, NEW now \in Days, Agree(n, now) PROVE Counted'
  <2>1. CASE \E c \in Cuts : BeginAgreement(n, c)
    <3>1. PICK c \in Cuts : BeginAgreement(n, c)
      BY <2>1
    <3>2. PICK stage \in {"seal", "verify"} : pass' = [pass EXCEPT ![n] = Reading(n, c, stage)]
      BY <3>1 DEF BeginAgreement, StartSeal, StartVerify
    <3>3. Reading(n, c, stage).parts = Nodes
      BY ReadingCounts
    <3>4. Carried
      BY <1>0, <3>2, <3>3
    <3>5. log' = log
      BY <3>1 DEF BeginAgreement
    <3> QED BY <3>4, <3>5, CountedStep
  <2>2. CASE RecordSealed(n) \/ RecordVerified(n) \/ AbandonVerify(n) \/ ProveDrops(n)
    <3>1. log' = log
      BY <2>2 DEF RecordSealed, RecordVerified, AbandonVerify, ProveDrops
    <3>2. pass[n].stage \in AgreeStages
      BY <2>2 DEF RecordSealed, RecordVerified, AbandonVerify, ProveDrops, AgreeStages
    <3>4. PICK p : /\ pass' = [pass EXCEPT ![n] = p]
                   /\ p.stage # "idle" => p.parts = pass[n].parts
      <4>1. CASE RecordSealed(n) \/ RecordVerified(n)
        <5>1. \/ pass' = [pass EXCEPT ![n].stage = "sealed"]
              \/ pass' = [pass EXCEPT ![n].stage = "verified"]
          BY <4>1 DEF RecordSealed, RecordVerified
        <5> QED BY <1>0, <5>1 DEF Passes
      <4>2. CASE AbandonVerify(n)
        BY <1>0, <4>2 DEF AbandonVerify
      <4>3. CASE ProveDrops(n)
        <5> DEFINE p == [pass[n] EXCEPT !.stage = "proved",
                                        !.drop = PlannedDigest(n, pass[n].cut, pass[n].rows)]
        <5>1. pass' = [pass EXCEPT ![n] = p]
          BY <1>0, <4>3 DEF ProveDrops
        <5>2. p.parts = pass[n].parts
          BY <1>0 DEF Passes
        <5> QED BY <5>1, <5>2
      <4> QED BY <2>2, <4>1, <4>2, <4>3
    <3>3. Carried
      BY <1>0, <3>2, <3>4 DEF AgreeStages
    <3> QED BY <3>1, <3>3, CountedStep
  <2>3. CASE PublishSeal(n, now) \/ PublishVerification(n, now) \/ FailProof(n, now)
    <3>1. Writes(n)
      BY <2>3, ActionWrites
    <3>3. pass' = [pass EXCEPT ![n] = Idle]
      BY <2>3 DEF PublishSeal, PublishVerification, FailProof
    <3>2. Carried
      BY <1>0, <3>3 DEF AgreeStages
    <3> QED BY <3>1, <3>2, CountedStep
  <2> QED BY <1>2, <2>1, <2>2, <2>3 DEF Agree
<1>3. ASSUME NEW n \in Nodes, NEW now \in Days, Trim(n, now) PROVE Counted'
  <2>1. Carried
    <3>1. CASE ResumeTrim(n)
      <4>1. Min(Interrupted(n)) \in Cuts
        <5>1. Interrupted(n) \subseteq Nat /\ Interrupted(n) \subseteq Cuts /\ Interrupted(n) # {}
          BY <3>1, DaysAssumption DEF Interrupted, ResumeTrim
        <5> QED BY <5>1, MinIsBound
      <4> QED BY <1>0, <3>1, <4>1 DEF ResumeTrim, AgreeStages
    <3>2. CASE PassTrims(n, now)
      <4>1. CASE pass' = [pass EXCEPT ![n] = Idle]
        BY <1>0, <4>1 DEF AgreeStages
      <4>2. CASE pass[n].stage = "trim" /\ \E i : pass' = [pass EXCEPT ![n].cursor = i]
        BY <1>0, <4>2 DEF AgreeStages, Passes
      <4> QED BY <3>2, <4>1, <4>2 DEF PassTrims, DeleteRow
    <3>3. CASE \E c \in Cuts : TrimOwnPlan(n, c) \/ ChangePlan(n, c, now)
      BY <1>0, <3>3 DEF TrimOwnPlan, ChangePlan, AgreeStages
    <3>4. CASE SyncTrims(n, now) \/ \E m \in Nodes, c \in Cuts : AdoptCheckpoint(n, m, c)
      BY <1>0, <3>4 DEF SyncTrims, AdoptCheckpoint
    <3> QED BY <1>3, <3>1, <3>2, <3>3, <3>4 DEF Trim
  <2>2. log' = log \/ Writes(n)
    <3>1. CASE PassTrims(n, now) \/ SyncTrims(n, now)
      BY <3>1, ActionWrites DEF PassTrims, SyncTrims, DeleteRow, MarkTrimmed
    <3>2. CASE \E c \in Cuts : ChangePlan(n, c, now)
      BY <3>2, ActionWrites
    <3>3. CASE \/ ResumeTrim(n) \/ (\E c \in Cuts : TrimOwnPlan(n, c))
               \/ \E m \in Nodes, c \in Cuts : AdoptCheckpoint(n, m, c)
      BY <3>3 DEF ResumeTrim, TrimOwnPlan, AdoptCheckpoint
    <3> QED BY <1>3, <3>1, <3>2, <3>3 DEF Trim
  <2> QED BY <2>1, <2>2, CountedStep
<1>4. ASSUME NEW n \in Nodes, Replicate(n) PROVE Counted'
  <2>1. Carried /\ log' = log
    BY <1>4 DEF Replicate, Receive, AdmitBacklog
  <2> QED BY <1>4, <2>1, CountedStep
<1>5. ASSUME NEW n \in Nodes, NEW now \in Days,
             WriteObservation(n, now) \/ \E w \in Nodes : ExcuseWriter(n, w, now)
      PROVE  Counted'
  <2>1. Carried
    BY <1>5 DEF WriteObservation, ExcuseWriter
  <2>2. Writes(n)
    BY <1>5, ActionWrites
  <2> QED BY <2>1, <2>2, CountedStep
<1>6. ASSUME NEW n \in Nodes, ResumeCheckpoints(n) \/ Crash(n) PROVE Counted'
  <2>1. log' = log /\ (pass' = pass \/ pass' = [pass EXCEPT ![n] = Idle])
    BY <1>6 DEF ResumeCheckpoints, Crash
  <2>2. Carried
    BY <1>0, <2>1 DEF AgreeStages
  <2> QED BY <2>1, <2>2, CountedStep
<1> QED BY <1>1, <1>2, <1>3, <1>4, <1>5, <1>6 DEF Next, Daemon

\* What is certified counts every node, so each of them published it and it is the only
\* certificate of its cut.
LEMMA CertifiedFacts ==
    ASSUME IInv, Counted, NEW c \in Cuts, NEW t \in CertifiedTerms(c)
    PROVE  /\ t \in Bodies /\ t.kind = "verified" /\ t.cut = c /\ t.parts = Nodes
           /\ \A w \in Nodes : \E s \in DOMAIN log[w] : log[w][s].body = t
           /\ \A u \in CertifiedTerms(c) : u = t
<1>1. ASSUME NEW u \in CertifiedTerms(c)
      PROVE  /\ u \in Bodies /\ u.kind = "verified" /\ u.cut = c /\ u.parts = Nodes
             /\ Nodes # {}
  <2>1. PICK i \in AllIds : u = Body(i)
    BY DEF CertifiedTerms
  <2>2. i[1] \in Nodes /\ i[2] \in DOMAIN log[i[1]]
    BY AllIdsAre DEF IInv
  <2>3. log[i[1]][i[2]] \in [at : Nat, body : Bodies] /\ u = log[i[1]][i[2]].body
    BY <2>1, <2>2, AllIdsAre DEF IInv, Body, Env
  <2> QED BY <1>1, <2>2, <2>3 DEF Counted, CertifiedTerms
<1>2. \A w \in Nodes : \E s \in DOMAIN log[w] : log[w][s].body = t
  BY <1>1 DEF CertifiedTerms
<1>3. \A u \in CertifiedTerms(c) : u = t
  BY <1>1, OneVerificationOneCertificate DEF IInv, CertificatesDisjoint
<1> QED BY <1>1, <1>2, <1>3

(***************************************************************************)
(* The invariant of an undivided fleet                                     *)
(***************************************************************************)
\* Everyone counts, and no node holds back what an exchange brought.
Undivided == EveryoneCounts /\ MayHold = FALSE

\* j is a later claim of i's slot; k comes after i in its writer's log.
Replaces(j, i) ==
    /\ Body(i).kind = "observed" /\ Body(j).kind = "observed"
    /\ Body(j).slot = Body(i).slot /\ Precedes(i, j)
Follows(k, i) == k[1] = i[1] /\ k[2] > i[2]

\* The drop of a sealed set, whatever of it a node has tombstoned already.
DropOf(ids) ==
    {i \in ids : (\E j \in ids : Replaces(j, i)) /\ \E k \in ids : Follows(k, i)}

\* ids are envelopes n lists from before the cut, all of its own among them.
Listed(n, c, ids) ==
    /\ \A i \in ids : i \in Inventory(n) /\ At(i) < c
    /\ \A s \in DOMAIN log[n] : log[n][s].at < c => <<n, s>> \in ids

\* Of the envelopes n still stores, rows and ids are the same.
Covers(n, rows, ids) ==
    rows \subseteq Inventory(n) /\ rows \cap held[n] = ids \cap held[n]

\* Dated before a checkpoint n knows to be stable.
Settled(n, i) == \E e \in StableCuts(n) : At(i) < e

\* A tombstone is in the drop of a stable checkpoint, a stored claim replaces it, and its
\* writer wrote on after it, all before a stable cut.
StoreGood(n) ==
    /\ admitted[n] = held[n]
    /\ \A s \in DOMAIN log[n] : <<n, s>> \in Inventory(n)
    /\ \A i \in DOMAIN tomb[n] :
          /\ \E c \in StableCuts(n) : tomb[n][i] = c /\ \E t \in CertifiedTerms(c) : i \in t.drop
          /\ \E j \in held[n] : Replaces(j, i) /\ Settled(n, j)
          /\ \E k \in Inventory(n) : Follows(k, i) /\ Settled(n, k)

\* A node trims from its own plan alone; from then on the manifest of the cut is the drop
\* that was certified, and once it is done nothing of it is stored.
TrimStates == {"trimming", "trimmed", "graph-changed", "set-aside"}
RowsGood(n) ==
    /\ sync[n] = Idle
    /\ \A c \in Cuts :
          /\ row[n][c].state # "plan-changed"
          /\ row[n][c].state \in TrimStates =>
                /\ c \in StableCuts(n)
                /\ Manifest(n, c) = row[n][c].drop
                /\ \E t \in CertifiedTerms(c) : t.drop = row[n][c].drop
          /\ row[n][c].state = "trimmed" => held[n] \cap Manifest(n, c) = {}

\* What a node verified it lists; the rows it recorded stay the ones it verified until it
\* trims them.
Said(n) == {log[n][s].body : s \in DOMAIN log[n]}
VerifiedGood(n, t) ==
    /\ Listed(n, t.cut, t.ids)
    /\ t.drop = DropOf(t.ids)
    /\ row[n][t.cut].state \in {"verified"} \cup TrimStates
    /\ row[n][t.cut].state = "verified" => Covers(n, row[n][t.cut].rows, t.ids)
LogGood(n) == \A t \in Said(n) : t.kind = "verified" => VerifiedGood(n, t)

\* What a pass carries from its reads stays true until it writes.
PassGood(n) ==
    /\ pass[n].stage \in AgreeStages =>
          /\ ~Halted(n)
          /\ \A s \in DOMAIN log[n] :
                log[n][s].body.kind = "verified" => log[n][s].body.cut # pass[n].cut
    /\ pass[n].stage \in VerifyStages =>
          /\ row[n][pass[n].cut].state # "none"
          /\ Listed(n, pass[n].cut, pass[n].ids) /\ Covers(n, pass[n].rows, pass[n].ids)
    /\ pass[n].stage = "verify" =>
          \A i \in DOMAIN tomb[n] :
              /\ i \in pass[n].ids
              /\ \E j \in held[n] \cap pass[n].ids : Replaces(j, i)
              /\ \E k \in pass[n].ids : Follows(k, i)
    /\ pass[n].stage \in {"proved", "verified"} => pass[n].drop = DropOf(pass[n].ids)
    /\ pass[n].stage = "verified" =>
          /\ row[n][pass[n].cut].state = "verified"
          /\ row[n][pass[n].cut].rows = pass[n].rows
    /\ pass[n].stage = "trim" =>
          /\ row[n][pass[n].cut].state = "trimming"
          /\ \A i \in held[n] \cap Manifest(n, pass[n].cut) : IdBefore(pass[n].cursor, i)

\* The inductive invariant of an undivided fleet.
UInv ==
    /\ Undivided /\ IInv /\ Counted
    /\ \A n \in Nodes : StoreGood(n) /\ RowsGood(n) /\ LogGood(n) /\ PassGood(n)

(***************************************************************************)
(* Certified terms and plans                                               *)
(***************************************************************************)
\* Canonical order is a strict order, so replacing is transitive and irreflexive.
LEMMA ReplacesOrders ==
    ASSUME IInv, NEW i \in AllIds, NEW j \in AllIds, NEW k \in AllIds
    PROVE  /\ Replaces(k, j) /\ Replaces(j, i) => Replaces(k, i)
           /\ Replaces(j, i) => ~Precedes(j, i) /\ j # i
<1>1. /\ At(i) \in Nat /\ At(j) \in Nat /\ At(k) \in Nat
      /\ i[1] \in Nat /\ j[1] \in Nat /\ k[1] \in Nat
      /\ i[2] \in Nat /\ j[2] \in Nat /\ k[2] \in Nat
  BY IdTypes
<1>2. Precedes(i, j) /\ Precedes(j, k) => Precedes(i, k)
  BY <1>1 DEF Precedes
<1>3. Precedes(i, j) => ~Precedes(j, i) /\ i # j
  BY <1>1 DEF Precedes
<1> QED BY <1>2, <1>3 DEF Replaces

\* What a node lists was written.
LEMMA ListedWereWritten ==
    ASSUME IInv, NEW n \in Nodes
    PROVE  /\ Inventory(n) \subseteq AllIds
           /\ \A c, ids : Listed(n, c, ids) => ids \subseteq AllIds
           /\ \A rows, ids : Covers(n, rows, ids) => rows \subseteq AllIds
<1>1. Inventory(n) \subseteq AllIds
  BY DEF Inventory, IInv, TypeOK
<1> QED BY <1>1 DEF Listed, Covers

\* When everyone counts, the sealed set of a certified checkpoint is everything anyone
\* ever dated before the cut.
LEMMA CertifiedIsEverything ==
    ASSUME IInv, Counted, \A n \in Nodes : LogGood(n), NEW c \in Cuts, NEW t \in CertifiedTerms(c)
    PROVE  /\ t.ids = {i \in AllIds : At(i) < c}
           /\ t.drop = DropOf(t.ids)
<1>1. /\ t.kind = "verified" /\ t.cut = c
      /\ \A w \in Nodes : \E s \in DOMAIN log[w] : log[w][s].body = t
  BY CertifiedFacts
<1>2. \A w \in Nodes : Listed(w, c, t.ids) /\ t.drop = DropOf(t.ids)
  BY <1>1 DEF LogGood, Said, VerifiedGood
<1>3. PICK w \in Nodes : TRUE
  <2>1. \E i \in AllIds : t = Body(i)
    BY DEF CertifiedTerms
  <2> QED BY <2>1, IdTypes
<1>4. t.ids \subseteq {i \in AllIds : At(i) < c}
  BY <1>2, <1>3, ListedWereWritten DEF Listed
<1>5. ASSUME NEW i \in AllIds, At(i) < c PROVE i \in t.ids
  BY <1>2, <1>5, IdTypes DEF Listed
<1> QED BY <1>2, <1>3, <1>4, <1>5

\* certificates and chosen_certificate, when everyone counts: there is one to choose.
LEMMA ChosenIsCertified ==
    ASSUME IInv, Counted, NEW n \in Nodes, NEW c \in StableCuts(n)
    PROVE  ChosenCertificate(n, c) \in CertifiedTerms(c)
<1>1. c \in Cuts /\ Certificates(n, c) # {}
  BY DEF StableCuts
<1>2. ASSUME NEW t \in Certificates(n, c) PROVE t \in CertifiedTerms(c)
  <2>1. /\ t.parts # {}
        /\ \A w \in t.parts : \E i \in admitted[n] :
              i[1] = w /\ Body(i) = t /\ t.kind = "verified" /\ t.cut = c
    BY <1>1, <1>2, CertificatesAre
  <2>2. \A i \in admitted[n] : i \in AllIds
    BY DEF IInv, TypeOK
  <2>3. \A w \in t.parts : \E s \in DOMAIN log[w] : log[w][s].body = t
    BY <2>1, <2>2, IdTypes
  <2> QED BY <2>1, <2>2, <2>3 DEF CertifiedTerms
<1>3. PICK t : Certificates(n, c) = {t}
  <2>1. PICK t \in Certificates(n, c) : TRUE
    BY <1>1
  <2>2. Certificates(n, c) = {t}
    BY <1>1, <1>2, CertifiedFacts
  <2> QED BY <2>2
<1>4. ChosenCertificate(n, c) = t
  BY <1>3 DEF ChosenCertificate
<1> QED BY <1>2, <1>3, <1>4

\* plan_drops and the digest, from rows that cover the sealed set: what is tombstoned and
\* what is still stored make up the drop of the whole set.
LEMMA PlanIsDropOf ==
    ASSUME IInv, NEW n \in Nodes, NEW c \in Cuts, NEW rows, NEW ids \in SUBSET AllIds,
           admitted[n] = held[n], SealedIdentities(n, c, rows) = ids, Covers(n, rows, ids),
           \A i \in DOMAIN tomb[n] :
              /\ i \in ids
              /\ \E j \in held[n] \cap ids : Replaces(j, i)
              /\ \E k \in ids : Follows(k, i)
    PROVE  /\ PlannedDigest(n, c, rows) = DropOf(ids)
           /\ PlannedDigest(n, c, rows) = PlannedDrops(n, c, rows) \cup DOMAIN tomb[n]
           /\ \A i \in PlannedDrops(n, c, rows) : /\ \E j \in held[n] \cap ids : Replaces(j, i)
                                                  /\ \E k \in ids : Follows(k, i)
<1>1. /\ \A i \in ids : At(i) < c /\ (i \in held[n] \/ i \in DOMAIN tomb[n])
      /\ rows \cap held[n] = ids \cap held[n]
  BY DEF SealedIdentities, Covers
<1>2. \A i : i \in PlannedDrops(n, c, rows) <=>
         /\ i \in ids \cap held[n]
         /\ \E j \in ids \cap held[n] : Replaces(j, i)
         /\ \E k \in ids : Follows(k, i)
  BY <1>1 DEF PlannedDrops, Replaces, Follows
<1>3. PlannedDigest(n, c, rows) = PlannedDrops(n, c, rows) \cup DOMAIN tomb[n]
  BY <1>1 DEF PlannedDigest
<1>4. ASSUME NEW i \in DropOf(ids) PROVE i \in PlannedDigest(n, c, rows)
  <2>1. i \in ids /\ (\E k \in ids : Follows(k, i)) /\ \E j \in ids : Replaces(j, i)
    BY <1>4 DEF DropOf
  <2>2. PICK j \in ids : Replaces(j, i)
    BY <2>1
  <2>3. \E l \in ids \cap held[n] : Replaces(l, i)
    <3>1. CASE j \in held[n]
      BY <2>2, <3>1
    <3>2. CASE j \in DOMAIN tomb[n]
      <4>1. PICK l \in held[n] \cap ids : Replaces(l, j)
        BY <3>2
      <4> QED BY <2>1, <2>2, <4>1, ReplacesOrders
    <3> QED BY <1>1, <3>1, <3>2
  <2> QED BY <1>1, <1>2, <1>3, <2>1, <2>3
<1>5. PlannedDigest(n, c, rows) \subseteq DropOf(ids)
  BY <1>2, <1>3 DEF DropOf
<1> QED BY <1>2, <1>3, <1>4, <1>5

(***************************************************************************)
(* Steps that leave tombstones alone                                       *)
(***************************************************************************)
\* m's tombstones stay, its log and its store only grow, what it comes to store it did not
\* list, and what it writes is dated at or after the cuts it has a row for.
Undisturbed(m) ==
    /\ DOMAIN log[m] \subseteq DOMAIN log'[m]
    /\ \A s \in DOMAIN log[m] : log'[m][s] = log[m][s]
    /\ tomb'[m] = tomb[m] /\ held[m] \subseteq held'[m] /\ admitted'[m] = held'[m]
    /\ \A i \in held'[m] \ held[m] : i \notin Inventory(m)
    /\ \A s \in DOMAIN log'[m] \ DOMAIN log[m] :
          /\ <<m, s>> \in held'[m]
          /\ \A c \in Cuts : row[m][c].state # "none" => c <= log'[m][s].at

\* Rows of m that a step changes are trimming before and after it, or were not verified.
RowsMove(m) ==
    /\ sync'[m] = Idle
    /\ \A c \in Cuts :
          /\ row'[m][c].state # "plan-changed"
          /\ row'[m][c].state \in TrimStates =>
                row[m][c].state \in TrimStates /\ row'[m][c].drop = row[m][c].drop
          /\ row'[m][c].state = "trimmed" =>
                row[m][c].state = "trimmed" \/ held[m] \cap Manifest(m, c) = {}
    /\ \A s \in DOMAIN log[m] : log[m][s].body.kind = "verified" =>
          \/ row'[m][log[m][s].body.cut] = row[m][log[m][s].body.cut]
          \/ row'[m][log[m][s].body.cut].state \in TrimStates

\* What m comes to have verified is what its pass recorded.
VerifiesOnlyAsRecorded(m) ==
    \A s \in DOMAIN log'[m] \ DOMAIN log[m] : log'[m][s].body.kind = "verified" =>
        /\ log'[m][s].body = VerifiedTerms(pass[m].cut, pass[m].parts, pass[m].ids, pass[m].drop)
        /\ pass[m].stage = "verified" /\ row'[m] = row[m]

\* Replacing, following and the drop of a set depend only on what the envelopes say, and
\* what was settled stays settled.
LEMMA GrownKeeps ==
    ASSUME IInv, IInv', Grown
    PROVE  /\ \A i, j \in AllIds : Replaces(j, i)' = Replaces(j, i)
           /\ \A ids \in SUBSET AllIds : DropOf(ids)' = DropOf(ids)
           /\ \A n \in Nodes : \A i \in AllIds : Settled(n, i) => Settled(n, i)'
<1>1. /\ \A i \in AllIds : Body(i)' = Body(i) /\ At(i)' = At(i)
      /\ \A n \in Nodes : StableCuts(n) \subseteq StableCuts(n)'
  BY GrownFacts
<1>2. ASSUME NEW i \in AllIds, NEW j \in AllIds PROVE Replaces(j, i)' = Replaces(j, i)
  BY <1>1 DEF Replaces, Precedes
<1>3. ASSUME NEW ids \in SUBSET AllIds PROVE DropOf(ids)' = DropOf(ids)
  BY <1>2 DEF DropOf, Follows
<1>4. \A n \in Nodes : \A i \in AllIds : Settled(n, i) => Settled(n, i)'
  BY <1>1 DEF Settled
<1> QED BY <1>2, <1>3, <1>4

\* Nothing m listed goes, and what it lists and stores afterwards it stored before.
LEMMA UndisturbedLists ==
    ASSUME NEW m \in Nodes, Undisturbed(m)
    PROVE  /\ Inventory(m) \subseteq Inventory(m)'
           /\ Inventory(m) \cap held'[m] = held[m]
BY DEF Undisturbed, Inventory

\* When no node is disturbed, claims are only added.
LEMMA UndisturbedGrows ==
    ASSUME UInv, \A m \in Nodes : Undisturbed(m)
    PROVE  Grown
<1>1. \A m \in Nodes : admitted[m] = held[m]
  BY DEF UInv, StoreGood
<1> QED BY <1>1 DEF Grown, Undisturbed

\* What a node listed before a cut it still lists, and it adds nothing before the cut.
LEMMA ListedStays ==
    ASSUME UInv, IInv', Grown, NEW m \in Nodes, Undisturbed(m), NEW c \in Cuts, NEW ids,
           Listed(m, c, ids), row[m][c].state # "none"
    PROVE  Listed(m, c, ids)' /\ ids \subseteq AllIds
<1>1. Inventory(m) \subseteq Inventory(m)' /\ IInv
  BY UndisturbedLists DEF UInv
<1>2. ids \subseteq AllIds
  BY <1>1, ListedWereWritten
<1>3. \A i \in ids : i \in Inventory(m)' /\ At(i)' < c
  BY <1>1, <1>2, GrownFacts DEF Listed
<1>4. ASSUME NEW s \in DOMAIN log'[m], log'[m][s].at < c PROVE <<m, s>> \in ids
  <2>1. CASE s \in DOMAIN log[m]
    BY <1>4, <2>1 DEF Listed, Undisturbed
  <2>2. CASE s \notin DOMAIN log[m]
    <3>1. c <= log'[m][s].at
      BY <2>2 DEF Undisturbed
    <3>2. log'[m][s].at \in Nat
      <4>1. TypeOK'
        BY DEF IInv
      <4>2. log'[m] \in Seq([at : Nat, body : Bodies])
        BY <4>1 DEF TypeOK
      <4>3. s \in 1 .. Len(log'[m])
        BY <4>2, LenProperties
      <4>4. log'[m][s] \in [at : Nat, body : Bodies]
        BY <4>2, <4>3, ElementOfSeq
      <4> QED BY <4>4
    <3> QED BY <1>4, <3>1, <3>2, DaysAssumption
  <2> QED BY <2>1, <2>2
<1> QED BY <1>2, <1>3, <1>4 DEF Listed

\* Rows that covered a set cover it: what the node comes to store is in neither.
LEMMA CoversStays ==
    ASSUME NEW m \in Nodes, Undisturbed(m), NEW rows, NEW ids,
           Covers(m, rows, ids), ids \subseteq Inventory(m)
    PROVE  Covers(m, rows, ids)'
<1>1. Inventory(m) \subseteq Inventory(m)' /\ Inventory(m) \cap held'[m] = held[m]
  BY UndisturbedLists
<1>2. held[m] \subseteq Inventory(m)
  BY DEF Inventory
<1> QED BY <1>1, <1>2 DEF Covers

\* Steps that leave tombstones alone keep what the invariant says of the tables.
LEMMA UndisturbedKeeps ==
    ASSUME UInv, IInv', Grown, NEW m \in Nodes,
           Undisturbed(m), RowsMove(m), VerifiesOnlyAsRecorded(m)
    PROVE  StoreGood(m)' /\ RowsGood(m)' /\ LogGood(m)'
<1>1. /\ Inventory(m) \subseteq Inventory(m)' /\ IInv
      /\ Inventory(m) \cap held'[m] = held[m]
      /\ StoreGood(m) /\ RowsGood(m) /\ LogGood(m) /\ PassGood(m)
  BY UndisturbedLists DEF UInv
<1>2. /\ AllIds \subseteq AllIds'
      /\ \A i \in AllIds : Body(i)' = Body(i) /\ At(i)' = At(i)
      /\ StableCuts(m) \subseteq StableCuts(m)'
      /\ \A c \in Cuts : CertifiedTerms(c) \subseteq CertifiedTerms(c)'
  BY <1>1, GrownFacts
<1>3. /\ \A i, j \in AllIds : Replaces(j, i)' = Replaces(j, i)
      /\ \A i \in AllIds : Settled(m, i) => Settled(m, i)'
      /\ \A ids \in SUBSET AllIds : DropOf(ids)' = DropOf(ids)
  BY <1>1, GrownKeeps
<1>4. Inventory(m) \subseteq AllIds /\ held[m] \subseteq Inventory(m)
      /\ DOMAIN tomb[m] \subseteq Inventory(m)
  BY <1>1, ListedWereWritten DEF Inventory
<1>5. StoreGood(m)'
  <2>1. \A s \in DOMAIN log'[m] : <<m, s>> \in Inventory(m)'
    BY <1>1 DEF StoreGood, Undisturbed, Inventory
  <2>2. ASSUME NEW i \in DOMAIN tomb[m]
        PROVE  /\ \E c \in StableCuts(m)' :
                     tomb[m][i] = c /\ \E t \in CertifiedTerms(c)' : i \in t.drop
               /\ \E j \in held'[m] : Replaces(j, i)' /\ Settled(m, j)'
               /\ \E k \in Inventory(m)' : Follows(k, i) /\ Settled(m, k)'
    <3>1. /\ \E c \in StableCuts(m) :
                tomb[m][i] = c /\ \E t \in CertifiedTerms(c) : i \in t.drop
          /\ \E j \in held[m] : Replaces(j, i) /\ Settled(m, j)
          /\ \E k \in Inventory(m) : Follows(k, i) /\ Settled(m, k)
      BY <1>1 DEF StoreGood
    <3>2. StableCuts(m) \subseteq Cuts
      BY DEF StableCuts
    <3> QED BY <1>1, <1>2, <1>3, <1>4, <3>1, <3>2
  <2> QED BY <2>1, <2>2 DEF StoreGood, Undisturbed, Follows
<1>6. RowsGood(m)'
  <2>1. \A c \in Cuts : Manifest(m, c)' = Manifest(m, c)
    BY DEF Manifest, Undisturbed
  <2>2. ASSUME NEW c \in Cuts, row'[m][c].state \in TrimStates
        PROVE  /\ c \in StableCuts(m)'
               /\ Manifest(m, c)' = row'[m][c].drop
               /\ \E t \in CertifiedTerms(c)' : t.drop = row'[m][c].drop
    <3>1. row[m][c].state \in TrimStates /\ row'[m][c].drop = row[m][c].drop
      BY <2>2 DEF RowsMove
    <3> QED BY <1>1, <1>2, <2>1, <3>1 DEF RowsGood
  <2>3. ASSUME NEW c \in Cuts, row'[m][c].state = "trimmed"
        PROVE  held'[m] \cap Manifest(m, c)' = {}
    <3>1. held[m] \cap Manifest(m, c) = {}
      BY <1>1, <2>3 DEF RowsMove, RowsGood
    <3>2. Manifest(m, c) \subseteq Inventory(m)
      BY DEF Manifest, Inventory
    <3> QED BY <1>1, <2>1, <3>1, <3>2
  <2> QED BY <2>2, <2>3 DEF RowsGood, RowsMove
<1>7. LogGood(m)'
  <2> SUFFICES ASSUME NEW t \in Said(m)', t.kind = "verified" PROVE VerifiedGood(m, t)'
    BY DEF LogGood
  <2>1. PICK s \in DOMAIN log'[m] : t = log'[m][s].body
    BY DEF Said
  <2>2. PICK rows : rows = row[m][t.cut].rows
    OBVIOUS
  <2>3. ASSUME t.cut \in Cuts, Listed(m, t.cut, t.ids), t.drop = DropOf(t.ids),
               row[m][t.cut].state \in {"verified"} \cup TrimStates,
               row[m][t.cut].state = "verified" => Covers(m, rows, t.ids),
               row'[m][t.cut] = row[m][t.cut] \/ row'[m][t.cut].state \in TrimStates
        PROVE  VerifiedGood(m, t)'
    <3>1. Listed(m, t.cut, t.ids)' /\ t.ids \subseteq AllIds
      BY <2>3, ListedStays DEF TrimStates
    <3>2. Covers(m, rows, t.ids) => Covers(m, rows, t.ids)'
      BY <2>3, CoversStays DEF Listed
    <3>3. t.drop = DropOf(t.ids)'
      BY <1>3, <2>3, <3>1
    <3>4. row'[m][t.cut].state = "verified" => Covers(m, row[m][t.cut].rows, t.ids)'
      BY <2>2, <2>3, <3>2 DEF TrimStates
    <3>5. row'[m][t.cut].state \in {"verified"} \cup TrimStates
      BY <2>3
    <3> QED BY <3>1, <3>3, <3>4, <3>5 DEF VerifiedGood
  <2>4. CASE s \in DOMAIN log[m]
    <3>1. log[m][s].body = t
      BY <2>1, <2>4 DEF Undisturbed
    <3>2. VerifiedGood(m, t)
      BY <1>1, <2>4, <3>1 DEF LogGood, Said
    <3>3. t.cut \in Cuts
      <4>1. t \in Bodies
        BY <1>1, <2>4, <3>1, AllIdsAre DEF IInv
      <4> QED BY <4>1 DEF Bodies
    <3>4. row'[m][t.cut] = row[m][t.cut] \/ row'[m][t.cut].state \in TrimStates
      BY <2>4, <3>1 DEF RowsMove
    <3> QED BY <2>2, <2>3, <3>2, <3>3, <3>4 DEF VerifiedGood
  <2>5. CASE s \notin DOMAIN log[m]
    <3>1. /\ t = VerifiedTerms(pass[m].cut, pass[m].parts, pass[m].ids, pass[m].drop)
          /\ pass[m].stage = "verified" /\ row'[m] = row[m]
      BY <2>1, <2>5 DEF VerifiesOnlyAsRecorded
    <3>2. t.cut = pass[m].cut /\ t.ids = pass[m].ids /\ t.drop = pass[m].drop
      BY <3>1 DEF VerifiedTerms
    <3>3. /\ Listed(m, t.cut, t.ids) /\ t.drop = DropOf(t.ids)
          /\ row[m][t.cut].state = "verified" /\ Covers(m, rows, t.ids)
      BY <1>1, <2>2, <3>1, <3>2 DEF PassGood, VerifyStages
    <3>4. t.cut \in Cuts
      BY <1>1, <3>1, <3>2 DEF IInv, BusyWithCut
    <3> QED BY <2>3, <3>1, <3>3, <3>4
  <2> QED BY <2>4, <2>5
<1> QED BY <1>5, <1>6, <1>7

\* A pass that stays in its stage still carries what is true, as long as the row it works
\* on stays and its node verifies nothing meanwhile.
LEMMA PassStays ==
    ASSUME UInv, IInv', Grown, NEW m \in Nodes, Undisturbed(m), pass'[m] = pass[m],
           Halted(m)' => Halted(m),
           pass[m].stage # "idle" => row'[m][pass[m].cut] = row[m][pass[m].cut],
           \A s \in DOMAIN log'[m] \ DOMAIN log[m] : log'[m][s].body.kind # "verified"
    PROVE  PassGood(m)'
<1>1. /\ Inventory(m) \subseteq Inventory(m)' /\ IInv
      /\ Inventory(m) \cap held'[m] = held[m]
      /\ StoreGood(m) /\ PassGood(m)
  BY UndisturbedLists DEF UInv
<1>2. PICK p : p = pass[m]
  OBVIOUS
<1>3. /\ p.stage # "idle" => p.cut \in Cuts
      /\ p.stage \in AgreeStages \cup {"trim"} => p.stage # "idle"
      /\ VerifyStages \subseteq AgreeStages
      /\ Inventory(m) \subseteq AllIds
  BY <1>1, <1>2, ListedWereWritten DEF IInv, BusyWithCut, AgreeStages, VerifyStages
<1>4. p.stage \in AgreeStages =>
         /\ ~Halted(m)'
         /\ \A s \in DOMAIN log'[m] :
               log'[m][s].body.kind = "verified" => log'[m][s].body.cut # p.cut
  BY <1>1, <1>2 DEF PassGood, Undisturbed
<1>5. ASSUME p.stage \in VerifyStages
      PROVE  /\ row'[m][p.cut].state # "none"
             /\ Listed(m, p.cut, p.ids)' /\ p.ids \subseteq AllIds
             /\ \E rows : rows = p.rows /\ Covers(m, rows, p.ids)'
  <2>1. /\ row[m][p.cut].state # "none" /\ p.cut \in Cuts /\ row'[m][p.cut] = row[m][p.cut]
        /\ Listed(m, p.cut, p.ids) /\ Covers(m, p.rows, p.ids)
    BY <1>1, <1>2, <1>3, <1>5 DEF PassGood
  <2>2. Listed(m, p.cut, p.ids)' /\ p.ids \subseteq AllIds
    BY <2>1, ListedStays
  <2>3. Covers(m, p.rows, p.ids)'
    BY <2>1, CoversStays DEF Listed
  <2> QED BY <2>1, <2>2, <2>3
<1>6. ASSUME p.stage = "verify", NEW i \in DOMAIN tomb[m]
      PROVE  /\ i \in p.ids
             /\ \E j \in held'[m] \cap p.ids : Replaces(j, i)'
             /\ \E k \in p.ids : Follows(k, i)
  <2>1. /\ i \in p.ids
        /\ \E j \in held[m] \cap p.ids : Replaces(j, i)
        /\ \E k \in p.ids : Follows(k, i)
    BY <1>1, <1>2, <1>6 DEF PassGood
  <2>2. p.ids \subseteq AllIds
    BY <1>5, <1>6 DEF VerifyStages
  <2> QED BY <1>1, <2>1, <2>2, GrownKeeps
<1>7. ASSUME p.stage \in {"proved", "verified"} PROVE p.drop = DropOf(p.ids)'
  <2>1. p.drop = DropOf(p.ids)
    BY <1>1, <1>2, <1>7 DEF PassGood
  <2>2. p.ids \subseteq AllIds
    BY <1>5, <1>7 DEF VerifyStages
  <2> QED BY <1>1, <2>1, <2>2, GrownKeeps
<1>8. ASSUME p.stage = "trim"
      PROVE  /\ row'[m][p.cut].state = "trimming"
             /\ \A i \in held'[m] \cap Manifest(m, p.cut)' : IdBefore(p.cursor, i)
  <2>1. /\ row[m][p.cut].state = "trimming" /\ row'[m][p.cut] = row[m][p.cut]
        /\ \A i \in held[m] \cap Manifest(m, p.cut) : IdBefore(p.cursor, i)
    BY <1>1, <1>2, <1>3, <1>8 DEF PassGood
  <2>2. Manifest(m, p.cut)' = Manifest(m, p.cut) /\ Manifest(m, p.cut) \subseteq Inventory(m)
    BY DEF Manifest, Undisturbed, Inventory
  <2> QED BY <1>1, <2>1, <2>2
<1>9. p.stage = "verified" => row'[m][p.cut].state = "verified" /\ row'[m][p.cut].rows = p.rows
  BY <1>1, <1>2, <1>3 DEF PassGood
<1>10. p = pass'[m] /\ DOMAIN tomb'[m] = DOMAIN tomb[m]
  BY <1>2 DEF Undisturbed
<1> QED BY <1>4, <1>5, <1>6, <1>7, <1>8, <1>9, <1>10 DEF PassGood, IdBefore, Follows

\* An idle pass carries nothing.
LEMMA IdleIsGood ==
    ASSUME NEW m \in Nodes, pass'[m] = Idle
    PROVE  PassGood(m)'
BY PassTypes DEF PassGood, AgreeStages, VerifyStages

\* A step that writes nothing, stores nothing and tombstones nothing.
LEMMA QuietUndisturbs ==
    ASSUME UInv, UNCHANGED <<log, held, admitted, tomb>>
    PROVE  \A m \in Nodes : Undisturbed(m) /\ VerifiesOnlyAsRecorded(m)
BY DEF UInv, StoreGood, Undisturbed, VerifiesOnlyAsRecorded

\* A write is dated at or after the cuts its node has a row for.
LEMMA WritesUndisturb ==
    ASSUME UInv, NEW n \in Nodes, Writes(n), tomb' = tomb
    PROVE  /\ \A m \in Nodes : Undisturbed(m)
           /\ \A m \in Nodes \ {n} : log'[m] = log[m]
           /\ \A s \in DOMAIN log'[n] \ DOMAIN log[n] : log'[n][s].body.kind = "verified" =>
                 /\ log'[n][s].body =
                       VerifiedTerms(pass[n].cut, pass[n].parts, pass[n].ids, pass[n].drop)
                 /\ pass[n].stage = "verified" /\ pass'[n] = Idle
<1>0. IInv /\ \A m \in Nodes : admitted[m] = held[m]
  BY DEF UInv, StoreGood
<1>1. CASE UNCHANGED <<log, held, admitted>>
  BY <1>0, <1>1 DEF Undisturbed
<1>2. ASSUME NEW now \in Days, NEW body \in Bodies, Append1(n, now, body),
             Owed(n, body)
      PROVE  /\ \A m \in Nodes : Undisturbed(m)
             /\ \A m \in Nodes \ {n} : log'[m] = log[m]
             /\ \A s \in DOMAIN log'[n] \ DOMAIN log[n] : log'[n][s].body.kind = "verified" =>
                   /\ log'[n][s].body =
                         VerifiedTerms(pass[n].cut, pass[n].parts, pass[n].ids, pass[n].drop)
                   /\ pass[n].stage = "verified" /\ pass'[n] = Idle
  <2> DEFINE k == Len(log[n]) + 1
  <2>1. /\ \A m \in Nodes \ {n} : log'[m] = log[m]
        /\ \A s \in DOMAIN log[n] : log'[n][s] = log[n][s]
    BY <1>0, <1>2, AppendExtends
  <2>2. /\ Len(log[n]) \in Nat /\ DOMAIN log[n] = 1 .. Len(log[n]) /\ DOMAIN log'[n] = 1 .. k
    BY <1>0, <1>2, AppendExtends
  <2>3. log'[n][k] = [at |-> WriteTime(n, now), body |-> body]
    BY <1>0, <1>2, AppendExtends
  <2>4. log'[n][k].at = WriteTime(n, now) /\ log'[n][k].body = body
    BY <2>3
  <2>5. DOMAIN log[n] \subseteq DOMAIN log'[n] /\ k \notin DOMAIN log[n]
        /\ \A s \in DOMAIN log'[n] \ DOMAIN log[n] : s = k
    BY <2>2
  <2>6. /\ held' = [held EXCEPT ![n] = @ \cup {<<n, k>>}]
        /\ admitted' = [admitted EXCEPT ![n] = @ \cup {<<n, k>>}]
    BY <1>2 DEF Append1
  <2> HIDE DEF k
  <2>7. /\ \A m \in Nodes \ {n} : held'[m] = held[m] /\ admitted'[m] = admitted[m]
        /\ held'[n] = held[n] \cup {<<n, k>>} /\ admitted'[n] = held'[n]
    BY <1>0, <2>6 DEF IInv, TypeOK
  <2>8. \A c \in Cuts : row[n][c].state # "none" => c <= log'[n][k].at
    BY <1>0, <2>4, WriteTimeIsLate DEF IInv
  <2>9. <<n, k>> \notin Inventory(n)
    BY <1>0, <2>5, ListedWereWritten, IdTypes
  <2>10. Undisturbed(n)
    BY <2>1, <2>5, <2>7, <2>8, <2>9 DEF Undisturbed
  <2>11. \A m \in Nodes \ {n} : Undisturbed(m)
    BY <1>0, <2>1, <2>7 DEF Undisturbed
  <2> QED BY <1>2, <2>1, <2>4, <2>5, <2>10, <2>11 DEF Owed
<1> QED BY <1>1, <1>2 DEF Writes

\* An exchange brings what the receiver does not list, and nothing is held back.
LEMMA ReceiveUndisturbs ==
    ASSUME UInv, NEW n \in Nodes, Replicate(n)
    PROVE  \A k \in Nodes : Undisturbed(k) /\ VerifiesOnlyAsRecorded(k)
<1>1. IInv /\ \A m \in Nodes : admitted[m] = held[m]
  BY DEF UInv, StoreGood
<1>2. PICK m \in Nodes : Receive(n, m, {})
  BY <1>1 DEF Replicate, UInv, Undivided, AdmitBacklog
<1>3. /\ UNCHANGED <<log, tomb, row, pass, sync, crashes>>
      /\ \A k \in Nodes \ {n} : held'[k] = held[k] /\ admitted'[k] = admitted[k]
      /\ held'[n] = held[n] \cup Page(n, m) /\ admitted'[n] = admitted[n] \cup Page(n, m)
  BY <1>1, <1>2 DEF Receive, IInv, TypeOK
<1>4. \A i \in Page(n, m) : i \notin Inventory(n)
  BY DEF Page
<1>5. Undisturbed(n)
  BY <1>1, <1>3, <1>4 DEF Undisturbed
<1>6. \A k \in Nodes \ {n} : Undisturbed(k)
  BY <1>1, <1>3 DEF Undisturbed
<1> QED BY <1>3, <1>5, <1>6 DEF VerifiesOnlyAsRecorded

\* Rows that stay.
LEMMA RowsStay ==
    ASSUME UInv, NEW m \in Nodes, row'[m] = row[m], sync'[m] = sync[m]
    PROVE  RowsMove(m) /\ (Halted(m)' => Halted(m))
BY DEF UInv, RowsGood, RowsMove, Halted
=================================================================================

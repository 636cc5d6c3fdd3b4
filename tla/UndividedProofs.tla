----------------------------- MODULE UndividedProofs -----------------------------
(***************************************************************************)
(* Proofs about an undivided fleet.  Its sealed sets are all that was      *)
(* dated before the cut, so the drop of a checkpoint is a function of the  *)
(* claims, every node trims its own plan, and deleting rows changes no     *)
(* answer.                                                                 *)
(***************************************************************************)
EXTENDS UndividedSteps

(***************************************************************************)
(* Plans and tombstones                                                    *)
(***************************************************************************)
\* publish_verification: a verification names a cut the fleet may take.
LEMMA VerifiedCuts ==
    ASSUME IInv, NEW n \in Nodes, NEW s \in DOMAIN log[n], log[n][s].body.kind = "verified"
    PROVE  log[n][s].body.cut \in Cuts
<1>1. log[n][s].body \in Bodies
  BY AllIdsAre DEF IInv
<1> QED BY <1>1 DEF Bodies

\* What a tombstone of n says about n's own view of a later cut: the claim, the one that
\* replaces it and the one that follows it are all dated before it.
LEMMA TombstonesAreEarly ==
    ASSUME UInv, NEW n \in Nodes, NEW c \in Cuts, \A e \in StableCuts(n) : e <= c,
           NEW i \in DOMAIN tomb[n]
    PROVE  /\ tomb[n][i] <= c /\ i \in AllIds /\ At(i) < c
           /\ \E j \in held[n] : Replaces(j, i) /\ At(j) < c
           /\ \E k \in Inventory(n) : Follows(k, i) /\ At(k) < c
<1>1. /\ IInv /\ Counted /\ (\A m \in Nodes : LogGood(m)) /\ StoreGood(n)
      /\ Inventory(n) \subseteq AllIds /\ held[n] \subseteq Inventory(n) /\ i \in AllIds
  BY ListedWereWritten DEF UInv, Inventory
<1>2. \A j \in AllIds : Settled(n, j) => At(j) < c
  <2> SUFFICES ASSUME NEW j \in AllIds, NEW e \in StableCuts(n), At(j) < e PROVE At(j) < c
    BY DEF Settled
  <2>1. At(j) \in Nat /\ e <= c /\ e \in Nat /\ c \in Nat
    BY <1>1, IdTypes, DaysAssumption DEF StableCuts
  <2> QED BY <2>1
<1>3. PICK d \in StableCuts(n) : tomb[n][i] = d /\ \E t \in CertifiedTerms(d) : i \in t.drop
  BY <1>1 DEF StoreGood
<1>4. PICK t \in CertifiedTerms(d) : i \in t.drop
  BY <1>3
<1>5. d \in Cuts
  BY DEF StableCuts
<1>6. At(i) < d
  BY <1>1, <1>4, <1>5, CertifiedIsEverything DEF DropOf
<1>7. Settled(n, i)
  BY <1>6 DEF Settled
<1> QED BY <1>1, <1>2, <1>3, <1>7 DEF StoreGood

\* checkpoint_trim, when everyone counts: a node that has not applied the newest stable
\* checkpoint verified it, its rows are as it verified them, and its plan is the drop.
LEMMA PendingFacts ==
    ASSUME UInv, NEW n \in Nodes, NEW c \in Cuts, Pending(n, c)
    PROVE  /\ TrimsOwnPlan(n, c)
           /\ c \in StableCuts(n) /\ \A e \in StableCuts(n) : e <= c
           /\ ChosenCertificate(n, c) \in CertifiedTerms(c)
           /\ Interrupted(n) = {} =>
                 /\ OwnPlanHolds(n, c)
                 /\ ChosenCertificate(n, c).drop =
                       PlannedDrops(n, c, row[n][c].rows) \cup DOMAIN tomb[n]
                 /\ \A i \in PlannedDrops(n, c, row[n][c].rows) :
                       /\ \E j \in held[n] : Replaces(j, i) /\ At(j) < c
                       /\ \E k \in Inventory(n) : Follows(k, i) /\ At(k) < c
<1> DEFINE rows == row[n][c].rows
<1>1. /\ IInv /\ Counted /\ (\A m \in Nodes : LogGood(m)) /\ RowsGood(n) /\ admitted[n] = held[n]
  BY DEF UInv, StoreGood
<1>2. c \in StableCuts(n) /\ \A e \in StableCuts(n) : e <= c
  BY DEF Pending
<1>3. PICK t \in CertifiedTerms(c) : ChosenCertificate(n, c) = t
  BY <1>1, <1>2, ChosenIsCertified
<1>4. /\ t.kind = "verified" /\ t.cut = c /\ t.parts = Nodes
      /\ \E s \in DOMAIN log[n] : log[n][s].body = t
      /\ \A u \in CertifiedTerms(c) : u = t
  BY <1>1, <1>3, CertifiedFacts
<1>5. /\ Listed(n, c, t.ids)
      /\ row[n][c].state \in {"verified"} \cup TrimStates
      /\ row[n][c].state = "verified" => Covers(n, rows, t.ids)
  BY <1>1, <1>4 DEF LogGood, Said, VerifiedGood
<1>6. TrimsOwnPlan(n, c)
  BY <1>3, <1>4, <1>5 DEF TrimsOwnPlan, TrimStates
<1>7. ASSUME Interrupted(n) = {}
      PROVE  /\ OwnPlanHolds(n, c)
             /\ t.drop = PlannedDrops(n, c, rows) \cup DOMAIN tomb[n]
             /\ \A i \in PlannedDrops(n, c, rows) :
                   /\ \E j \in held[n] : Replaces(j, i) /\ At(j) < c
                   /\ \E k \in Inventory(n) : Follows(k, i) /\ At(k) < c
  <2>1. Covers(n, rows, t.ids)
    <3>1. ~Applied(n, c, t.drop)
      BY <1>3 DEF Pending
    <3>2. row[n][c].state \notin {"set-aside", "graph-changed"}
      BY <3>1, DaysAssumption DEF Applied
    <3>3. row[n][c].state # "trimmed"
      BY <1>1, <1>4, <3>1 DEF Applied, RowsGood, TrimStates
    <3>4. row[n][c].state # "trimming"
      BY <1>7 DEF Interrupted
    <3> QED BY <1>5, <3>2, <3>3, <3>4 DEF TrimStates
  <2>2. t.ids = {i \in AllIds : At(i) < c} /\ t.drop = DropOf(t.ids)
    BY <1>1, <1>3, CertifiedIsEverything
  <2>3. \A i \in DOMAIN tomb[n] :
           /\ i \in t.ids
           /\ \E j \in held[n] \cap t.ids : Replaces(j, i)
           /\ \E k \in Inventory(n) \cap t.ids : Follows(k, i)
    BY <1>1, <1>2, <2>2, TombstonesAreEarly, ListedWereWritten DEF Inventory
  <2>4. SealedIdentities(n, c, rows) = t.ids
    BY <1>5, <2>1, <2>2, <2>3 DEF SealedIdentities, Listed, Covers, Inventory
  <2>5. /\ PlannedDigest(n, c, rows) = DropOf(t.ids)
        /\ PlannedDigest(n, c, rows) = PlannedDrops(n, c, rows) \cup DOMAIN tomb[n]
        /\ \A i \in PlannedDrops(n, c, rows) : /\ \E j \in held[n] \cap t.ids : Replaces(j, i)
                                               /\ \E k \in t.ids : Follows(k, i)
    <3>1. t.ids \in SUBSET AllIds
      BY <2>2
    <3> HIDE DEF rows
    <3> QED BY <1>1, <2>1, <2>3, <2>4, <3>1, PlanIsDropOf
  <2> QED BY <1>3, <1>5, <2>2, <2>4, <2>5 DEF OwnPlanHolds, Listed
<1> QED BY <1>2, <1>3, <1>6, <1>7

\* Every node trims from its own plan: none finds its plan changed, none needs a manifest.
LEMMA OwnPlansOnly ==
    ASSUME UInv, NEW n \in Nodes, NEW now \in Days
    PROVE  /\ \A c \in Cuts : ~ChangePlan(n, c, now)
           /\ \A m \in Nodes, c \in Cuts : ~AdoptCheckpoint(n, m, c)
           /\ ~SyncTrims(n, now)
<1>1. \A c \in Cuts : ~ChangePlan(n, c, now)
  BY PendingFacts DEF ChangePlan
<1>2. \A m \in Nodes, c \in Cuts : ~AdoptCheckpoint(n, m, c)
  BY PendingFacts DEF AdoptCheckpoint, NeedsManifest
<1>3. sync[n].stage = "idle"
  BY PassTypes DEF UInv, RowsGood
<1> QED BY <1>1, <1>2, <1>3 DEF SyncTrims, DeleteRow, MarkTrimmed, StopTrim

(***************************************************************************)
(* One lemma for each group of actions                                     *)
(***************************************************************************)
\* A step of n changes nothing of the other nodes' but what they store.
Others(n) ==
    \A m \in Nodes \ {n} :
        log'[m] = log[m] /\ row'[m] = row[m] /\ pass'[m] = pass[m] /\ sync'[m] = sync[m]

\* The nodes a step does not touch.
LEMMA OthersKeep ==
    ASSUME UInv, IInv', Grown, NEW n \in Nodes, Others(n), NEW m \in Nodes \ {n}, Undisturbed(m)
    PROVE  StoreGood(m)' /\ RowsGood(m)' /\ LogGood(m)' /\ PassGood(m)'
<1>1. RowsMove(m) /\ (Halted(m)' => Halted(m))
  BY RowsStay DEF Others
<1>2. VerifiesOnlyAsRecorded(m)
  BY DEF VerifiesOnlyAsRecorded, Others
<1>3. PassGood(m)'
  BY <1>1, PassStays DEF Others
<1> QED BY <1>1, <1>2, <1>3, UndisturbedKeeps

\* A step of n that leaves tombstones alone.
LEMMA StepKeeps ==
    ASSUME UInv, IInv', Counted', NEW n \in Nodes, \A m \in Nodes : Undisturbed(m), Others(n),
           VerifiesOnlyAsRecorded(n), RowsMove(n), PassGood(n)'
    PROVE  UInv'
<1>1. Grown
  BY UndisturbedGrows
<1>2. StoreGood(n)' /\ RowsGood(n)' /\ LogGood(n)'
  BY <1>1, UndisturbedKeeps
<1>3. \A m \in Nodes \ {n} : StoreGood(m)' /\ RowsGood(m)' /\ LogGood(m)' /\ PassGood(m)'
  BY <1>1, OthersKeep
<1>4. Undivided'
  BY DEF UInv, Undivided, EveryoneCounts
<1> QED BY <1>2, <1>3, <1>4 DEF UInv

\* Observations, seals, verifications, failed proofs and a trim that stops at a changed
\* graph: the pass goes on or ends, and a row goes from trimming to graph-changed.
LEMMA WritingStep ==
    ASSUME UInv, IInv', Counted', NEW n \in Nodes, Writes(n), tomb' = tomb, sync' = sync,
           \/ row' = row
           \/ /\ row[n][pass[n].cut].state = "trimming" /\ pass[n].cut \in Cuts
              /\ row' = [row EXCEPT ![n][pass[n].cut].state = "graph-changed"]
              /\ pass[n].stage = "trim" /\ pass'[n] = Idle,
           pass' = [pass EXCEPT ![n] = Idle] \/ pass' = pass
    PROVE  UInv'
<1>1. /\ \A m \in Nodes : Undisturbed(m)
      /\ \A m \in Nodes \ {n} : log'[m] = log[m]
      /\ \A s \in DOMAIN log'[n] \ DOMAIN log[n] : log'[n][s].body.kind = "verified" =>
            /\ log'[n][s].body =
                  VerifiedTerms(pass[n].cut, pass[n].parts, pass[n].ids, pass[n].drop)
            /\ pass[n].stage = "verified" /\ pass'[n] = Idle
  BY WritesUndisturb
<1>2. row \in [Nodes -> [Cuts -> Rows]] /\ pass \in [Nodes -> Passes] /\ Idle.stage = "idle"
  BY PassTypes DEF UInv, IInv, TypeOK
<1>3. Others(n)
  BY <1>1, <1>2 DEF Others
<1>4. Grown
  BY <1>1, UndisturbedGrows
<1>5. CASE row' = row
  <2>1. RowsMove(n) /\ (Halted(n)' => Halted(n))
    BY <1>5, RowsStay
  <2>2. VerifiesOnlyAsRecorded(n)
    BY <1>1, <1>5 DEF VerifiesOnlyAsRecorded
  <2>3. PassGood(n)'
    <3>1. CASE pass' = [pass EXCEPT ![n] = Idle]
      BY <1>2, <3>1, IdleIsGood
    <3>2. CASE pass' = pass /\ pass'[n] # Idle
      BY <1>1, <1>4, <1>5, <2>1, <3>2, PassStays
    <3>3. CASE pass'[n] = Idle
      BY <3>3, IdleIsGood
    <3> QED BY <3>1, <3>2, <3>3
  <2> QED BY <1>1, <1>3, <2>1, <2>2, <2>3, StepKeeps
<1>6. CASE /\ row[n][pass[n].cut].state = "trimming" /\ pass[n].cut \in Cuts
           /\ row' = [row EXCEPT ![n][pass[n].cut].state = "graph-changed"]
           /\ pass[n].stage = "trim" /\ pass'[n] = Idle
  <2>1. /\ \A c \in Cuts \ {pass[n].cut} : row'[n][c] = row[n][c]
        /\ row'[n][pass[n].cut].state = "graph-changed"
        /\ row'[n][pass[n].cut].drop = row[n][pass[n].cut].drop
    BY <1>2, <1>6 DEF Rows
  <2>2. RowsGood(n) /\ LogGood(n)
    BY DEF UInv
  <2>3. \A s \in DOMAIN log[n] : log[n][s].body.kind = "verified" => log[n][s].body.cut \in Cuts
    BY VerifiedCuts DEF UInv
  <2>4. RowsMove(n)
    BY <1>6, <2>1, <2>2, <2>3 DEF RowsMove, RowsGood, TrimStates
  <2>5. VerifiesOnlyAsRecorded(n)
    BY <1>1, <1>6 DEF VerifiesOnlyAsRecorded
  <2>6. PassGood(n)'
    BY <1>6, IdleIsGood
  <2> QED BY <1>1, <1>3, <2>4, <2>5, <2>6, StepKeeps
<1> QED BY <1>5, <1>6

\* Steps that change only the pass and the rows of n.
LEMMA QuietStepKeeps ==
    ASSUME UInv, IInv', Counted', NEW n \in Nodes, UNCHANGED <<log, held, admitted, tomb>>,
           Others(n), RowsMove(n), PassGood(n)'
    PROVE  UInv'
<1>1. \A m \in Nodes : Undisturbed(m) /\ VerifiesOnlyAsRecorded(m)
  BY QuietUndisturbs
<1> QED BY <1>1, StepKeeps

\* What stays the same when nothing is written, stored or tombstoned.
LEMMA QuietSame ==
    ASSUME UNCHANGED <<log, held, admitted, tomb>>, NEW n \in Nodes
    PROVE  /\ \A c, ids : Listed(n, c, ids)' = Listed(n, c, ids)
           /\ \A rows, ids : Covers(n, rows, ids)' = Covers(n, rows, ids)
           /\ \A ids : DropOf(ids)' = DropOf(ids)
           /\ \A i, j : Replaces(j, i)' = Replaces(j, i)
           /\ \A c : Manifest(n, c)' = Manifest(n, c)
<1>1. /\ Inventory(n)' = Inventory(n) /\ \A i : At(i)' = At(i) /\ Body(i)' = Body(i)
  BY DEF Inventory, At, Body, Env
<1>2. \A i, j : Replaces(j, i)' = Replaces(j, i)
  BY <1>1 DEF Replaces, Precedes
<1>3. \A ids : DropOf(ids)' = DropOf(ids)
  BY <1>2 DEF DropOf, Follows
<1>4. /\ \A c, ids : Listed(n, c, ids)' = Listed(n, c, ids)
      /\ \A rows, ids : Covers(n, rows, ids)' = Covers(n, rows, ids)
  BY <1>1 DEF Listed, Covers
<1>5. \A c : Manifest(n, c)' = Manifest(n, c)
  BY DEF Manifest
<1> QED BY <1>2, <1>3, <1>4, <1>5

\* An exchange.
LEMMA ReplicateStep ==
    ASSUME UInv, IInv', Counted', NEW n \in Nodes, Replicate(n)
    PROVE  UInv'
<1>1. /\ \A k \in Nodes : Undisturbed(k) /\ VerifiesOnlyAsRecorded(k)
      /\ UNCHANGED <<log, row, pass, sync>>
  BY ReceiveUndisturbs DEF Replicate, Receive, AdmitBacklog
<1>2. Others(n) /\ RowsMove(n) /\ (Halted(n)' => Halted(n))
  BY <1>1, RowsStay DEF Others
<1>3. Grown
  BY <1>1, UndisturbedGrows
<1>4. PassGood(n)'
  BY <1>1, <1>2, <1>3, PassStays
<1> QED BY <1>1, <1>2, <1>4, StepKeeps

\* What a pass reads of a cut that comes after every stable one.
LEMMA BeginStep ==
    ASSUME UInv, IInv', Counted', NEW n \in Nodes, NEW c \in Cuts, BeginAgreement(n, c)
    PROVE  UInv'
<1>1. /\ UNCHANGED <<log, held, admitted, tomb, row, sync, crashes>>
      /\ IInv /\ StoreGood(n) /\ pass \in [Nodes -> Passes]
  BY DEF BeginAgreement, UInv, IInv, TypeOK
<1>2. /\ ~Halted(n) /\ (\A e \in StableCuts(n) : e < c) /\ VerificationsOf(n, n, c) = {}
  BY DEF BeginAgreement, StartSeal, StartVerify, DueCut
<1>3. PICK stage \in {"seal", "verify"} :
         /\ pass' = [pass EXCEPT ![n] = Reading(n, c, stage)]
         /\ stage = "verify" => StartVerify(n, c)
  BY DEF BeginAgreement, StartSeal, StartVerify
<1>4. PICK p : p = Reading(n, c, stage)
  OBVIOUS
<1>5. /\ p.stage = stage /\ p.cut = c
      /\ p.ids = SealedIdentities(n, c, held[n]) /\ p.rows = {i \in held[n] : At(i) < c}
  BY <1>4 DEF Reading, TermsNow, SealTerms, Idle
<1>6. pass'[n] = p /\ Others(n)
  BY <1>1, <1>3, <1>4 DEF Others
<1>7. RowsMove(n) /\ (Halted(n)' => Halted(n))
  BY <1>1, RowsStay
<1>8. \A s \in DOMAIN log[n] : log[n][s].body.kind = "verified" => log[n][s].body.cut # c
  <2> SUFFICES ASSUME NEW s \in DOMAIN log[n], log[n][s].body.kind = "verified",
                      log[n][s].body.cut = c
               PROVE  FALSE
    OBVIOUS
  <2>1. <<n, s>> \in admitted[n]
    BY <1>1 DEF IInv, OwnVerificationsAdmitted
  <2>2. <<n, s>> \in VerificationsOf(n, n, c)
    BY <2>1 DEF VerificationsOf, OfKind, Body, Env
  <2> QED BY <1>2, <2>2
<1>9. CASE stage = "seal"
  <2>1. PassGood(n)'
    BY <1>1, <1>2, <1>5, <1>6, <1>7, <1>8, <1>9 DEF PassGood, VerifyStages
  <2> QED BY <1>1, <1>6, <1>7, <2>1, QuietStepKeeps
<1>10. CASE stage = "verify"
  <2>1. row[n][c].state # "none"
    <3>1. n \in TermsNow(n, c).parts /\ TermsNow(n, c).cut = c
      BY DEF TermsNow, SealTerms
    <3>2. NewestSealIs(n, n, TermsNow(n, c))
      BY <1>3, <1>10, <3>1 DEF StartVerify
    <3>3. PICK i \in SealsOf(n, n, c) : TRUE
      BY <3>1, <3>2 DEF NewestSealIs
    <3>4. i \in AllIds /\ Body(i).kind = "sealed" /\ i[1] = n /\ Body(i).cut = c
      BY <1>1 DEF SealsOf, OfKind, IInv, TypeOK
    <3>5. i[2] \in DOMAIN log[n] /\ log[n][i[2]].body = Body(i)
      BY <1>1, <3>4, IdTypes
    <3> QED BY <1>1, <3>4, <3>5 DEF IInv, FloorFirst
  <2>2. p.ids = {i \in Inventory(n) : At(i) < c}
    BY <1>5 DEF SealedIdentities, Inventory
  <2>3. Listed(n, c, p.ids)
    <3>1. \A s \in DOMAIN log[n] : <<n, s>> \in Inventory(n) /\ At(<<n, s>>) = log[n][s].at
      BY <1>1 DEF StoreGood, At, Env
    <3> QED BY <2>2, <3>1 DEF Listed
  <2>4. Covers(n, p.rows, p.ids)
    BY <1>5, <2>2 DEF Covers, Inventory
  <2>5. \A i \in DOMAIN tomb[n] :
           /\ i \in p.ids
           /\ \E j \in held[n] \cap p.ids : Replaces(j, i)
           /\ \E k \in p.ids : Follows(k, i)
    <3>1. \A e \in StableCuts(n) : e <= c
      BY <1>2, DaysAssumption DEF StableCuts
    <3> QED BY <2>2, <3>1, TombstonesAreEarly DEF Inventory
  <2>6. PassGood(n)'
    <3>1. /\ Listed(n, c, p.ids)' /\ Covers(n, p.rows, p.ids)'
          /\ \A i \in DOMAIN tomb[n] :
                /\ i \in p.ids
                /\ \E j \in held[n] \cap p.ids : Replaces(j, i)'
                /\ \E k \in p.ids : Follows(k, i)
      BY <1>1, <2>3, <2>4, <2>5, QuietSame
    <3> QED BY <1>1, <1>2, <1>5, <1>6, <1>7, <1>8, <1>10, <2>1, <3>1 DEF PassGood, Follows
  <2> QED BY <1>1, <1>6, <1>7, <2>6, QuietStepKeeps
<1> QED BY <1>9, <1>10

\* plan_drops on the rows the seal covers gives the drop of the sealed set.
LEMMA ProveStep ==
    ASSUME UInv, IInv', Counted', NEW n \in Nodes, ProveDrops(n)
    PROVE  UInv'
<1>1. /\ UNCHANGED <<log, held, admitted, tomb, row, sync, crashes>>
      /\ pass[n].stage = "verify" /\ pass[n].stage \in VerifyStages /\ pass[n].stage \in AgreeStages
      /\ SealedIdentities(n, pass[n].cut, pass[n].rows) = pass[n].ids
  BY DEF ProveDrops, VerifyStages, AgreeStages
<1>2. /\ IInv /\ admitted[n] = held[n] /\ PassGood(n) /\ pass \in [Nodes -> Passes]
      /\ pass[n].cut \in Cuts /\ pass[n] \in Passes
  BY <1>1 DEF UInv, StoreGood, IInv, TypeOK, BusyWithCut
<1>3. /\ Listed(n, pass[n].cut, pass[n].ids) /\ Covers(n, pass[n].rows, pass[n].ids)
      /\ row[n][pass[n].cut].state # "none"
      /\ \A i \in DOMAIN tomb[n] :
            /\ i \in pass[n].ids
            /\ \E j \in held[n] \cap pass[n].ids : Replaces(j, i)
            /\ \E k \in pass[n].ids : Follows(k, i)
  BY <1>1, <1>2 DEF PassGood
<1>4. PlannedDigest(n, pass[n].cut, pass[n].rows) = DropOf(pass[n].ids)
  <2> DEFINE ids == pass[n].ids
             rows == pass[n].rows
             c == pass[n].cut
  <2>1. ids \in SUBSET AllIds
    BY <1>2, <1>3, ListedWereWritten
  <2>2. /\ IInv /\ admitted[n] = held[n] /\ c \in Cuts
        /\ SealedIdentities(n, c, rows) = ids /\ Covers(n, rows, ids)
        /\ \A i \in DOMAIN tomb[n] :
              /\ i \in ids
              /\ \E j \in held[n] \cap ids : Replaces(j, i)
              /\ \E k \in ids : Follows(k, i)
    BY <1>1, <1>2, <1>3
  <2>3. PlannedDigest(n, c, rows) = DropOf(ids)
    <3> HIDE DEF ids, rows, c
    <3> QED BY <2>1, <2>2, PlanIsDropOf
  <2> QED BY <2>3
<1> DEFINE q == [pass[n] EXCEPT !.stage = "proved", !.drop = DropOf(pass[n].ids)]
<1>5. pass' = [pass EXCEPT ![n] = q]
  BY <1>2, <1>4 DEF ProveDrops
<1>6. /\ q.stage = "proved" /\ q.drop = DropOf(pass[n].ids) /\ q.cut = pass[n].cut
      /\ q.ids = pass[n].ids /\ q.rows = pass[n].rows
  BY <1>2 DEF Passes
<1>7. PICK p : p = q
  OBVIOUS
<1> HIDE DEF q
<1>8. pass'[n] = p /\ Others(n)
  BY <1>1, <1>2, <1>5, <1>7 DEF Others
<1>9. RowsMove(n) /\ (Halted(n)' => Halted(n))
  BY <1>1, RowsStay
<1>10. /\ p.stage = "proved" /\ p.drop = DropOf(p.ids)'
       /\ Listed(n, p.cut, p.ids)' /\ Covers(n, p.rows, p.ids)'
       /\ row[n][p.cut].state # "none"
  BY <1>1, <1>3, <1>6, <1>7, QuietSame
<1>11. /\ ~Halted(n)
       /\ \A s \in DOMAIN log[n] : log[n][s].body.kind = "verified" => log[n][s].body.cut # p.cut
  BY <1>1, <1>2, <1>6, <1>7 DEF PassGood
<1>12. PassGood(n)'
  BY <1>1, <1>8, <1>9, <1>10, <1>11 DEF PassGood
<1> QED BY <1>1, <1>8, <1>9, <1>12, QuietStepKeeps

\* A pass records what it is about to publish: the row is not that of a cut it verified.
LEMMA RecordStep ==
    ASSUME UInv, IInv', Counted', NEW n \in Nodes, RecordSealed(n) \/ RecordVerified(n)
    PROVE  UInv'
<1>1. /\ UNCHANGED <<log, held, admitted, tomb, sync, crashes>>
      /\ IInv /\ PassGood(n) /\ RowsGood(n) /\ pass \in [Nodes -> Passes] /\ pass[n] \in Passes
      /\ row \in [Nodes -> [Cuts -> Rows]]
  BY DEF RecordSealed, RecordVerified, UInv, IInv, TypeOK
<1>2. PICK to \in {"sealed", "verified"} :
         /\ RecordState(n, to) /\ pass' = [pass EXCEPT ![n].stage = to]
         /\ to = "sealed" => pass[n].stage = "seal"
         /\ to = "verified" => pass[n].stage = "proved"
  BY DEF RecordSealed, RecordVerified
<1>3. /\ pass[n].stage \in AgreeStages /\ pass[n].cut \in Cuts
      /\ to = "verified" => pass[n].stage \in VerifyStages
  BY <1>1, <1>2 DEF AgreeStages, VerifyStages, IInv, BusyWithCut
<1>4. PICK r : r = [state |-> to, rows |-> pass[n].rows, drop |-> pass[n].drop]
  OBVIOUS
<1>5. /\ row'[n][pass[n].cut] = r /\ r.state = to /\ r.rows = pass[n].rows
      /\ \A c \in Cuts \ {pass[n].cut} : row'[n][c] = row[n][c]
      /\ \A m \in Nodes \ {n} : row'[m] = row[m]
  BY <1>1, <1>2, <1>3, <1>4 DEF RecordState
<1>6. PICK p : p = [pass[n] EXCEPT !.stage = to]
  OBVIOUS
<1>7. /\ pass'[n] = p /\ \A m \in Nodes \ {n} : pass'[m] = pass[m]
      /\ p.stage = to /\ p.cut = pass[n].cut /\ p.ids = pass[n].ids /\ p.rows = pass[n].rows
      /\ p.drop = pass[n].drop
  BY <1>1, <1>2, <1>6 DEF Passes
<1>8. Others(n)
  BY <1>1, <1>5, <1>7 DEF Others
<1>9. /\ ~Halted(n)
      /\ \A s \in DOMAIN log[n] : log[n][s].body.kind = "verified" => log[n][s].body.cut # p.cut
  BY <1>1, <1>3, <1>7 DEF PassGood
<1>10. \A s \in DOMAIN log[n] : log[n][s].body.kind = "verified" => log[n][s].body.cut \in Cuts
  BY <1>1, VerifiedCuts
<1>11. RowsMove(n)
  BY <1>1, <1>5, <1>7, <1>9, <1>10 DEF RowsMove, RowsGood, TrimStates
<1>12. ~Halted(n)'
  BY <1>5, <1>9 DEF Halted
<1>13. PassGood(n)'
  <2>1. CASE to = "sealed"
    BY <1>1, <1>7, <1>9, <1>12, <2>1 DEF PassGood, VerifyStages
  <2>2. CASE to = "verified"
    <3>1. /\ Listed(n, p.cut, p.ids) /\ Covers(n, p.rows, p.ids) /\ p.drop = DropOf(p.ids)
      BY <1>1, <1>2, <1>3, <1>7, <2>2 DEF PassGood
    <3>2. /\ Listed(n, p.cut, p.ids)' /\ Covers(n, p.rows, p.ids)' /\ p.drop = DropOf(p.ids)'
      BY <1>1, <3>1, QuietSame
    <3> QED BY <1>1, <1>5, <1>7, <1>9, <1>12, <2>2, <3>2 DEF PassGood
  <2> QED BY <2>1, <2>2
<1> QED BY <1>1, <1>8, <1>11, <1>13, QuietStepKeeps

\* A pass ends, a daemon stops, a person resumes a halted node.
LEMMA UpkeepStep ==
    ASSUME UInv, IInv', Counted', NEW n \in Nodes,
           AbandonVerify(n) \/ ResumeCheckpoints(n) \/ Crash(n)
    PROVE  UInv'
<1>1. /\ UNCHANGED <<log, held, admitted, tomb>>
      /\ IInv /\ PassGood(n) /\ RowsGood(n) /\ pass \in [Nodes -> Passes]
      /\ row \in [Nodes -> [Cuts -> Rows]]
      /\ (\A m \in Nodes : sync[m] = Idle) /\ sync \in [Nodes -> Passes]
  BY DEF AbandonVerify, ResumeCheckpoints, Crash, UInv, IInv, TypeOK, RowsGood
<1>2. CASE AbandonVerify(n) \/ Crash(n)
  <2>1. /\ row' = row /\ pass' = [pass EXCEPT ![n] = Idle] /\ \A m \in Nodes : sync'[m] = sync[m]
    BY <1>1, <1>2 DEF AbandonVerify, Crash
  <2>2. pass'[n] = Idle /\ Others(n)
    BY <1>1, <2>1 DEF Others
  <2>3. RowsMove(n)
    BY <2>1, RowsStay
  <2> QED BY <1>1, <2>2, <2>3, IdleIsGood, QuietStepKeeps
<1>3. CASE ResumeCheckpoints(n)
  <2>1. /\ UNCHANGED <<pass, sync>> /\ Halted(n)
        /\ \A m \in Nodes \ {n} : row'[m] = row[m]
        /\ \A c \in Cuts : row[n][c].state # "graph-changed" => row'[n][c] = row[n][c]
        /\ \A c \in Cuts : row[n][c].state = "graph-changed" =>
              row'[n][c].state = "set-aside" /\ row'[n][c].drop = row[n][c].drop
    BY <1>1, <1>3 DEF ResumeCheckpoints, Rows
  <2>2. Others(n)
    BY <1>1, <2>1 DEF Others
  <2>3. \A s \in DOMAIN log[n] : log[n][s].body.kind = "verified" => log[n][s].body.cut \in Cuts
    BY <1>1, VerifiedCuts
  <2>4. RowsMove(n)
    BY <1>1, <2>1, <2>3 DEF RowsMove, RowsGood, TrimStates
  <2>5. pass[n].stage \notin AgreeStages /\ pass[n].stage \notin VerifyStages
    BY <1>1, <2>1 DEF PassGood, AgreeStages, VerifyStages
  <2>6. pass[n].stage = "trim" => pass[n].cut \in Cuts
    BY <1>1 DEF IInv, BusyWithCut
  <2>7. \A c : Manifest(n, c)' = Manifest(n, c)
    BY <1>1, QuietSame
  <2>8. PassGood(n)'
    <3>1. /\ pass'[n] = pass[n] /\ pass[n].stage \notin AgreeStages /\ held'[n] = held[n]
          /\ pass[n].stage \notin {"verify", "proved", "verified"}
      BY <1>1, <2>1, <2>5 DEF AgreeStages
    <3>2. pass[n].stage = "trim" =>
             /\ row'[n][pass[n].cut].state = "trimming"
             /\ \A i \in held[n] \cap Manifest(n, pass[n].cut)' : IdBefore(pass[n].cursor, i)
      <4> SUFFICES ASSUME pass[n].stage = "trim"
                   PROVE  /\ row'[n][pass[n].cut].state = "trimming"
                          /\ \A i \in held[n] \cap Manifest(n, pass[n].cut)' :
                                IdBefore(pass[n].cursor, i)
        OBVIOUS
      <4>1. /\ row[n][pass[n].cut].state = "trimming"
            /\ \A i \in held[n] \cap Manifest(n, pass[n].cut) : IdBefore(pass[n].cursor, i)
        BY <1>1 DEF PassGood
      <4>2. Manifest(n, pass[n].cut)' = Manifest(n, pass[n].cut)
        BY <1>1, <2>1 DEF Manifest
      <4> QED BY <2>1, <2>6, <4>1, <4>2
    <3> QED BY <2>5, <3>1, <3>2 DEF PassGood, IdBefore
  <2> QED BY <1>1, <2>2, <2>4, <2>8, QuietStepKeeps
<1> QED BY <1>2, <1>3

\* A pass resumes an interrupted trim, and marks a finished one.
LEMMA TrimEndsStep ==
    ASSUME UInv, IInv', Counted', NEW n \in Nodes,
           \/ ResumeTrim(n)
           \/ MarkTrimmed(n, pass[n]) /\ pass' = [pass EXCEPT ![n] = Idle] /\ UNCHANGED sync
    PROVE  UInv'
<1>1. /\ UNCHANGED <<log, held, admitted, tomb, sync>>
      /\ IInv /\ PassGood(n) /\ RowsGood(n) /\ pass \in [Nodes -> Passes]
      /\ row \in [Nodes -> [Cuts -> Rows]] /\ held[n] \subseteq AllIds
  BY DEF ResumeTrim, MarkTrimmed, UInv, IInv, TypeOK
<1>2. CASE ResumeTrim(n)
  <2>1. PICK c : c = Min(Interrupted(n))
    OBVIOUS
  <2>2. c \in Cuts /\ row[n][c].state = "trimming" /\ row' = row
    <3>1. Interrupted(n) \subseteq Nat /\ Interrupted(n) # {}
      BY <1>2, DaysAssumption DEF ResumeTrim, Interrupted
    <3> QED BY <1>2, <2>1, <3>1, MinIsBound DEF ResumeTrim, Interrupted
  <2>3. PICK p : p = Trimming(c)
    OBVIOUS
  <2>4. p.stage = "trim" /\ p.cut = c /\ p.cursor = NoId
    BY <2>3 DEF Trimming, Idle
  <2>5. pass'[n] = p /\ Others(n)
    BY <1>1, <1>2, <2>1, <2>2, <2>3 DEF ResumeTrim, Others
  <2>6. RowsMove(n)
    BY <1>1, <2>2, RowsStay
  <2>7. \A i \in held'[n] : IdBefore(p.cursor, i)
    BY <1>1, <2>4, IdTypes DEF IdBefore, NoId
  <2>8. PassGood(n)'
    BY <2>2, <2>4, <2>5, <2>7 DEF PassGood, AgreeStages, VerifyStages, IdBefore
  <2> QED BY <1>1, <2>5, <2>6, <2>8, QuietStepKeeps
<1>3. CASE MarkTrimmed(n, pass[n]) /\ pass' = [pass EXCEPT ![n] = Idle]
  <2>1. /\ pass[n].stage = "trim" /\ Left(n, pass[n]) = {}
        /\ row' = [row EXCEPT ![n][pass[n].cut].state = "trimmed"]
    BY <1>3 DEF MarkTrimmed
  <2>2. pass[n].cut \in Cuts /\ row[n][pass[n].cut].state = "trimming"
    BY <1>1, <2>1 DEF IInv, BusyWithCut, PassGood
  <2>3. held[n] \cap Manifest(n, pass[n].cut) = {}
    BY <1>1, <2>1 DEF PassGood, Left, Manifest
  <2>4. /\ \A c \in Cuts \ {pass[n].cut} : row'[n][c] = row[n][c]
        /\ row'[n][pass[n].cut].state = "trimmed"
        /\ row'[n][pass[n].cut].drop = row[n][pass[n].cut].drop
        /\ \A m \in Nodes \ {n} : row'[m] = row[m]
    BY <1>1, <2>1, <2>2 DEF Rows
  <2>5. pass'[n] = Idle /\ Others(n)
    BY <1>1, <1>3, <2>4 DEF Others
  <2>6. \A s \in DOMAIN log[n] : log[n][s].body.kind = "verified" => log[n][s].body.cut \in Cuts
    BY <1>1, VerifiedCuts
  <2>7. RowsMove(n)
    <3>1. sync'[n] = Idle
      BY <1>1 DEF RowsGood
    <3>2. \A c \in Cuts :
             /\ row'[n][c].state # "plan-changed"
             /\ row'[n][c].state \in TrimStates =>
                   row[n][c].state \in TrimStates /\ row'[n][c].drop = row[n][c].drop
             /\ row'[n][c].state = "trimmed" =>
                   row[n][c].state = "trimmed" \/ held[n] \cap Manifest(n, c) = {}
      BY <1>1, <2>2, <2>3, <2>4 DEF RowsGood, TrimStates
    <3> QED BY <2>4, <2>6, <3>1, <3>2 DEF RowsMove, TrimStates
  <2> QED BY <1>1, <2>5, <2>7, IdleIsGood, QuietStepKeeps
<1> QED BY <1>2, <1>3 DEF ResumeTrim

\* The first transaction of a trim.  The new tombstones are the rest of the certified drop;
\* they are dated by the newest stable cut, so the manifests of earlier cuts stay.
LEMMA StartTrimStep ==
    ASSUME UInv, IInv', Counted', NEW n \in Nodes, NEW c \in Cuts, TrimOwnPlan(n, c)
    PROVE  UInv'
<1>1. PICK ids, t : ids = PlannedDrops(n, c, row[n][c].rows) /\ t = ChosenCertificate(n, c)
  OBVIOUS
<1>2. /\ c \in StableCuts(n) /\ (\A e \in StableCuts(n) : e <= c)
      /\ t \in CertifiedTerms(c) /\ t.drop = ids \cup DOMAIN tomb[n]
      /\ \A i \in ids : /\ \E j \in held[n] : Replaces(j, i) /\ At(j) < c
                        /\ \E k \in Inventory(n) : Follows(k, i) /\ At(k) < c
  BY <1>1, PendingFacts DEF TrimOwnPlan
<1>3. /\ IInv /\ StoreGood(n) /\ RowsGood(n) /\ LogGood(n) /\ ids \subseteq held[n]
      /\ row \in [Nodes -> [Cuts -> Rows]] /\ pass \in [Nodes -> Passes] /\ DOMAIN tomb = Nodes
      /\ \A m \in Nodes : admitted[m] = held[m]
  BY <1>1 DEF UInv, IInv, TypeOK, StoreGood, PlannedDrops, SealedIdentities
<1>4. /\ UNCHANGED <<log, held, admitted, sync, crashes>>
      /\ pass' = [pass EXCEPT ![n] = Trimming(c)]
      /\ RecordTombstones(n, c, ids, FALSE, t.drop)
  BY <1>1 DEF TrimOwnPlan
<1>5. /\ DOMAIN tomb'[n] = DOMAIN tomb[n] \cup ids
      /\ \A i \in DOMAIN tomb[n] : tomb'[n][i] = tomb[n][i]
      /\ \A i \in ids \ DOMAIN tomb[n] : tomb'[n][i] = c
      /\ \A m \in Nodes \ {n} : tomb'[m] = tomb[m]
  BY <1>3, <1>4 DEF RecordTombstones
<1>6. /\ row'[n][c].state = "trimming" /\ row'[n][c].drop = t.drop
      /\ \A d \in Cuts \ {c} : row'[n][d] = row[n][d]
      /\ \A m \in Nodes \ {n} : row'[m] = row[m]
  <2> DEFINE r == [row[n][c] EXCEPT !.state = "trimming", !.drop = t.drop]
  <2>1. row' = [row EXCEPT ![n][c] = r]
    BY <1>3, <1>4 DEF RecordTombstones
  <2>2. r.state = "trimming" /\ r.drop = t.drop
    BY <1>3 DEF Rows
  <2> HIDE DEF r
  <2> QED BY <1>3, <2>1, <2>2
<1>7. Grown
  BY <1>4 DEF Grown
<1>8. ASSUME NEW m \in Nodes \ {n}
      PROVE  StoreGood(m)' /\ RowsGood(m)' /\ LogGood(m)' /\ PassGood(m)'
  <2>1. Undisturbed(m) /\ Others(n)
    BY <1>3, <1>4, <1>5, <1>6 DEF Undisturbed, Others
  <2> QED BY <1>7, <2>1, OthersKeep
<1>9. /\ Inventory(n)' = Inventory(n) /\ Inventory(n) \subseteq AllIds
      /\ held[n] \subseteq Inventory(n) /\ DOMAIN tomb[n] \subseteq Inventory(n)
  BY <1>3, <1>4, <1>5, ListedWereWritten DEF Inventory
<1>10. /\ \A i \in AllIds : Body(i)' = Body(i) /\ At(i)' = At(i)
       /\ StableCuts(n) \subseteq StableCuts(n)'
       /\ \A d \in Cuts : CertifiedTerms(d) \subseteq CertifiedTerms(d)'
       /\ \A i, j \in AllIds : Replaces(j, i)' = Replaces(j, i)
       /\ \A i \in AllIds : Settled(n, i) => Settled(n, i)'
       /\ \A s \in SUBSET AllIds : DropOf(s)' = DropOf(s)
  BY <1>3, <1>7, GrownFacts, GrownKeeps
<1>11. StoreGood(n)'
  <2>1. ASSUME NEW i \in DOMAIN tomb[n]
        PROVE  /\ \E d \in StableCuts(n)' :
                      tomb'[n][i] = d /\ \E u \in CertifiedTerms(d)' : i \in u.drop
               /\ \E j \in held'[n] : Replaces(j, i)' /\ Settled(n, j)'
               /\ \E k \in Inventory(n)' : Follows(k, i) /\ Settled(n, k)'
    <3>1. PICK d \in StableCuts(n) : tomb[n][i] = d /\ \E u \in CertifiedTerms(d) : i \in u.drop
      BY <1>3 DEF StoreGood
    <3>2. d \in Cuts /\ d \in StableCuts(n)' /\ tomb'[n][i] = d
      BY <1>5, <1>10, <3>1 DEF StableCuts
    <3>3. \E u \in CertifiedTerms(d)' : i \in u.drop
      BY <1>10, <3>1, <3>2
    <3>4. /\ \E j \in held[n] : Replaces(j, i) /\ Settled(n, j)
          /\ \E k \in Inventory(n) : Follows(k, i) /\ Settled(n, k)
      BY <1>3 DEF StoreGood
    <3> QED BY <1>4, <1>9, <1>10, <3>2, <3>3, <3>4
  <2>2. ASSUME NEW i \in ids \ DOMAIN tomb[n]
        PROVE  /\ \E d \in StableCuts(n)' :
                      tomb'[n][i] = d /\ \E u \in CertifiedTerms(d)' : i \in u.drop
               /\ \E j \in held'[n] : Replaces(j, i)' /\ Settled(n, j)'
               /\ \E k \in Inventory(n)' : Follows(k, i) /\ Settled(n, k)'
    <3>1. \A j \in AllIds : At(j) < c => Settled(n, j)'
      BY <1>2, <1>10 DEF Settled
    <3>2. i \in AllIds /\ i \in t.drop /\ t \in CertifiedTerms(c)' /\ c \in StableCuts(n)'
      BY <1>2, <1>3, <1>9, <1>10
    <3> QED BY <1>2, <1>4, <1>5, <1>9, <1>10, <3>1, <3>2
  <2> QED BY <1>3, <1>4, <1>5, <1>9, <2>1, <2>2 DEF StoreGood, Follows
<1>12. RowsGood(n)'
  <2>1. \A i \in DOMAIN tomb[n] : tomb[n][i] <= c
    BY <1>2, TombstonesAreEarly
  <2>2. Manifest(n, c)' = t.drop
    BY <1>2, <1>5, <2>1, DaysAssumption DEF Manifest
  <2>3. ASSUME NEW d \in Cuts, d # c, row[n][d].state \in TrimStates
        PROVE  Manifest(n, d)' = Manifest(n, d)
    <3>1. d \in StableCuts(n) /\ d < c
      <4>1. d \in StableCuts(n) /\ d <= c
        BY <1>2, <1>3, <2>3 DEF RowsGood
      <4> QED BY <2>3, <4>1, DaysAssumption
    <3>2. ~(c <= d)
      BY <3>1, DaysAssumption
    <3> QED BY <1>5, <3>2 DEF Manifest
  <2>4. sync'[n] = Idle /\ row'[n][c].state \notin {"plan-changed", "trimmed"}
    BY <1>3, <1>4, <1>6 DEF RowsGood
  <2>5. /\ c \in StableCuts(n)' /\ Manifest(n, c)' = row'[n][c].drop
        /\ \E u \in CertifiedTerms(c)' : u.drop = row'[n][c].drop
    BY <1>2, <1>6, <1>10, <2>2
  <2>6. ASSUME NEW d \in Cuts, d # c
        PROVE  /\ row'[n][d].state # "plan-changed"
               /\ row'[n][d].state \in TrimStates =>
                     /\ d \in StableCuts(n)'
                     /\ Manifest(n, d)' = row'[n][d].drop
                     /\ \E u \in CertifiedTerms(d)' : u.drop = row'[n][d].drop
               /\ row'[n][d].state = "trimmed" => held'[n] \cap Manifest(n, d)' = {}
    <3>1. row'[n][d] = row[n][d]
      BY <1>6, <2>6
    <3>2. /\ row[n][d].state # "plan-changed"
          /\ row[n][d].state \in TrimStates =>
                /\ d \in StableCuts(n)
                /\ Manifest(n, d) = row[n][d].drop
                /\ \E u \in CertifiedTerms(d) : u.drop = row[n][d].drop
          /\ row[n][d].state = "trimmed" => held[n] \cap Manifest(n, d) = {}
      BY <1>3 DEF RowsGood
    <3>3. "trimmed" \in TrimStates
      BY DEF TrimStates
    <3> QED BY <1>4, <1>10, <2>3, <2>6, <3>1, <3>2, <3>3
  <2> QED BY <2>4, <2>5, <2>6 DEF RowsGood
<1>13. LogGood(n)'
  <2> SUFFICES ASSUME NEW u \in Said(n), u.kind = "verified" PROVE VerifiedGood(n, u)'
    BY <1>4 DEF LogGood, Said
  <2>1. VerifiedGood(n, u)
    BY <1>3 DEF LogGood
  <2>2. u.ids \in SUBSET AllIds /\ u.cut \in Cuts
    <3>1. u.cut \in Cuts
      BY <1>3, AllIdsAre DEF IInv, Bodies, Said
    <3> QED BY <1>3, <2>1, <3>1, ListedWereWritten DEF VerifiedGood
  <2>3. Listed(n, u.cut, u.ids)'
    BY <1>4, <1>9, <1>10, <2>1, <2>2 DEF VerifiedGood, Listed
  <2>4. u.drop = DropOf(u.ids)'
    BY <1>10, <2>1, <2>2 DEF VerifiedGood
  <2>5. PICK r : r = row'[n][u.cut]
    OBVIOUS
  <2>6. /\ r.state \in {"verified"} \cup TrimStates
        /\ r.state = "verified" => Covers(n, r.rows, u.ids)
    BY <1>6, <2>1, <2>2, <2>5 DEF VerifiedGood, TrimStates
  <2>7. r.state = "verified" => Covers(n, r.rows, u.ids)'
    BY <1>4, <1>9, <2>6 DEF Covers
  <2> QED BY <2>3, <2>4, <2>5, <2>6, <2>7 DEF VerifiedGood
<1>14. PassGood(n)'
  <2>1. PICK p : p = Trimming(c)
    OBVIOUS
  <2>2. p.stage = "trim" /\ p.cut = c /\ p.cursor = NoId /\ pass'[n] = p
    BY <1>3, <1>4, <2>1 DEF Trimming, Idle
  <2>3. \A i \in held'[n] : IdBefore(p.cursor, i)
    BY <1>3, <1>4, <1>9, <2>2, IdTypes DEF IdBefore, NoId
  <2> QED BY <1>6, <2>2, <2>3 DEF PassGood, AgreeStages, VerifyStages, IdBefore
<1>15. Undivided'
  BY DEF UInv, Undivided, EveryoneCounts
<1> QED BY <1>8, <1>11, <1>12, <1>13, <1>14, <1>15 DEF UInv

\* finish_trim deletes one row.  The tombstone keeps the identity listed, what replaced it
\* is replaced or stored itself, and the rows recorded for each cut lose it too.
LEMMA DeleteStep ==
    ASSUME UInv, IInv', Counted', NEW n \in Nodes, DeleteRow(n, pass[n]),
           pass' = [pass EXCEPT ![n].cursor = LeastId(Left(n, pass[n]))], UNCHANGED sync
    PROVE  UInv'
<1>1. PICK g : g = LeastId(Left(n, pass[n]))
  OBVIOUS
<1>2. /\ IInv /\ StoreGood(n) /\ RowsGood(n) /\ LogGood(n) /\ PassGood(n)
      /\ row \in [Nodes -> [Cuts -> Rows]] /\ pass \in [Nodes -> Passes]
      /\ held \in [Nodes -> SUBSET Ids] /\ admitted \in [Nodes -> SUBSET Ids]
      /\ \A m \in Nodes : admitted[m] = held[m]
  BY DEF UInv, IInv, TypeOK, StoreGood
<1>3. /\ g \in held[n] /\ g \in DOMAIN tomb[n] /\ g \in AllIds
      /\ \A i \in Left(n, pass[n]) \ {g} : IdBefore(g, i)
      /\ Body(g).kind = "observed"
  <2>1. Left(n, pass[n]) \in SUBSET Ids /\ Left(n, pass[n]) # {}
    BY <1>2 DEF Left, DeleteRow
  <2>2. g \in Left(n, pass[n]) /\ \A i \in Left(n, pass[n]) \ {g} : IdBefore(g, i)
    BY <1>1, <2>1, LeastIdIsIn
  <2> QED BY <1>2, <2>2 DEF Left, IInv, TypeOK, TombstonesReplaced
<1>4. /\ pass[n].stage = "trim" /\ UNCHANGED <<log, tomb, sync>>
      /\ held' = [held EXCEPT ![n] = @ \ {g}] /\ admitted' = [admitted EXCEPT ![n] = @ \ {g}]
      /\ row' = [row EXCEPT ![n] = [c \in Cuts |-> [row[n][c] EXCEPT !.rows = @ \ {g}]]]
  BY <1>1 DEF DeleteRow
<1>5. /\ held'[n] = held[n] \ {g} /\ admitted'[n] = held[n] \ {g}
      /\ \A m \in Nodes \ {n} : /\ held'[m] = held[m] /\ admitted'[m] = held[m]
                                /\ row'[m] = row[m]
  BY <1>2, <1>4
<1>6. \A c \in Cuts : /\ row'[n][c].state = row[n][c].state /\ row'[n][c].drop = row[n][c].drop
                      /\ row'[n][c].rows = row[n][c].rows \ {g}
  BY <1>2, <1>4 DEF Rows
<1>7. Grown
  BY <1>2, <1>3, <1>4, <1>5 DEF Grown
<1>8. PICK p : p = [pass[n] EXCEPT !.cursor = g]
  OBVIOUS
<1>9. /\ pass'[n] = p /\ \A m \in Nodes \ {n} : pass'[m] = pass[m]
      /\ p.stage = "trim" /\ p.cut = pass[n].cut /\ p.cursor = g
  BY <1>1, <1>2, <1>4, <1>8 DEF Passes
<1>10. ASSUME NEW m \in Nodes \ {n}
       PROVE  StoreGood(m)' /\ RowsGood(m)' /\ LogGood(m)' /\ PassGood(m)'
  <2>1. Undisturbed(m) /\ Others(n)
    BY <1>2, <1>4, <1>5, <1>9 DEF Undisturbed, Others
  <2> QED BY <1>7, <2>1, OthersKeep
<1>11. /\ Inventory(n)' = Inventory(n) /\ Inventory(n) \subseteq AllIds
       /\ held[n] \subseteq Inventory(n)
       /\ DOMAIN tomb[n] \subseteq Inventory(n) /\ \A c : Manifest(n, c)' = Manifest(n, c)
  BY <1>2, <1>3, <1>4, <1>5, ListedWereWritten DEF Inventory, Manifest
<1>12. /\ \A i \in AllIds : Body(i)' = Body(i) /\ At(i)' = At(i)
       /\ StableCuts(n) \subseteq StableCuts(n)'
       /\ \A d \in Cuts : CertifiedTerms(d) \subseteq CertifiedTerms(d)'
       /\ \A i, j \in AllIds : Replaces(j, i)' = Replaces(j, i)
       /\ \A i \in AllIds : Settled(n, i) => Settled(n, i)'
       /\ \A s \in SUBSET AllIds : DropOf(s)' = DropOf(s)
  BY <1>2, <1>7, GrownFacts, GrownKeeps
<1>13. StoreGood(n)'
  <2> SUFFICES ASSUME NEW i \in DOMAIN tomb[n]
               PROVE  /\ \E d \in StableCuts(n)' :
                             tomb[n][i] = d /\ \E u \in CertifiedTerms(d)' : i \in u.drop
                      /\ \E j \in held'[n] : Replaces(j, i)' /\ Settled(n, j)'
                      /\ \E k \in Inventory(n)' : Follows(k, i) /\ Settled(n, k)'
    BY <1>2, <1>4, <1>5, <1>11 DEF StoreGood, Follows
  <2>1. PICK d \in StableCuts(n) : tomb[n][i] = d /\ \E u \in CertifiedTerms(d) : i \in u.drop
    BY <1>2 DEF StoreGood
  <2>2. d \in Cuts /\ d \in StableCuts(n)' /\ \E u \in CertifiedTerms(d)' : i \in u.drop
    BY <1>12, <2>1 DEF StableCuts
  <2>3. \E k \in Inventory(n)' : Follows(k, i) /\ Settled(n, k)'
    BY <1>2, <1>11, <1>12 DEF StoreGood
  <2>4. \E j \in held[n] \ {g} : Replaces(j, i) /\ Settled(n, j)
    <3>1. PICK j \in held[n] : Replaces(j, i) /\ Settled(n, j)
      BY <1>2 DEF StoreGood
    <3>2. CASE j # g
      BY <3>1, <3>2
    <3>3. CASE j = g
      <4>1. PICK k \in held[n] : Replaces(k, g) /\ Settled(n, k)
        BY <1>2, <1>3 DEF StoreGood
      <4>2. i \in AllIds /\ k \in AllIds
        BY <1>11
      <4>3. Replaces(k, i) /\ k # g
        BY <1>2, <1>3, <3>1, <3>3, <4>1, <4>2, ReplacesOrders
      <4> QED BY <4>1, <4>3
    <3> QED BY <3>2, <3>3
  <2>5. \E j \in held'[n] : Replaces(j, i)' /\ Settled(n, j)'
    <3>1. i \in AllIds /\ held[n] \subseteq AllIds
      BY <1>11
    <3> QED BY <1>5, <1>12, <2>4, <3>1
  <2> QED BY <2>1, <2>2, <2>3, <2>5
<1>14. RowsGood(n)'
  <2>1. sync'[n] = Idle
    BY <1>2, <1>4 DEF RowsGood
  <2>2. ASSUME NEW d \in Cuts
        PROVE  /\ row'[n][d].state # "plan-changed"
               /\ row'[n][d].state \in TrimStates =>
                     /\ d \in StableCuts(n)'
                     /\ Manifest(n, d)' = row'[n][d].drop
                     /\ \E u \in CertifiedTerms(d)' : u.drop = row'[n][d].drop
               /\ row'[n][d].state = "trimmed" => held'[n] \cap Manifest(n, d)' = {}
    BY <1>2, <1>5, <1>6, <1>11, <1>12 DEF RowsGood
  <2> QED BY <2>1, <2>2 DEF RowsGood
<1>15. LogGood(n)'
  <2> SUFFICES ASSUME NEW u \in Said(n), u.kind = "verified" PROVE VerifiedGood(n, u)'
    BY <1>4 DEF LogGood, Said
  <2>1. VerifiedGood(n, u)
    BY <1>2 DEF LogGood
  <2>2. u.ids \in SUBSET AllIds /\ u.cut \in Cuts
    <3>1. u.cut \in Cuts
      BY <1>2, AllIdsAre DEF IInv, Bodies, Said
    <3> QED BY <1>2, <2>1, <3>1, ListedWereWritten DEF VerifiedGood
  <2>3. Listed(n, u.cut, u.ids)'
    BY <1>4, <1>11, <1>12, <2>1, <2>2 DEF VerifiedGood, Listed
  <2>4. u.drop = DropOf(u.ids)'
    BY <1>12, <2>1, <2>2 DEF VerifiedGood
  <2>5. PICK rows : rows = row[n][u.cut].rows
    OBVIOUS
  <2>6. row[n][u.cut].state = "verified" => Covers(n, rows \ {g}, u.ids)'
    BY <1>5, <1>11, <2>1, <2>5 DEF VerifiedGood, Covers
  <2> QED BY <1>6, <2>1, <2>2, <2>3, <2>4, <2>5, <2>6 DEF VerifiedGood
<1>16. PassGood(n)'
  <2>1. pass[n].cut \in Cuts
    BY <1>2, <1>4 DEF IInv, BusyWithCut
  <2>2. /\ row[n][p.cut].state = "trimming"
        /\ \A i \in held[n] \cap Manifest(n, p.cut) : IdBefore(pass[n].cursor, i)
    BY <1>2, <1>4, <1>9 DEF PassGood
  <2>3. \A i \in held'[n] \cap Manifest(n, p.cut) : IdBefore(g, i)
    <3> SUFFICES ASSUME NEW i \in held[n] \cap Manifest(n, p.cut), i # g PROVE IdBefore(g, i)
      BY <1>5
    <3>1. i \in Left(n, pass[n])
      BY <2>2 DEF Left, Manifest
    <3> QED BY <1>3, <3>1
  <2>4. /\ row'[n][p.cut].state = "trimming"
        /\ \A i \in held'[n] \cap Manifest(n, p.cut)' : IdBefore(p.cursor, i)
    <3>1. Manifest(n, p.cut)' = Manifest(n, p.cut)
      BY <1>4, <1>9, <2>1 DEF Manifest
    <3> QED BY <1>6, <1>9, <2>1, <2>2, <2>3, <3>1
  <2> QED BY <1>9, <2>4 DEF PassGood, AgreeStages, VerifyStages, IdBefore
<1>17. Undivided'
  BY DEF UInv, Undivided, EveryoneCounts
<1> QED BY <1>10, <1>13, <1>14, <1>15, <1>16, <1>17 DEF UInv

(***************************************************************************)
(* The invariant holds                                                     *)
(***************************************************************************)
\* A fleet starts with observations only, no rows and no tombstones.
LEMMA UndividedInit == Init /\ Undivided => UInv
<1> SUFFICES ASSUME Init, Undivided PROVE UInv
  OBVIOUS
<1>1. IInv
  BY InitIsGood
<1>2. /\ \A n \in Nodes : pass[n] = Idle /\ sync[n] = Idle /\ admitted[n] = held[n]
      /\ \A n \in Nodes : DOMAIN tomb[n] = {} /\ \A c \in Cuts : row[n][c].state = "none"
      /\ \A n \in Nodes : held[n] = {i \in AllIds : i[1] \in Seen[n] \cup {n}}
  BY DEF Init, NoRow
<1>3. \A n \in Nodes : \A s \in DOMAIN log[n] : log[n][s].body.kind = "observed"
  BY HistoryAssumption, PassTypes DEF Init
<1>4. Counted
  BY <1>2, <1>3 DEF Counted, AgreeStages, Idle
<1>5. ASSUME NEW n \in Nodes PROVE StoreGood(n) /\ RowsGood(n) /\ LogGood(n) /\ PassGood(n)
  <2>1. \A s \in DOMAIN log[n] : <<n, s>> \in held[n]
    BY <1>1, <1>2, AllIdsAre DEF IInv
  <2>2. StoreGood(n)
    BY <1>2, <2>1 DEF StoreGood, Inventory
  <2>3. RowsGood(n)
    BY <1>2 DEF RowsGood, TrimStates
  <2>4. LogGood(n)
    BY <1>3 DEF LogGood, Said
  <2>5. pass[n].stage = "idle"
    BY <1>2 DEF Idle
  <2>6. PassGood(n)
    BY <2>5 DEF PassGood, AgreeStages, VerifyStages
  <2> QED BY <2>2, <2>3, <2>4, <2>6
<1> QED BY <1>1, <1>4, <1>5 DEF UInv

\* Every step of every node keeps the invariant.
LEMMA UndividedNext == UInv /\ [Next]_vars => UInv'
<1> SUFFICES ASSUME UInv, [Next]_vars PROVE UInv'
  OBVIOUS
<1>1. IInv /\ EveryoneCounts /\ Counted
  BY DEF UInv, Undivided
<1>2. IInv' /\ Counted'
  BY <1>1, NextKeeps, CountedNext
<1>3. CASE UNCHANGED vars
  <2>1. UNCHANGED <<log, held, admitted, tomb, row, pass, sync>>
    BY <1>3 DEF vars
  <2>2. \A m \in Nodes : Undisturbed(m) /\ VerifiesOnlyAsRecorded(m)
    BY <2>1, QuietUndisturbs
  <2>3. \A m \in Nodes : RowsMove(m) /\ (Halted(m)' => Halted(m))
    BY <2>1, RowsStay
  <2>4. Grown
    BY <2>2, UndisturbedGrows
  <2>5. \A m \in Nodes : PassGood(m)'
    BY <1>2, <2>1, <2>2, <2>3, <2>4, PassStays
  <2>6. \A m \in Nodes : StoreGood(m)' /\ RowsGood(m)' /\ LogGood(m)'
    BY <1>2, <2>2, <2>3, <2>4, UndisturbedKeeps
  <2>7. Undivided'
    BY DEF UInv, Undivided, EveryoneCounts
  <2> QED BY <1>2, <2>5, <2>6, <2>7 DEF UInv
<1>4. ASSUME NEW n \in Nodes, NEW now \in Days, Agree(n, now) PROVE UInv'
  <2>1. CASE PublishSeal(n, now) \/ PublishVerification(n, now) \/ FailProof(n, now)
    <3>1. Writes(n)
      BY <1>1, <2>1, ActionWrites
    <3>2. UNCHANGED <<tomb, row, sync>> /\ pass' = [pass EXCEPT ![n] = Idle]
      BY <2>1 DEF PublishSeal, PublishVerification, FailProof
    <3> QED BY <1>2, <3>1, <3>2, WritingStep
  <2>2. ASSUME NEW c \in Cuts, BeginAgreement(n, c) PROVE UInv'
    BY <1>2, <2>2, BeginStep
  <2>3. CASE RecordSealed(n) \/ RecordVerified(n)
    BY <1>2, <2>3, RecordStep
  <2>4. CASE AbandonVerify(n)
    BY <1>2, <2>4, UpkeepStep
  <2>5. CASE ProveDrops(n)
    BY <1>2, <2>5, ProveStep
  <2> QED BY <1>4, <2>1, <2>2, <2>3, <2>4, <2>5 DEF Agree
<1>5. ASSUME NEW n \in Nodes, NEW now \in Days, Trim(n, now) PROVE UInv'
  <2>1. CASE ResumeTrim(n)
    BY <1>2, <2>1, TrimEndsStep
  <2>2. ASSUME NEW c \in Cuts, TrimOwnPlan(n, c) PROVE UInv'
    BY <1>2, <2>2, StartTrimStep
  <2>3. CASE PassTrims(n, now)
    <3>1. CASE /\ DeleteRow(n, pass[n]) /\ UNCHANGED sync
               /\ pass' = [pass EXCEPT ![n].cursor = LeastId(Left(n, pass[n]))]
      BY <1>2, <3>1, DeleteStep
    <3>2. CASE MarkTrimmed(n, pass[n]) /\ pass' = [pass EXCEPT ![n] = Idle] /\ UNCHANGED sync
      BY <1>2, <3>2, TrimEndsStep
    <3>3. CASE StopTrim(n, pass[n], now) /\ pass' = [pass EXCEPT ![n] = Idle] /\ UNCHANGED sync
      <4>1. Writes(n)
        BY <1>1, <3>3, ActionWrites
      <4>2. /\ tomb' = tomb /\ pass[n].stage = "trim"
            /\ row' = [row EXCEPT ![n][pass[n].cut].state = "graph-changed"]
        BY <3>3 DEF StopTrim
      <4>3. pass[n].cut \in Cuts /\ pass'[n] = Idle
        BY <1>1, <3>3, <4>2 DEF IInv, BusyWithCut, TypeOK
      <4>4. row[n][pass[n].cut].state = "trimming"
        BY <4>2 DEF UInv, PassGood
      <4> QED BY <1>2, <3>3, <4>1, <4>2, <4>3, <4>4, WritingStep
    <3> QED BY <2>3, <3>1, <3>2, <3>3 DEF PassTrims
  <2> QED BY <1>5, <2>1, <2>2, <2>3, OwnPlansOnly DEF Trim
<1>6. ASSUME NEW n \in Nodes, Replicate(n) PROVE UInv'
  BY <1>2, <1>6, ReplicateStep
<1>7. ASSUME NEW n \in Nodes, NEW now \in Days,
             WriteObservation(n, now) \/ \E w \in Nodes : ExcuseWriter(n, w, now)
      PROVE  UInv'
  <2>1. Writes(n)
    BY <1>1, <1>7, ActionWrites
  <2>2. UNCHANGED <<tomb, row, pass, sync>>
    BY <1>7 DEF WriteObservation, ExcuseWriter
  <2> QED BY <1>2, <2>1, <2>2, WritingStep
<1>8. ASSUME NEW n \in Nodes, ResumeCheckpoints(n) \/ Crash(n) PROVE UInv'
  BY <1>2, <1>8, UpkeepStep
<1> QED BY <1>3, <1>4, <1>5, <1>6, <1>7, <1>8 DEF Next, Daemon

\* The invariant holds of every undivided fleet.
THEOREM UndividedInvariance == Spec /\ Undivided => []UInv
<1>1. Init /\ Undivided => UInv
  BY UndividedInit
<1>2. UInv /\ [Next]_vars => UInv'
  BY UndividedNext
<1> QED BY <1>1, <1>2, PTL DEF Spec

(***************************************************************************)
(* What the invariant gives                                                *)
(***************************************************************************)
\* Every pass counts every node, throughout.
CountInv == EveryoneCounts /\ IInv /\ Counted

\* Counting everyone needs only that nobody is excused and all are known.
LEMMA CountingHolds == Spec /\ EveryoneCounts => []CountInv
<1>1. Init /\ EveryoneCounts => CountInv
  <2> SUFFICES ASSUME Init, EveryoneCounts PROVE CountInv
    OBVIOUS
  <2>1. IInv /\ \A n \in Nodes : pass[n].stage = "idle"
    BY InitIsGood, PassTypes DEF Init
  <2>2. \A n \in Nodes : \A s \in DOMAIN log[n] : log[n][s].body.kind = "observed"
    BY PassTypes DEF Init
  <2> QED BY <2>1, <2>2 DEF CountInv, Counted, AgreeStages
<1>2. CountInv /\ [Next]_vars => CountInv'
  BY NextKeeps, CountedNext DEF CountInv, EveryoneCounts
<1> QED BY <1>1, <1>2, PTL DEF Spec

\* When every node is known to all and nobody is excused, a checkpoint has one certificate
\* at most, so all nodes apply the same drop.
THEOREM AtMostOneCertificate == Spec /\ EveryoneCounts => []OneCertificate
<1>1. CountInv => OneCertificate
  <2> SUFFICES ASSUME CountInv, NEW c \in Cuts PROVE Cardinality(CertifiedTerms(c)) <= 1
    BY DEF OneCertificate
  <2>1. CASE CertifiedTerms(c) = {}
    BY <2>1, FS_EmptySet
  <2>2. ASSUME NEW t \in CertifiedTerms(c) PROVE Cardinality(CertifiedTerms(c)) <= 1
    <3>1. CertifiedTerms(c) = {t}
      BY <2>2, CertifiedFacts DEF CountInv
    <3>2. Cardinality({t}) = 1
      BY FS_Singleton
    <3> QED BY <3>1, <3>2
  <2> QED BY <2>1, <2>2
<1> QED BY <1>1, CountingHolds, PTL

\* publish_seal and verify_checkpoint: whatever any node dates before a certified cut is in
\* the set that was sealed.
THEOREM SealsAreKept == Spec /\ Undivided => []SealIsAPromise
<1>1. UInv => SealIsAPromise
  <2> SUFFICES ASSUME UInv, NEW c \in Cuts, NEW t \in CertifiedTerms(c), NEW w \in t.parts,
                      NEW s \in DOMAIN log[w], log[w][s].at < c
               PROVE  <<w, s>> \in t.ids
    BY DEF SealIsAPromise
  <2>1. IInv /\ Counted /\ \A n \in Nodes : LogGood(n)
    BY DEF UInv
  <2>2. w \in Nodes
    BY <2>1, CertifiedFacts
  <2>3. <<w, s>> \in AllIds /\ At(<<w, s>>) = log[w][s].at
    BY <2>1, <2>2, AllIdsAre DEF IInv, At, Env
  <2> QED BY <2>1, <2>3, CertifiedIsEverything
<1> QED BY <1>1, UndividedInvariance, PTL

\* Dropping more of a larger set.
LEMMA DropOfGrows ==
    ASSUME NEW A, NEW B, A \subseteq B
    PROVE  DropOf(A) \subseteq DropOf(B)
BY DEF DropOf

\* The digest a verification names is cumulative: the drop of a later checkpoint holds the
\* drop of every earlier one.
THEOREM DropsOnlyGrow == Spec /\ Undivided => []DropsAccumulate
<1>1. UInv => DropsAccumulate
  <2> SUFFICES ASSUME UInv, NEW c \in Cuts, NEW d \in Cuts, c < d,
                      NEW t \in CertifiedTerms(c), NEW u \in CertifiedTerms(d)
               PROVE  t.drop \subseteq u.drop
    BY DEF DropsAccumulate
  <2>1. IInv /\ Counted /\ \A n \in Nodes : LogGood(n)
    BY DEF UInv
  <2>2. /\ t.ids = {i \in AllIds : At(i) < c} /\ t.drop = DropOf(t.ids)
        /\ u.ids = {i \in AllIds : At(i) < d} /\ u.drop = DropOf(u.ids)
    BY <2>1, CertifiedIsEverything
  <2>3. \A i \in AllIds : At(i) < c => At(i) < d
    BY <2>1, IdTypes, DaysAssumption
  <2>4. t.ids \subseteq u.ids
    BY <2>2, <2>3
  <2> QED BY <2>2, <2>4, DropOfGrows
<1> QED BY <1>1, UndividedInvariance, PTL

\* checkpoint_advertisement: the manifest a node serves is the certified drop.
THEOREM AdvertisementsAreCertified == Spec /\ Undivided => []AdvertisedIsCertified
<1>1. UInv => AdvertisedIsCertified
  BY DEF UInv, RowsGood, AdvertisedIsCertified, Advertises, Advertisable, TrimStates
<1> QED BY <1>1, UndividedInvariance, PTL

\* finish_trim: a checkpoint is marked only once the rows of its manifest are deleted, and
\* none of them comes back.
THEOREM TrimsFinish == Spec /\ Undivided => []TrimmedIsDeleted
<1>1. UInv => TrimmedIsDeleted
  BY DEF UInv, RowsGood, TrimmedIsDeleted
<1> QED BY <1>1, UndividedInvariance, PTL

\* plan_drops and trim: every node that trims a checkpoint records the tombstones every
\* other one does.
THEOREM TrimsAgree == Spec /\ Undivided => []SameTrims
<1>1. UInv => SameTrims
  <2> SUFFICES ASSUME UInv, NEW n \in Nodes, NEW m \in Nodes, NEW c \in Cuts,
                      row[n][c].state \in {"trimming", "trimmed"},
                      row[m][c].state \in {"trimming", "trimmed"}
               PROVE  Manifest(n, c) = Manifest(m, c)
    BY DEF SameTrims
  <2>1. IInv /\ Counted
    BY DEF UInv
  <2>2. PICK t \in CertifiedTerms(c) : Manifest(n, c) = t.drop
    BY DEF UInv, RowsGood, TrimStates
  <2>3. PICK u \in CertifiedTerms(c) : Manifest(m, c) = u.drop
    BY DEF UInv, RowsGood, TrimStates
  <2> QED BY <2>1, <2>2, <2>3, CertifiedFacts
<1> QED BY <1>1, UndividedInvariance, PTL

\* checkpoint_trim: a node of an undivided fleet verified every checkpoint that becomes
\* stable and can trim it from its own rows.
THEOREM NobodyNeedsAManifest == Spec /\ Undivided => []OwnPlansSuffice
<1>1. UInv => OwnPlansSuffice
  BY PendingFacts DEF UInv, RowsGood, OwnPlansSuffice, NeedsManifest
<1> QED BY <1>1, UndividedInvariance, PTL

\* What a step of an undivided fleet is: a write of one node with its row or its pass, an
\* exchange, the tombstones of an own plan, or the deletion of a row.
LEMMA StepShape ==
    ASSUME UInv, [Next]_vars
    PROVE  \/ UNCHANGED vars
           \/ \E n \in Nodes :
                 \/ Writes(n) /\ tomb' = tomb
                 \/ Replicate(n)
                 \/ \E c \in Cuts : TrimOwnPlan(n, c)
                 \/ DeleteRow(n, pass[n])
<1>0. IInv /\ EveryoneCounts
  BY DEF UInv, Undivided
<1>1. ASSUME NEW n \in Nodes, NEW now \in Days, Agree(n, now) PROVE Writes(n) /\ tomb' = tomb
  <2>1. CASE PublishSeal(n, now) \/ PublishVerification(n, now) \/ FailProof(n, now)
    BY <1>0, <2>1, ActionWrites DEF PublishSeal, PublishVerification, FailProof
  <2>2. CASE \/ \E c \in Cuts : BeginAgreement(n, c)
             \/ RecordSealed(n) \/ RecordVerified(n) \/ AbandonVerify(n) \/ ProveDrops(n)
    BY <2>2 DEF BeginAgreement, RecordSealed, RecordVerified, AbandonVerify, ProveDrops, Writes
  <2> QED BY <1>1, <2>1, <2>2 DEF Agree
<1>2. ASSUME NEW n \in Nodes, NEW now \in Days, Trim(n, now)
      PROVE  \/ Writes(n) /\ tomb' = tomb
             \/ \E c \in Cuts : TrimOwnPlan(n, c)
             \/ DeleteRow(n, pass[n])
  <2>1. CASE ResumeTrim(n)
    BY <2>1 DEF ResumeTrim, Writes
  <2>2. CASE PassTrims(n, now)
    <3>1. CASE MarkTrimmed(n, pass[n])
      BY <3>1 DEF MarkTrimmed, Writes
    <3>2. CASE StopTrim(n, pass[n], now)
      BY <1>0, <3>2, ActionWrites DEF StopTrim
    <3> QED BY <2>2, <3>1, <3>2 DEF PassTrims
  <2> QED BY <1>2, <2>1, <2>2, OwnPlansOnly DEF Trim
<1>3. ASSUME NEW n \in Nodes, NEW now \in Days,
             WriteObservation(n, now) \/ \E w \in Nodes : ExcuseWriter(n, w, now)
      PROVE  Writes(n) /\ tomb' = tomb
  BY <1>0, <1>3, ActionWrites DEF WriteObservation, ExcuseWriter
<1>4. ASSUME NEW n \in Nodes, ResumeCheckpoints(n) \/ Crash(n) PROVE Writes(n) /\ tomb' = tomb
  BY <1>4 DEF ResumeCheckpoints, Crash, Writes
<1> QED BY <1>1, <1>2, <1>3, <1>4 DEF Next, Daemon

\* Trimming takes nothing out of a node's inventory.
THEOREM ListedStaysListed == Spec /\ Undivided => InventoryOnlyGrows
<1>1. UInv /\ [Next]_vars => \A n \in Nodes : Inventory(n) \subseteq Inventory(n)'
  <2> SUFFICES ASSUME UInv, [Next]_vars, NEW n \in Nodes PROVE Inventory(n) \subseteq Inventory(n)'
    OBVIOUS
  <2>0. /\ held \in [Nodes -> SUBSET Ids] /\ DOMAIN tomb = Nodes /\ IInv
    BY DEF UInv, IInv, TypeOK
  <2>1. CASE UNCHANGED vars
    BY <2>1 DEF vars, Inventory
  <2>2. ASSUME NEW m \in Nodes, Writes(m), tomb' = tomb PROVE Inventory(n) \subseteq Inventory(n)'
    BY <2>2, WritesUndisturb, UndisturbedLists
  <2>3. ASSUME NEW m \in Nodes, Replicate(m) PROVE Inventory(n) \subseteq Inventory(n)'
    BY <2>3, ReceiveUndisturbs, UndisturbedLists
  <2>4. ASSUME NEW m \in Nodes, NEW c \in Cuts, TrimOwnPlan(m, c)
        PROVE  Inventory(n) \subseteq Inventory(n)'
    <3>1. /\ held' = held
          /\ tomb' = [tomb EXCEPT ![m] =
                         [i \in DOMAIN tomb[m] \cup PlannedDrops(m, c, row[m][c].rows) |->
                             IF i \in DOMAIN tomb[m] THEN tomb[m][i] ELSE c]]
      BY <2>4 DEF TrimOwnPlan, RecordTombstones
    <3>2. DOMAIN tomb[n] \subseteq DOMAIN tomb'[n]
      BY <2>0, <3>1
    <3> QED BY <3>1, <3>2 DEF Inventory
  <2>5. ASSUME NEW m \in Nodes, DeleteRow(m, pass[m]) PROVE Inventory(n) \subseteq Inventory(n)'
    <3>1. Left(m, pass[m]) \in SUBSET Ids /\ Left(m, pass[m]) # {}
      BY <2>0, <2>5 DEF Left, DeleteRow
    <3>2. LeastId(Left(m, pass[m])) \in DOMAIN tomb[m]
      BY <3>1, LeastIdIsIn DEF Left
    <3> QED BY <2>0, <2>5, <3>2 DEF DeleteRow, Inventory
  <2> QED BY <2>1, <2>2, <2>3, <2>4, <2>5, StepShape
<1> QED BY <1>1, UndividedInvariance, PTL DEF InventoryOnlyGrows, Spec

\* finish_trim: a row is deleted only while a later claim of its slot is admitted, so the
\* answer readers get for the slot stays.
THEOREM AnswersStay == Spec /\ Undivided => DeletionKeepsAnswers
<1> DEFINE Kept == \A n \in Nodes : \A i \in admitted[n] \ admitted'[n] :
                      i # NewestIn(InSlotOf(admitted[n], i))
<1>1. UInv /\ [Next]_vars => Kept
  <2> SUFFICES ASSUME UInv, [Next]_vars, NEW n \in Nodes, NEW i \in admitted[n] \ admitted'[n]
               PROVE  i # NewestIn(InSlotOf(admitted[n], i))
    OBVIOUS
  <2>0. /\ held \in [Nodes -> SUBSET Ids] /\ admitted \in [Nodes -> SUBSET Ids]
        /\ IInv /\ StoreGood(n) /\ admitted[n] = held[n] /\ held[n] \subseteq AllIds
    BY DEF UInv, IInv, TypeOK, StoreGood
  <2>1. i \in DOMAIN tomb[n]
    <3>1. CASE UNCHANGED vars
      BY <3>1 DEF vars
    <3>2. ASSUME NEW m \in Nodes, Writes(m), tomb' = tomb PROVE FALSE
      BY <2>0, <3>2, WritesUndisturb DEF Undisturbed
    <3>3. ASSUME NEW m \in Nodes, Replicate(m) PROVE FALSE
      BY <2>0, <3>3, ReceiveUndisturbs DEF Undisturbed
    <3>4. ASSUME NEW m \in Nodes, NEW c \in Cuts, TrimOwnPlan(m, c) PROVE FALSE
      BY <3>4 DEF TrimOwnPlan
    <3>5. ASSUME NEW m \in Nodes, DeleteRow(m, pass[m]) PROVE i \in DOMAIN tomb[n]
      <4>1. Left(m, pass[m]) \in SUBSET Ids /\ Left(m, pass[m]) # {}
        BY <2>0, <3>5 DEF Left, DeleteRow
      <4>2. LeastId(Left(m, pass[m])) \in DOMAIN tomb[m]
        BY <4>1, LeastIdIsIn DEF Left
      <4> QED BY <2>0, <3>5, <4>2 DEF DeleteRow
    <3> QED BY <3>1, <3>2, <3>3, <3>4, <3>5, StepShape
  <2>2. PICK j \in held[n] : Replaces(j, i)
    BY <2>0, <2>1 DEF StoreGood
  <2>3. j \in InSlotOf(admitted[n], i) /\ Precedes(i, j) /\ i # j /\ ~Precedes(j, i)
    BY <2>0, <2>2, ReplacesOrders DEF Replaces, InSlotOf, SlotOf
  <2>4. InSlotOf(admitted[n], i) \in SUBSET AllIds
    BY <2>0 DEF InSlotOf
  <2> QED BY <2>0, <2>3, <2>4, NewestInIsIn
<1> QED BY <1>1, UndividedInvariance, PTL DEF DeletionKeepsAnswers, Spec

\* checkpoint_work: a pass that reached a seal or a verification is that of a node that did
\* not halt in between.
THEOREM HaltedNodesSealNothing == Spec /\ Undivided => HaltedSealsNothing
<1> DEFINE Quiet == \A n \in Nodes :
                       Halted(n) /\ Len(log'[n]) > Len(log[n])
                       => log'[n][Len(log'[n])].body.kind \notin {"sealed", "verified"}
<1>1. UInv /\ [Next]_vars => Quiet
  <2> SUFFICES ASSUME UInv, [Next]_vars, NEW n \in Nodes, Halted(n), Len(log'[n]) > Len(log[n])
               PROVE  log'[n][Len(log'[n])].body.kind \notin {"sealed", "verified"}
    OBVIOUS
  <2>0. IInv /\ PassGood(n) /\ Len(log[n]) \in Nat
    BY AllIdsAre DEF UInv, IInv
  <2>1. log' # log
    BY <2>0
  <2>2. PICK m \in Nodes, now \in Days, body \in Bodies : Append1(m, now, body) /\ Owed(m, body)
    <3>1. \/ log' = log
          \/ \E m \in Nodes : Writes(m)
      BY StepShape DEF vars, Replicate, Receive, AdmitBacklog, TrimOwnPlan, DeleteRow
    <3> QED BY <2>1, <3>1 DEF Writes
  <2>3. /\ \A k \in Nodes \ {m} : log'[k] = log[k]
        /\ log'[m][Len(log[m]) + 1] = [at |-> WriteTime(m, now), body |-> body]
        /\ Len(log'[m]) = Len(log[m]) + 1
    BY <2>0, <2>2, AppendExtends
  <2>4. m = n
    BY <2>0, <2>3
  <2>5. log'[n][Len(log'[n])].body = body
    BY <2>3, <2>4
  <2>6. pass[n].stage \notin AgreeStages
    BY <2>0 DEF PassGood
  <2>7. body.kind = "observed"
    BY <2>2, <2>4, <2>6 DEF Owed, AgreeStages
  <2> QED BY <2>5, <2>7
<1> QED BY <1>1, UndividedInvariance, PTL DEF HaltedSealsNothing, Spec
==================================================================================

--------------------------- MODULE CheckpointProofs ---------------------------
(***************************************************************************)
(* Proofs about CheckpointTrim: a node verifies a checkpoint once, so two  *)
(* certificates of it share no participant; a node never deletes the row   *)
(* its next write is numbered and dated by; and a seal is a floor under    *)
(* everything its writer dates afterwards.                                 *)
(***************************************************************************)
EXTENDS CheckpointSteps

(***************************************************************************)
(* One lemma for each group of actions                                     *)
(***************************************************************************)
\* A person's excusal and an observation are written like any claim.
LEMMA WritingKeeps ==
    ASSUME IInv, NEW n \in Nodes, NEW now \in Days,
           WriteObservation(n, now) \/ \E w \in Nodes : ExcuseWriter(n, w, now)
    PROVE  IInv'
<1>1. UNCHANGED <<tomb, row, pass, sync, crashes>>
  BY DEF WriteObservation, ExcuseWriter
<1>2. Bookkeeping
  BY <1>1 DEF Bookkeeping, IInv, TypeOK, BusyWithCut
<1>3. CASE WriteObservation(n, now)
  <2>1. Append1(n, now, Load)
    BY <1>3 DEF WriteObservation
  <2> QED BY <1>1, <1>2, <2>1, AppendStep, PassTypes
<1>4. ASSUME NEW w \in Nodes, ExcuseWriter(n, w, now) PROVE IInv'
  <2> DEFINE body == [kind |-> "excused", writer |-> w]
  <2>1. Append1(n, now, body) /\ body \in Bodies /\ body.kind = "excused"
    BY <1>4, PassTypes DEF ExcuseWriter
  <2> HIDE DEF body
  <2> QED BY <1>1, <1>2, <2>1, AppendStep
<1> QED BY <1>3, <1>4

\* An exchange and the admission of a backlog add envelopes other nodes store.
LEMMA ReplicationKeeps ==
    ASSUME IInv, NEW n \in Nodes, Replicate(n)
    PROVE  IInv'
<1>1. /\ UNCHANGED <<log, tomb, row, pass, sync, crashes>>
      /\ held' \in [Nodes -> SUBSET Ids] /\ admitted' \in [Nodes -> SUBSET Ids]
      /\ \A m \in Nodes : /\ held[m] \subseteq held'[m] /\ held'[m] \subseteq AllIds
                          /\ admitted[m] \subseteq admitted'[m]
                          /\ admitted'[m] \subseteq held'[m]
  <2>1. ASSUME NEW m \in Nodes, NEW withheld, Receive(n, m, withheld) PROVE <1>1
    <3>1. Page(n, m) \subseteq held[m]
      BY DEF Page
    <3> QED BY <2>1, <3>1 DEF Receive, IInv, TypeOK
  <2>2. CASE AdmitBacklog(n)
    BY <2>2 DEF AdmitBacklog, IInv, TypeOK
  <2> QED BY <2>1, <2>2 DEF Replicate
<1>2. Bookkeeping
  BY <1>1 DEF Bookkeeping, IInv, TypeOK, BusyWithCut
<1>3. /\ DOMAIN tomb' = Nodes
      /\ \A m \in Nodes :
            /\ tomb'[m] \in [DOMAIN tomb'[m] -> Cuts]
            /\ \A i \in DOMAIN tomb'[m] : \E k \in Nodes : i \in DOMAIN tomb[k]
  BY <1>1 DEF IInv, TypeOK
<1>4. \A m \in Nodes :
         /\ log[m] # <<>> => <<m, Len(log[m])>> \in held'[m]
         /\ \A s \in DOMAIN log[m] :
               log[m][s].body.kind = "verified" => <<m, s>> \in admitted'[m]
         /\ pass'[m].stage \in VerifyStages =>
               \A s \in DOMAIN log[m] : log[m][s].body.kind = "verified" =>
                   log[m][s].body.cut # pass'[m].cut
         /\ pass'[m].stage \in {"sealed", "verified"} =>
               row'[m][pass'[m].cut].state # "none"
  BY <1>1 DEF IInv, OwnNewestStored, OwnVerificationsAdmitted, FirstToVerify, FloorFirst
<1> QED BY <1>1, <1>2, <1>3, <1>4, StoreStep

\* A pass reads every verification of its own, so a cut it starts to verify is new.
LEMMA BeginKeeps ==
    ASSUME IInv, NEW n \in Nodes, NEW c \in Cuts, BeginAgreement(n, c)
    PROVE  IInv'
<1>1. UNCHANGED <<log, held, admitted, tomb, row, sync, crashes>>
  BY DEF BeginAgreement
<1>2. PICK stage \in {"seal", "verify"} : pass' = [pass EXCEPT ![n] = Reading(n, c, stage)]
  BY DEF BeginAgreement, StartSeal, StartVerify
<1>3. VerificationsOf(n, n, c) = {}
  BY DEF BeginAgreement, StartSeal, StartVerify, DueCut
<1>4. /\ Reading(n, c, stage) \in Passes /\ Reading(n, c, stage).stage = stage
      /\ Reading(n, c, stage).cut = c
  BY ReadingType
<1>5. pass' \in [Nodes -> Passes] /\ pass'[n] = Reading(n, c, stage)
      /\ \A m \in Nodes \ {n} : pass'[m] = pass[m]
  BY <1>2, <1>4 DEF IInv, TypeOK
<1>6. Bookkeeping
  BY <1>1, <1>4, <1>5 DEF Bookkeeping, IInv, TypeOK, BusyWithCut
<1>7. \A s \in DOMAIN log[n] : log[n][s].body.kind = "verified" => log[n][s].body.cut # c
  <2> SUFFICES ASSUME NEW s \in DOMAIN log[n], log[n][s].body.kind = "verified",
                      log[n][s].body.cut = c
               PROVE  FALSE
    OBVIOUS
  <2>1. <<n, s>> \in admitted[n]
    BY DEF IInv, OwnVerificationsAdmitted
  <2>2. <<n, s>> \in VerificationsOf(n, n, c)
    BY <2>1 DEF VerificationsOf, OfKind, Body, Env
  <2> QED BY <1>3, <2>2
<1>8. \A m \in Nodes : pass'[m].stage \in VerifyStages =>
         \A s \in DOMAIN log[m] : log[m][s].body.kind = "verified" =>
             log[m][s].body.cut # pass'[m].cut
  BY <1>4, <1>5, <1>7 DEF IInv, FirstToVerify
<1>9. \A m \in Nodes : pass'[m].stage \in {"sealed", "verified"} =>
         row'[m][pass'[m].cut].state # "none"
  BY <1>1, <1>4, <1>5 DEF IInv, FloorFirst
<1> QED BY <1>1, <1>6, <1>8, <1>9, QuietStep

\* The row is recorded before the claim, so FloorFirst holds when the claim comes.
LEMMA RecordKeeps ==
    ASSUME IInv, NEW n \in Nodes, RecordSealed(n) \/ RecordVerified(n)
    PROVE  IInv'
<1>1. UNCHANGED <<log, held, admitted, tomb, sync, crashes>>
  BY DEF RecordSealed, RecordVerified
<1>2. PICK from \in {"seal", "proved"}, to \in {"sealed", "verified"} :
         /\ pass[n].stage = from /\ RecordState(n, to)
         /\ pass' = [pass EXCEPT ![n].stage = to]
         /\ to = "verified" => from = "proved"
  BY DEF RecordSealed, RecordVerified
<1>3. pass[n].cut \in Cuts /\ pass[n] \in Passes
  BY <1>2 DEF IInv, BusyWithCut, TypeOK
<1>4. pass' \in [Nodes -> Passes] /\ pass'[n].cut = pass[n].cut /\ pass'[n].stage = to
      /\ \A m \in Nodes \ {n} : pass'[m] = pass[m]
  <2>1. [pass[n] EXCEPT !.stage = to] \in Passes
    BY <1>3 DEF Passes, Stages
  <2>2. pass' = [pass EXCEPT ![n] = [pass[n] EXCEPT !.stage = to]]
    BY <1>2
  <2>3. [pass[n] EXCEPT !.stage = to].stage = to /\ [pass[n] EXCEPT !.stage = to].cut = pass[n].cut
    BY <1>3 DEF Passes
  <2> QED BY <2>1, <2>2, <2>3 DEF IInv, TypeOK
<1>5. /\ row' \in [Nodes -> [Cuts -> Rows]] /\ row'[n][pass[n].cut].state = to
      /\ \A m \in Nodes : \A c \in Cuts : row[m][c].state # "none" => row'[m][c].state # "none"
  <2> DEFINE r == [state |-> to, rows |-> pass[n].rows, drop |-> pass[n].drop]
  <2>1. r \in Rows /\ r.state = to
    BY <1>3 DEF Rows, Passes, States
  <2>2. row' = [row EXCEPT ![n][pass[n].cut] = r]
    BY <1>2 DEF RecordState
  <2> HIDE DEF r
  <2> QED BY <1>2, <1>3, <2>1, <2>2 DEF IInv, TypeOK
<1>6. Bookkeeping
  BY <1>1, <1>3, <1>4, <1>5 DEF Bookkeeping, IInv, TypeOK, BusyWithCut
<1>7. \A m \in Nodes : pass'[m].stage \in VerifyStages =>
         \A s \in DOMAIN log[m] : log[m][s].body.kind = "verified" =>
             log[m][s].body.cut # pass'[m].cut
  BY <1>2, <1>4 DEF IInv, FirstToVerify, VerifyStages
<1>8. \A m \in Nodes : pass'[m].stage \in {"sealed", "verified"} =>
         row'[m][pass'[m].cut].state # "none"
  BY <1>1, <1>2, <1>3, <1>4, <1>5 DEF IInv, FloorFirst, BusyWithCut
<1> QED BY <1>1, <1>6, <1>7, <1>8, QuietStep

\* The claim of a seal, or of a first verification, comes after its row.
LEMMA PublishKeeps ==
    ASSUME IInv, NEW n \in Nodes, NEW now \in Days,
           PublishSeal(n, now) \/ PublishVerification(n, now)
    PROVE  IInv'
<1>1. UNCHANGED <<tomb, row, sync, crashes>> /\ pass' = [pass EXCEPT ![n] = Idle]
  BY DEF PublishSeal, PublishVerification
<1>2. pass' \in [Nodes -> Passes] /\ pass'[n].stage = "idle"
      /\ \A m \in Nodes : pass'[m].stage # "idle" => pass'[m] = pass[m]
  BY <1>1, PassTypes DEF IInv, TypeOK
<1>3. Bookkeeping
  BY <1>1, <1>2 DEF Bookkeeping, IInv, TypeOK, BusyWithCut
<1>4. pass[n] \in Passes
  BY DEF IInv, TypeOK
<1>5. CASE PublishSeal(n, now)
  <2> DEFINE body == SealTerms(pass[n].cut, pass[n].parts, pass[n].ids)
  <2>1. Append1(n, now, body) /\ pass[n].stage = "sealed"
    BY <1>5 DEF PublishSeal
  <2>2. pass[n].cut \in Cuts /\ row[n][pass[n].cut].state # "none"
    BY <2>1 DEF IInv, BusyWithCut, FloorFirst
  <2>3. body \in Bodies /\ body.kind = "sealed" /\ body.cut = pass[n].cut
    BY <1>4, <2>2 DEF SealTerms, Bodies, Passes
  <2> HIDE DEF body
  <2> QED BY <1>1, <1>2, <1>3, <2>1, <2>2, <2>3, AppendStep
<1>6. CASE PublishVerification(n, now)
  <2> DEFINE body == VerifiedTerms(pass[n].cut, pass[n].parts, pass[n].ids, pass[n].drop)
  <2>1. Append1(n, now, body) /\ pass[n].stage = "verified"
    BY <1>6 DEF PublishVerification
  <2>2. pass[n].cut \in Cuts /\ row[n][pass[n].cut].state # "none"
    BY <2>1 DEF IInv, BusyWithCut, FloorFirst
  <2>3. body \in Bodies /\ body.kind = "verified" /\ body.cut = pass[n].cut
    BY <1>4, <2>2 DEF VerifiedTerms, Bodies, Passes
  <2>4. \A s \in DOMAIN log[n] :
            log[n][s].body.kind = "verified" => log[n][s].body.cut # pass[n].cut
    BY <2>1 DEF IInv, FirstToVerify, VerifyStages
  <2> HIDE DEF body
  <2> QED BY <1>1, <1>2, <1>3, <2>1, <2>2, <2>3, <2>4, AppendStep
<1> QED BY <1>5, <1>6

\* A verification that is given up, proved on a copy, or fails its proof.
LEMMA ProofKeeps ==
    ASSUME IInv, NEW n \in Nodes, NEW now \in Days,
           AbandonVerify(n) \/ ProveDrops(n) \/ FailProof(n, now)
    PROVE  IInv'
<1>1. pass[n].cut \in Cuts /\ pass[n] \in Passes /\ pass[n].stage = "verify"
  BY DEF IInv, BusyWithCut, TypeOK, AbandonVerify, ProveDrops, FailProof
<1>2. ASSUME pass' = [pass EXCEPT ![n] = Idle], UNCHANGED <<tomb, row, sync, crashes>>
      PROVE  /\ Bookkeeping
             /\ \A m \in Nodes : pass'[m].stage # "idle" => pass'[m] = pass[m]
  <2>1. pass' \in [Nodes -> Passes]
        /\ \A m \in Nodes : pass'[m].stage # "idle" => pass'[m] = pass[m]
    BY <1>2, PassTypes DEF IInv, TypeOK
  <2>2. Bookkeeping
    BY <1>2, <2>1 DEF Bookkeeping, IInv, TypeOK, BusyWithCut
  <2> QED BY <2>1, <2>2
<1>4. CASE AbandonVerify(n)
  BY <1>2, <1>4, PassesStayOrEnd DEF AbandonVerify
<1>5. CASE FailProof(n, now)
  <2> DEFINE drop == PlannedDigest(n, pass[n].cut, pass[n].rows)
             body == Diagnostic(n, "checkpoint-proof-failed", pass[n].cut, drop)
  <2>0. drop \in SUBSET Ids
    BY <1>1, PlannedAreReplaced
  <2>1. AppendOnce(n, now, body) /\ body \in Bodies /\ body.kind = "observed"
    BY <1>1, <1>5, <2>0, PassTypes DEF FailProof, Codes
  <2>2. pass' = [pass EXCEPT ![n] = Idle] /\ UNCHANGED <<tomb, row, sync, crashes>>
    BY <1>5 DEF FailProof
  <2> HIDE DEF body
  <2> QED BY <1>2, <2>1, <2>2, AppendOnceStep
<1>3. CASE ProveDrops(n)
  <2> DEFINE drop == PlannedDigest(n, pass[n].cut, pass[n].rows)
             p == [pass[n] EXCEPT !.stage = "proved", !.drop = drop]
  <2>1. UNCHANGED <<log, held, admitted, tomb, row, sync, crashes>>
        /\ pass' = [pass EXCEPT ![n] = p]
    BY <1>3 DEF ProveDrops
  <2>2. drop \subseteq Ids
    BY <1>1, PlannedAreReplaced
  <2>3. p \in Passes /\ p.stage = "proved" /\ p.cut = pass[n].cut
    BY <1>1, <2>2 DEF Passes, Stages
  <2> HIDE DEF p
  <2>4. pass' \in [Nodes -> Passes] /\ pass'[n] = p
        /\ \A m \in Nodes \ {n} : pass'[m] = pass[m]
    BY <2>1, <2>3 DEF IInv, TypeOK
  <2>5. Bookkeeping
    BY <1>1, <2>1, <2>3, <2>4 DEF Bookkeeping, IInv, TypeOK, BusyWithCut
  <2>6. \A m \in Nodes : pass'[m].stage \in VerifyStages =>
            \A s \in DOMAIN log[m] : log[m][s].body.kind = "verified" =>
                log[m][s].body.cut # pass'[m].cut
    BY <1>1, <2>3, <2>4 DEF IInv, FirstToVerify, VerifyStages
  <2>7. \A m \in Nodes : pass'[m].stage \in {"sealed", "verified"} =>
            row'[m][pass'[m].cut].state # "none"
    BY <2>1, <2>3, <2>4 DEF IInv, FloorFirst
  <2> QED BY <2>1, <2>5, <2>6, <2>7, QuietStep
<1> QED BY <1>3, <1>4, <1>5

\* RecordTombstones, with the tombstones it keeps as a parameter.
Records(n, c, kept, ids, drop) ==
    /\ tomb' = [tomb EXCEPT ![n] =
                    [i \in kept \cup ids |-> IF i \in kept THEN tomb[n][i] ELSE c]]
    /\ row' = [row EXCEPT ![n][c].state = "trimming", ![n][c].drop = drop]

\* Each identity is tombstoned by some node or stands for a replaced observation.
Justified(ids) ==
    \A i \in ids :
        \/ \E m \in Nodes : i \in DOMAIN tomb[m]
        \/ i \in AllIds /\ Body(i).kind = "observed" /\ i[2] < Len(log[i[1]])

\* The first transaction of a trim: every tombstone it records is one that some node has,
\* or stands for an observation the plan found replaced.
LEMMA TombstonesKeep ==
    ASSUME IInv, NEW n \in Nodes, NEW c \in Cuts, NEW ids, NEW drop \in SUBSET Ids,
           NEW kept \in SUBSET DOMAIN tomb[n], Records(n, c, kept, ids, drop),
           Justified(ids), UNCHANGED <<log, held, admitted, crashes>>,
           pass' \in [Nodes -> Passes], sync' \in [Nodes -> Passes], BusyWithCut',
           \A m \in Nodes : pass'[m].stage \notin {"idle", "trim"} => pass'[m] = pass[m]
    PROVE  IInv'
<1> DEFINE stones == [i \in kept \cup ids |-> IF i \in kept THEN tomb[n][i] ELSE c]
           r == [row[n][c] EXCEPT !.state = "trimming", !.drop = drop]
<1>1. tomb' = [tomb EXCEPT ![n] = stones] /\ row' = [row EXCEPT ![n][c] = r]
  BY DEF Records, IInv, TypeOK
<1>2. r \in Rows /\ r.state = "trimming"
  <2>1. row[n][c] \in Rows
    BY DEF IInv, TypeOK
  <2> QED BY <2>1 DEF Rows, States
<1>3. kept \subseteq DOMAIN tomb[n] /\ tomb[n] \in [DOMAIN tomb[n] -> Cuts] /\ DOMAIN tomb = Nodes
  BY DEF IInv, TypeOK
<1>4. DOMAIN stones = kept \cup ids /\ stones \in [kept \cup ids -> Cuts]
  BY <1>3
<1> HIDE DEF stones, r
<1>5. Bookkeeping
  <2>1. /\ row' \in [Nodes -> [Cuts -> Rows]]
        /\ \A m \in Nodes : \A d \in Cuts : row[m][d].state # "none" => row'[m][d].state # "none"
    BY <1>1, <1>2 DEF IInv, TypeOK
  <2> QED BY <2>1 DEF Bookkeeping, IInv, TypeOK
<1>6. /\ DOMAIN tomb' = Nodes
      /\ \A m \in Nodes : tomb'[m] = IF m = n THEN stones ELSE tomb[m]
  BY <1>1, <1>3
<1>7. \A m \in Nodes :
         /\ tomb'[m] \in [DOMAIN tomb'[m] -> Cuts]
         /\ \A i \in DOMAIN tomb'[m] :
               \/ \E k \in Nodes : i \in DOMAIN tomb[k]
               \/ i \in AllIds /\ Body(i).kind = "observed" /\ i[2] < Len(log[i[1]])
  <2> TAKE m \in Nodes
  <2>1. CASE m = n
    BY <1>3, <1>4, <1>6, <2>1 DEF Justified
  <2>2. CASE m # n
    BY <1>6, <2>2 DEF IInv, TypeOK
  <2> QED BY <2>1, <2>2
<1>8. \A m \in Nodes :
         /\ log[m] # <<>> => <<m, Len(log[m])>> \in held'[m]
         /\ \A s \in DOMAIN log[m] :
               log[m][s].body.kind = "verified" => <<m, s>> \in admitted'[m]
         /\ held'[m] \subseteq AllIds /\ admitted'[m] \subseteq held'[m]
  BY DEF IInv, OwnNewestStored, OwnVerificationsAdmitted, TypeOK
<1>9. \A m \in Nodes :
         /\ pass'[m].stage \in VerifyStages =>
               \A s \in DOMAIN log[m] : log[m][s].body.kind = "verified" =>
                   log[m][s].body.cut # pass'[m].cut
         /\ pass'[m].stage \in {"sealed", "verified"} => row'[m][pass'[m].cut].state # "none"
  BY <1>5 DEF IInv, FirstToVerify, VerifyStages, FloorFirst, BusyWithCut, Bookkeeping
<1>10. held' \in [Nodes -> SUBSET Ids] /\ admitted' \in [Nodes -> SUBSET Ids]
  BY DEF IInv, TypeOK
<1> QED BY <1>5, <1>6, <1>7, <1>8, <1>9, <1>10, StoreStep

\* Starting a trim from the node's own plan, or from a manifest a peer serves.
LEMMA StartTrimKeeps ==
    ASSUME IInv, NEW n \in Nodes, NEW c \in Cuts,
           TrimOwnPlan(n, c) \/ \E m \in Nodes : AdoptCheckpoint(n, m, c)
    PROVE  IInv'
<1>1. CASE TrimOwnPlan(n, c)
  <2> DEFINE drop == PlannedDigest(n, c, row[n][c].rows)
             ids == PlannedDrops(n, c, row[n][c].rows)
             kept == DOMAIN tomb[n]
  <2>0. RecordTombstones(n, c, ids, FALSE, drop)
    BY <1>1 DEF TrimOwnPlan, OwnPlanHolds
  <2>1. Records(n, c, kept, ids, drop) /\ kept \in SUBSET DOMAIN tomb[n]
    BY <2>0 DEF RecordTombstones, Records
  <2>6. /\ UNCHANGED <<log, held, admitted, sync, crashes>>
        /\ pass' = [pass EXCEPT ![n] = Trimming(c)]
    BY <1>1 DEF TrimOwnPlan
  <2>2. /\ drop \in SUBSET Ids
        /\ Justified(ids)
    BY PlannedAreReplaced DEF Justified
  <2>3. /\ pass' \in [Nodes -> Passes] /\ sync' \in [Nodes -> Passes]
        /\ pass'[n].stage = "trim" /\ pass'[n].cut = c
        /\ \A m \in Nodes \ {n} : pass'[m] = pass[m]
    BY <2>6, PassTypes DEF IInv, TypeOK
  <2>4. BusyWithCut'
    BY <2>3, <2>6 DEF IInv, BusyWithCut
  <2>5. \A m \in Nodes : pass'[m].stage \notin {"idle", "trim"} => pass'[m] = pass[m]
    BY <2>3
  <2> HIDE DEF drop, ids, kept
  <2> QED BY <2>1, <2>2, <2>3, <2>4, <2>5, <2>6, TombstonesKeep
<1>2. ASSUME NEW peer \in Nodes, AdoptCheckpoint(n, peer, c) PROVE IInv'
  <2> DEFINE ids == Manifest(peer, c)
             drop == Manifest(peer, c)
             kept == DOMAIN tomb[n] \cap ids
  <2>0. RecordTombstones(n, c, ids, TRUE, drop)
    BY <1>2 DEF AdoptCheckpoint
  <2>1. Records(n, c, kept, ids, drop) /\ kept \in SUBSET DOMAIN tomb[n]
    BY <2>0 DEF RecordTombstones, Records
  <2>2. drop \in SUBSET Ids /\ \A i \in ids : \E k \in Nodes : i \in DOMAIN tomb[k]
    <3>1. AllIds \subseteq Ids
      BY AllIdsAre DEF IInv, Ids
    <3> QED BY <3>1 DEF Manifest, IInv, TypeOK
  <2>6. /\ UNCHANGED <<log, held, admitted, pass, crashes>>
        /\ sync' = [sync EXCEPT ![n] = Trimming(c)]
    BY <1>2 DEF AdoptCheckpoint
  <2>3. /\ pass' \in [Nodes -> Passes] /\ sync' \in [Nodes -> Passes]
        /\ sync'[n].cut = c
        /\ \A k \in Nodes \ {n} : sync'[k] = sync[k]
    BY <2>6, PassTypes DEF IInv, TypeOK
  <2>4. BusyWithCut'
    BY <2>3, <2>6 DEF IInv, BusyWithCut
  <2>5. /\ \A k \in Nodes : pass'[k].stage \notin {"idle", "trim"} => pass'[k] = pass[k]
        /\ UNCHANGED <<log, held, admitted, crashes>>
        /\ pass' \in [Nodes -> Passes] /\ sync' \in [Nodes -> Passes]
    BY <2>3, <2>6
  <2>7. Justified(ids)
    BY <2>2 DEF Justified
  <2>8. drop \in SUBSET Ids
    BY <2>2
  <2> HIDE DEF ids, drop, kept
  <2> QED BY <2>1, <2>4, <2>5, <2>7, <2>8, TombstonesKeep
<1> QED BY <1>1, <1>2

\* A thread that is trimming deletes a row, ends, or stops at a changed graph.  Only
\* tombstoned rows are deleted, and none of those is a node's newest or a verification.
LEMMA FinishTrimStep ==
    ASSUME IInv, NEW n \in Nodes, NEW now \in Days, NEW t \in Passes,
           t.stage = "trim" => t.cut \in Cuts,
           DeleteRow(n, t) \/ MarkTrimmed(n, t) \/ StopTrim(n, t, now),
           pass' \in [Nodes -> Passes], sync' \in [Nodes -> Passes], BusyWithCut',
           \A m \in Nodes : pass'[m].stage \notin {"idle", "trim"} => pass'[m] = pass[m],
           ~DeleteRow(n, t) => \A m \in Nodes : pass'[m].stage # "idle" => pass'[m] = pass[m]
    PROVE  IInv'
<1>1. t.stage = "trim" /\ t.cut \in Cuts /\ crashes' = crashes /\ tomb' = tomb
  BY DEF DeleteRow, MarkTrimmed, StopTrim
<1>2. ASSUME NEW state \in {"trimmed", "graph-changed"},
             row' = [row EXCEPT ![n][t.cut].state = state]
      PROVE  Bookkeeping
  <2> DEFINE r == [row[n][t.cut] EXCEPT !.state = state]
  <2>1. r \in Rows /\ r.state = state
    <3>1. row[n][t.cut] \in Rows
      BY <1>1 DEF IInv, TypeOK
    <3> QED BY <3>1 DEF Rows, States
  <2>2. row' = [row EXCEPT ![n][t.cut] = r]
    BY <1>2
  <2> HIDE DEF r
  <2>3. /\ row' \in [Nodes -> [Cuts -> Rows]]
        /\ \A m \in Nodes : \A d \in Cuts : row[m][d].state # "none" => row'[m][d].state # "none"
    BY <1>1, <2>1, <2>2 DEF IInv, TypeOK
  <2> QED BY <1>1, <2>3 DEF Bookkeeping, IInv, TypeOK
<1>3. CASE MarkTrimmed(n, t)
  BY <1>1, <1>2, <1>3, PassesStayOrEnd DEF MarkTrimmed
<1>4. CASE StopTrim(n, t, now) /\ ~DeleteRow(n, t)
  <2> DEFINE body == Diagnostic(n, "checkpoint-trim-graph-changed", t.cut, {})
  <2>1. AppendOnce(n, now, body) /\ body \in Bodies /\ body.kind = "observed"
    BY <1>1, <1>4, PassTypes DEF StopTrim, Codes
  <2>2. Bookkeeping
    BY <1>2, <1>4 DEF StopTrim
  <2> HIDE DEF body
  <2> QED BY <1>1, <1>4, <2>1, <2>2, AppendOnceStep
<1>5. CASE DeleteRow(n, t)
  <2> DEFINE left == Left(n, t)
             gone == LeastId(left)
             rows == [c \in Cuts |-> [row[n][c] EXCEPT !.rows = @ \ {gone}]]
  <2>1. /\ left # {} /\ log' = log
        /\ held' = [held EXCEPT ![n] = @ \ {gone}]
        /\ admitted' = [admitted EXCEPT ![n] = @ \ {gone}]
        /\ row' = [row EXCEPT ![n] = rows]
    BY <1>5 DEF DeleteRow
  <2>2. gone \in DOMAIN tomb[n]
    <3>1. left \subseteq DOMAIN tomb[n] /\ left \in SUBSET Ids
      BY DEF Left, IInv, TypeOK
    <3> HIDE DEF left
    <3> QED BY <2>1, <3>1, LeastIdIsIn
  <2>3. \A c \in Cuts : rows[c] \in Rows /\ rows[c].state = row[n][c].state
    <3> TAKE c \in Cuts
    <3>1. row[n][c] \in Rows
      BY DEF IInv, TypeOK
    <3>2. rows[c] = [row[n][c] EXCEPT !.rows = @ \ {gone}]
      OBVIOUS
    <3> HIDE DEF rows, gone
    <3> QED BY <3>1, <3>2 DEF Rows
  <2>4. rows \in [Cuts -> Rows]
    BY <2>3
  <2> HIDE DEF left, gone, rows
  <2>5. Bookkeeping
    <3>1. /\ row' \in [Nodes -> [Cuts -> Rows]]
          /\ \A m \in Nodes : \A c \in Cuts : row[m][c].state # "none" => row'[m][c].state # "none"
      BY <2>1, <2>3, <2>4 DEF IInv, TypeOK
    <3> QED BY <1>1, <3>1 DEF Bookkeeping, IInv, TypeOK
  <2>6. Body(gone).kind = "observed" /\ gone[2] < Len(log[gone[1]])
    BY <2>2 DEF IInv, TombstonesReplaced
  <2>7. \A s \in DOMAIN log[n] : log[n][s].body.kind = "verified" => <<n, s>> # gone
    <3> SUFFICES ASSUME NEW s \in DOMAIN log[n], log[n][s].body.kind = "verified",
                        gone = <<n, s>>
                 PROVE  FALSE
      OBVIOUS
    <3>1. Body(<<n, s>>) = log[n][s].body
      BY DEF Body, Env
    <3>2. Body(gone) = log[n][s].body
      BY <3>1
    <3> QED BY <2>6, <3>2
  <2>8. <<n, Len(log[n])>> # gone
    <3>1. Len(log[n]) \in Nat
      BY AllIdsAre DEF IInv
    <3>2. gone = <<n, Len(log[n])>> => Len(log[n]) < Len(log[n])
      BY <2>6
    <3> QED BY <3>1, <3>2
  <2>9. /\ held' \in [Nodes -> SUBSET Ids] /\ admitted' \in [Nodes -> SUBSET Ids]
        /\ DOMAIN tomb' = Nodes
    BY <1>1, <2>1 DEF IInv, TypeOK
  <2>10. \A m \in Nodes :
            /\ held'[m] = IF m = n THEN held[n] \ {gone} ELSE held[m]
            /\ admitted'[m] = IF m = n THEN admitted[n] \ {gone} ELSE admitted[m]
    BY <2>1 DEF IInv, TypeOK
  <2>11. \A m \in Nodes :
            /\ held'[m] \subseteq AllIds /\ admitted'[m] \subseteq held'[m]
            /\ tomb'[m] \in [DOMAIN tomb'[m] -> Cuts]
            /\ \A i \in DOMAIN tomb'[m] : \E k \in Nodes : i \in DOMAIN tomb[k]
    BY <1>1, <2>10 DEF IInv, TypeOK
  <2>12. \A m \in Nodes :
            /\ log[m] # <<>> => <<m, Len(log[m])>> \in held'[m]
            /\ \A s \in DOMAIN log[m] :
                  log[m][s].body.kind = "verified" => <<m, s>> \in admitted'[m]
    BY <2>7, <2>8, <2>10 DEF IInv, OwnNewestStored, OwnVerificationsAdmitted
  <2>13. \A m \in Nodes :
            /\ pass'[m].stage \in VerifyStages =>
                  \A s \in DOMAIN log[m] : log[m][s].body.kind = "verified" =>
                      log[m][s].body.cut # pass'[m].cut
            /\ pass'[m].stage \in {"sealed", "verified"} => row'[m][pass'[m].cut].state # "none"
    BY <2>5 DEF IInv, FirstToVerify, VerifyStages, FloorFirst, BusyWithCut, Bookkeeping
  <2> QED BY <2>1, <2>5, <2>9, <2>11, <2>12, <2>13, StoreStep
<1> QED BY <1>3, <1>4, <1>5

\* Deleting, ending and stopping, in the pass and in the adoption.
LEMMA FinishKeeps ==
    ASSUME IInv, NEW n \in Nodes, NEW now \in Days, PassTrims(n, now) \/ SyncTrims(n, now)
    PROVE  IInv'
<1>1. /\ pass[n] \in Passes /\ sync[n] \in Passes
      /\ pass[n].stage # "idle" => pass[n].cut \in Cuts
      /\ sync[n].stage # "idle" => sync[n].cut \in Cuts
  BY DEF IInv, TypeOK, BusyWithCut
<1>2. ASSUME NEW t \in Passes, t.stage = "trim", Left(n, t) # {}
      PROVE  /\ [t EXCEPT !.cursor = LeastId(Left(n, t))] \in Passes
             /\ [t EXCEPT !.cursor = LeastId(Left(n, t))].stage = "trim"
             /\ [t EXCEPT !.cursor = LeastId(Left(n, t))].cut = t.cut
  <2>1. Left(n, t) \in SUBSET Ids
    BY DEF Left, IInv, TypeOK
  <2>2. LeastId(Left(n, t)) \in Ids
    BY <1>2, <2>1, LeastIdIsIn
  <2> QED BY <1>2, <2>2 DEF Passes
<1>3. CASE PassTrims(n, now)
  <2>1. sync' = sync /\ (DeleteRow(n, pass[n]) \/ MarkTrimmed(n, pass[n]) \/ StopTrim(n, pass[n], now))
    BY <1>3 DEF PassTrims
  <2>2. PICK p \in Passes : /\ pass' = [pass EXCEPT ![n] = p] /\ p.stage \in {"idle", "trim"}
                            /\ p.stage # "idle" => p.cut \in Cuts
                            /\ ~DeleteRow(n, pass[n]) => p.stage = "idle"
    <3>1. CASE DeleteRow(n, pass[n]) /\ pass' = [pass EXCEPT ![n].cursor = LeastId(Left(n, pass[n]))]
      <4>1. pass[n].stage = "trim" /\ Left(n, pass[n]) # {}
        BY <3>1 DEF DeleteRow
      <4>2. pass' = [pass EXCEPT ![n] = [pass[n] EXCEPT !.cursor = LeastId(Left(n, pass[n]))]]
        BY <3>1
      <4> QED BY <1>1, <1>2, <3>1, <4>1, <4>2
    <3>2. CASE pass' = [pass EXCEPT ![n] = Idle]
      BY <3>2, PassTypes
    <3> QED BY <1>3, <3>1, <3>2 DEF PassTrims
  <2>3. /\ pass' \in [Nodes -> Passes] /\ pass'[n] = p
        /\ \A m \in Nodes \ {n} : pass'[m] = pass[m]
    BY <2>2 DEF IInv, TypeOK
  <2>4. BusyWithCut'
    BY <2>1, <2>2, <2>3 DEF IInv, BusyWithCut
  <2> QED BY <1>1, <2>1, <2>2, <2>3, <2>4, FinishTrimStep DEF IInv, TypeOK
<1>4. CASE SyncTrims(n, now)
  <2>1. pass' = pass /\ (DeleteRow(n, sync[n]) \/ MarkTrimmed(n, sync[n]) \/ StopTrim(n, sync[n], now))
    BY <1>4 DEF SyncTrims
  <2>2. PICK p \in Passes : /\ sync' = [sync EXCEPT ![n] = p]
                            /\ p.stage # "idle" => p.cut \in Cuts
    <3>1. CASE DeleteRow(n, sync[n]) /\ sync' = [sync EXCEPT ![n].cursor = LeastId(Left(n, sync[n]))]
      <4>1. sync[n].stage = "trim" /\ Left(n, sync[n]) # {}
        BY <3>1 DEF DeleteRow
      <4>2. sync' = [sync EXCEPT ![n] = [sync[n] EXCEPT !.cursor = LeastId(Left(n, sync[n]))]]
        BY <3>1
      <4> QED BY <1>1, <1>2, <4>1, <4>2
    <3>2. CASE sync' = [sync EXCEPT ![n] = Idle]
      BY <3>2, PassTypes
    <3> QED BY <1>4, <3>1, <3>2 DEF SyncTrims
  <2>3. /\ sync' \in [Nodes -> Passes] /\ sync'[n] = p
        /\ \A m \in Nodes \ {n} : sync'[m] = sync[m]
    BY <2>2 DEF IInv, TypeOK
  <2>4. BusyWithCut'
    BY <2>1, <2>2, <2>3 DEF IInv, BusyWithCut
  <2> QED BY <1>1, <2>1, <2>3, <2>4, FinishTrimStep DEF IInv, TypeOK
<1> QED BY <1>3, <1>4

\* The rows no longer give the drop the node verified: it says so and waits for a manifest.
LEMMA ChangePlanKeeps ==
    ASSUME IInv, NEW n \in Nodes, NEW c \in Cuts, NEW now \in Days, ChangePlan(n, c, now)
    PROVE  IInv'
<1> DEFINE body == Diagnostic(n, "checkpoint-trim-plan-changed", c, {})
           r == [row[n][c] EXCEPT !.state = "plan-changed"]
<1>1. AppendOnce(n, now, body) /\ body \in Bodies /\ body.kind = "observed"
  BY PassTypes DEF ChangePlan, Codes
<1>2. row' = [row EXCEPT ![n][c] = r] /\ UNCHANGED <<tomb, pass, sync, crashes>>
  BY DEF ChangePlan
<1>3. r \in Rows /\ r.state = "plan-changed"
  <2>1. row[n][c] \in Rows
    BY DEF IInv, TypeOK
  <2> QED BY <2>1 DEF Rows, States
<1> HIDE DEF body, r
<1>4. /\ row' \in [Nodes -> [Cuts -> Rows]]
      /\ \A m \in Nodes : \A d \in Cuts : row[m][d].state # "none" => row'[m][d].state # "none"
  BY <1>2, <1>3 DEF IInv, TypeOK
<1>5. Bookkeeping
  BY <1>2, <1>4 DEF Bookkeeping, IInv, TypeOK, BusyWithCut
<1> QED BY <1>1, <1>2, <1>5, AppendOnceStep

\* An interrupted trim taken up again, a person's resume, a crash.
LEMMA UpkeepKeeps ==
    ASSUME IInv, NEW n \in Nodes, ResumeTrim(n) \/ ResumeCheckpoints(n) \/ Crash(n)
    PROVE  IInv'
<1>1. CASE ResumeTrim(n)
  <2>1. Interrupted(n) \subseteq Nat /\ Interrupted(n) \subseteq Cuts /\ Interrupted(n) # {}
    BY <1>1, DaysAssumption DEF Interrupted, ResumeTrim
  <2>2. Min(Interrupted(n)) \in Cuts
    BY <2>1, MinIsBound
  <2>3. /\ UNCHANGED <<log, held, admitted, tomb, row, sync, crashes>>
        /\ pass' \in [Nodes -> Passes]
        /\ pass'[n].stage = "trim" /\ pass'[n].cut \in Cuts
        /\ \A m \in Nodes \ {n} : pass'[m] = pass[m]
    BY <1>1, <2>2, PassTypes DEF ResumeTrim, IInv, TypeOK
  <2>4. Bookkeeping
    BY <2>3 DEF Bookkeeping, IInv, TypeOK, BusyWithCut
  <2> QED BY <2>3, <2>4, PassesStayOrEnd
<1>2. CASE ResumeCheckpoints(n)
  <2> DEFINE set == [d \in Cuts |-> IF row[n][d].state = "graph-changed"
                                   THEN [row[n][d] EXCEPT !.state = "set-aside"]
                                   ELSE row[n][d]]
  <2>1. /\ row' = [row EXCEPT ![n] = set]
        /\ UNCHANGED <<log, held, admitted, tomb, pass, sync, crashes>>
    BY <1>2 DEF ResumeCheckpoints
  <2>2. \A d \in Cuts : set[d] \in Rows /\ (row[n][d].state # "none" => set[d].state # "none")
    <3> TAKE d \in Cuts
    <3>1. row[n][d] \in Rows
      BY DEF IInv, TypeOK
    <3>2. set[d] = IF row[n][d].state = "graph-changed"
                   THEN [row[n][d] EXCEPT !.state = "set-aside"] ELSE row[n][d]
      OBVIOUS
    <3> HIDE DEF set
    <3> QED BY <3>1, <3>2 DEF Rows, States
  <2>3. set \in [Cuts -> Rows]
    BY <2>2
  <2> HIDE DEF set
  <2>4. /\ row' \in [Nodes -> [Cuts -> Rows]]
        /\ \A m \in Nodes : \A d \in Cuts : row[m][d].state # "none" => row'[m][d].state # "none"
    BY <2>1, <2>2, <2>3 DEF IInv, TypeOK
  <2>5. Bookkeeping
    BY <2>1, <2>4 DEF Bookkeeping, IInv, TypeOK, BusyWithCut
  <2> QED BY <2>1, <2>5, PassesStayOrEnd
<1>3. CASE Crash(n)
  <2>1. UNCHANGED <<log, held, admitted, tomb, row>> /\ crashes' \in 0 .. MaxCrashes
    BY <1>3, BoundsAssumption DEF Crash, IInv, TypeOK
  <2>2. /\ pass' \in [Nodes -> Passes] /\ sync' \in [Nodes -> Passes]
        /\ \A m \in Nodes : /\ pass'[m].stage # "idle" => pass'[m] = pass[m]
                            /\ sync'[m].stage # "idle" => sync'[m] = sync[m]
    BY <1>3, PassTypes DEF Crash, IInv, TypeOK
  <2>3. Bookkeeping
    BY <2>1, <2>2 DEF Bookkeeping, IInv, TypeOK, BusyWithCut
  <2> QED BY <2>1, <2>2, <2>3, PassesStayOrEnd
<1> QED BY <1>1, <1>2, <1>3

(***************************************************************************)
(* The invariant is inductive                                              *)
(***************************************************************************)
\* The fleet starts with observations alone: no tombstones, rows or passes.
LEMMA InitIsGood == Init => IInv
<1> SUFFICES ASSUME Init PROVE IInv
  OBVIOUS
<1> DEFINE E == [at : Nat, body : Bodies]
           e == [at |-> 0, body |-> Load]
<1>1. e \in E /\ e.body.kind = "observed" /\ e.at = 0
  BY PassTypes
<1>2. log = [n \in Nodes |-> [s \in 1 .. History[n] |-> e]]
  BY DEF Init
<1> HIDE DEF E, e
<1>3. ASSUME NEW n \in Nodes
      PROVE  /\ log[n] \in Seq(E) /\ DOMAIN log[n] = 1 .. History[n]
             /\ \A s \in DOMAIN log[n] : log[n][s] = e
             /\ Len(log[n]) = History[n] /\ History[n] \in Nat
  <2>1. History[n] \in Nat /\ log[n] = [s \in 1 .. History[n] |-> e]
    BY <1>2, HistoryAssumption
  <2>2. log[n] \in [1 .. History[n] -> E]
    BY <1>1, <2>1
  <2>3. log[n] \in Seq(E) /\ DOMAIN log[n] = 1 .. History[n]
    BY <2>1, <2>2, SeqDef
  <2>4. Len(log[n]) = History[n]
    BY <2>1, <2>3, LenProperties
  <2> QED BY <2>1, <2>3, <2>4
<1>4. log \in [Nodes -> Seq(E)]
  BY <1>2, <1>3
<1>5. AllIds \subseteq Ids
  <2> SUFFICES ASSUME NEW w \in Nodes, NEW s \in DOMAIN log[w] PROVE <<w, s>> \in Ids
    BY DEF AllIds
  <2>1. s \in Nat \ {0}
    BY <1>3
  <2> QED BY <2>1 DEF Ids
<1>6. /\ held \in [Nodes -> SUBSET Ids] /\ admitted = held
      /\ \A n \in Nodes : held[n] \subseteq AllIds
      /\ \A n \in Nodes : \A s \in DOMAIN log[n] : <<n, s>> \in held[n]
  <2>1. \A n \in Nodes : held[n] = {i \in AllIds : i[1] \in Seen[n] \cup {n}}
    BY DEF Init
  <2>2. \A n \in Nodes : \A s \in DOMAIN log[n] : <<n, s>> \in AllIds
    BY DEF AllIds
  <2> QED BY <1>5, <2>1, <2>2 DEF Init
<1>7. /\ DOMAIN tomb = Nodes /\ \A n \in Nodes : DOMAIN tomb[n] = {} /\ tomb[n] \in [DOMAIN tomb[n] -> Cuts]
  BY DEF Init
<1>8. /\ pass \in [Nodes -> Passes] /\ sync \in [Nodes -> Passes]
      /\ \A n \in Nodes : pass[n].stage = "idle" /\ sync[n].stage = "idle"
  BY PassTypes DEF Init
<1>9. row \in [Nodes -> [Cuts -> Rows]]
  <2>1. NoRow \in Rows
    BY DEF NoRow, Rows, States, NoDrop, NoId
  <2> QED BY <2>1 DEF Init
<1>10. TypeOK
  <2>1. log \in [Nodes -> Seq([at : Nat, body : Bodies])]
    BY <1>4 DEF E
  <2>3. crashes \in 0 .. MaxCrashes
    BY BoundsAssumption DEF Init
  <2>2. \A n \in Nodes : /\ held[n] \subseteq AllIds /\ admitted[n] \subseteq held[n]
                         /\ tomb[n] \in [DOMAIN tomb[n] -> Cuts] /\ DOMAIN tomb[n] \subseteq AllIds
    BY <1>6, <1>7
  <2> QED BY <1>6, <1>7, <1>8, <1>9, <2>1, <2>2, <2>3 DEF TypeOK
<1>11. TombstonesReplaced /\ OwnVerificationsAdmitted /\ VerifiedOnce
  BY <1>1, <1>3, <1>7 DEF TombstonesReplaced, OwnVerificationsAdmitted, VerifiedOnce
<1>12. FirstToVerify /\ BusyWithCut /\ FloorFirst
  BY <1>1, <1>3, <1>8 DEF FirstToVerify, BusyWithCut, FloorFirst, VerifyStages
<1>13. WritesInOrder /\ SealedFloor
  BY <1>1, <1>3 DEF WritesInOrder, SealedFloor
<1>14. OwnNewestStored
  <2> SUFFICES ASSUME NEW n \in Nodes, log[n] # <<>> PROVE <<n, Len(log[n])>> \in held[n]
    BY DEF OwnNewestStored
  <2>1. History[n] # 0
    <3>1. History[n] = 0 => Len(log[n]) = 0
      BY <1>3
    <3> QED BY <1>3, <3>1, EmptySeq
  <2>2. Len(log[n]) \in DOMAIN log[n]
    BY <1>3, <2>1
  <2> QED BY <1>6, <2>2
<1> QED BY <1>10, <1>11, <1>12, <1>13, <1>14 DEF IInv

\* Every step of every daemon, person and crash keeps the invariant.
LEMMA NextKeeps == IInv /\ [Next]_vars => IInv'
<1> SUFFICES ASSUME IInv, [Next]_vars PROVE IInv'
  OBVIOUS
<1>1. CASE UNCHANGED vars
  <2>1. Bookkeeping /\ UNCHANGED <<log, held, admitted, tomb, pass>>
    BY <1>1 DEF vars, Bookkeeping, IInv, TypeOK, BusyWithCut
  <2> QED BY <2>1, PassesStayOrEnd
<1>2. ASSUME NEW n \in Nodes, NEW now \in Days, Agree(n, now) PROVE IInv'
  BY <1>2, BeginKeeps, RecordKeeps, PublishKeeps, ProofKeeps DEF Agree
<1>3. ASSUME NEW n \in Nodes, NEW now \in Days, Trim(n, now) PROVE IInv'
  <2>1. CASE ResumeTrim(n)
    BY <2>1, UpkeepKeeps
  <2>2. CASE \E c \in Cuts : TrimOwnPlan(n, c) \/ ChangePlan(n, c, now)
    BY <2>2, StartTrimKeeps, ChangePlanKeeps
  <2>3. CASE \E m \in Nodes, c \in Cuts : AdoptCheckpoint(n, m, c)
    BY <2>3, StartTrimKeeps
  <2>4. CASE PassTrims(n, now) \/ SyncTrims(n, now)
    BY <2>4, FinishKeeps
  <2> QED BY <1>3, <2>1, <2>2, <2>3, <2>4 DEF Trim
<1>4. ASSUME NEW n \in Nodes, Daemon(n) PROVE IInv'
  BY <1>2, <1>3, <1>4, ReplicationKeeps DEF Daemon
<1>5. ASSUME Next PROVE IInv'
  BY <1>4, <1>5, WritingKeeps, UpkeepKeeps DEF Next
<1> QED BY <1>1, <1>5

(***************************************************************************)
(* Theorems                                                                *)
(***************************************************************************)
\* The invariant holds throughout.
THEOREM Invariance == Spec => []IInv
<1>1. Init => IInv
  BY InitIsGood
<1>2. IInv /\ [Next]_vars => IInv'
  BY NextKeeps
<1> QED BY <1>1, <1>2, PTL DEF Spec

\* The tables of every node stay well formed, and a node stores, admits and tombstones
\* only envelopes some node wrote.
THEOREM TypeCorrect == Spec => []TypeOK
<1>1. IInv => TypeOK
  BY DEF IInv
<1> QED BY <1>1, Invariance, PTL

\* keep_only_tombstones and finish_trim never delete the row of a node's own newest
\* envelope: next_replica_sequence and write_time read it.
THEOREM NewestIsKept == Spec => []OwnNewestStored
<1>1. IInv => OwnNewestStored
  BY DEF IInv
<1> QED BY <1>1, Invariance, PTL

\* write_time: a node's accepted times never decrease, whatever it deleted and whatever
\* its clock does.
THEOREM TimesNeverDecrease == Spec => []WritesInOrder
<1>1. IInv => WritesInOrder
  BY DEF IInv
<1> QED BY <1>1, Invariance, PTL

\* publish_seal and publish_verification: nothing a node writes after a seal is dated
\* before its cut.
THEOREM SealIsAFloor == Spec => []SealedFloor
<1>1. IInv => SealedFloor
  BY DEF IInv
<1> QED BY <1>1, Invariance, PTL

\* certificates: a node verifies a cut once, so two certificates of the cut that share a
\* participant are the same terms.
LEMMA OneVerificationOneCertificate == TypeOK /\ VerifiedOnce => CertificatesDisjoint
<1> SUFFICES ASSUME TypeOK, VerifiedOnce, NEW c \in Cuts,
                    NEW t \in CertifiedTerms(c), NEW u \in CertifiedTerms(c),
                    NEW w \in t.parts \cap u.parts
             PROVE  t = u
  BY DEF CertificatesDisjoint
<1>1. /\ t.kind = "verified" /\ t.cut = c /\ u.kind = "verified" /\ u.cut = c
  BY DEF CertifiedTerms
<1>2. PICK s \in DOMAIN log[w] : log[w][s].body = t
  BY DEF CertifiedTerms
<1>3. PICK r \in DOMAIN log[w] : log[w][r].body = u
  BY DEF CertifiedTerms
<1>4. w \in Nodes
  <2>1. t \in Bodies
    BY AllIdsAre DEF CertifiedTerms, Body, Env
  <2> QED BY <1>1, <2>1 DEF Bodies
<1> QED BY <1>1, <1>2, <1>3, <1>4 DEF VerifiedOnce

\* Two certificates of a checkpoint are the same or have disjoint participants, for any
\* number of nodes, excusals, crashes and clocks.
THEOREM CertificatesAreDisjoint == Spec => []CertificatesDisjoint
<1>1. IInv => CertificatesDisjoint
  BY OneVerificationOneCertificate DEF IInv
<1> QED BY <1>1, Invariance, PTL
================================================================================

----------------------------- MODULE CheckpointTrim -----------------------------
(***************************************************************************)
(* What a node does with a stable checkpoint, on top of the agreement of   *)
(* module CheckpointAgreement: it trims from its own plan when it verified *)
(* the certificate every node applies, or adopts a peer's manifest.        *)
(* Tombstones are recorded in one transaction, then the rows they stand    *)
(* for are deleted in further ones; a crash may fall between any two.      *)
(* Two threads of a daemon trim: the checkpoint pass, and an adoption the  *)
(* replication worker asks for.                                            *)
(***************************************************************************)
EXTENDS CheckpointAgreement

(***************************************************************************)
(* Which certificate a node applies                                        *)
(***************************************************************************)
\* An order on drop digests: of two drops, the one with the smallest identity
\* the other lacks.  Any total order will do.
LeastId(S) == CHOOSE i \in S : \A j \in S \ {i} : IdBefore(i, j)
DigestBefore(d, e) ==
    d # e /\ LeastId((d \ e) \cup (e \ d)) \in d

\* Most participants, then the smallest drop digest, then the terms.
Preferred(t, u) ==
    \/ Cardinality(t.parts) > Cardinality(u.parts)
    \/ /\ Cardinality(t.parts) = Cardinality(u.parts)
       /\ \/ DigestBefore(t.drop, u.drop)
          \/ t.drop = u.drop /\ Min(t.parts) < Min(u.parts)

\* Mutant: a node prefers a certificate it verified.
ChosenCertificateOwn(n, c) ==
    LET own == {t \in Certificates(n, c) : n \in t.parts}
        all == IF own = {} THEN Certificates(n, c) ELSE own
    IN  CHOOSE t \in all : \A u \in all \ {t} : Preferred(t, u)

ChosenCertificate(n, c) ==
    LET all == Certificates(n, c)
    IN  CHOOSE t \in all : \A u \in all \ {t} : Preferred(t, u)

\* n applied this drop for the cut, or anything newer, or set the cut aside.
Applied(n, c, drop) ==
    \E d \in Cuts :
        \/ row[n][d].state = "trimmed" /\ (d > c \/ (d = c /\ row[n][d].drop = drop))
        \/ row[n][d].state \in {"set-aside", "graph-changed"} /\ d >= c

\* The newest stable checkpoint, when n has not applied it.
Pending(n, c) ==
    /\ LET stable == StableCuts(n) IN c \in stable /\ \A d \in stable : d <= c
    /\ ~Applied(n, c, ChosenCertificate(n, c).drop)

TrimsOwnPlan(n, c) ==
    /\ n \in ChosenCertificate(n, c).parts
    /\ row[n][c].state \notin {"none", "plan-changed"}

OwnPlanHolds(n, c) ==
    /\ SealedIdentities(n, c, row[n][c].rows) = ChosenCertificate(n, c).ids
    /\ PlannedDigest(n, c, row[n][c].rows) = ChosenCertificate(n, c).drop

NeedsManifest(n, c) == Pending(n, c) /\ ~TrimsOwnPlan(n, c)

\* The newest checkpoint n advertises, and the tombstones it serves for a cut.
Advertisable(n) == {c \in Cuts : row[n][c].state = "trimmed" /\ row[n][c].drop # NoDrop}
Advertises(n, c) == c \in Advertisable(n) /\ \A d \in Advertisable(n) : d <= c
Manifest(n, c) == {i \in DOMAIN tomb[n] : tomb[n][i] <= c}

Interrupted(n) == {c \in Cuts : row[n][c].state = "trimming"}

(***************************************************************************)
(* Trimming                                                                *)
(***************************************************************************)
\* Mutants: an adoption keeps the node's other tombstones; a trim dates them all anew.
RecordTombstonesAdding(n, c, ids, exact, drop) ==
    /\ tomb' = [tomb EXCEPT ![n] =
                   [i \in DOMAIN tomb[n] \cup ids |->
                       IF i \in DOMAIN tomb[n] THEN tomb[n][i] ELSE c]]
    /\ row' = [row EXCEPT ![n][c].state = "trimming", ![n][c].drop = drop]

RecordTombstonesRedating(n, c, ids, exact, drop) ==
    /\ tomb' = [tomb EXCEPT ![n] =
                   [i \in (IF exact THEN ids ELSE DOMAIN tomb[n] \cup ids) |-> c]]
    /\ row' = [row EXCEPT ![n][c].state = "trimming", ![n][c].drop = drop]

\* The first transaction of a trim: tombstones and the row, together.
RecordTombstones(n, c, ids, exact, drop) ==
    LET kept == IF exact THEN DOMAIN tomb[n] \cap ids ELSE DOMAIN tomb[n]
    IN  /\ tomb' = [tomb EXCEPT ![n] =
                        [i \in kept \cup ids |-> IF i \in kept THEN tomb[n][i] ELSE c]]
        /\ row' = [row EXCEPT ![n][c].state = "trimming", ![n][c].drop = drop]

\* Mutant: a pass overlooks an interrupted trim.
ResumeTrimNever(n) == FALSE /\ UNCHANGED vars

\* A pass finds a trim a crash interrupted and goes on deleting.
ResumeTrim(n) ==
    /\ pass[n].stage = "idle"
    /\ Interrupted(n) # {}
    /\ pass' = [pass EXCEPT ![n] = Trimming(Min(Interrupted(n)))]
    /\ UNCHANGED <<log, held, admitted, tomb, row, sync, crashes>>

\* A pass trims the newest stable checkpoint from the plan it verified.
TrimOwnPlan(n, c) ==
    /\ pass[n].stage = "idle" /\ Interrupted(n) = {}
    /\ Pending(n, c) /\ TrimsOwnPlan(n, c) /\ OwnPlanHolds(n, c)
    /\ RecordTombstones(n, c, PlannedDrops(n, c, row[n][c].rows), FALSE,
                        ChosenCertificate(n, c).drop)
    /\ pass' = [pass EXCEPT ![n] = Trimming(c)]
    /\ UNCHANGED <<log, held, admitted, sync, crashes>>

\* Its rows no longer give the drop it verified: it will adopt a manifest.
ChangePlan(n, c, now) ==
    /\ pass[n].stage = "idle" /\ Interrupted(n) = {}
    /\ Pending(n, c) /\ TrimsOwnPlan(n, c) /\ ~OwnPlanHolds(n, c)
    /\ row' = [row EXCEPT ![n][c].state = "plan-changed"]
    /\ AppendOnce(n, now, Diagnostic(n, "checkpoint-trim-plan-changed", c, {}))
    /\ UNCHANGED <<tomb, pass, sync, crashes>>

\* The worker hands over the manifest of a peer that advertises what n needs.
AdoptCheckpoint(n, m, c) ==
    /\ sync[n].stage = "idle"
    /\ ConcurrentAdoption \/ pass[n].stage = "idle"
    /\ NeedsManifest(n, c)
    /\ Advertises(m, c) /\ row[m][c].drop = ChosenCertificate(n, c).drop
    /\ Manifest(m, c) = ChosenCertificate(n, c).drop
    /\ RecordTombstones(n, c, Manifest(m, c), TRUE, ChosenCertificate(n, c).drop)
    /\ sync' = [sync EXCEPT ![n] = Trimming(c)]
    /\ UNCHANGED <<log, held, admitted, pass, crashes>>

(***************************************************************************)
(* finish_trim, in either thread: t is pass[n] or sync[n]                  *)
(***************************************************************************)
\* Tombstoned rows past the thread's cursor.
Left(n, t) == {i \in held[n] \cap DOMAIN tomb[n] : IdBefore(t.cursor, i)}

\* Mutants: the claims of a deleted envelope stay; its tombstone goes with the row.
DeleteRowKeepsClaims(n, t) ==
    /\ t.stage = "trim" /\ Left(n, t) # {}
    /\ held' = [held EXCEPT ![n] = @ \ {LeastId(Left(n, t))}]
    /\ UNCHANGED <<log, admitted, tomb, row, crashes>>
DeleteRowAndTombstone(n, t) ==
    /\ t.stage = "trim" /\ Left(n, t) # {}
    /\ held' = [held EXCEPT ![n] = @ \ {LeastId(Left(n, t))}]
    /\ admitted' = [admitted EXCEPT ![n] = @ \ {LeastId(Left(n, t))}]
    /\ tomb' = [tomb EXCEPT ![n] =
                   [i \in DOMAIN tomb[n] \ {LeastId(Left(n, t))} |-> tomb[n][i]]]
    /\ UNCHANGED <<log, row, crashes>>

DeleteRow(n, t) ==
    /\ t.stage = "trim" /\ Left(n, t) # {}
    /\ held' = [held EXCEPT ![n] = @ \ {LeastId(Left(n, t))}]
    /\ admitted' = [admitted EXCEPT ![n] = @ \ {LeastId(Left(n, t))}]
    /\ row' = [row EXCEPT ![n] =
                  [c \in Cuts |-> [row[n][c] EXCEPT !.rows = @ \ {LeastId(Left(n, t))}]]]
    /\ UNCHANGED <<log, tomb, crashes>>

\* Mutant: the checkpoint is marked before the last row is gone.
MarkTrimmedEarly(n, t) ==
    /\ t.stage = "trim"
    /\ row' = [row EXCEPT ![n][t.cut].state = "trimmed"]
    /\ UNCHANGED <<log, held, admitted, tomb, crashes>>

MarkTrimmed(n, t) ==
    /\ t.stage = "trim" /\ Left(n, t) = {}
    /\ row' = [row EXCEPT ![n][t.cut].state = "trimmed"]
    /\ UNCHANGED <<log, held, admitted, tomb, crashes>>

\* The deletion would change the graph: it is rolled back and the node halts.
StopTrim(n, t, now) ==
    /\ GraphMayChange
    /\ t.stage = "trim" /\ Left(n, t) # {}
    /\ row' = [row EXCEPT ![n][t.cut].state = "graph-changed"]
    /\ AppendOnce(n, now, Diagnostic(n, "checkpoint-trim-graph-changed", t.cut, {}))
    /\ UNCHANGED <<tomb, crashes>>

PassTrims(n, now) ==
    /\ \/ /\ DeleteRow(n, pass[n])
          /\ pass' = [pass EXCEPT ![n].cursor = LeastId(Left(n, pass[n]))]
       \/ (MarkTrimmed(n, pass[n]) \/ StopTrim(n, pass[n], now))
          /\ pass' = [pass EXCEPT ![n] = Idle]
    /\ UNCHANGED sync

SyncTrims(n, now) ==
    /\ \/ /\ DeleteRow(n, sync[n])
          /\ sync' = [sync EXCEPT ![n].cursor = LeastId(Left(n, sync[n]))]
       \/ (MarkTrimmed(n, sync[n]) \/ StopTrim(n, sync[n], now))
          /\ sync' = [sync EXCEPT ![n] = Idle]
    /\ UNCHANGED pass

\* A person looked at a halted node: the rows stay as they are.
ResumeCheckpoints(n) ==
    /\ Halted(n)
    /\ row' = [row EXCEPT ![n] =
                  [c \in Cuts |-> IF row[n][c].state = "graph-changed"
                                  THEN [row[n][c] EXCEPT !.state = "set-aside"]
                                  ELSE row[n][c]]]
    /\ UNCHANGED <<log, held, admitted, tomb, pass, sync, crashes>>

\* A daemon stops and starts again: its threads are gone, its store stays.
Crash(n) ==
    /\ crashes < MaxCrashes
    /\ pass[n] # Idle \/ sync[n] # Idle
    /\ pass' = [pass EXCEPT ![n] = Idle]
    /\ sync' = [sync EXCEPT ![n] = Idle]
    /\ crashes' = crashes + 1
    /\ UNCHANGED <<log, held, admitted, tomb, row>>

(***************************************************************************)
(* The specification                                                       *)
(***************************************************************************)
\* A pass seals or verifies only once the newest stable checkpoint is applied.
BeginAgreement(n, c) ==
    /\ pass[n].stage = "idle" /\ Interrupted(n) = {}
    /\ \A s \in Cuts : ~Pending(n, s)
    /\ StartSeal(n, c) \/ StartVerify(n, c)
    /\ UNCHANGED <<log, held, admitted, tomb, row, sync, crashes>>

NoRow == [state |-> "none", rows |-> {}, drop |-> NoDrop]

\* The fleet replicated a while before its first checkpoint came due.
Init ==
    /\ log = [n \in Nodes |-> [s \in 1 .. History[n] |-> [at |-> 0, body |-> Load]]]
    /\ held = [n \in Nodes |-> {i \in AllIds : i[1] \in Seen[n] \cup {n}}]
    /\ admitted = held
    /\ tomb = [n \in Nodes |-> [i \in {} |-> 0]]
    /\ row = [n \in Nodes |-> [c \in Cuts |-> NoRow]]
    /\ pass = [n \in Nodes |-> Idle]
    /\ sync = [n \in Nodes |-> Idle]
    /\ crashes = 0

Agree(n, now) ==
    \/ \E c \in Cuts : BeginAgreement(n, c)
    \/ RecordSealed(n)
    \/ PublishSeal(n, now)
    \/ AbandonVerify(n)
    \/ ProveDrops(n)
    \/ FailProof(n, now)
    \/ RecordVerified(n)
    \/ PublishVerification(n, now)

Trim(n, now) ==
    \/ ResumeTrim(n)
    \/ \E c \in Cuts : TrimOwnPlan(n, c) \/ ChangePlan(n, c, now)
    \/ \E m \in Nodes, c \in Cuts : AdoptCheckpoint(n, m, c)
    \/ PassTrims(n, now)
    \/ SyncTrims(n, now)

Replicate(n) ==
    \/ \E m \in Nodes : Receive(n, m, {})
    \/ \E m \in Nodes : MayHold /\ Receive(n, m, Page(n, m))
    \/ AdmitBacklog(n)

\* What a daemon does by itself.
Daemon(n) ==
    \/ Replicate(n)
    \/ \E now \in Days : Agree(n, now) \/ Trim(n, now)

Next ==
    \E n \in Nodes :
        \/ Daemon(n)
        \/ \E now \in Days : WriteObservation(n, now)
        \/ \E w \in Nodes, now \in Days : ExcuseWriter(n, w, now)
        \/ ResumeCheckpoints(n)
        \/ Crash(n)

Spec == Init /\ [][Next]_vars

\* A daemon keeps exchanging with its peers and runs a pass every few minutes; people,
\* new observations and crashes come as they will.
FairSpec == Spec /\ \A n \in Nodes : WF_vars(Daemon(n))

(***************************************************************************)
(* Properties                                                              *)
(***************************************************************************)
Stages == {"idle", "seal", "sealed", "verify", "proved", "verified", "trim"}
States == {"none", "sealed", "verified", "trimming", "trimmed", "plan-changed",
           "graph-changed", "set-aside"}

Codes == {"load", "checkpoint-proof-failed", "checkpoint-trim-plan-changed",
          "checkpoint-trim-graph-changed"}
Bodies ==
    [kind : {"observed"}, slot : Codes \X Nat, key : Nat \X SUBSET Ids]
    \cup [kind : {"excused"}, writer : Nodes]
    \cup [kind : {"sealed"}, cut : Cuts, parts : SUBSET Nodes, ids : SUBSET Ids]
    \cup [kind : {"verified"}, cut : Cuts, parts : SUBSET Nodes, ids : SUBSET Ids,
          drop : SUBSET (Ids \cup NoDrop)]
Rows == [state : States, rows : SUBSET Ids, drop : SUBSET (Ids \cup NoDrop)]
Passes == [stage : Stages, cut : Cuts \cup {0}, parts : SUBSET Nodes, ids : SUBSET Ids,
           rows : SUBSET Ids, drop : SUBSET (Ids \cup NoDrop), cursor : Ids \cup {NoId}]

\* The types of the variables; and a node stores, admits and tombstones only envelopes
\* that were written, and admits only what it stores.
TypeOK ==
    /\ log \in [Nodes -> Seq([at : Nat, body : Bodies])]
    /\ held \in [Nodes -> SUBSET Ids]
    /\ admitted \in [Nodes -> SUBSET Ids]
    /\ DOMAIN tomb = Nodes
    /\ row \in [Nodes -> [Cuts -> Rows]]
    /\ pass \in [Nodes -> Passes]
    /\ sync \in [Nodes -> Passes]
    /\ crashes \in 0 .. MaxCrashes
    /\ \A n \in Nodes :
          /\ held[n] \subseteq AllIds
          /\ admitted[n] \subseteq held[n]
          /\ tomb[n] \in [DOMAIN tomb[n] -> Cuts]
          /\ DOMAIN tomb[n] \subseteq AllIds

\* Terms each of whose participants published a verification with exactly them.
CertifiedTerms(c) ==
    {t \in {Body(i) : i \in AllIds} :
        /\ t.kind = "verified"
        /\ t.cut = c
        /\ \A w \in t.parts : \E s \in DOMAIN log[w] : log[w][s].body = t}

\* A seal is a promise: when a checkpoint is certified, everything any participant
\* ever dates before the cut, earlier or later, is in the set all of them sealed.
SealIsAPromise ==
    \A c \in Cuts : \A t \in CertifiedTerms(c) : \A w \in t.parts :
        \A s \in DOMAIN log[w] : log[w][s].at < c => <<w, s>> \in t.ids

\* From the moment a node publishes a seal or a verification of a cut it dates nothing
\* before the cut, the seal itself included, whatever its clock does.
SealedFloor ==
    \A n \in Nodes : \A s, t \in DOMAIN log[n] :
        s <= t /\ log[n][s].body.kind \in {"sealed", "verified"}
        => log[n][s].body.cut <= log[n][t].at

\* Two certificates of one checkpoint are the same or have no participant in common,
\* whoever was excused in between, because a node verifies a checkpoint once.
CertificatesDisjoint ==
    \A c \in Cuts : \A t, u \in CertifiedTerms(c) :
        t = u \/ t.parts \cap u.parts = {}

\* Without excusals, and with every writer known to all, a checkpoint has one
\* certificate at most.
OneCertificate == \A c \in Cuts : Cardinality(CertifiedTerms(c)) <= 1

\* A node always stores its own newest envelope, whatever it trims or adopts: its next
\* sequence number and write time are read from it.
OwnNewestStored ==
    \A n \in Nodes : log[n] # <<>> => <<n, Len(log[n])>> \in held[n]

\* A node never dates an envelope before an earlier one of its own.
WritesInOrder ==
    \A n \in Nodes : \A s, t \in DOMAIN log[n] : s < t => log[n][s].at <= log[n][t].at

\* What a node advertises as trimmed is a certified drop, and the manifest it serves
\* for it is exactly that drop, so any node that needs it can adopt it.
AdvertisedIsCertified ==
    \A n \in Nodes, c \in Cuts : Advertises(n, c) =>
        /\ Manifest(n, c) = row[n][c].drop
        /\ \E t \in CertifiedTerms(c) : t.drop = row[n][c].drop

\* A checkpoint marked trimmed has no row of its manifest left, whichever thread marked it
\* and whatever became of later checkpoints.
TrimmedIsDeleted ==
    \A n \in Nodes, c \in Cuts :
        row[n][c].state = "trimmed" => held[n] \cap Manifest(n, c) = {}

SlotOf(i) == Body(i).slot
InSlotOf(S, i) == {j \in S : Body(j).kind = "observed" /\ SlotOf(j) = SlotOf(i)}

\* Readers take the newest claim of a slot.  Deleting rows never deletes that claim, in
\* the middle of a trim or after it, on a node that verified or on one that adopts.
DeletionKeepsAnswers ==
    [][\A n \in Nodes : \A i \in admitted[n] \ admitted'[n] :
          i # NewestIn(InSlotOf(admitted[n], i))]_vars

\* Later certificates drop everything earlier ones that share a participant dropped.
DropsAccumulate ==
    \A c, d \in Cuts : c < d =>
        \A t \in CertifiedTerms(c), u \in CertifiedTerms(d) :
            t.parts \cap u.parts # {} => t.drop \subseteq u.drop

\* Nodes that trim a checkpoint from their own plans record the same tombstones for it,
\* however far each of them has got and whatever later checkpoints it trimmed since.
SameTrims ==
    \A n, m \in Nodes, c \in Cuts :
        /\ row[n][c].state \in {"trimming", "trimmed"}
        /\ row[m][c].state \in {"trimming", "trimmed"}
        => Manifest(n, c) = Manifest(m, c)

\* A node that counted everyone never needs a peer's manifest: it verified whatever becomes
\* stable, and its rows still give the drop it verified, even after trimming another cut.
OwnPlansSuffice ==
    \A n \in Nodes, c \in Cuts : ~NeedsManifest(n, c) /\ row[n][c].state # "plan-changed"

\* Trimming, crashing and resuming never change what a node's inventory lists, so peers
\* send nothing back.
InventoryOnlyGrows == [][\A n \in Nodes : Inventory(n) \subseteq Inventory(n)']_vars

\* A node that halted publishes no seal and no verification until a person resumes it.
HaltedSealsNothing ==
    [][\A n \in Nodes :
          Halted(n) /\ Len(log'[n]) > Len(log[n])
          => log'[n][Len(log'[n])].body.kind \notin {"sealed", "verified"}]_vars

\* Once a checkpoint is certified every node ends up having trimmed it, through crashes
\* in the middle of a trim and whether it verified or was excused.
CertifiedIsTrimmed ==
    \A c \in Cuts :
        CertifiedTerms(c) # {} ~> \A n \in Nodes : row[n][c].state = "trimmed"

\* When writes, excusals and crashes stop, all nodes end with the same inventory and the
\* same tombstones, even if each side of a partition certified the cut on its own.
NodesConverge ==
    <>[](\A n, m \in Nodes : /\ Inventory(n) = Inventory(m)
                             /\ DOMAIN tomb[n] = DOMAIN tomb[m])
================================================================================

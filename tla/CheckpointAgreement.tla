-------------------------- MODULE CheckpointAgreement --------------------------
(***************************************************************************)
(* How the nodes of a fleet agree to delete history together.              *)
(*                                                                         *)
(* Every node writes envelopes into its own log and holds copies of the    *)
(* others'.  A checkpoint is named by its cut, a day: the nodes seal the   *)
(* envelopes they hold from before the cut, verify the drop planned from   *)
(* them once all seals match, and a checkpoint every participant verified  *)
(* with the same terms is stable.  Module CheckpointTrim adds what a node  *)
(* does with a stable checkpoint.                                          *)
(*                                                                         *)
(* An envelope is identified by its writer and sequence number; its hash   *)
(* is left out because a writer has one chain.  A digest of a set of       *)
(* identities is that set.  A clock reading is an arbitrary day: clocks    *)
(* may be slow, fast or step back, and nothing here relies on them.        *)
(* A pass reads the claims and, a moment later, the envelopes, in two      *)
(* snapshots of the store; the model reads both in one step.               *)
(***************************************************************************)
EXTENDS Naturals, Sequences, FiniteSets, FiniteSetsExt

CONSTANTS
    Nodes,        \* the writers, as numbers: their order is the order of names
    Peers,        \* Peers[n]: the writers n's config and membership fold name
    Cuts,         \* the days checkpoints are named for
    Days,         \* what a clock may read
    PageLimit,    \* the most envelopes one exchange carries
    History,      \* History[n]: observations n wrote before the model starts
    Seen,         \* Seen[n]: the writers whose history n already holds
    MaxObs,       \* bound: observations each node writes
    MaxExcusals,  \* bound: excusals a person records on each node
    MaxSeals,     \* bound: seals each node publishes
    MaxCrashes,   \* bound: crashes in one behaviour
    ConcurrentAdoption, \* whether an adoption may start while a pass is under way
    MayHold,      \* whether admission may hold back what an exchange brought
    ProofMayFail, \* whether a proof on a copy may fail
    GraphMayChange \* whether a deletion may change the graph, as a wrong rule would

ASSUME NodesAssumption == Nodes \subseteq Nat \ {0}
ASSUME PeersAssumption == Peers \in [Nodes -> SUBSET Nodes]
ASSUME HistoryAssumption ==
    History \in [Nodes -> Nat] /\ Seen \in [Nodes -> SUBSET Nodes]
ASSUME DaysAssumption == Cuts \subseteq Nat \ {0} /\ Days \subseteq Nat
ASSUME FinitenessAssumption == IsFiniteSet(Nodes) /\ IsFiniteSet(Cuts)
ASSUME BoundsAssumption ==
    /\ PageLimit \in Nat \ {0} /\ MaxObs \in [Nodes -> Nat]
    /\ MaxExcusals \in [Nodes -> Nat] /\ MaxSeals \in [Nodes -> Nat]
    /\ MaxCrashes \in Nat
ASSUME FaultsAssumption ==
    {ConcurrentAdoption, MayHold, ProofMayFail, GraphMayChange} \subseteq BOOLEAN

VARIABLES
    log,      \* log[w]: everything w ever wrote, in sequence order
    held,     \* held[n]: identities whose envelope n stores (replica_envelopes)
    admitted, \* admitted[n]: those of them whose claims n validated and admitted
    tomb,     \* tomb[n]: identity |-> cut of the checkpoint that dropped it
    row,      \* row[n][c]: n's row of the table checkpoints for the cut c
    pass,     \* pass[n]: the checkpoint pass n's daemon is in
    sync,     \* sync[n]: the adoption n's daemon is finishing
    crashes   \* how many crashes happened

vars == <<log, held, admitted, tomb, row, pass, sync, crashes>>

(***************************************************************************)
(* Envelopes                                                               *)
(***************************************************************************)
Ids == Nodes \X (Nat \ {0})
AllIds == UNION {{<<w, s>> : s \in DOMAIN log[w]} : w \in Nodes}
Env(id) == log[id[1]][id[2]]
Body(id) == Env(id).body
At(id) == Env(id).at

\* What n lists in its replication inventory.
Inventory(n) == held[n] \cup DOMAIN tomb[n]

\* Canonical order: accepted time, then writer, then sequence.
Precedes(i, j) ==
    \/ At(i) < At(j)
    \/ At(i) = At(j) /\ (i[1] < j[1] \/ (i[1] = j[1] /\ i[2] < j[2]))

\* The last of a set of identities in canonical order.
NewestIn(S) == CHOOSE i \in S : \A j \in S \ {i} : Precedes(j, i)

Observation(slot, key) == [kind |-> "observed", slot |-> slot, key |-> key]
Load == Observation(<<"load", 0>>, <<0, {}>>)
Diagnostic(n, code, c, drop) == Observation(<<code, n>>, <<c, drop>>)

(***************************************************************************)
(* Claims a node reads: the admitted ones                                   *)
(***************************************************************************)
OfKind(n, kind) == {i \in admitted[n] : Body(i).kind = kind}
IsCheckpointWork(i) == Body(i).kind \in {"sealed", "verified"}
CheckpointWork(n) == {i \in admitted[n] : IsCheckpointWork(i)}

\* An excusal holds until the writer's next seal or verification, canonically.
ExcusedWriters(n) ==
    {w \in Nodes :
        \E e \in OfKind(n, "excused") :
            /\ Body(e).writer = w
            /\ \A i \in CheckpointWork(n) : i[1] = w => Precedes(i, e)}

\* Mutant: a writer nothing was received from is not known.
KnownWritersHeardOf(n) == {n} \cup {i[1] : i \in Inventory(n)}
KnownWriters(n) == {n} \cup Peers[n] \cup {i[1] : i \in Inventory(n)}
NamedWriters(n) == UNION {Body(i).parts : i \in CheckpointWork(n)}
Participants(n) == (KnownWriters(n) \cup NamedWriters(n)) \ ExcusedWriters(n)

SealsOf(n, w, c) ==
    {i \in OfKind(n, "sealed") : i[1] = w /\ Body(i).cut = c}
VerificationsOf(n, w, c) ==
    {i \in OfKind(n, "verified") : i[1] = w /\ Body(i).cut = c}

SealTerms(c, parts, ids) ==
    [kind |-> "sealed", cut |-> c, parts |-> parts, ids |-> ids]
VerifiedTerms(c, parts, ids, drop) ==
    [kind |-> "verified", cut |-> c, parts |-> parts, ids |-> ids, drop |-> drop]

\* Whether terms are w's newest seal of their cut.
NewestSealIs(n, w, terms) ==
    LET seals == SealsOf(n, w, terms.cut)
    IN  seals # {} /\ Body(NewestIn(seals)) = terms

\* Each writer's first verification of the cut: what it verified once, it verified.
FirstVerifications(n, c) ==
    LET all == {i \in OfKind(n, "verified") : Body(i).cut = c}
        First(w) == CHOOSE i \in all :
                        i[1] = w /\ \A j \in all \ {i} : j[1] = w => Precedes(i, j)
    IN  [w \in {i[1] : i \in all} |-> Body(First(w))]

\* Terms every one of their participants verified.
Certificates(n, c) ==
    LET first == FirstVerifications(n, c)
    IN  {t \in {first[w] : w \in DOMAIN first} :
            /\ t.parts # {}
            /\ \A w \in t.parts : w \in DOMAIN first /\ first[w] = t}

StableCuts(n) == {c \in Cuts : Certificates(n, c) # {}}

(***************************************************************************)
(* Writing                                                                 *)
(***************************************************************************)
\* Mutants: the clock as it reads; only cuts that are still being agreed on are a floor.
WriteTimeNow(n, now) == now
WriteTimeAfterCuts(n, now) ==
    Max({now} \cup {c \in Cuts : row[n][c].state \in {"sealed", "verified"}})

\* The accepted time of n's next write: its clock, but not before any cut in its
\* table checkpoints, and not before the newest batch of its own it still stores.
WriteTime(n, now) ==
    LET floors == {c \in Cuts : row[n][c].state # "none"}
        own == {i \in held[n] : i[1] = n}
        newest == {At(i) : i \in {j \in own : \A k \in own : k[2] <= j[2]}}
    IN  Max({now} \cup floors \cup newest)

Append1(n, now, body) ==
    /\ log' = [log EXCEPT ![n] = Append(@, [at |-> WriteTime(n, now), body |-> body])]
    /\ held' = [held EXCEPT ![n] = @ \cup {<<n, Len(log[n]) + 1>>}]
    /\ admitted' = [admitted EXCEPT ![n] = @ \cup {<<n, Len(log[n]) + 1>>}]

LoadsBy(n) == Cardinality({s \in DOMAIN log[n] : log[n][s].body = Load})
WrittenOf(n, kind) == Cardinality({s \in DOMAIN log[n] : log[n][s].body.kind = kind})

\* A diagnostic has an idempotency key: writing it again writes nothing.
AppendOnce(n, now, body) ==
    IF \E s \in DOMAIN log[n] : log[n][s].body = body
    THEN UNCHANGED <<log, held, admitted>>
    ELSE Append1(n, now, body)

\* Any claim a rule may drop: an observation that replaces the one before it.
WriteObservation(n, now) ==
    /\ LoadsBy(n) < History[n] + MaxObs[n]
    /\ Append1(n, now, Load)
    /\ UNCHANGED <<tomb, row, pass, sync, crashes>>

\* A person excuses another writer.
ExcuseWriter(n, w, now) ==
    /\ w # n
    /\ WrittenOf(n, "excused") < MaxExcusals[n]
    /\ Append1(n, now, [kind |-> "excused", writer |-> w])
    /\ UNCHANGED <<tomb, row, pass, sync, crashes>>

\* What one exchange carries from m to n: the first of the envelopes m stores and n
\* does not list, by writer and sequence.  A tombstoned one is a duplicate to n.
IdBefore(i, j) == i[1] < j[1] \/ (i[1] = j[1] /\ i[2] < j[2])
Page(n, m) ==
    LET missing == held[m] \ Inventory(n)
    IN  {i \in missing : Cardinality({j \in missing : IdBefore(j, i)}) < PageLimit}

\* The receiver stores the page, then validates it and admits its claims.  Envelopes
\* signed by a member n has not heard of yet are held back: stored, not admitted.
Receive(n, m, withheld) ==
    /\ Page(n, m) # {}
    /\ held' = [held EXCEPT ![n] = @ \cup Page(n, m)]
    /\ admitted' = [admitted EXCEPT ![n] = @ \cup (Page(n, m) \ withheld)]
    /\ UNCHANGED <<log, tomb, row, pass, sync, crashes>>

\* The membership claims n was missing arrived: what it held back is admitted.
AdmitBacklog(n) ==
    /\ admitted[n] # held[n]
    /\ admitted' = [admitted EXCEPT ![n] = held[n]]
    /\ UNCHANGED <<log, held, tomb, row, pass, sync, crashes>>

(***************************************************************************)
(* The sealed set and the drop planned from it                             *)
(***************************************************************************)
\* Identities before the cut among the stored rows given and every tombstone.
SealedIdentities(n, c, rows) ==
    {i \in (rows \cap held[n]) \cup DOMAIN tomb[n] : At(i) < c}

\* Mutants: any other claim of the slot replaces a claim; a writer's newest may go.
PlannedDropsOfSlot(n, c, rows) ==
    LET live == SealedIdentities(n, c, rows) \cap rows \cap admitted[n]
    IN  {i \in live : /\ Body(i).kind = "observed"
                      /\ \E j \in live \ {i} : /\ Body(j).kind = "observed"
                                               /\ Body(j).slot = Body(i).slot}
PlannedDropsOfNewest(n, c, rows) ==
    LET live == SealedIdentities(n, c, rows) \cap rows \cap admitted[n]
    IN  {i \in live : /\ Body(i).kind = "observed"
                      /\ \E j \in live : /\ Body(j).kind = "observed"
                                         /\ Body(j).slot = Body(i).slot
                                         /\ Precedes(i, j)}

\* Droppable: a later stored claim of the slot replaces it, and it is not its
\* writer's newest envelope in the sealed set.
PlannedDrops(n, c, rows) ==
    LET sealed == SealedIdentities(n, c, rows)
        live == sealed \cap rows \cap admitted[n]
    IN  {i \in live :
            /\ Body(i).kind = "observed"
            /\ \E j \in live : /\ Body(j).kind = "observed"
                               /\ Body(j).slot = Body(i).slot
                               /\ Precedes(i, j)
            /\ \E j \in sealed : j[1] = i[1] /\ j[2] > i[2]}

\* Mutant: the drop of this checkpoint alone.
PlannedDigestAlone(n, c, rows) == PlannedDrops(n, c, rows)

\* The cumulative drop a verification names.
PlannedDigest(n, c, rows) ==
    PlannedDrops(n, c, rows)
        \cup {i \in DOMAIN tomb[n] : At(i) < c}

(***************************************************************************)
(* One pass of checkpoint work                                             *)
(***************************************************************************)
NoId == <<0, 0>>
NoDrop == {NoId}  \* no drop digest: a value no drop has
Idle == [stage |-> "idle", cut |-> 0, parts |-> {}, ids |-> {}, rows |-> {},
         drop |-> NoDrop, cursor |-> NoId]
Trimming(c) == [Idle EXCEPT !.stage = "trim", !.cut = c]

Halted(n) == \E c \in Cuts : row[n][c].state = "graph-changed"

\* Mutants: a node verifies again; a halted node goes on.
DueCutAgain(n, c) == ~Halted(n) /\ \A s \in StableCuts(n) : s < c
DueCutHalted(n, c) ==
    (\A s \in StableCuts(n) : s < c) /\ VerificationsOf(n, n, c) = {}

\* A pass gets past the stable checkpoints to the cut that is due on its clock.
DueCut(n, c) ==
    /\ ~Halted(n)
    /\ \A s \in StableCuts(n) : s < c
    /\ VerificationsOf(n, n, c) = {}

\* Sealing ends this node's own excusal, so it counts itself.
TermsNow(n, c) ==
    SealTerms(c, Participants(n) \cup {n}, SealedIdentities(n, c, held[n]))

\* What a pass carries from its reads into its writes.
Reading(n, c, stage) ==
    [Idle EXCEPT !.stage = stage, !.cut = c, !.parts = TermsNow(n, c).parts,
                 !.ids = TermsNow(n, c).ids,
                 !.rows = {i \in held[n] : At(i) < c}]

\* Its terms differ from its newest seal: it will publish a seal.
StartSeal(n, c) ==
    /\ DueCut(n, c)
    /\ WrittenOf(n, "sealed") < MaxSeals[n]
    /\ ~NewestSealIs(n, n, TermsNow(n, c))
    /\ pass' = [pass EXCEPT ![n] = Reading(n, c, "seal")]

\* Every participant's newest seal carries its terms: it will verify.
StartVerify(n, c) ==
    /\ DueCut(n, c)
    /\ LET terms == TermsNow(n, c)
       IN  \A w \in terms.parts : NewestSealIs(n, w, terms)
    /\ pass' = [pass EXCEPT ![n] = Reading(n, c, "verify")]

RecordState(n, state) ==
    row' = [row EXCEPT ![n][pass[n].cut] =
                [state |-> state, rows |-> pass[n].rows, drop |-> pass[n].drop]]

\* publish_seal: the floor first ...
RecordSealed(n) ==
    /\ pass[n].stage = "seal"
    /\ RecordState(n, "sealed")
    /\ pass' = [pass EXCEPT ![n].stage = "sealed"]
    /\ UNCHANGED <<log, held, admitted, tomb, sync, crashes>>

\* ... then the claim.
PublishSeal(n, now) ==
    /\ pass[n].stage = "sealed"
    /\ Append1(n, now, SealTerms(pass[n].cut, pass[n].parts, pass[n].ids))
    /\ pass' = [pass EXCEPT ![n] = Idle]
    /\ UNCHANGED <<tomb, row, sync, crashes>>

\* verify_checkpoint: something before the cut changed since the seal.
AbandonVerify(n) ==
    /\ pass[n].stage = "verify"
    /\ SealedIdentities(n, pass[n].cut, pass[n].rows) # pass[n].ids
    /\ pass' = [pass EXCEPT ![n] = Idle]
    /\ UNCHANGED <<log, held, admitted, tomb, row, sync, crashes>>

\* The plan is drawn from the rows the seal covers, and the proof on a copy passes.
ProveDrops(n) ==
    /\ pass[n].stage = "verify"
    /\ SealedIdentities(n, pass[n].cut, pass[n].rows) = pass[n].ids
    /\ pass' = [pass EXCEPT ![n].stage = "proved",
                            ![n].drop = PlannedDigest(n, pass[n].cut, pass[n].rows)]
    /\ UNCHANGED <<log, held, admitted, tomb, row, sync, crashes>>

\* The proof on the copy fails: it only writes a diagnostic.
FailProof(n, now) ==
    /\ ProofMayFail
    /\ pass[n].stage = "verify"
    /\ SealedIdentities(n, pass[n].cut, pass[n].rows) = pass[n].ids
    /\ AppendOnce(n, now, Diagnostic(n, "checkpoint-proof-failed", pass[n].cut,
                                     PlannedDigest(n, pass[n].cut, pass[n].rows)))
    /\ pass' = [pass EXCEPT ![n] = Idle]
    /\ UNCHANGED <<tomb, row, sync, crashes>>

RecordVerified(n) ==
    /\ pass[n].stage = "proved"
    /\ RecordState(n, "verified")
    /\ pass' = [pass EXCEPT ![n].stage = "verified"]
    /\ UNCHANGED <<log, held, admitted, tomb, sync, crashes>>

PublishVerification(n, now) ==
    /\ pass[n].stage = "verified"
    /\ Append1(n, now, VerifiedTerms(pass[n].cut, pass[n].parts, pass[n].ids, pass[n].drop))
    /\ pass' = [pass EXCEPT ![n] = Idle]
    /\ UNCHANGED <<tomb, row, sync, crashes>>
================================================================================

--------------------------------- MODULE Fleet ---------------------------------
(***************************************************************************)
(* The machines of a fleet: they join, leave, are removed, write and       *)
(* replicate, and each admits what it received by the membership it knows. *)
(*                                                                         *)
(* A machine stores every envelope it receives and admits the claims of    *)
(* some; the others are held and tried again.  An exchange carries up to   *)
(* 512 envelopes and a chunk of admission 256, more than these logs hold,  *)
(* so both are one step.  An invite is created and redeemed in one step.   *)
(* A machine that is refused because it was removed stops dialing; here it *)
(* goes on, and is refused again.                                          *)
(***************************************************************************)
EXTENDS Membership, Sequences

CONSTANTS
    Founding,    \* the admissions before the model starts: a sequence of
                 \* <<sponsor, machine>>, all of them replicated to every founder
    MaxNotes,    \* MaxNotes[m]: bound on the ordinary claims m writes
    MaxRemovals, \* MaxRemovals[m]: bound on the removals m writes
    Announcers,  \* the machines that announce their endpoints, once
    Leavers,     \* the machines that may leave
    Sponsors     \* the machines that may sponsor another

ASSUME FoundingAssumption ==
    /\ Founding \in Seq(Machines \X Machines)
    /\ \A k \in DOMAIN Founding :
           Founding[k][1] \in {Anchor} \cup {Founding[i][2] : i \in 1 .. k - 1}
ASSUME FleetBoundsAssumption ==
    /\ MaxNotes \in [Machines -> Nat] /\ MaxRemovals \in [Machines -> Nat]
    /\ {Announcers, Leavers, Sponsors} \subseteq SUBSET Machines

VARIABLES
    joined,   \* the machines that are running with a member key
    floor,    \* floor[m]: the writer floor m took when it joined
    sponsor,  \* sponsor[m]: whose key m trusts before membership arrives
    stored,   \* stored[m]: the envelopes m holds (replica_envelopes)
    admitted  \* admitted[m]: those of them whose claims m admitted

vars == <<joined, floor, sponsor, stored, admitted>>

\* fleet_membership: what m's admitted claims make of the fleet.
Members(m) == Counted({e \in admitted[m] : IsFleetClaim(e)})

(***************************************************************************)
(* Writing                                                                 *)
(***************************************************************************)
\* Mutant: a machine that takes over a name starts at 1.
NextSequenceNoFloor(m) ==
    1 + Max({0} \cup {e.seq : e \in {f \in admitted[m] : f.writer = NameOf[m]}})

\* One past the writer's highest batch and the floor.
NextSequence(m) ==
    1 + Max({floor[m]} \cup {e.seq : e \in {f \in admitted[m] : f.writer = NameOf[m]}})

Envelope(m, seq, body) == [writer |-> NameOf[m], seq |-> seq, key |-> m, body |-> body]

\* Mutant: the batch is admitted and not sealed.
Append1Unsealed(m, envelopes) ==
    /\ admitted' = [admitted EXCEPT ![m] = @ \cup envelopes]
    /\ UNCHANGED stored

\* A batch of m's own, sealed, signed and admitted as it is written.
Append1(m, envelopes) ==
    /\ stored' = [stored EXCEPT ![m] = @ \cup envelopes]
    /\ admitted' = [admitted EXCEPT ![m] = @ \cup envelopes]

Written(m, kind) == {e \in stored[m] : e.key = m /\ e.body.kind = kind}
HasLeft(m) == Written(m, "left") # {}

\* While leaving, a node refuses new local writes, so its leave stays its last.
MayWrite(m) == m \in joined /\ ~HasLeft(m)

WriteNote(m) ==
    /\ MayWrite(m) /\ Cardinality(Written(m, "note")) < MaxNotes[m]
    /\ Append1(m, {Envelope(m, NextSequence(m), Note(m))})
    /\ UNCHANGED <<joined, floor, sponsor>>

AnnounceEndpoints(m) ==
    /\ m \in Announcers /\ MayWrite(m) /\ Written(m, "endpoints") = {}
    /\ Append1(m, {Envelope(m, NextSequence(m), Endpoints(m))})
    /\ UNCHANGED <<joined, floor, sponsor>>

\* The highest sequence m holds of a writer, admitted or not.
HighWater(m, name) == Max({0} \cup {e.seq : e \in {f \in stored[m] : f.writer = name}})

\* The keys a removal ends: the current ones of the name, or none in particular when the
\* name was never a member.
KeysToRemove(members, name) ==
    IF Keys(members, name) # {} THEN Current(members, name) ELSE {NoKey}

\* One removal claim per key, in either order.
RemoveMember(m, name) ==
    /\ MayWrite(m) /\ Cardinality(Written(m, "removed")) < MaxRemovals[m]
    /\ name # NameOf[m]
    /\ LET members == Members(m)
           keys == KeysToRemove(members, name)
       IN  /\ Current(members, NameOf[m]) = {m}
           /\ ~IsEnded(members, name) /\ ~IsLegacyRemoved(members, name)
           /\ keys = {NoKey} => HighWater(m, name) > 0
           /\ \E place \in {f \in [keys -> 0 .. Cardinality(keys) - 1] :
                                 \A k, l \in keys : f[k] = f[l] => k = l} :
                  Append1(m, {Envelope(m, NextSequence(m) + place[k],
                                       Removal(name, k, HighWater(m, name))) : k \in keys})
    /\ UNCHANGED <<joined, floor, sponsor>>

\* The leave names its own batch as the last sequence of the window.
LeaveFleet(m) ==
    /\ m \in Leavers /\ MayWrite(m)
    /\ Append1(m, {Envelope(m, NextSequence(m), Leave(m, NextSequence(m)))})
    /\ UNCHANGED <<joined, floor, sponsor>>

(***************************************************************************)
(* Joining                                                                 *)
(***************************************************************************)
IsClaimed(m, name) == \E e \in admitted[m] : IsFleetClaim(e) /\ e.body.name = name
HasHistory(m, name) == HighWater(m, name) > 0 \/ IsClaimed(m, name)
EndedAt(members, name) ==
    LET keys == IF Keys(members, name) = {} THEN {NoKey} ELSE Keys(members, name)
    IN  Max({e.body.number : e \in
                {f \in members : Ends(f) /\ f.body.name = name /\ f.body.key \in keys}})

\* Mutant: a machine that takes over a name gets no floor.
FloorForNone(m, members, name) == 0

\* fleet_name_floor: above everything m knows of the name's earlier incarnations.
FloorFor(m, members, name) ==
    IF HasHistory(m, name) THEN Max({HighWater(m, name), EndedAt(members, name)}) ELSE 0

\* s invites a machine with an empty store and admits it.
Join(s, m) ==
    /\ s \in Sponsors /\ MayWrite(s) /\ m \notin joined
    /\ LET members == Members(s)
           start == FloorFor(s, members, NameOf[m])
       IN  /\ Current(members, NameOf[s]) = {s}
           /\ Current(members, NameOf[m]) = {}
           /\ HasHistory(s, NameOf[m]) =>
                  IsEnded(members, NameOf[m]) \/ IsLegacyRemoved(members, NameOf[m])
           /\ Append1(s, {Envelope(s, NextSequence(s), Admission(m, start))})
           /\ floor' = [floor EXCEPT ![m] = start]
    /\ joined' = joined \cup {m}
    /\ sponsor' = [sponsor EXCEPT ![m] = s]

(***************************************************************************)
(* Replication                                                             *)
(***************************************************************************)
\* Mutant: only a member that n already knows is accepted.
AcceptsKnown(n, m) == Current(Members(n), NameOf[m]) = {m}

\* The acceptance table: the sender's key is the one current key of its name, or,
\* before n knows anything of the name, one n was given when it joined.
Accepts(n, m) ==
    \E members \in {Members(n)} :
        \/ Current(members, NameOf[m]) = {m}
        \/ Keys(members, NameOf[m]) = {} /\ m \in {Anchor, sponsor[n]}

\* n stores what m holds and it does not; both ends check the other.
Receive(n, m) ==
    /\ n \in joined /\ m \in joined /\ n # m
    /\ ~(stored[m] \subseteq stored[n])
    /\ Accepts(n, m) /\ Accepts(m, n)
    /\ stored' = [stored EXCEPT ![n] = @ \cup stored[m]]
    /\ UNCHANGED <<joined, floor, sponsor, admitted>>

\* What the membership of the claims known so far does not hold back.
Admissible(pending, known) ==
    UNION {{e \in pending : ~IsHeld(counted, e)} :
               counted \in {Counted({e \in known : IsFleetClaim(e)})}}

\* The passes of admission: each by one membership, another one while a pass admitted
\* a fleet claim.
AdmittedAfter(m) ==
    LET pending == stored[m] \ admitted[m]
        after[i \in 0 .. Cardinality(pending)] ==
            IF i = 0 THEN admitted[m]
            ELSE UNION {known \cup Admissible(pending \ known, known) :
                            known \in {after[i - 1]}}
    IN  admitted[m] \cup (pending \cap after[Cardinality(pending)])

AdmitBacklog(m) ==
    /\ m \in joined
    /\ AdmittedAfter(m) # admitted[m]
    /\ admitted' = [admitted EXCEPT ![m] = AdmittedAfter(m)]
    /\ UNCHANGED <<joined, floor, sponsor, stored>>

(***************************************************************************)
(* The specification                                                       *)
(***************************************************************************)
AnchorEnvelope == Envelope(Anchor, 1, AnchorAdmission)
FoundingEnvelope(k) ==
    LET s == Founding[k][1]
    IN  Envelope(s, (IF s = Anchor THEN 1 ELSE 0)
                        + Cardinality({i \in 1 .. k : Founding[i][1] = s}),
                 Admission(Founding[k][2], 0))
FoundingLog == {AnchorEnvelope} \cup {FoundingEnvelope(k) : k \in DOMAIN Founding}
Founders == {Anchor} \cup {Founding[k][2] : k \in DOMAIN Founding}

\* The founders hold each other's admissions.
Init ==
    /\ joined = Founders
    /\ floor = [m \in Machines |-> 0]
    /\ sponsor = [m \in Machines |-> Anchor]
    /\ stored = [m \in Machines |-> IF m \in Founders THEN FoundingLog ELSE {}]
    /\ admitted = stored

\* What a daemon does by itself.
Daemon(n) == AdmitBacklog(n) \/ \E m \in Machines : Receive(n, m)

Next ==
    \E m \in Machines :
        \/ WriteNote(m)
        \/ AnnounceEndpoints(m)
        \/ \E name \in Names : RemoveMember(m, name)
        \/ LeaveFleet(m)
        \/ \E j \in Machines : Join(m, j)
        \/ Daemon(m)

Spec == Init /\ [][Next]_vars

\* A daemon exchanges with every member it accepts at least every 30 seconds and admits
\* what it received; people come as they will.
FairSpec ==
    /\ Spec
    /\ \A n \in Machines : WF_vars(AdmitBacklog(n))
    /\ \A n, m \in Machines : WF_vars(Receive(n, m))

(***************************************************************************)
(* Properties                                                              *)
(***************************************************************************)
ClaimKinds == {"anchor", "admitted", "removed", "left", "endpoints", "note"}
Claims == [kind : ClaimKinds, name : Names, key : Machines \cup {NoKey}, number : Nat]
Envelopes == [writer : Names, seq : Nat \ {0}, key : Machines, body : Claims]

\* The shape of the state: a machine admits only what it stores.
TypeOK ==
    /\ joined \subseteq Machines
    /\ floor \in [Machines -> Nat] /\ sponsor \in [Machines -> Machines]
    /\ stored \in [Machines -> SUBSET Envelopes]
    /\ admitted \in [Machines -> SUBSET Envelopes]
    /\ \A m \in Machines : admitted[m] \subseteq stored[m]

\* A machine signs one envelope per sequence, above its floor, whatever reached it under
\* its name before: next_replica_sequence never gives a number out twice.
OneEnvelopePerSequence ==
    \A n, m \in Machines : \A e \in stored[n], f \in stored[m] :
        e.key = f.key =>
            /\ e.seq > floor[e.key]
            /\ e.seq = f.seq => e = f

\* What m makes of the fleet: every incarnation with its window.
Windows(m) ==
    LET members == Members(m)
    IN  UNION {{[name |-> name, key |-> k, floor |-> Floor(members, name, k),
                 ends |-> IF EndsOf(members, name, k) = {} THEN {}
                          ELSE {Max(EndsOf(members, name, k))}] : k \in Keys(members, name)}
               : name \in Names}

\* Receipt order does not matter: two machines that hold the same envelopes, and have
\* admitted what their memberships allow, agree on the members and their windows.
SameEnvelopesSameMembers ==
    \A n, m \in joined :
        /\ stored[n] = stored[m]
        /\ AdmittedAfter(n) = admitted[n] /\ AdmittedAfter(m) = admitted[m]
        => Windows(n) = Windows(m)

\* From the moment a machine has a removal, admission lets in nothing more that the
\* removed key signed past the removal's high water.
AdmitsNothingMore ==
    [][\A m \in joined : \A e \in admitted'[m] \ admitted[m] :
          LET ends == EndsOf(Members(m), e.writer, e.key)
          IN  e.key # m /\ ends # {} => e.seq <= Max(ends)]_vars

\* The windows of one name do not overlap, except those of two keys that are both
\* current: a new incarnation's floor is at or above every earlier one's end.
WindowsDisjoint ==
    \A m \in joined : \A w, v \in Windows(m) :
        w.name = v.name /\ w.key # v.key /\ (w.ends # {} \/ v.ends # {}) =>
            \/ w.ends # {} /\ Max(w.ends) <= v.floor
            \/ v.ends # {} /\ Max(v.ends) <= w.floor

\* The machines the anchor counts as current come to see the same members and windows.
MembersAgree ==
    <>[](\A m \in joined :
            Current(Members(Anchor), NameOf[m]) = {m} => Windows(m) = Windows(Anchor))
================================================================================

------------------------------- MODULE Membership -------------------------------
(***************************************************************************)
(* The membership fold: which machines a set of fleet.* claims makes       *)
(* members, and which of a writer's sequences each of their keys signs.    *)
(*                                                                         *)
(* An envelope is [writer, seq, key, body]: the node name it is written    *)
(* under, its sequence number, the member key that signed it and the one   *)
(* claim it carries.  A machine has one member key, so the machine stands  *)
(* for its key; a machine that takes over the name of an earlier one is a  *)
(* new machine with the same name.  Of the claims that say nothing about   *)
(* who is a member, endpoints are kept, because every fleet.* claim counts *)
(* towards the fold's limit; invites are left out.                         *)
(***************************************************************************)
EXTENDS Naturals, FiniteSets, FiniteSetsExt

CONSTANTS
    Machines,  \* the machines, each with its own member key
    Names,     \* the node names
    NameOf,    \* NameOf[m]: the node name m runs under
    Anchor,    \* the machine that founded the fleet; its key is pinned everywhere
    NoKey      \* the member_key of a removal that names none

ASSUME AnchorAssumption == Anchor \in Machines /\ NoKey \notin Machines
ASSUME NamesAssumption == NameOf \in [Machines -> Names]
ASSUME MachinesAssumption == IsFiniteSet(Machines)

Claim(kind, name, key, number) ==
    [kind |-> kind, name |-> name, key |-> key, number |-> number]

\* number is the writer_floor, which an admission under an unused name lacks.
AnchorAdmission == Claim("anchor", NameOf[Anchor], Anchor, 0)
Admission(m, floor) == Claim("admitted", NameOf[m], m, floor)
Removal(name, key, highWater) == Claim("removed", name, key, highWater)
Leave(m, highWater) == Claim("left", NameOf[m], m, highWater)
Endpoints(m) == Claim("endpoints", NameOf[m], m, 0)
Note(m) == Claim("note", NameOf[m], m, 0)

IsFleetClaim(e) == e.body.kind # "note"
Admits(e) == e.body.kind \in {"anchor", "admitted"}
Ends(e) == e.body.kind \in {"removed", "left"}

(***************************************************************************)
(* Membership, from the claims that count                                  *)
(***************************************************************************)
AdmissionsOf(counted, name, key) ==
    {e \in counted : Admits(e) /\ e.body.name = name /\ e.body.key = key}
EndsOf(counted, name, key) ==
    {e.body.number : e \in {f \in counted : Ends(f) /\ f.body.name = name /\ f.body.key = key}}

\* An incarnation is a key under a name.  Its window starts past the floor of its
\* admission and ends at the highest high water a removal or leave gives it.
Keys(counted, name) == {k \in Machines : AdmissionsOf(counted, name, k) # {}}
Floor(counted, name, key) ==
    (CHOOSE e \in AdmissionsOf(counted, name, key) : TRUE).body.number

Holds(counted, name, key, seq) ==
    /\ seq > Floor(counted, name, key)
    /\ EndsOf(counted, name, key) # {} => seq <= Max(EndsOf(counted, name, key))

KeysFor(counted, name, seq) == {k \in Keys(counted, name) : Holds(counted, name, k, seq)}

\* The keys of a name that have not ended; the name is conflicted when there are two.
Current(counted, name) == {k \in Keys(counted, name) : EndsOf(counted, name, k) = {}}
IsEnded(counted, name) == Keys(counted, name) # {} /\ Current(counted, name) = {}
IsLegacyRemoved(counted, name) ==
    Keys(counted, name) = {} /\ EndsOf(counted, name, NoKey) # {}

\* Where the sequences of a writer that needs no signature stop.
LegacyEnds(counted, name) ==
    (IF EndsOf(counted, name, NoKey) = {} THEN {} ELSE {Max(EndsOf(counted, name, NoKey))})
        \cup {Floor(counted, name, k) : k \in Keys(counted, name)}

\* The window of a writer at a sequence: the keys that may sign it, or none needed,
\* or fenced.
IsKeyed(counted, name, seq) == KeysFor(counted, name, seq) # {}
IsFenced(counted, name, seq) ==
    /\ ~IsKeyed(counted, name, seq)
    /\ \E end \in LegacyEnds(counted, name) : seq > end

\* Mutant: a sequence past the end of a window needs no signature.
IsHeldPastEnd(counted, e) ==
    IsKeyed(counted, e.writer, e.seq) /\ e.key \notin KeysFor(counted, e.writer, e.seq)

\* Admission holds the envelope back, as "unsigned" or as "fenced".
IsHeld(counted, e) ==
    \/ IsKeyed(counted, e.writer, e.seq) /\ e.key \notin KeysFor(counted, e.writer, e.seq)
    \/ IsFenced(counted, e.writer, e.seq)

(***************************************************************************)
(* Which claims count                                                      *)
(***************************************************************************)
\* The anchor's own admission is the root; it counts while its window holds it.
AnchorCounts(counted, e) ==
    /\ e.body.key = Anchor /\ e.key = Anchor /\ e.body.name = e.writer
    /\ e.seq > e.body.number
    /\ AdmissionsOf(counted, e.writer, Anchor) # {} =>
           LET ends == EndsOf(counted, e.writer, Anchor)
           IN  ends # {} => e.seq <= Max(ends)

\* Mutant: a claim counts whenever its signer was ever admitted.
SignedCountsEver(counted, e) ==
    /\ e.key \in Keys(counted, e.writer)
    /\ e.body.kind \in {"endpoints", "left"} => e.body.name = e.writer /\ e.body.key = e.key
    /\ e.body.kind = "admitted" => e.body.name # e.writer

\* Any other claim counts when a member signed it inside its window; a member speaks
\* for itself about its endpoints and its leave, and admits only others.
SignedCounts(counted, e) ==
    /\ e.key \in KeysFor(counted, e.writer, e.seq)
    /\ e.body.kind \in {"endpoints", "left"} => e.body.name = e.writer /\ e.body.key = e.key
    /\ e.body.kind = "admitted" => e.body.name # e.writer

ValidClaims(claims, counted) ==
    {e \in claims : IF e.body.kind = "anchor" THEN AnchorCounts(counted, e)
                                              ELSE SignedCounts(counted, e)}

\* One round of the fold's loop: it compares what counts now with the last two answers.
Round(claims, s) ==
    LET next == ValidClaims(claims, s.current)
    IN  CASE s.stop # "running" -> s
          [] s.stop = "running" /\ next = s.current -> [s EXCEPT !.stop = "fixed"]
          [] s.stop = "running" /\ next # s.current /\ next = s.previous ->
                 [s EXCEPT !.stop = "alternates"]
          [] OTHER -> [previous |-> s.current, current |-> next, stop |-> "running"]

\* The whole loop, which gives up after `limit` rounds.  A round is taken from a singleton
\* so that TLC evaluates the one before it once.
Limit(claims) == 2 * Cardinality(claims) + 4
Rounds(claims) ==
    LET after[i \in 0 .. Limit(claims)] ==
            IF i = 0 THEN [previous |-> {}, current |-> {}, stop |-> "running"]
            ELSE CHOOSE t \in {Round(claims, s) : s \in {after[i - 1]}} : TRUE
    IN  after[Limit(claims)]

\* The claims that count: a fixed point, or what the last two rounds agree on.
Counted(claims) ==
    claims \cap UNION {IF end.stop = "fixed" THEN end.current
                       ELSE end.current \cap end.previous : end \in {Rounds(claims)}}
================================================================================

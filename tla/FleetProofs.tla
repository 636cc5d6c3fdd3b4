------------------------------- MODULE FleetProofs -------------------------------
(***************************************************************************)
(* What holds of every fleet, whatever its machines, founders and bounds:  *)
(* the state keeps its shape, and no machine signs two envelopes with one  *)
(* sequence number.  The inductive invariant says that a machine's own     *)
(* envelopes are always among those it admitted, wherever else they went,  *)
(* which is what next_replica_sequence relies on when it looks only at the *)
(* machine's own store.                                                    *)
(***************************************************************************)
EXTENDS Fleet, FiniteSetTheorems, WellFoundedInduction, TLAPS

\* A machine holds finitely many envelopes.
FiniteStores == \A m \in Machines : IsFiniteSet(stored[m])

\* Every envelope anywhere was written by a running machine under its own name, above
\* its floor, and that machine still has it admitted.
KeptByWriter ==
    \A m \in Machines : \A e \in stored[m] :
        /\ e.key \in joined
        /\ e.writer = NameOf[e.key]
        /\ e.seq > floor[e.key]
        /\ e \in admitted[e.key]

\* A machine's own envelopes have different sequences.
OwnDistinct ==
    \A m \in Machines : \A e, f \in admitted[m] :
        e.key = m /\ f.key = m /\ e.seq = f.seq => e = f

IInv == TypeOK /\ FiniteStores /\ KeptByWriter /\ OwnDistinct

(***************************************************************************)
(* Numbers taken from envelopes                                            *)
(***************************************************************************)
\* Every nonempty finite set of naturals has a greatest element.
LEMMA GreatestOfFinite ==
    ASSUME NEW S \in SUBSET Nat, S # {}, IsFiniteSet(S)
    PROVE  \E x \in S : \A y \in S : x >= y
<1> DEFINE Above(x) == {z \in S : z > x}
           All == {Above(x) : x \in S}
<1>1. All \subseteq FiniteSubsetsOf(S)
  BY FS_Subset DEF FiniteSubsetsOf
<1>2. PICK u \in All : \A v \in All : ~(<<v, u>> \in StrictSubsetOrdering(S))
  <2>1. All # {} OBVIOUS
  <2> HIDE DEF All
  <2> QED BY <1>1, <2>1, FS_StrictSubsetOrderingWellFounded, WFMin
<1>3. PICK x \in S : u = Above(x)
  OBVIOUS
<1>4. \A y \in S : x >= y
  <2> SUFFICES ASSUME NEW y \in S, y > x PROVE FALSE
    OBVIOUS
  <2>0. x \in Nat /\ y \in Nat /\ \A z \in S : z \in Nat
    OBVIOUS
  <2>1. \A z \in S : z > y => z > x
    BY <2>0
  <2>3. y > x /\ ~(y > y)
    BY <2>0
  <2>2. <<Above(y), Above(x)>> \in StrictSubsetOrdering(S)
    BY <2>1, <2>3 DEF StrictSubsetOrdering
  <2> QED BY <1>2, <1>3, <2>2
<1> QED BY <1>4

\* Max, of a finite nonempty set of numbers: writer_high_water takes one.
LEMMA MaxIsBound ==
    ASSUME NEW S \in SUBSET Nat, S # {}, IsFiniteSet(S)
    PROVE  Max(S) \in S /\ \A y \in S : Max(S) >= y
BY GreatestOfFinite DEF Max

\* The sequences of finitely many envelopes are finitely many numbers.
LEMMA SequencesFinite ==
    ASSUME NEW S \in SUBSET Envelopes, IsFiniteSet(S)
    PROVE  IsFiniteSet({e.seq : e \in S}) /\ {e.seq : e \in S} \subseteq Nat
<1> DEFINE T == {e.seq : e \in S}
           f == [e \in S |-> e.seq]
<1>1. f \in Surjection(S, T)
  BY DEF Surjection
<1>2. IsFiniteSet(T)
  BY <1>1, FS_Surjection
<1> QED BY <1>2 DEF Envelopes

\* So are the high waters they carry.
LEMMA NumbersFinite ==
    ASSUME NEW S \in SUBSET Envelopes, IsFiniteSet(S)
    PROVE  /\ IsFiniteSet({e.body.number : e \in S})
           /\ {e.body.number : e \in S} \subseteq Nat
<1> DEFINE T == {e.body.number : e \in S}
           f == [e \in S |-> e.body.number]
<1>1. f \in Surjection(S, T)
  BY DEF Surjection
<1>2. IsFiniteSet(T)
  BY <1>1, FS_Surjection
<1> QED BY <1>2 DEF Envelopes, Claims

\* The greatest of a number and finitely many others.
LEMMA MaxWith ==
    ASSUME NEW x \in Nat, NEW S \in SUBSET Nat, IsFiniteSet(S)
    PROVE  /\ Max({x} \cup S) \in Nat
           /\ \A y \in {x} \cup S : Max({x} \cup S) >= y
<1>1. {x} \cup S = S \cup {x} OBVIOUS
<1>2. IsFiniteSet({x} \cup S) BY <1>1, FS_AddElement
<1>3. {x} \cup S \in SUBSET Nat /\ {x} \cup S # {} OBVIOUS
<1> QED BY <1>2, <1>3, MaxIsBound

\* writer_high_water is a number no envelope of the writer exceeds.
LEMMA HighWaterIsBound ==
    ASSUME IInv, NEW m \in Machines, NEW name
    PROVE  HighWater(m, name) \in Nat
<1> DEFINE S == {f \in stored[m] : f.writer = name}
           T == {e.seq : e \in S}
<1>1. S \in SUBSET Envelopes /\ IsFiniteSet(S)
  BY FS_Subset DEF IInv, TypeOK, FiniteStores
<1>2. IsFiniteSet({e.seq : e \in S}) /\ {e.seq : e \in S} \subseteq Nat
  <2> HIDE DEF S
  <2> QED BY <1>1, SequencesFinite
<1>3. Max({0} \cup T) \in Nat
  <2> HIDE DEF T
  <2> QED BY <1>2, MaxWith DEF T
<1> QED BY <1>3 DEF HighWater

\* next_replica_sequence is above the floor and every envelope the machine wrote.
LEMMA NextSequenceIsNew ==
    ASSUME IInv, NEW m \in Machines
    PROVE  /\ NextSequence(m) \in Nat \ {0}
           /\ NextSequence(m) > floor[m]
           /\ \A e \in admitted[m] : e.key = m => NextSequence(m) > e.seq
<1> DEFINE S == {f \in admitted[m] : f.writer = NameOf[m]}
           T == {e.seq : e \in S}
           top == Max({floor[m]} \cup T)
<1>1. S \in SUBSET Envelopes /\ IsFiniteSet(S)
  <2>1. S \in SUBSET stored[m] BY DEF IInv, TypeOK
  <2>2. IsFiniteSet(stored[m]) BY DEF IInv, FiniteStores
  <2> QED BY <2>1, <2>2, FS_Subset DEF IInv, TypeOK
<1>2. IsFiniteSet({e.seq : e \in S}) /\ {e.seq : e \in S} \subseteq Nat
  <2> HIDE DEF S
  <2> QED BY <1>1, SequencesFinite
<1>3. floor[m] \in Nat BY DEF IInv, TypeOK
<1>4. top \in Nat /\ \A y \in {floor[m]} \cup T : top >= y
  <2>1. T \in SUBSET Nat /\ IsFiniteSet(T) BY <1>2
  <2> HIDE DEF T
  <2> QED BY <1>3, <2>1, MaxWith
<1>5. NextSequence(m) = 1 + top BY DEF NextSequence
<1>6. \A e \in admitted[m] : e.key = m => e.seq \in T
  <2> SUFFICES ASSUME NEW e \in admitted[m], e.key = m PROVE e \in S
    OBVIOUS
  <2> QED BY DEF IInv, TypeOK, KeptByWriter
<1>7. \A y \in T : y \in Nat BY <1>2
<1> HIDE DEF T, top
<1> QED BY <1>3, <1>4, <1>5, <1>6, <1>7

\* The floor of a name that can be taken over is a number.
LEMMA FloorIsNumber ==
    ASSUME IInv, NEW m \in Machines, NEW name,
           NEW members \in SUBSET admitted[m],
           HasHistory(m, name) => IsEnded(members, name) \/ IsLegacyRemoved(members, name)
    PROVE  FloorFor(m, members, name) \in Nat
<1> DEFINE keys == IF Keys(members, name) = {} THEN {NoKey} ELSE Keys(members, name)
           S == {f \in members : Ends(f) /\ f.body.name = name /\ f.body.key \in keys}
           T == {e.body.number : e \in S}
<1>1. CASE ~HasHistory(m, name)
  BY <1>1 DEF FloorFor
<1>2. CASE HasHistory(m, name)
  <2>1. S \in SUBSET Envelopes /\ IsFiniteSet(S)
    <3>1. S \in SUBSET stored[m] BY DEF IInv, TypeOK
    <3>2. IsFiniteSet(stored[m]) BY DEF IInv, FiniteStores
    <3> QED BY <3>1, <3>2, FS_Subset DEF IInv, TypeOK
  <2>2. S # {}
    <3>1. CASE IsLegacyRemoved(members, name)
      BY <3>1 DEF IsLegacyRemoved, EndsOf
    <3>2. CASE IsEnded(members, name)
      <4>1. PICK k \in Keys(members, name) : EndsOf(members, name, k) # {}
        BY <3>2 DEF IsEnded, Current
      <4>2. k \in keys BY <4>1
      <4> QED BY <4>1, <4>2 DEF EndsOf
    <3> QED BY <1>2, <3>1, <3>2
  <2>3. IsFiniteSet(T) /\ T \subseteq Nat
    <3> HIDE DEF S
    <3> QED BY <2>1, NumbersFinite
  <2>4. T # {} BY <2>2
  <2>5. Max(T) \in Nat
    <3> HIDE DEF T
    <3> QED BY <2>3, <2>4, MaxIsBound
  <2>6. EndedAt(members, name) = Max(T) BY DEF EndedAt
  <2>7. HighWater(m, name) \in Nat BY HighWaterIsBound
  <2> DEFINE P == {HighWater(m, name), EndedAt(members, name)}
  <2>8. P \in SUBSET Nat /\ P # {} BY <2>5, <2>6, <2>7
  <2>9. IsFiniteSet(P)
    <3>1. P = {HighWater(m, name)} \cup {EndedAt(members, name)} OBVIOUS
    <3> HIDE DEF P
    <3> QED BY <3>1, FS_Singleton, FS_Union
  <2>10. Max(P) \in Nat
    <3> HIDE DEF P
    <3> QED BY <2>8, <2>9, MaxIsBound
  <2> QED BY <1>2, <2>10 DEF FloorFor
<1> QED BY <1>1, <1>2

(***************************************************************************)
(* Steps                                                                   *)
(***************************************************************************)
\* Writing: new envelopes of m's own, numbered from the next sequence on, while machines
\* may join and those that run keep their floors.
LEMMA AppendKeeps ==
    ASSUME IInv, NEW m \in joined,
           NEW E \in SUBSET Envelopes, IsFiniteSet(E),
           \A e \in E : /\ e.key = m /\ e.writer = NameOf[m]
                        /\ e.seq >= NextSequence(m),
           \A e, f \in E : e.seq = f.seq => e = f,
           Append1(m, E),
           joined \subseteq joined', joined' \subseteq Machines,
           floor' \in [Machines -> Nat], sponsor' \in [Machines -> Machines],
           \A k \in joined : floor'[k] = floor[k]
    PROVE  IInv'
<1>0. m \in Machines BY DEF IInv, TypeOK
<1>1. /\ NextSequence(m) \in Nat \ {0}
      /\ NextSequence(m) > floor[m]
      /\ \A e \in admitted[m] : e.key = m => NextSequence(m) > e.seq
  BY <1>0, NextSequenceIsNew
<1>2. /\ stored' = [stored EXCEPT ![m] = stored[m] \cup E]
      /\ admitted' = [admitted EXCEPT ![m] = admitted[m] \cup E]
  BY DEF Append1
<1>3. \A e \in E : e.seq \in Nat BY DEF Envelopes
<1>4. TypeOK'
  BY <1>0, <1>2 DEF IInv, TypeOK
<1>5. FiniteStores'
  <2> SUFFICES ASSUME NEW n \in Machines PROVE IsFiniteSet(stored'[n])
    BY DEF FiniteStores
  <2>1. IsFiniteSet(stored[n]) /\ IsFiniteSet(stored[n] \cup E)
    BY FS_Union DEF IInv, FiniteStores
  <2> QED BY <1>0, <1>2, <2>1 DEF IInv, TypeOK
<1>6. KeptByWriter'
  <2> SUFFICES ASSUME NEW n \in Machines, NEW e \in stored'[n]
               PROVE  /\ e.key \in joined' /\ e.writer = NameOf[e.key]
                      /\ e.seq > floor'[e.key] /\ e \in admitted'[e.key]
    BY DEF KeptByWriter
  <2>1. CASE e \in E
    <3>1. e.seq > floor[m]
      BY <1>0, <1>1, <1>3, <2>1 DEF IInv, TypeOK
    <3> QED BY <1>0, <1>2, <2>1, <3>1 DEF IInv, TypeOK
  <2>2. CASE e \in stored[n]
    BY <1>0, <1>2, <2>2 DEF IInv, TypeOK, KeptByWriter
  <2> QED BY <1>0, <1>2, <2>1, <2>2 DEF IInv, TypeOK
<1>7. OwnDistinct'
  <2> SUFFICES ASSUME NEW n \in Machines, NEW e \in admitted'[n], NEW f \in admitted'[n],
                      e.key = n, f.key = n, e.seq = f.seq
               PROVE  e = f
    BY DEF OwnDistinct
  <2>1. CASE n # m
    BY <1>0, <1>2, <2>1 DEF IInv, TypeOK, OwnDistinct
  <2>2. CASE n = m
    <3>1. admitted'[m] = admitted[m] \cup E
      BY <1>0, <1>2 DEF IInv, TypeOK
    <3>2. \A g \in admitted[m] : g.key = m => g.seq \in Nat
      BY <1>0 DEF IInv, TypeOK, Envelopes
    <3>3. \A g \in admitted[m], h \in E : g.key = m => g.seq # h.seq
      BY <1>1, <1>3, <3>2
    <3> QED BY <1>0, <2>2, <3>1, <3>3 DEF IInv, OwnDistinct
  <2> QED BY <2>1, <2>2
<1> QED BY <1>4, <1>5, <1>6, <1>7 DEF IInv

\* One envelope of m's own.
LEMMA OneEnvelope ==
    ASSUME IInv, NEW m \in joined, NEW body \in Claims
    PROVE  LET E == {Envelope(m, NextSequence(m), body)}
           IN  /\ E \in SUBSET Envelopes /\ IsFiniteSet(E)
               /\ \A e \in E : /\ e.key = m /\ e.writer = NameOf[m]
                              /\ e.seq >= NextSequence(m)
               /\ \A e, f \in E : e.seq = f.seq => e = f
<1>1. m \in Machines BY DEF IInv, TypeOK
<1>2. NextSequence(m) \in Nat \ {0} BY <1>1, NextSequenceIsNew
<1>3. NameOf[m] \in Names BY <1>1, NamesAssumption
<1>4. Envelope(m, NextSequence(m), body) \in Envelopes
  BY <1>1, <1>2, <1>3 DEF Envelope, Envelopes
<1> DEFINE x == Envelope(m, NextSequence(m), body)
<1>5. x.key = m /\ x.writer = NameOf[m] /\ x.seq = NextSequence(m)
  BY DEF Envelope
<1>6. IsFiniteSet({x}) BY FS_Singleton
<1>7. NextSequence(m) >= NextSequence(m) BY <1>2
<1> HIDE DEF x
<1> QED BY <1>4, <1>5, <1>6, <1>7 DEF x

\* Notes, endpoints and leaves.
LEMMA WritingKeeps ==
    ASSUME IInv, NEW m \in Machines,
           WriteNote(m) \/ AnnounceEndpoints(m) \/ LeaveFleet(m)
    PROVE  IInv'
<1>1. m \in joined BY DEF WriteNote, AnnounceEndpoints, LeaveFleet, MayWrite
<1>2. NextSequence(m) \in Nat BY NextSequenceIsNew
<1>3. NameOf[m] \in Names BY NamesAssumption
<1>4. /\ Note(m) \in Claims /\ Endpoints(m) \in Claims
      /\ Leave(m, NextSequence(m)) \in Claims
  BY <1>2, <1>3 DEF Note, Endpoints, Leave, Claim, Claims, ClaimKinds
<1>5. PICK body \in Claims : Append1(m, {Envelope(m, NextSequence(m), body)})
  BY <1>4 DEF WriteNote, AnnounceEndpoints, LeaveFleet
<1>6. UNCHANGED <<joined, floor, sponsor>>
  BY DEF WriteNote, AnnounceEndpoints, LeaveFleet
<1>7. /\ joined \subseteq joined' /\ joined' \subseteq Machines
      /\ floor' \in [Machines -> Nat] /\ sponsor' \in [Machines -> Machines]
      /\ \A k \in joined : floor'[k] = floor[k]
  BY <1>6 DEF IInv, TypeOK
<1> DEFINE E == {Envelope(m, NextSequence(m), body)}
<1>8. /\ E \in SUBSET Envelopes /\ IsFiniteSet(E)
      /\ \A e \in E : e.key = m /\ e.writer = NameOf[m] /\ e.seq >= NextSequence(m)
      /\ \A e, f \in E : e.seq = f.seq => e = f
  BY <1>1, OneEnvelope
<1>9. Append1(m, E) BY <1>5
<1> HIDE DEF E
<1> QED BY <1>1, <1>7, <1>8, <1>9, AppendKeeps

\* A removal numbers its claims one after the other.
LEMMA RemovingKeeps ==
    ASSUME IInv, NEW m \in Machines, NEW name \in Names, RemoveMember(m, name)
    PROVE  IInv'
<1>1. m \in joined BY DEF RemoveMember, MayWrite
<1> DEFINE keys == KeysToRemove(Members(m), name)
<1>2. PICK place \in [keys -> 0 .. Cardinality(keys) - 1] :
          /\ \A k, l \in keys : place[k] = place[l] => k = l
          /\ Append1(m, {Envelope(m, NextSequence(m) + place[k],
                                  Removal(name, k, HighWater(m, name))) : k \in keys})
  BY DEF RemoveMember
<1> DEFINE Op(k) == Envelope(m, NextSequence(m) + place[k],
                             Removal(name, k, HighWater(m, name)))
           E == {Op(k) : k \in keys}
<1>3. keys \subseteq Machines \cup {NoKey}
  BY DEF KeysToRemove, Current, Keys
<1>4. IsFiniteSet(keys)
  <2>1. IsFiniteSet(Machines \cup {NoKey}) BY MachinesAssumption, FS_AddElement
  <2> HIDE DEF keys
  <2> QED BY <1>3, <2>1, FS_Subset
<1>5. \A k \in keys : place[k] \in Nat
  <2> HIDE DEF keys
  <2>1. Cardinality(keys) \in Nat BY <1>4, FS_CardinalityType
  <2> QED BY <2>1
<1>6. NextSequence(m) \in Nat \ {0} /\ HighWater(m, name) \in Nat
  BY NextSequenceIsNew, HighWaterIsBound
<1> HIDE DEF keys
<1>7. \A k \in keys : /\ Op(k) \in Envelopes
                      /\ Op(k).key = m /\ Op(k).writer = NameOf[m]
                      /\ Op(k).seq = NextSequence(m) + place[k]
  BY <1>3, <1>5, <1>6, NamesAssumption
     DEF Envelope, Envelopes, Removal, Claim, Claims, ClaimKinds
<1>8. IsFiniteSet(E)
  <2> DEFINE g == [k \in keys |-> Op(k)]
  <2>1. g \in Surjection(keys, E) BY DEF Surjection
  <2> QED BY <1>4, <2>1, FS_Surjection
<1>9. \A k, l \in keys : Op(k).seq = Op(l).seq => k = l
  <2> HIDE DEF Op
  <2> QED BY <1>2, <1>5, <1>6, <1>7
<1>10. Append1(m, E) BY <1>2
<1> HIDE DEF Op
<1>11. /\ E \in SUBSET Envelopes
       /\ \A e \in E : e.key = m /\ e.writer = NameOf[m] /\ e.seq >= NextSequence(m)
       /\ \A e, f \in E : e.seq = f.seq => e = f
  BY <1>5, <1>6, <1>7, <1>9
<1>12. /\ joined \subseteq joined' /\ joined' \subseteq Machines
       /\ floor' \in [Machines -> Nat] /\ sponsor' \in [Machines -> Machines]
       /\ \A k \in joined : floor'[k] = floor[k]
  BY DEF RemoveMember, IInv, TypeOK
<1> HIDE DEF E
<1> QED BY <1>1, <1>8, <1>10, <1>11, <1>12, AppendKeeps


\* A join: the sponsor's admission of the machine, and the machine's floor.
LEMMA JoiningKeeps ==
    ASSUME IInv, NEW s \in Machines, NEW m \in Machines, Join(s, m)
    PROVE  IInv'
<1> DEFINE start == FloorFor(s, Members(s), NameOf[m])
<1>1. s \in joined /\ m \notin joined BY DEF Join, MayWrite
<1>2. Members(s) \in SUBSET admitted[s]
  BY DEF Members, Counted
<1>3. HasHistory(s, NameOf[m]) =>
          IsEnded(Members(s), NameOf[m]) \/ IsLegacyRemoved(Members(s), NameOf[m])
  BY DEF Join
<1>4. start \in Nat
  BY <1>2, <1>3, FloorIsNumber
<1>5. /\ Append1(s, {Envelope(s, NextSequence(s), Admission(m, start))})
      /\ floor' = [floor EXCEPT ![m] = start]
      /\ joined' = joined \cup {m}
      /\ sponsor' = [sponsor EXCEPT ![m] = s]
  BY DEF Join
<1> HIDE DEF start
<1>6. Admission(m, start) \in Claims
  BY <1>4, NamesAssumption DEF Admission, Claim, Claims, ClaimKinds
<1> DEFINE E == {Envelope(s, NextSequence(s), Admission(m, start))}
<1>7. /\ E \in SUBSET Envelopes /\ IsFiniteSet(E)
      /\ \A e \in E : e.key = s /\ e.writer = NameOf[s] /\ e.seq >= NextSequence(s)
      /\ \A e, f \in E : e.seq = f.seq => e = f
  BY <1>1, <1>6, OneEnvelope
<1>8. /\ joined \subseteq joined' /\ joined' \subseteq Machines
      /\ floor' \in [Machines -> Nat] /\ sponsor' \in [Machines -> Machines]
      /\ \A k \in joined : floor'[k] = floor[k]
  BY <1>1, <1>4, <1>5 DEF IInv, TypeOK
<1>9. Append1(s, E) BY <1>5
<1> HIDE DEF E
<1> QED BY <1>1, <1>7, <1>8, <1>9, AppendKeeps

\* An exchange copies envelopes and admits none.
LEMMA ReceivingKeeps ==
    ASSUME IInv, NEW n \in Machines, NEW m \in Machines, Receive(n, m)
    PROVE  IInv'
<1>1. /\ stored' = [stored EXCEPT ![n] = stored[n] \cup stored[m]]
      /\ UNCHANGED <<joined, floor, sponsor, admitted>>
  BY DEF Receive
<1>2. TypeOK' BY <1>1 DEF IInv, TypeOK
<1>3. FiniteStores'
  <2> SUFFICES ASSUME NEW k \in Machines PROVE IsFiniteSet(stored'[k])
    BY DEF FiniteStores
  <2>1. IsFiniteSet(stored[k]) /\ IsFiniteSet(stored[n] \cup stored[m])
    BY FS_Union DEF IInv, FiniteStores
  <2> QED BY <1>1, <2>1 DEF IInv, TypeOK
<1>4. KeptByWriter'
  BY <1>1 DEF IInv, TypeOK, KeptByWriter
<1>5. OwnDistinct' BY <1>1 DEF IInv, OwnDistinct
<1> QED BY <1>2, <1>3, <1>4, <1>5 DEF IInv

\* Admission lets in stored envelopes; a machine's own are in already.
LEMMA AdmittingKeeps ==
    ASSUME IInv, NEW m \in Machines, AdmitBacklog(m)
    PROVE  IInv'
<1>1. PICK A \in SUBSET stored[m] :
          admitted' = [admitted EXCEPT ![m] = admitted[m] \cup A]
  <2>1. PICK X : AdmittedAfter(m) = admitted[m] \cup ((stored[m] \ admitted[m]) \cap X)
    BY DEF AdmittedAfter
  <2> QED BY <2>1 DEF AdmitBacklog
<1>2. UNCHANGED <<joined, floor, sponsor, stored>> BY DEF AdmitBacklog
<1>3. TypeOK' BY <1>1, <1>2 DEF IInv, TypeOK
<1>4. FiniteStores' BY <1>2 DEF IInv, FiniteStores
<1>5. KeptByWriter'
  BY <1>1, <1>2 DEF IInv, TypeOK, KeptByWriter
<1>6. OwnDistinct'
  <2>1. \A k \in Machines : \A e \in admitted'[k] : e.key = k => e \in admitted[k]
    BY <1>1 DEF IInv, TypeOK, KeptByWriter
  <2> QED BY <2>1 DEF IInv, OwnDistinct
<1> QED BY <1>3, <1>4, <1>5, <1>6 DEF IInv

(***************************************************************************)
(* The founding                                                            *)
(***************************************************************************)
\* A sponsor's founding admissions have different sequences above the anchor's own.
LEMMA FoundingIsGood ==
    /\ FoundingLog \in SUBSET Envelopes /\ IsFiniteSet(FoundingLog)
    /\ Founders \subseteq Machines
    /\ \A e \in FoundingLog : e.key \in Founders /\ e.writer = NameOf[e.key]
    /\ \A e, f \in FoundingLog : e.key = f.key /\ e.seq = f.seq => e = f
<1> DEFINE By(k) == {i \in 1 .. k : Founding[i][1] = Founding[k][1]}
           first(k) == IF Founding[k][1] = Anchor THEN 1 ELSE 0
<1>1. /\ Founding \in Seq(Machines \X Machines)
      /\ Len(Founding) \in Nat /\ DOMAIN Founding = 1 .. Len(Founding)
      /\ \A k \in DOMAIN Founding : Founding[k][1] \in Machines /\ Founding[k][2] \in Machines
  BY FoundingAssumption
<1>2. Founders \subseteq Machines
  BY <1>1, AnchorAssumption DEF Founders
<1>3. \A k \in DOMAIN Founding : Founding[k][1] \in Founders
  <2> SUFFICES ASSUME NEW k \in DOMAIN Founding PROVE Founding[k][1] \in Founders
    OBVIOUS
  <2>1. \A i \in 1 .. k - 1 : i \in DOMAIN Founding BY <1>1
  <2> QED BY <2>1, FoundingAssumption DEF Founders
<1>4. \A k \in DOMAIN Founding :
          IsFiniteSet(By(k)) /\ Cardinality(By(k)) \in Nat \ {0}
  <2> SUFFICES ASSUME NEW k \in DOMAIN Founding
               PROVE  IsFiniteSet(By(k)) /\ Cardinality(By(k)) \in Nat \ {0}
    OBVIOUS
  <2>1. IsFiniteSet(1 .. k) BY <1>1, FS_Interval, 1 \in Int, k \in Int
  <2>2. IsFiniteSet(By(k)) BY <2>1, FS_Subset
  <2>3. k \in By(k) BY <1>1
  <2>4. By(k) # {} BY <2>3
  <2> HIDE DEF By
  <2> QED BY <2>2, <2>4, FS_CardinalityType, FS_EmptySet
<1>5. ASSUME NEW k \in DOMAIN Founding, NEW l \in DOMAIN Founding,
             Founding[k][1] = Founding[l][1], Cardinality(By(k)) = Cardinality(By(l)), k < l
      PROVE  FALSE
  <2>1. By(k) \in SUBSET By(l) BY <1>1, <1>5
  <2>2. l \in By(l) /\ l \notin By(k) BY <1>1, <1>5
  <2>3. IsFiniteSet(By(l)) BY <1>4
  <2>4. By(l) = By(k)
    <3> HIDE DEF By
    <3> QED BY <1>5, <2>1, <2>3, FS_Subset
  <2> QED BY <2>2, <2>4
<1>6. \A k \in DOMAIN Founding :
          FoundingEnvelope(k) = Envelope(Founding[k][1], first(k) + Cardinality(By(k)),
                                         Admission(Founding[k][2], 0))
  BY DEF FoundingEnvelope
<1>7. \A k \in DOMAIN Founding :
          /\ FoundingEnvelope(k) \in Envelopes
          /\ FoundingEnvelope(k).key = Founding[k][1]
          /\ FoundingEnvelope(k).writer = NameOf[Founding[k][1]]
          /\ FoundingEnvelope(k).seq = first(k) + Cardinality(By(k))
  <2> SUFFICES ASSUME NEW k \in DOMAIN Founding
               PROVE  /\ FoundingEnvelope(k) \in Envelopes
                      /\ FoundingEnvelope(k).key = Founding[k][1]
                      /\ FoundingEnvelope(k).writer = NameOf[Founding[k][1]]
                      /\ FoundingEnvelope(k).seq = first(k) + Cardinality(By(k))
    OBVIOUS
  <2>1. first(k) \in Nat OBVIOUS
  <2>2. Cardinality(By(k)) \in Nat \ {0} BY <1>4
  <2>3. first(k) + Cardinality(By(k)) \in Nat \ {0} BY <2>1, <2>2
  <2>4. Admission(Founding[k][2], 0) \in Claims
    BY <1>1, NamesAssumption DEF Admission, Claim, Claims, ClaimKinds
  <2> HIDE DEF first, By
  <2> QED BY <1>1, <1>6, <2>3, <2>4, NamesAssumption DEF Envelope, Envelopes
<1>8. /\ AnchorEnvelope \in Envelopes /\ AnchorEnvelope.key = Anchor
      /\ AnchorEnvelope.writer = NameOf[Anchor] /\ AnchorEnvelope.seq = 1
  BY AnchorAssumption, NamesAssumption
     DEF AnchorEnvelope, Envelope, Envelopes, AnchorAdmission, Claim, Claims, ClaimKinds
<1> DEFINE L == {FoundingEnvelope(k) : k \in DOMAIN Founding}
<1>9. IsFiniteSet(L)
  <2>1. IsFiniteSet(DOMAIN Founding) BY <1>1, FS_Interval, 1 \in Int, Len(Founding) \in Int
  <2> DEFINE g == [k \in DOMAIN Founding |-> FoundingEnvelope(k)]
  <2>2. g \in Surjection(DOMAIN Founding, L) BY DEF Surjection
  <2> QED BY <2>1, <2>2, FS_Surjection
<1>10. FoundingLog = L \cup {AnchorEnvelope} BY DEF FoundingLog
<1>11. IsFiniteSet(FoundingLog) BY <1>9, <1>10, FS_AddElement
<1>12. FoundingLog \in SUBSET Envelopes BY <1>7, <1>8, <1>10
<1>13. \A e \in FoundingLog : e.key \in Founders /\ e.writer = NameOf[e.key]
  <2>1. Anchor \in Founders BY DEF Founders
  <2>2. \A k \in DOMAIN Founding :
            /\ FoundingEnvelope(k).key \in Founders
            /\ FoundingEnvelope(k).writer = NameOf[FoundingEnvelope(k).key]
    BY <1>3, <1>7
  <2> QED BY <1>8, <1>10, <2>1, <2>2
<1>14. ASSUME NEW k \in DOMAIN Founding, NEW l \in DOMAIN Founding,
              Founding[k][1] = Founding[l][1],
              FoundingEnvelope(k).seq = FoundingEnvelope(l).seq
       PROVE  k = l
  <2>1. first(k) = first(l) /\ first(k) \in Nat BY <1>14
  <2>2. Cardinality(By(k)) \in Nat /\ Cardinality(By(l)) \in Nat BY <1>4
  <2>3. first(k) + Cardinality(By(k)) = first(l) + Cardinality(By(l)) BY <1>7, <1>14
  <2>4. Cardinality(By(k)) = Cardinality(By(l))
    <3> HIDE DEF first, By
    <3> QED BY <2>1, <2>2, <2>3
  <2>5. k \in Nat /\ l \in Nat BY <1>1
  <2>6. ~(k < l) /\ ~(l < k)
    <3> HIDE DEF By
    <3> QED BY <1>5, <1>14, <2>4
  <2> QED BY <2>5, <2>6
<1>15. \A k \in DOMAIN Founding : Founding[k][1] = Anchor => FoundingEnvelope(k).seq # 1
  <2> SUFFICES ASSUME NEW k \in DOMAIN Founding, Founding[k][1] = Anchor
               PROVE  FoundingEnvelope(k).seq # 1
    OBVIOUS
  <2>1. first(k) = 1 OBVIOUS
  <2>2. Cardinality(By(k)) \in Nat \ {0} BY <1>4
  <2> HIDE DEF first, By
  <2> QED BY <1>7, <2>1, <2>2
<1>16. \A e, f \in FoundingLog : e.key = f.key /\ e.seq = f.seq => e = f
  <2> SUFFICES ASSUME NEW e \in FoundingLog, NEW f \in FoundingLog,
                      e.key = f.key, e.seq = f.seq
               PROVE  e = f
    OBVIOUS
  <2>1. CASE e \in L /\ f \in L
    <3>1. PICK k \in DOMAIN Founding : e = FoundingEnvelope(k) BY <2>1
    <3>2. PICK l \in DOMAIN Founding : f = FoundingEnvelope(l) BY <2>1
    <3>3. Founding[k][1] = Founding[l][1] BY <1>7, <3>1, <3>2
    <3>4. k = l BY <1>14, <3>1, <3>2, <3>3
    <3> QED BY <3>1, <3>2, <3>4
  <2>2. CASE e \in L /\ f = AnchorEnvelope BY <1>7, <1>8, <1>15, <2>2
  <2>3. CASE e = AnchorEnvelope /\ f \in L BY <1>7, <1>8, <1>15, <2>3
  <2>4. CASE e = AnchorEnvelope /\ f = AnchorEnvelope BY <2>4
  <2> QED BY <1>10, <2>1, <2>2, <2>3, <2>4
<1> QED BY <1>2, <1>11, <1>12, <1>13, <1>16

\* A founded fleet satisfies the invariant.
LEMMA InitIsGood == Init => IInv
<1> SUFFICES ASSUME Init PROVE IInv
  OBVIOUS
<1>1. \A m \in Machines :
          stored[m] = (IF m \in Founders THEN FoundingLog ELSE {}) /\ admitted[m] = stored[m]
  BY DEF Init
<1>2. TypeOK
  <2>1. stored \in [Machines -> SUBSET Envelopes]
    BY FoundingIsGood DEF Init
  <2> QED BY <2>1, FoundingIsGood, AnchorAssumption DEF Init, TypeOK
<1>3. FiniteStores
  BY <1>1, FoundingIsGood, FS_EmptySet DEF FiniteStores
<1>4. KeptByWriter
  <2> SUFFICES ASSUME NEW m \in Machines, NEW e \in stored[m]
               PROVE  /\ e.key \in joined /\ e.writer = NameOf[e.key]
                      /\ e.seq > floor[e.key] /\ e \in admitted[e.key]
    BY DEF KeptByWriter
  <2>1. e \in FoundingLog BY <1>1
  <2>2. e.key \in Founders /\ e.key \in Machines /\ e.writer = NameOf[e.key]
    BY <2>1, FoundingIsGood
  <2>3. e.seq \in Nat \ {0} BY <2>1, FoundingIsGood DEF Envelopes
  <2>4. floor[e.key] = 0 BY <2>2 DEF Init
  <2> QED BY <1>1, <2>1, <2>2, <2>3, <2>4 DEF Init
<1>5. OwnDistinct
  BY <1>1, FoundingIsGood DEF OwnDistinct
<1> QED BY <1>2, <1>3, <1>4, <1>5 DEF IInv

(***************************************************************************)
(* Theorems                                                                *)
(***************************************************************************)
\* The invariant is inductive: founding establishes it and every step keeps it.
THEOREM FleetInvariance == Spec => []IInv
<1>1. IInv /\ [Next]_vars => IInv'
  <2> SUFFICES ASSUME IInv, [Next]_vars PROVE IInv'
    OBVIOUS
  <2>1. CASE UNCHANGED vars
    BY <2>1 DEF vars, IInv, TypeOK, FiniteStores, KeptByWriter, OwnDistinct
  <2>2. ASSUME NEW m \in Machines, WriteNote(m) \/ AnnounceEndpoints(m) \/ LeaveFleet(m)
        PROVE  IInv'
    BY <2>2, WritingKeeps
  <2>3. ASSUME NEW m \in Machines, NEW name \in Names, RemoveMember(m, name)
        PROVE  IInv'
    BY <2>3, RemovingKeeps
  <2>4. ASSUME NEW m \in Machines, NEW j \in Machines, Join(m, j)
        PROVE  IInv'
    BY <2>4, JoiningKeeps
  <2>5. ASSUME NEW m \in Machines, Daemon(m)
        PROVE  IInv'
    BY <2>5, ReceivingKeeps, AdmittingKeeps DEF Daemon
  <2> QED BY <2>1, <2>2, <2>3, <2>4, <2>5 DEF Next
<1> QED BY InitIsGood, <1>1, PTL DEF Spec

\* The state of every fleet has its shape: in particular the floor a sponsor computes from
\* the ends of earlier windows is a number, and what is admitted is stored.
THEOREM FleetTypeCorrect == Spec => []TypeOK
<1>1. IInv => TypeOK BY DEF IInv
<1> QED BY <1>1, FleetInvariance, PTL

\* next_replica_sequence never gives out a number twice, nor one at or below the floor.
THEOREM SequencesAreNeverReused == Spec => []OneEnvelopePerSequence
<1>1. IInv => OneEnvelopePerSequence
  <2> SUFFICES ASSUME IInv, NEW n \in Machines, NEW m \in Machines,
                      NEW e \in stored[n], NEW f \in stored[m], e.key = f.key
               PROVE  e.seq > floor[e.key] /\ (e.seq = f.seq => e = f)
    BY DEF OneEnvelopePerSequence
  <2>1. e \in admitted[e.key] /\ f \in admitted[e.key] /\ e.seq > floor[e.key]
    BY DEF IInv, KeptByWriter
  <2>2. e.key \in Machines BY DEF IInv, TypeOK, KeptByWriter
  <2> QED BY <2>1, <2>2 DEF IInv, OwnDistinct
<1> QED BY <1>1, FleetInvariance, PTL

================================================================================

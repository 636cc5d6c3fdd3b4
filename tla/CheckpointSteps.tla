---------------------------- MODULE CheckpointSteps ----------------------------
(***************************************************************************)
(* The inductive invariant of CheckpointTrim, and what the steps that only *)
(* append a claim, only move a pass or only delete a row do to it.         *)
(***************************************************************************)
EXTENDS CheckpointTrim, FiniteSetTheorems, WellFoundedInduction, SequenceTheorems, TLAPS

(***************************************************************************)
(* The inductive invariant                                                 *)
(***************************************************************************)
\* A tombstone stands for an observation, and its writer wrote on after it.
TombstonesReplaced ==
    \A n \in Nodes : \A i \in DOMAIN tomb[n] :
        Body(i).kind = "observed" /\ i[2] < Len(log[i[1]])

\* A node reads every verification of its own.
OwnVerificationsAdmitted ==
    \A n \in Nodes : \A s \in DOMAIN log[n] :
        log[n][s].body.kind = "verified" => <<n, s>> \in admitted[n]

VerifiedOnce ==
    \A n \in Nodes : \A s, t \in DOMAIN log[n] :
        /\ log[n][s].body.kind = "verified" /\ log[n][t].body.kind = "verified"
        /\ log[n][s].body.cut = log[n][t].body.cut
        => s = t

\* A pass that verifies a cut is the first of its node to do so.
VerifyStages == {"verify", "proved", "verified"}
FirstToVerify ==
    \A n \in Nodes : pass[n].stage \in VerifyStages =>
        \A s \in DOMAIN log[n] :
            log[n][s].body.kind = "verified" => log[n][s].body.cut # pass[n].cut

BusyWithCut ==
    \A n \in Nodes : /\ pass[n].stage # "idle" => pass[n].cut \in Cuts
                     /\ sync[n].stage # "idle" => sync[n].cut \in Cuts

\* The row that is the floor is there before the claim that promises it.
FloorFirst ==
    \A n \in Nodes :
        /\ pass[n].stage \in {"sealed", "verified"} => row[n][pass[n].cut].state # "none"
        /\ \A s \in DOMAIN log[n] : log[n][s].body.kind \in {"sealed", "verified"} =>
              row[n][log[n][s].body.cut].state # "none"

IInv ==
    /\ TypeOK /\ TombstonesReplaced /\ OwnNewestStored /\ OwnVerificationsAdmitted
    /\ VerifiedOnce /\ FirstToVerify /\ BusyWithCut /\ FloorFirst
    /\ WritesInOrder /\ SealedFloor

(***************************************************************************)
(* Least and greatest numbers                                              *)
(***************************************************************************)
\* Every nonempty set of naturals has a least element.
LEMMA LeastNatural ==
    ASSUME NEW S \in SUBSET Nat, S # {}
    PROVE  \E x \in S : \A y \in S : x <= y
<1> DEFINE Upto == {0 .. x : x \in S}
<1>1. Upto \subseteq FiniteSubsetsOf(Nat)
  <2> SUFFICES ASSUME NEW x \in S PROVE 0 .. x \in FiniteSubsetsOf(Nat)
    OBVIOUS
  <2>1. IsFiniteSet(0 .. x)
    BY FS_Interval, 0 \in Int, x \in Int
  <2> QED BY <2>1 DEF FiniteSubsetsOf
<1>2. PICK u \in Upto : \A v \in Upto : ~(<<v, u>> \in StrictSubsetOrdering(Nat))
  <2>1. Upto # {} OBVIOUS
  <2> HIDE DEF Upto
  <2> QED BY <1>1, <2>1, FS_StrictSubsetOrderingWellFounded, WFMin
<1>3. PICK x \in S : u = 0 .. x
  OBVIOUS
<1>4. \A y \in S : x <= y
  <2> SUFFICES ASSUME NEW y \in S, ~(x <= y) PROVE FALSE
    OBVIOUS
  <2>1. 0 .. y \in SUBSET Nat /\ 0 .. x \in SUBSET Nat /\ 0 .. y \subseteq 0 .. x
    OBVIOUS
  <2>2. x \in 0 .. x /\ x \notin 0 .. y
    OBVIOUS
  <2>3. <<0 .. y, 0 .. x>> \in StrictSubsetOrdering(Nat)
    BY <2>1, <2>2 DEF StrictSubsetOrdering
  <2> QED BY <1>2, <1>3, <2>3
<1> QED BY <1>4

\* Every nonempty finite set of naturals has a greatest element.
LEMMA GreatestOfFinite ==
    ASSUME NEW S \in SUBSET Nat, S # {}, IsFiniteSet(S)
    PROVE  \E x \in S : \A y \in S : x >= y
<1> DEFINE Above(x) == {z \in S : z > x}
           All == {Above(x) : x \in S}
<1>1. All \subseteq FiniteSubsetsOf(S)
  BY FS_Subset DEF FiniteSubsetsOf
<1>2. PICK u \in All : \A v \in All : ~(<<v, u>> \in StrictSubsetOrdering(S))
  <2>1. All # {} OBVIOUS
  <2> HIDE DEF All
  <2> QED BY <1>1, <2>1, FS_StrictSubsetOrderingWellFounded, WFMin
<1>3. PICK x \in S : u = Above(x)
  OBVIOUS
<1>4. \A y \in S : x >= y
  <2> SUFFICES ASSUME NEW y \in S, y > x PROVE FALSE
    OBVIOUS
  <2>0. x \in Nat /\ y \in Nat /\ \A z \in S : z \in Nat
    OBVIOUS
  <2>1. \A z \in S : z > y => z > x
    BY <2>0
  <2>3. y > x /\ ~(y > y)
    BY <2>0
  <2>2. <<Above(y), Above(x)>> \in StrictSubsetOrdering(S)
    BY <2>1, <2>3 DEF StrictSubsetOrdering
  <2> QED BY <1>2, <1>3, <2>2
<1> QED BY <1>4

\* Max, of a finite nonempty set of numbers: write_time takes one.
LEMMA MaxIsBound ==
    ASSUME NEW S \in SUBSET Nat, S # {}, IsFiniteSet(S)
    PROVE  Max(S) \in S /\ \A y \in S : Max(S) >= y
BY GreatestOfFinite DEF Max

\* Min, of any nonempty set of numbers: the first interrupted cut is one.
LEMMA MinIsBound ==
    ASSUME NEW S \in SUBSET Nat, S # {}
    PROVE  Min(S) \in S /\ \A y \in S : Min(S) <= y
BY LeastNatural DEF Min

(***************************************************************************)
(* Facts about the operators                                               *)
(***************************************************************************)
\* LeastId returns a member of any nonempty set of identities: numbers of writers and
\* sequence numbers have least elements.
LEMMA LeastIdIsIn ==
    ASSUME NEW S \in SUBSET Ids, S # {}
    PROVE  LeastId(S) \in S /\ \A j \in S \ {LeastId(S)} : IdBefore(LeastId(S), j)
<1> DEFINE Writers == {i[1] : i \in S}
<1>1. Writers \subseteq Nat /\ Writers # {}
  BY NodesAssumption DEF Ids
<1>2. PICK w \in Writers : \A v \in Writers : w <= v
  <2> HIDE DEF Writers
  <2> QED BY <1>1, LeastNatural
<1> DEFINE Sequences == {i[2] : i \in {j \in S : j[1] = w}}
<1>3. Sequences \subseteq Nat /\ Sequences # {}
  BY DEF Ids
<1>4. PICK s \in Sequences : \A v \in Sequences : s <= v
  <2> HIDE DEF Sequences
  <2> QED BY <1>3, LeastNatural
<1>5. PICK i \in S : i[1] = w /\ i[2] = s
  OBVIOUS
<1>6. \A j \in S \ {i} : IdBefore(i, j)
  <2> SUFFICES ASSUME NEW j \in S, j # i PROVE IdBefore(i, j)
    OBVIOUS
  <2>1. w <= j[1] /\ w \in Nat /\ j[1] \in Nat /\ i = <<i[1], i[2]>> /\ j = <<j[1], j[2]>>
    BY <1>1, <1>2, <1>5 DEF Ids
  <2>2. CASE j[1] = w
    <3>1. s <= j[2] /\ s \in Nat /\ j[2] \in Nat /\ j[2] # s
      BY <1>3, <1>4, <1>5, <2>1, <2>2 DEF Ids
    <3> QED BY <1>5, <2>2, <3>1 DEF IdBefore
  <2>3. CASE j[1] # w
    BY <1>5, <2>1, <2>3 DEF IdBefore
  <2> QED BY <2>2, <2>3
<1> QED BY <1>6 DEF LeastId

\* AllIds holds the identities of what is in the logs.
LEMMA AllIdsAre ==
    ASSUME TypeOK
    PROVE  /\ \A w \in Nodes : \A s \in DOMAIN log[w] : <<w, s>> \in AllIds
           /\ \A i \in AllIds : /\ i[1] \in Nodes /\ i[2] \in DOMAIN log[i[1]]
                               /\ i = <<i[1], i[2]>>
           /\ \A w \in Nodes : /\ log[w] \in Seq([at : Nat, body : Bodies])
                               /\ Len(log[w]) \in Nat /\ DOMAIN log[w] = 1 .. Len(log[w])
                               /\ \A s \in DOMAIN log[w] : log[w][s] \in [at : Nat, body : Bodies]
<1>1. \A w \in Nodes : log[w] \in Seq([at : Nat, body : Bodies])
  BY DEF TypeOK
<1>2. \A w \in Nodes : /\ Len(log[w]) \in Nat /\ DOMAIN log[w] = 1 .. Len(log[w])
                       /\ \A s \in DOMAIN log[w] : log[w][s] \in [at : Nat, body : Bodies]
  BY <1>1, LenProperties, ElementOfSeq
<1>3. /\ \A w \in Nodes : \A s \in DOMAIN log[w] : <<w, s>> \in AllIds
      /\ \A i \in AllIds : /\ i[1] \in Nodes /\ i[2] \in DOMAIN log[i[1]]
                          /\ i = <<i[1], i[2]>>
  BY DEF AllIds
<1> QED BY <1>1, <1>2, <1>3

\* write_time: at or after the clock, every cut the node has a row for, and the newest
\* batch of its own that it stores.
LEMMA WriteTimeIsLate ==
    ASSUME TypeOK, NEW n \in Nodes, NEW now \in Days
    PROVE  /\ WriteTime(n, now) \in Nat
           /\ \A c \in Cuts : row[n][c].state # "none" => c <= WriteTime(n, now)
           /\ \A s \in DOMAIN log[n] :
                 /\ <<n, s>> \in held[n]
                 /\ \A t \in DOMAIN log[n] : t <= s
                 => log[n][s].at <= WriteTime(n, now)
<1> DEFINE floors == {c \in Cuts : row[n][c].state # "none"}
           mine == {i \in held[n] : i[1] = n}
           own == {At(i) : i \in {j \in mine : \A k \in mine : k[2] <= j[2]}}
           ats == {log[n][s].at : s \in DOMAIN log[n]}
           S == {now} \cup floors \cup own
<1>1. IsFiniteSet(ats)
  <2> DEFINE f == [s \in DOMAIN log[n] |-> log[n][s].at]
  <2>1. IsFiniteSet(DOMAIN log[n])
    BY AllIdsAre, FS_Interval, 1 \in Int, Len(log[n]) \in Int
  <2>2. f \in Surjection(DOMAIN log[n], ats)
    BY DEF Surjection
  <2> QED BY <2>1, <2>2, FS_Surjection
<1>2. own \subseteq ats
  BY AllIdsAre DEF TypeOK, At, Env
<1>3. ats \subseteq Nat
  BY AllIdsAre
<1>4. IsFiniteSet(floors)
  BY FinitenessAssumption, FS_Subset
<1>5. IsFiniteSet(S)
  <2>1. IsFiniteSet(own)
    BY <1>1, <1>2, FS_Subset
  <2>2. IsFiniteSet({now})
    BY FS_Singleton
  <2> HIDE DEF floors, own
  <2> QED BY <1>4, <2>1, <2>2, FS_Union
<1>6. S \subseteq Nat /\ S # {}
  BY <1>2, <1>3, DaysAssumption
<1>7. WriteTime(n, now) = Max(S)
  BY DEF WriteTime
<1>8. Max(S) \in Nat /\ \A y \in S : Max(S) >= y
  <2> HIDE DEF S
  <2> QED BY <1>5, <1>6, MaxIsBound
<1>9. ASSUME NEW s \in DOMAIN log[n], <<n, s>> \in held[n],
             \A t \in DOMAIN log[n] : t <= s
      PROVE  log[n][s].at \in S
  <2>1. \A k \in mine : k[2] \in DOMAIN log[n]
    BY AllIdsAre DEF TypeOK
  <2> QED BY <1>9, <2>1 DEF At, Env
<1> QED BY <1>6, <1>7, <1>8, <1>9

(***************************************************************************)
(* Two kinds of steps                                                      *)
(***************************************************************************)
\* What a step may do to rows, passes and adoptions, whatever else it does.
Bookkeeping ==
    /\ row' \in [Nodes -> [Cuts -> Rows]]
    /\ \A m \in Nodes : \A c \in Cuts :
          row[m][c].state # "none" => row'[m][c].state # "none"
    /\ pass' \in [Nodes -> Passes] /\ sync' \in [Nodes -> Passes]
    /\ BusyWithCut'
    /\ crashes' \in 0 .. MaxCrashes

\* A step that writes nothing keeps the invariant if it keeps a node's own newest
\* envelope and its verifications, and adds only tombstones that some node has or that
\* stand for a replaced observation.
LEMMA StoreStep ==
    ASSUME IInv, Bookkeeping, log' = log,
           held' \in [Nodes -> SUBSET Ids], admitted' \in [Nodes -> SUBSET Ids],
           DOMAIN tomb' = Nodes,
           \A n \in Nodes :
              /\ held'[n] \subseteq AllIds /\ admitted'[n] \subseteq held'[n]
              /\ tomb'[n] \in [DOMAIN tomb'[n] -> Cuts]
              /\ \A i \in DOMAIN tomb'[n] :
                    \/ \E m \in Nodes : i \in DOMAIN tomb[m]
                    \/ i \in AllIds /\ Body(i).kind = "observed" /\ i[2] < Len(log[i[1]])
              /\ log[n] # <<>> => <<n, Len(log[n])>> \in held'[n]
              /\ \A s \in DOMAIN log[n] :
                    log[n][s].body.kind = "verified" => <<n, s>> \in admitted'[n]
              /\ pass'[n].stage \in VerifyStages =>
                    \A s \in DOMAIN log[n] : log[n][s].body.kind = "verified" =>
                        log[n][s].body.cut # pass'[n].cut
              /\ pass'[n].stage \in {"sealed", "verified"} =>
                    row'[n][pass'[n].cut].state # "none"
    PROVE  IInv'
<1>1. AllIds' = AllIds /\ \A i : Body(i)' = Body(i)
  BY DEF AllIds, Body, Env
<1>2. TypeOK'
  <2>1. \A n \in Nodes : DOMAIN tomb'[n] \subseteq AllIds
    BY DEF IInv, TypeOK
  <2> QED BY <1>1, <2>1 DEF IInv, TypeOK, Bookkeeping
<1>3. TombstonesReplaced'
  BY <1>1 DEF IInv, TombstonesReplaced
<1>4. OwnNewestStored' /\ OwnVerificationsAdmitted' /\ VerifiedOnce' /\ FirstToVerify'
  BY DEF IInv, OwnNewestStored, OwnVerificationsAdmitted, VerifiedOnce, FirstToVerify
<1>5. FloorFirst'
  <2>1. \A n \in Nodes : \A s \in DOMAIN log[n] :
            log[n][s].body.kind \in {"sealed", "verified"} => log[n][s].body.cut \in Cuts
    BY AllIdsAre DEF IInv, Bodies
  <2> QED BY <2>1 DEF IInv, FloorFirst, Bookkeeping
<1>6. WritesInOrder' /\ SealedFloor'
  BY DEF IInv, WritesInOrder, SealedFloor
<1> QED BY <1>2, <1>3, <1>4, <1>5, <1>6 DEF IInv, Bookkeeping

\* What Append1 does to a log.
LEMMA AppendExtends ==
    ASSUME IInv, NEW n \in Nodes, NEW now \in Days, NEW body \in Bodies,
           Append1(n, now, body)
    PROVE  /\ log' \in [Nodes -> Seq([at : Nat, body : Bodies])]
           /\ \A m \in Nodes \ {n} : log'[m] = log[m]
           /\ Len(log[n]) \in Nat /\ Len(log'[n]) = Len(log[n]) + 1
           /\ DOMAIN log[n] = 1 .. Len(log[n])
           /\ DOMAIN log'[n] = 1 .. Len(log[n]) + 1
           /\ \A s \in DOMAIN log[n] : log'[n][s] = log[n][s]
           /\ log'[n][Len(log[n]) + 1] = [at |-> WriteTime(n, now), body |-> body]
<1> DEFINE E == [at : Nat, body : Bodies]
           e == [at |-> WriteTime(n, now), body |-> body]
<1>1. log \in [Nodes -> Seq(E)] /\ log[n] \in Seq(E)
  BY DEF IInv, TypeOK
<1>2. e \in E
  BY WriteTimeIsLate DEF IInv
<1>3. log' = [log EXCEPT ![n] = Append(@, e)]
  BY DEF Append1
<1> HIDE DEF E, e
<1>4. /\ Append(log[n], e) \in Seq(E) /\ Len(Append(log[n], e)) = Len(log[n]) + 1
      /\ \A i \in 1 .. Len(log[n]) : Append(log[n], e)[i] = log[n][i]
      /\ Append(log[n], e)[Len(log[n]) + 1] = e
  BY <1>1, <1>2, AppendProperties
<1>5. log'[n] = Append(log[n], e) /\ \A m \in Nodes \ {n} : log'[m] = log[m]
  BY <1>1, <1>3
<1>6. log' \in [Nodes -> Seq(E)]
  BY <1>1, <1>3, <1>4
<1>7. /\ Len(log[n]) \in Nat /\ DOMAIN log[n] = 1 .. Len(log[n])
      /\ DOMAIN log'[n] = 1 .. Len(log[n]) + 1
  BY <1>1, <1>4, <1>5, LenProperties
<1> QED BY <1>4, <1>5, <1>6, <1>7 DEF E, e

\* A step in which n writes one claim keeps the invariant if a seal or a verification
\* comes after the row that is its floor, and a verification is the first of its cut.
LEMMA AppendStep ==
    ASSUME IInv, Bookkeeping, NEW n \in Nodes, NEW now \in Days, NEW body \in Bodies,
           Append1(n, now, body), tomb' = tomb,
           body.kind \in {"sealed", "verified"} => row[n][body.cut].state # "none",
           body.kind = "verified" =>
              /\ pass'[n].stage = "idle"
              /\ \A s \in DOMAIN log[n] :
                    log[n][s].body.kind = "verified" => log[n][s].body.cut # body.cut,
           \A m \in Nodes : pass'[m].stage # "idle" => pass'[m] = pass[m]
    PROVE  IInv'
<1> DEFINE k == Len(log[n]) + 1
<1>1. /\ log' \in [Nodes -> Seq([at : Nat, body : Bodies])]
      /\ \A m \in Nodes \ {n} : log'[m] = log[m]
      /\ Len(log[n]) \in Nat /\ Len(log'[n]) = k /\ k \in Nat \ {0}
      /\ DOMAIN log[n] = 1 .. Len(log[n]) /\ DOMAIN log'[n] = 1 .. k
      /\ \A s \in DOMAIN log[n] : log'[n][s] = log[n][s]
      /\ log'[n][k] = [at |-> WriteTime(n, now), body |-> body]
  <2>1. /\ log' \in [Nodes -> Seq([at : Nat, body : Bodies])]
        /\ \A m \in Nodes \ {n} : log'[m] = log[m]
        /\ \A s \in DOMAIN log[n] : log'[n][s] = log[n][s]
        /\ log'[n][Len(log[n]) + 1] = [at |-> WriteTime(n, now), body |-> body]
    BY AppendExtends
  <2>2. /\ Len(log[n]) \in Nat /\ Len(log'[n]) = Len(log[n]) + 1
        /\ DOMAIN log[n] = 1 .. Len(log[n]) /\ DOMAIN log'[n] = 1 .. Len(log[n]) + 1
    BY AppendExtends
  <2>3. k \in Nat \ {0}
    BY <2>2
  <2> QED BY <2>1, <2>2, <2>3
<1>2. /\ held' = [held EXCEPT ![n] = @ \cup {<<n, k>>}]
      /\ admitted' = [admitted EXCEPT ![n] = @ \cup {<<n, k>>}]
  BY DEF Append1
<1> HIDE DEF k
<1>3. \A m \in Nodes : /\ DOMAIN log[m] \subseteq DOMAIN log'[m]
                       /\ \A s \in DOMAIN log[m] : log'[m][s] = log[m][s]
                       /\ Len(log[m]) \in Nat /\ Len(log[m]) <= Len(log'[m])
                       /\ \A s \in DOMAIN log'[m] :
                             s \in DOMAIN log[m] \/ (m = n /\ s = k)
  <2> SUFFICES ASSUME NEW m \in Nodes
               PROVE  /\ DOMAIN log[m] \subseteq DOMAIN log'[m]
                      /\ \A s \in DOMAIN log[m] : log'[m][s] = log[m][s]
                      /\ Len(log[m]) \in Nat /\ Len(log[m]) <= Len(log'[m])
                      /\ \A s \in DOMAIN log'[m] :
                            s \in DOMAIN log[m] \/ (m = n /\ s = k)
    OBVIOUS
  <2>1. Len(log[m]) \in Nat
    BY AllIdsAre DEF IInv
  <2>2. CASE m = n
    <3>1. k = Len(log[n]) + 1
      BY DEF k
    <3>2. 1 .. Len(log[n]) \subseteq 1 .. k /\ Len(log[n]) <= k
          /\ \A s \in 1 .. k : s \in 1 .. Len(log[n]) \/ s = k
      BY <1>1, <3>1
    <3> QED BY <1>1, <2>2, <3>2
  <2>3. CASE m # n
    BY <1>1, <2>1, <2>3
  <2> QED BY <2>2, <2>3
<1>4. AllIds \subseteq AllIds' /\ <<n, k>> \in AllIds' /\ <<n, k>> \in Ids
  BY <1>1, <1>3 DEF AllIds, Ids
<1>5. TypeOK'
  <2>1. held' \in [Nodes -> SUBSET Ids] /\ admitted' \in [Nodes -> SUBSET Ids]
    BY <1>2, <1>4 DEF IInv, TypeOK
  <2>2. \A m \in Nodes : held'[m] \subseteq AllIds' /\ admitted'[m] \subseteq held'[m]
    BY <1>2, <1>4 DEF IInv, TypeOK
  <2>3. \A m \in Nodes : DOMAIN tomb'[m] \subseteq AllIds'
    BY <1>4 DEF IInv, TypeOK
  <2> QED BY <1>1, <2>1, <2>2, <2>3 DEF IInv, TypeOK, Bookkeeping
<1>6. TombstonesReplaced'
  <2> SUFFICES ASSUME NEW m \in Nodes, NEW i \in DOMAIN tomb[m]
               PROVE  Body(i)'.kind = "observed" /\ i[2] < Len(log'[i[1]])
    BY DEF TombstonesReplaced
  <2>1. i \in AllIds /\ Body(i).kind = "observed" /\ i[2] < Len(log[i[1]])
    BY DEF IInv, TypeOK, TombstonesReplaced
  <2>2. i[1] \in Nodes /\ i[2] \in DOMAIN log[i[1]] /\ i[2] \in Nat
    BY <2>1, AllIdsAre DEF IInv
  <2> QED BY <1>3, <2>1, <2>2 DEF Body, Env
<1>7. OwnNewestStored'
  BY <1>1, <1>2 DEF IInv, OwnNewestStored, TypeOK
<1>8. OwnVerificationsAdmitted'
  BY <1>2, <1>3 DEF IInv, OwnVerificationsAdmitted, TypeOK
<1>9. VerifiedOnce'
  <2> SUFFICES ASSUME NEW m \in Nodes, NEW s \in DOMAIN log'[m], NEW t \in DOMAIN log'[m],
                      log'[m][s].body.kind = "verified", log'[m][t].body.kind = "verified",
                      log'[m][s].body.cut = log'[m][t].body.cut
               PROVE  s = t
    BY DEF VerifiedOnce
  <2>1. CASE s \in DOMAIN log[m] /\ t \in DOMAIN log[m]
    BY <1>3, <2>1 DEF IInv, VerifiedOnce
  <2>2. CASE m = n /\ s = k /\ t \in DOMAIN log[m]
    BY <1>1, <1>3, <2>2
  <2>3. CASE m = n /\ t = k /\ s \in DOMAIN log[m]
    BY <1>1, <1>3, <2>3
  <2> QED BY <1>3, <2>1, <2>2, <2>3
<1>10. FirstToVerify'
  <2> SUFFICES ASSUME NEW m \in Nodes, pass'[m].stage \in VerifyStages,
                      NEW s \in DOMAIN log'[m], log'[m][s].body.kind = "verified"
               PROVE  log'[m][s].body.cut # pass'[m].cut
    BY DEF FirstToVerify
  <2>1. pass'[m] = pass[m]
    BY DEF VerifyStages
  <2>2. CASE s \in DOMAIN log[m]
    BY <1>3, <2>1, <2>2 DEF IInv, FirstToVerify
  <2>3. CASE m = n /\ s = k
    BY <1>1, <2>3 DEF VerifyStages
  <2> QED BY <1>3, <2>2, <2>3
<1>11. FloorFirst'
  <2>1. \A m \in Nodes : \A s \in DOMAIN log[m] :
            log[m][s].body.kind \in {"sealed", "verified"} => log[m][s].body.cut \in Cuts
    BY AllIdsAre DEF IInv, Bodies
  <2>2. body.kind \in {"sealed", "verified"} => body.cut \in Cuts
    BY DEF Bodies
  <2>3. \A m \in Nodes : pass'[m].stage \in {"sealed", "verified"} =>
            pass'[m].cut \in Cuts /\ row[m][pass'[m].cut].state # "none"
    BY DEF IInv, BusyWithCut, FloorFirst
  <2>4. ASSUME NEW m \in Nodes, NEW s \in DOMAIN log'[m],
               log'[m][s].body.kind \in {"sealed", "verified"}
        PROVE  row'[m][log'[m][s].body.cut].state # "none"
    <3>1. CASE s \in DOMAIN log[m]
      BY <1>3, <2>1, <2>4, <3>1 DEF IInv, FloorFirst, Bookkeeping
    <3>2. CASE m = n /\ s = k
      BY <1>1, <2>2, <2>4, <3>2 DEF Bookkeeping
    <3> QED BY <1>3, <3>1, <3>2
  <2> QED BY <2>3, <2>4 DEF FloorFirst, Bookkeeping
<1>12. /\ \A c \in Cuts : row[n][c].state # "none" => c <= WriteTime(n, now)
       /\ \A s \in DOMAIN log[n] : log[n][s].at <= WriteTime(n, now)
  <2>1. /\ WriteTime(n, now) \in Nat
        /\ \A c \in Cuts : row[n][c].state # "none" => c <= WriteTime(n, now)
        /\ \A s \in DOMAIN log[n] :
              <<n, s>> \in held[n] /\ (\A t \in DOMAIN log[n] : t <= s)
              => log[n][s].at <= WriteTime(n, now)
    BY WriteTimeIsLate DEF IInv
  <2>2. ASSUME NEW s \in DOMAIN log[n]
        PROVE  log[n][s].at <= WriteTime(n, now)
    <3>1. /\ Len(log[n]) \in DOMAIN log[n] /\ s <= Len(log[n]) /\ log[n] # <<>>
          /\ \A t \in DOMAIN log[n] : t <= Len(log[n])
      BY <1>1
    <3>2. <<n, Len(log[n])>> \in held[n]
      BY <3>1 DEF IInv, OwnNewestStored
    <3>3. log[n][s].at \in Nat /\ log[n][Len(log[n])].at \in Nat
      BY <3>1, AllIdsAre DEF IInv
    <3>4. s # Len(log[n]) => log[n][s].at <= log[n][Len(log[n])].at
      <4>1. s # Len(log[n]) => s < Len(log[n])
        BY <1>1, <3>1
      <4> QED BY <3>1, <4>1 DEF IInv, WritesInOrder
    <3> QED BY <2>1, <3>1, <3>2, <3>3, <3>4
  <2> QED BY <2>1, <2>2
<1>13. WritesInOrder'
  <2> SUFFICES ASSUME NEW m \in Nodes, NEW s \in DOMAIN log'[m], NEW t \in DOMAIN log'[m],
                      s < t
               PROVE  log'[m][s].at <= log'[m][t].at
    BY DEF WritesInOrder
  <2>1. CASE s \in DOMAIN log[m] /\ t \in DOMAIN log[m]
    BY <1>3, <2>1 DEF IInv, WritesInOrder
  <2>2. CASE m = n /\ t = k /\ s \in DOMAIN log[m]
    BY <1>1, <1>3, <1>12, <2>2
  <2>3. CASE m = n /\ s = k
    BY <1>1, <2>3
  <2> QED BY <1>3, <2>1, <2>2, <2>3
<1>14. SealedFloor'
  <2>1. \A s \in DOMAIN log[n] : log[n][s].body.kind \in {"sealed", "verified"} =>
            log[n][s].body.cut <= WriteTime(n, now)
    BY <1>12, AllIdsAre DEF IInv, FloorFirst, Bodies
  <2>2. body.kind \in {"sealed", "verified"} => body.cut <= WriteTime(n, now)
    BY <1>12 DEF Bodies
  <2> SUFFICES ASSUME NEW m \in Nodes, NEW s \in DOMAIN log'[m], NEW t \in DOMAIN log'[m],
                      s <= t, log'[m][s].body.kind \in {"sealed", "verified"}
               PROVE  log'[m][s].body.cut <= log'[m][t].at
    BY DEF SealedFloor
  <2>3. CASE s \in DOMAIN log[m] /\ t \in DOMAIN log[m]
    BY <1>3, <2>3 DEF IInv, SealedFloor
  <2>4. CASE m = n /\ t = k /\ s \in DOMAIN log[m]
    BY <1>1, <1>3, <2>1, <2>4
  <2>5. CASE m = n /\ s = k
    <3>1. t = k
      BY <1>1, <2>5
    <3> QED BY <1>1, <2>2, <2>5, <3>1
  <2> QED BY <1>3, <2>3, <2>4, <2>5
<1> QED BY <1>5, <1>6, <1>7, <1>8, <1>9, <1>10, <1>11, <1>13, <1>14 DEF IInv, Bookkeeping

\* A step that changes only rows, passes, adoptions and the count of crashes.
LEMMA QuietStep ==
    ASSUME IInv, Bookkeeping, UNCHANGED <<log, held, admitted, tomb>>,
           \A n \in Nodes :
              /\ pass'[n].stage \in VerifyStages =>
                    \A s \in DOMAIN log[n] : log[n][s].body.kind = "verified" =>
                        log[n][s].body.cut # pass'[n].cut
              /\ pass'[n].stage \in {"sealed", "verified"} =>
                    row'[n][pass'[n].cut].state # "none"
    PROVE  IInv'
<1>1. /\ held' \in [Nodes -> SUBSET Ids] /\ admitted' \in [Nodes -> SUBSET Ids]
      /\ DOMAIN tomb' = Nodes
      /\ \A n \in Nodes :
            /\ held'[n] \subseteq AllIds /\ admitted'[n] \subseteq held'[n]
            /\ tomb'[n] \in [DOMAIN tomb'[n] -> Cuts]
            /\ \A i \in DOMAIN tomb'[n] : \E m \in Nodes : i \in DOMAIN tomb[m]
  BY DEF IInv, TypeOK
<1>2. \A n \in Nodes :
         /\ log[n] # <<>> => <<n, Len(log[n])>> \in held'[n]
         /\ \A s \in DOMAIN log[n] :
               log[n][s].body.kind = "verified" => <<n, s>> \in admitted'[n]
  BY DEF IInv, OwnNewestStored, OwnVerificationsAdmitted
<1> QED BY <1>1, <1>2, StoreStep

\* Passes that stay or end keep what the invariant says of passes.
LEMMA PassesStayOrEnd ==
    ASSUME IInv, Bookkeeping, UNCHANGED <<log, held, admitted, tomb>>,
           \A m \in Nodes : pass'[m].stage \notin {"idle", "trim"} => pass'[m] = pass[m]
    PROVE  IInv'
<1>1. \A n \in Nodes : pass'[n].stage \in VerifyStages =>
         \A s \in DOMAIN log[n] : log[n][s].body.kind = "verified" =>
             log[n][s].body.cut # pass'[n].cut
  BY DEF IInv, FirstToVerify, VerifyStages
<1>2. \A n \in Nodes : pass'[n].stage \in {"sealed", "verified"} =>
         row'[n][pass'[n].cut].state # "none"
  BY DEF IInv, FloorFirst, BusyWithCut, Bookkeeping
<1> QED BY <1>1, <1>2, QuietStep

\* A diagnostic is written, or was written before.
LEMMA AppendOnceStep ==
    ASSUME IInv, Bookkeeping, NEW n \in Nodes, NEW now \in Days, NEW body \in Bodies,
           body.kind = "observed", AppendOnce(n, now, body), tomb' = tomb,
           \A m \in Nodes : pass'[m].stage # "idle" => pass'[m] = pass[m]
    PROVE  IInv'
<1>1. CASE Append1(n, now, body)
  BY <1>1, AppendStep
<1>2. CASE UNCHANGED <<log, held, admitted>>
  BY <1>2, PassesStayOrEnd
<1> QED BY <1>1, <1>2 DEF AppendOnce

\* The records a pass, an adoption and a write are made of are well formed.
LEMMA PassTypes ==
    /\ Idle \in Passes /\ Idle.stage = "idle"
    /\ \A c \in Cuts : Trimming(c) \in Passes /\ Trimming(c).stage = "trim" /\ Trimming(c).cut = c
    /\ Load \in Bodies /\ Load.kind = "observed"
    /\ \A n \in Nodes, c \in Cuts, code \in Codes, drop \in SUBSET Ids :
          /\ Diagnostic(n, code, c, drop) \in Bodies
          /\ Diagnostic(n, code, c, drop).kind = "observed"
    /\ \A w \in Nodes : [kind |-> "excused", writer |-> w] \in Bodies
<1>1. Idle \in Passes /\ Idle.stage = "idle"
  BY DEF Idle, Passes, Stages, NoDrop, NoId
<1>2. \A c \in Cuts : Trimming(c) \in Passes /\ Trimming(c).stage = "trim" /\ Trimming(c).cut = c
  BY DEF Trimming, Idle, Passes, Stages, NoDrop, NoId
<1>3. Load \in Bodies /\ Load.kind = "observed"
  BY DEF Load, Observation, Bodies, Codes
<1>4. \A n \in Nodes, c \in Cuts, code \in Codes, drop \in SUBSET Ids :
         /\ Diagnostic(n, code, c, drop) \in Bodies
         /\ Diagnostic(n, code, c, drop).kind = "observed"
  BY NodesAssumption, DaysAssumption DEF Diagnostic, Observation, Bodies
<1>5. \A w \in Nodes : [kind |-> "excused", writer |-> w] \in Bodies
  BY DEF Bodies
<1> QED BY <1>1, <1>2, <1>3, <1>4, <1>5

\* A plan drops only observations whose writer wrote on after them.
LEMMA PlannedAreReplaced ==
    ASSUME IInv, NEW n \in Nodes, NEW c \in Cuts, NEW rows
    PROVE  /\ \A i \in PlannedDrops(n, c, rows) :
                 i \in AllIds /\ Body(i).kind = "observed" /\ i[2] < Len(log[i[1]])
           /\ PlannedDigest(n, c, rows) \subseteq Ids
           /\ SealedIdentities(n, c, rows) \subseteq Ids
<1>1. SealedIdentities(n, c, rows) \subseteq AllIds
  BY DEF IInv, TypeOK, SealedIdentities
<1>2. AllIds \subseteq Ids
  BY AllIdsAre DEF IInv, Ids
<1>3. \A i \in PlannedDrops(n, c, rows) :
         i \in AllIds /\ Body(i).kind = "observed" /\ i[2] < Len(log[i[1]])
  <2> SUFFICES ASSUME NEW i \in PlannedDrops(n, c, rows)
               PROVE  i \in AllIds /\ Body(i).kind = "observed" /\ i[2] < Len(log[i[1]])
    OBVIOUS
  <2>1. /\ i \in SealedIdentities(n, c, rows) /\ Body(i).kind = "observed"
        /\ \E j \in SealedIdentities(n, c, rows) : j[1] = i[1] /\ j[2] > i[2]
    BY DEF PlannedDrops
  <2>2. PICK j \in AllIds : j[1] = i[1] /\ j[2] > i[2]
    BY <1>1, <2>1
  <2>3. i \in AllIds
    BY <1>1, <2>1
  <2>4. /\ i[1] \in Nodes /\ j[2] \in 1 .. Len(log[i[1]]) /\ i[2] \in 1 .. Len(log[i[1]])
        /\ Len(log[i[1]]) \in Nat
    BY <2>2, <2>3, AllIdsAre DEF IInv
  <2> QED BY <2>1, <2>2, <2>3, <2>4
<1>4. PlannedDigest(n, c, rows) \subseteq Ids
  BY <1>2, <1>3 DEF PlannedDigest, IInv, TypeOK
<1> QED BY <1>1, <1>2, <1>3, <1>4

\* The terms a pass reads are well formed.
LEMMA ReadingType ==
    ASSUME IInv, NEW n \in Nodes, NEW c \in Cuts, NEW stage \in {"seal", "verify"}
    PROVE  Reading(n, c, stage) \in Passes /\ Reading(n, c, stage).stage = stage
           /\ Reading(n, c, stage).cut = c
<1>1. KnownWriters(n) \subseteq Nodes
  <2>1. \A i \in Inventory(n) : i[1] \in Nodes
    BY AllIdsAre DEF IInv, TypeOK, Inventory
  <2> QED BY <2>1, PeersAssumption DEF KnownWriters
<1>2. NamedWriters(n) \subseteq Nodes
  <2>1. \A i \in admitted[n] : Body(i) \in Bodies
    BY AllIdsAre DEF IInv, TypeOK, Body, Env
  <2>2. \A i \in CheckpointWork(n) : Body(i).parts \subseteq Nodes
    BY <2>1 DEF CheckpointWork, IsCheckpointWork, Bodies
  <2> QED BY <2>2 DEF NamedWriters
<1>3. Participants(n) \cup {n} \subseteq Nodes
  BY <1>1, <1>2 DEF Participants
<1>4. SealedIdentities(n, c, held[n]) \subseteq Ids
  BY PlannedAreReplaced
<1>5. held[n] \subseteq Ids
  BY DEF IInv, TypeOK
<1> QED BY <1>3, <1>4, <1>5 DEF Reading, TermsNow, SealTerms, Idle, Passes, Stages, NoDrop, NoId

(***************************************************************************)
(* Certificates, and what a step that only adds claims does to them        *)
(***************************************************************************)
\* The types a proof needs of identities that are in the logs.
LEMMA IdTypes ==
    ASSUME IInv, NEW i \in AllIds
    PROVE  /\ i[1] \in Nodes /\ i[1] \in Nat \ {0} /\ i[2] \in Nat \ {0} /\ At(i) \in Nat
           /\ i[2] \in DOMAIN log[i[1]] /\ i = <<i[1], i[2]>> /\ i \in Ids
           /\ At(i) = log[i[1]][i[2]].at /\ Body(i) = log[i[1]][i[2]].body
<1>1. /\ i[1] \in Nodes /\ i[2] \in DOMAIN log[i[1]] /\ i = <<i[1], i[2]>>
      /\ DOMAIN log[i[1]] = 1 .. Len(log[i[1]]) /\ Len(log[i[1]]) \in Nat
      /\ log[i[1]][i[2]] \in [at : Nat, body : Bodies]
  BY AllIdsAre DEF IInv
<1>2. i[1] \in Nat \ {0} /\ i[2] \in Nat \ {0}
  BY <1>1, NodesAssumption
<1>3. At(i) = log[i[1]][i[2]].at /\ Body(i) = log[i[1]][i[2]].body
  BY DEF At, Body, Env
<1>4. i \in Ids
  BY <1>1, <1>2 DEF Ids
<1> QED BY <1>1, <1>2, <1>3, <1>4

\* The identities in the logs are finitely many.
LEMMA FinitelyManyIds ==
    ASSUME IInv
    PROVE  IsFiniteSet(AllIds)
<1> DEFINE Of(w) == {<<w, s>> : s \in DOMAIN log[w]}
           All == {Of(w) : w \in Nodes}
<1>1. ASSUME NEW w \in Nodes PROVE IsFiniteSet(Of(w))
  <2> DEFINE f == [s \in DOMAIN log[w] |-> <<w, s>>]
  <2>1. IsFiniteSet(DOMAIN log[w])
    BY AllIdsAre, FS_Interval, 1 \in Int, Len(log[w]) \in Int DEF IInv
  <2>2. f \in Surjection(DOMAIN log[w], Of(w))
    BY DEF Surjection
  <2> HIDE DEF Of, f
  <2> QED BY <2>1, <2>2, FS_Surjection
<1>2. IsFiniteSet(All)
  <2> DEFINE f == [w \in Nodes |-> Of(w)]
  <2>1. f \in Surjection(Nodes, All)
    BY DEF Surjection
  <2> HIDE DEF All, f
  <2> QED BY <2>1, FinitenessAssumption, FS_Surjection
<1>3. \A S \in All : IsFiniteSet(S)
  BY <1>1
<1>4. AllIds = UNION All
  BY DEF AllIds
<1> HIDE DEF All
<1> QED BY <1>2, <1>3, <1>4, FS_UNION

\* NewestIn: canonical order has a greatest element in every nonempty set of identities.
LEMMA NewestInIsIn ==
    ASSUME IInv, NEW S \in SUBSET AllIds, S # {}
    PROVE  NewestIn(S) \in S /\ \A j \in S \ {NewestIn(S)} : Precedes(j, NewestIn(S))
<1> DEFINE Ats == {At(i) : i \in S}
<1>0. /\ IsFiniteSet(S)
      /\ \A i \in S : /\ At(i) \in Nat /\ i[1] \in Nat /\ i[2] \in Nat /\ i = <<i[1], i[2]>>
  BY FinitelyManyIds, FS_Subset, IdTypes
<1>1. PICK a \in Ats : \A b \in Ats : a >= b
  <2> DEFINE f == [i \in S |-> At(i)]
  <2>1. f \in Surjection(S, Ats)
    BY DEF Surjection
  <2>2. Ats \in SUBSET Nat /\ Ats # {}
    BY <1>0
  <2> HIDE DEF Ats, f
  <2>3. IsFiniteSet(Ats)
    BY <1>0, <2>1, FS_Surjection
  <2> QED BY <2>2, <2>3, GreatestOfFinite
<1> DEFINE Last == {i \in S : At(i) = a}
           Writers == {i[1] : i \in Last}
<1>2. PICK w \in Writers : \A v \in Writers : w >= v
  <2> DEFINE f == [i \in Last |-> i[1]]
  <2>1. f \in Surjection(Last, Writers)
    BY DEF Surjection
  <2>2. Writers \in SUBSET Nat /\ Writers # {} /\ IsFiniteSet(Last)
    BY <1>0, FS_Subset
  <2> HIDE DEF Last, Writers, f
  <2>3. IsFiniteSet(Writers)
    BY <2>1, <2>2, FS_Surjection
  <2> QED BY <2>2, <2>3, GreatestOfFinite
<1> DEFINE Of == {i \in Last : i[1] = w}
           Sequences == {i[2] : i \in Of}
<1>3. PICK s \in Sequences : \A v \in Sequences : s >= v
  <2> DEFINE f == [i \in Of |-> i[2]]
  <2>1. f \in Surjection(Of, Sequences)
    BY DEF Surjection
  <2>2. Sequences \in SUBSET Nat /\ Sequences # {} /\ IsFiniteSet(Of)
    BY <1>0, FS_Subset
  <2> HIDE DEF Of, Sequences, f
  <2>3. IsFiniteSet(Sequences)
    BY <2>1, <2>2, FS_Surjection
  <2> QED BY <2>2, <2>3, GreatestOfFinite
<1>4. PICK k \in S : At(k) = a /\ k[1] = w /\ k[2] = s
  OBVIOUS
<1>5. ASSUME NEW j \in S \ {k} PROVE Precedes(j, k)
  <2>1. /\ At(j) \in Nat /\ At(k) \in Nat /\ j[1] \in Nat /\ k[1] \in Nat
        /\ j[2] \in Nat /\ k[2] \in Nat /\ j = <<j[1], j[2]>> /\ k = <<k[1], k[2]>>
    BY <1>0
  <2>2. At(k) >= At(j)
    BY <1>1, <1>4
  <2>3. At(j) = At(k) => k[1] >= j[1]
    BY <1>2, <1>4
  <2>4. At(j) = At(k) /\ j[1] = k[1] => k[2] >= j[2]
    BY <1>3, <1>4
  <2>5. j[1] # k[1] \/ j[2] # k[2]
    BY <2>1, <1>5
  <2> QED BY <2>1, <2>2, <2>3, <2>4, <2>5 DEF Precedes
<1> HIDE DEF Ats, Last, Writers, Of, Sequences
<1> QED BY <1>4, <1>5 DEF NewestIn

\* certificates, for verifications that come once: terms that a node has read from each
\* of their participants.
LEMMA CertificatesAre ==
    ASSUME IInv, NEW n \in Nodes, NEW c \in Cuts, NEW t
    PROVE  t \in Certificates(n, c) <=>
              /\ t.parts # {}
              /\ \E i \in admitted[n] :
                    Body(i) = t /\ t.kind = "verified" /\ t.cut = c
              /\ \A w \in t.parts : \E i \in admitted[n] :
                    i[1] = w /\ Body(i) = t /\ t.kind = "verified" /\ t.cut = c
<1> DEFINE all == {i \in OfKind(n, "verified") : Body(i).cut = c}
           First(w) == CHOOSE i \in all :
                           i[1] = w /\ \A j \in all \ {i} : j[1] = w => Precedes(i, j)
           first == [w \in {i[1] : i \in all} |-> Body(First(w))]
<1>1. FirstVerifications(n, c) = first
  BY DEF FirstVerifications
<1>2. \A i, j \in all : i[1] = j[1] => i = j
  <2> SUFFICES ASSUME NEW i \in all, NEW j \in all, i[1] = j[1] PROVE i = j
    OBVIOUS
  <2>1. i \in AllIds /\ j \in AllIds
    BY DEF IInv, TypeOK, OfKind
  <2>2. /\ i = <<i[1], i[2]>> /\ j = <<j[1], j[2]>> /\ i[1] \in Nodes
        /\ i[2] \in DOMAIN log[i[1]] /\ j[2] \in DOMAIN log[i[1]]
    BY <2>1, AllIdsAre DEF IInv
  <2>3. /\ log[i[1]][i[2]].body.kind = "verified" /\ log[i[1]][j[2]].body.kind = "verified"
        /\ log[i[1]][i[2]].body.cut = log[i[1]][j[2]].body.cut
    BY DEF OfKind, Body, Env
  <2> QED BY <2>2, <2>3 DEF IInv, VerifiedOnce
<1>3. \A i \in all : First(i[1]) = i
  <2> SUFFICES ASSUME NEW i \in all PROVE First(i[1]) = i
    OBVIOUS
  <2> HIDE DEF all
  <2> QED BY <1>2
<1>4. \A i \in all : first[i[1]] = Body(i) /\ i[1] \in DOMAIN first
  <2> HIDE DEF all, First
  <2> QED BY <1>3
<1>5. DOMAIN first = {i[1] : i \in all}
  OBVIOUS
<1>6. \A i : i \in all <=> i \in admitted[n] /\ Body(i).kind = "verified" /\ Body(i).cut = c
  BY DEF OfKind
<1> HIDE DEF all, first
<1>7. t \in Certificates(n, c) <=>
         /\ \E w \in DOMAIN first : t = first[w]
         /\ t.parts # {}
         /\ \A w \in t.parts : w \in DOMAIN first /\ first[w] = t
  BY <1>1 DEF Certificates
<1>8. (\E w \in DOMAIN first : t = first[w]) <=> \E i \in all : Body(i) = t
  BY <1>4, <1>5
<1>9. \A w : (w \in DOMAIN first /\ first[w] = t) <=> \E i \in all : i[1] = w /\ Body(i) = t
  BY <1>4, <1>5
<1> QED BY <1>6, <1>7, <1>8, <1>9

\* Logs grow, and a node goes on reading the verifications it read.
Grown ==
    /\ \A m \in Nodes : /\ DOMAIN log[m] \subseteq DOMAIN log'[m]
                        /\ \A s \in DOMAIN log[m] : log'[m][s] = log[m][s]
    /\ \A m \in Nodes : \A i \in admitted[m] :
          Body(i).kind = "verified" => i \in admitted'[m]

\* Terms, once read from all their participants, stay a certificate; an envelope keeps
\* what it says.
LEMMA GrownFacts ==
    ASSUME IInv, IInv', Grown
    PROVE  /\ AllIds \subseteq AllIds'
           /\ \A i \in AllIds : Body(i)' = Body(i) /\ At(i)' = At(i)
           /\ \A n \in Nodes : StableCuts(n) \subseteq StableCuts(n)'
           /\ \A c \in Cuts : CertifiedTerms(c) \subseteq CertifiedTerms(c)'
<1>1. AllIds \subseteq AllIds'
  BY DEF AllIds, Grown
<1>2. \A i \in AllIds : Body(i)' = Body(i) /\ At(i)' = At(i)
  <2> SUFFICES ASSUME NEW i \in AllIds PROVE Body(i)' = Body(i) /\ At(i)' = At(i)
    OBVIOUS
  <2>1. i[1] \in Nodes /\ i[2] \in DOMAIN log[i[1]]
    BY AllIdsAre DEF IInv
  <2> QED BY <2>1 DEF Grown, Body, At, Env
<1>3. ASSUME NEW n \in Nodes, NEW c \in Cuts, NEW t \in Certificates(n, c)
      PROVE  t \in Certificates(n, c)'
  <2>1. \A i \in admitted[n] : i \in AllIds
    BY DEF IInv, TypeOK
  <2>2. \A i \in admitted[n] : Body(i) = t /\ t.kind = "verified" =>
            i \in admitted'[n] /\ Body(i)' = t
    BY <1>2, <2>1 DEF Grown
  <2>3. /\ t.parts # {}
        /\ \E i \in admitted[n] : Body(i) = t /\ t.kind = "verified" /\ t.cut = c
        /\ \A w \in t.parts : \E i \in admitted[n] :
              i[1] = w /\ Body(i) = t /\ t.kind = "verified" /\ t.cut = c
    BY <1>3, CertificatesAre
  <2>4. /\ t.parts # {}
        /\ \E i \in admitted'[n] : Body(i)' = t /\ t.kind = "verified" /\ t.cut = c
        /\ \A w \in t.parts : \E i \in admitted'[n] :
              i[1] = w /\ Body(i)' = t /\ t.kind = "verified" /\ t.cut = c
    BY <2>2, <2>3
  <2>5. (t \in Certificates(n, c) <=>
              /\ t.parts # {}
              /\ \E i \in admitted[n] :
                    Body(i) = t /\ t.kind = "verified" /\ t.cut = c
              /\ \A w \in t.parts : \E i \in admitted[n] :
                    i[1] = w /\ Body(i) = t /\ t.kind = "verified" /\ t.cut = c)'
    BY CertificatesAre, PTL
  <2> QED BY <2>4, <2>5
<1>4. \A n \in Nodes : StableCuts(n) \subseteq StableCuts(n)'
  BY <1>3 DEF StableCuts
<1>5. ASSUME NEW c \in Cuts, NEW t \in CertifiedTerms(c) PROVE t \in CertifiedTerms(c)'
  <2>1. PICK i \in AllIds : t = Body(i)
    BY DEF CertifiedTerms
  <2>2. i \in AllIds' /\ t = Body(i)'
    BY <1>1, <1>2, <2>1
  <2>3. t.parts \subseteq Nodes
    <3>1. Body(i) \in Bodies
      BY AllIdsAre DEF IInv, Body, Env
    <3> QED BY <2>1, <3>1 DEF CertifiedTerms, Bodies
  <2> QED BY <2>2, <2>3 DEF CertifiedTerms, Grown
<1> QED BY <1>1, <1>2, <1>4, <1>5
================================================================================

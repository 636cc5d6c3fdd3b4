---------------------------- MODULE WriteBatchProofs ----------------------------
(***************************************************************************)
(* The writer thread implements AtomicWrites, for every number of callers  *)
(* and rows and for every failure.                                         *)
(***************************************************************************)
EXTENDS WriteBatch, TLAPS

\* The stages in which a transaction may be open, and those in which a job is in hand.
OpenStages == {"savepoint", "run", "release", "drop", "more", "commit", "lent"}
JobStages == {"savepoint", "run", "release", "drop", "lent", "return"}
BatchStages == {"savepoint", "run", "release", "drop", "more", "commit", "index", "answer"}

None(c, S) == Rows(c) \cap S = {}
Queued(c) == \E i \in DOMAIN queue : queue[i] = c

\* A caller is in one place: not started, queued, to be run next, in hand, or in the batch.
Places ==
    /\ \A i, j \in DOMAIN queue : queue[i] = queue[j] => i = j
    /\ \A i \in DOMAIN queue : reply[queue[i]] = "asked"
    /\ \A c \in batch : reply[c] = "asked" /\ ~Queued(c) /\ c # writer.next /\ c # writer.job
    /\ writer.stage \in JobStages =>
         /\ writer.job \in Callers /\ reply[writer.job] = "asked"
         /\ ~Queued(writer.job) /\ writer.next = NoCaller
    /\ writer.stage \notin JobStages => writer.job = NoCaller
    /\ writer.next # NoCaller =>
         writer.next \in Callers /\ reply[writer.next] = "asked" /\ ~Queued(writer.next)
    /\ writer.stage = "next" => writer.next # NoCaller
    /\ writer.stage \notin {"next", "commit", "index", "answer"} => writer.next = NoCaller
    /\ writer.stage \notin BatchStages => batch = {}

\* What the transaction holds beside the committed rows belongs to the batch and to the
\* job in hand; whoever has not run has no row.
Transaction ==
    /\ durable \subseteq tx
    /\ writer.stage \notin OpenStages => tx = durable
    /\ \A c \in Callers :
         reply[c] = "idle" \/ Queued(c) \/ c = writer.next => None(c, tx)
    /\ writer.stage \in OpenStages =>
         \A c \in Callers : c \in batch \/ c = writer.job \/ Rows(c) \cap tx = Rows(c) \cap durable
    /\ writer.stage \in OpenStages => \A c \in batch : None(c, durable)
    /\ writer.stage \in OpenStages /\ writer.stage \in JobStages => None(writer.job, durable)
    /\ writer.stage = "savepoint" => None(writer.job, tx)
    /\ writer.stage \in {"run", "release"} =>
         /\ durable \subseteq mark /\ None(writer.job, mark)
         /\ \A c \in Callers : c # writer.job => Rows(c) \cap mark = Rows(c) \cap tx
    /\ writer.stage \in {"run", "savepoint", "release", "lent"} => writer.failure = "none"

\* The writes that succeeded are in the transaction, the others have left nothing there;
\* once it has ended, the same is true of the database.
Outcomes ==
    /\ writer.stage \in OpenStages /\ writer.failure = "none" =>
         \A c \in batch : IF outcome[c] = "ok" THEN Rows(c) \subseteq tx ELSE None(c, tx)
    /\ writer.stage = "release" /\ outcome[writer.job] = "ok" => Rows(writer.job) \subseteq tx
    /\ writer.stage \in {"index", "answer"} =>
         \A c \in batch : IF writer.failure = "none" /\ outcome[c] = "ok"
                          THEN Rows(c) \subseteq durable ELSE None(c, durable)
    /\ writer.stage = "return" =>
         IF writer.failure = "some" THEN None(writer.job, durable)
         ELSE Rows(writer.job) \subseteq durable

\* The inductive invariant.
WInv == TypeOK /\ Places /\ Transaction /\ Outcomes /\ AllOrNothing

(***************************************************************************)
(* The invariant                                                           *)
(***************************************************************************)
\* An open store has nothing queued.
LEMMA InitW == Init => WInv
<1> SUFFICES ASSUME Init PROVE WInv
  OBVIOUS
<1> USE WriteAssumption, NobodyCalls DEF Init, Idle
<1>1. TypeOK
  <2>1. writer \in Writers
    BY DEF Writers, TheStages
  <2>2. outcome \in [Callers -> {"none", "ok", "err"}] 
    BY DEF NoOutcome
  <2>7. faults \in 0 .. MaxFaults /\ crashes \in 0 .. MaxCrashes
    OBVIOUS
  <2>8. reading \in {"done", "failed"}
    OBVIOUS
  <2>3. reply \in [Callers -> {"idle", "asked", "ok", "refused", "failed", "lost"}]
    OBVIOUS
  <2>4. ahead \in [Callers -> SUBSET Callers]
    <3>1. {} \in SUBSET Callers
      OBVIOUS
    <3> QED BY <3>1, Zenon
  <2>5. queue \in Seq(Callers)
    OBVIOUS
  <2>6. /\ durable \subseteq Callers \X Parts /\ tx \subseteq Callers \X Parts
        /\ mark \subseteq Callers \X Parts /\ index \subseteq Callers \X Parts
        /\ batch \subseteq Callers
    OBVIOUS
  <2> HIDE DEF Init
  <2> QED BY <2>1, <2>2, <2>3, <2>4, <2>5, <2>6, <2>7, <2>8 DEF TypeOK
<1>2. Places /\ Transaction /\ Outcomes /\ AllOrNothing
  BY
     DEF Places, Transaction, Outcomes, AllOrNothing, Queued, None, Rows, OpenStages,
         JobStages, BatchStages
<1> QED BY <1>1, <1>2 DEF WInv

\* Every step keeps the invariant.
LEMMA NextW == WInv /\ [Next]_vars => WInv'
<1> SUFFICES ASSUME WInv, [Next]_vars PROVE WInv'
  OBVIOUS
<1> USE WriteAssumption, NobodyCalls DEF WInv
<1>1. CASE UNCHANGED vars
  BY <1>1 DEF vars, TypeOK, Places, Transaction, Outcomes, AllOrNothing, Queued, None
<1>2. ASSUME NEW c \in Callers, Send(c) PROVE WInv'
  <2>1. TypeOK'
    <3>1. writer' \in Writers
      BY <1>2 DEF Send, To, NoFault, AFault, Waiting, TypeOK, Writers, TheStages
    <3>2. queue' \in Seq(Callers) /\ faults' \in 0 .. MaxFaults
      BY <1>2 DEF Send, To, NoFault, AFault, Waiting, TypeOK
    <3> QED
      BY <1>2, <3>1, <3>2
         DEF Send, To, NoFault, AFault, Waiting, TypeOK, Rows, Places, OpenStages,
             JobStages, BatchStages
  <2>2. Places'
    BY <1>2
       DEF Send, To, NoFault, AFault, Waiting, TypeOK, Places, Queued, OpenStages,
           JobStages, BatchStages
  <2>3. Transaction'
    BY <1>2
       DEF Send, To, NoFault, AFault, Waiting, TypeOK, Places, Transaction, Outcomes,
           Queued, None, Rows, OpenStages, JobStages, BatchStages
  <2>4. Outcomes'
    BY <1>2
       DEF Send, To, NoFault, AFault, Waiting, TypeOK, Places, Transaction, Outcomes,
           Queued, None, Rows, OpenStages, JobStages, BatchStages
  <2>5. AllOrNothing'
    BY <1>2
       DEF Send, To, NoFault, AFault, Waiting, TypeOK, Places, Transaction, Outcomes,
           AllOrNothing, None, Rows, OpenStages, JobStages, BatchStages
  <2> QED BY <2>1, <2>2, <2>3, <2>4, <2>5
<1>3. CASE Receive
  <2>1. TypeOK'
    <3>1. writer' \in Writers
      BY <1>3 DEF Receive, To, NoFault, AFault, TakeUp, TypeOK, Writers, TheStages
    <3>2. queue' \in Seq(Callers) /\ faults' \in 0 .. MaxFaults
      BY <1>3 DEF Receive, To, NoFault, AFault, TakeUp, TypeOK
    <3> QED
      BY <1>3, <3>1, <3>2
         DEF Receive, To, NoFault, AFault, TakeUp, TypeOK, Rows, Places, OpenStages,
             JobStages, BatchStages
  <2>2. Places'
    BY <1>3
       DEF Receive, To, NoFault, AFault, TakeUp, TypeOK, Places, Queued, OpenStages,
           JobStages, BatchStages
  <2>3. Transaction'
    BY <1>3
       DEF Receive, To, NoFault, AFault, TakeUp, TypeOK, Places, Transaction, Outcomes,
           Queued, None, Rows, OpenStages, JobStages, BatchStages
  <2>4. Outcomes'
    BY <1>3
       DEF Receive, To, NoFault, AFault, TakeUp, TypeOK, Places, Transaction, Outcomes,
           Queued, None, Rows, OpenStages, JobStages, BatchStages
  <2>5. AllOrNothing'
    BY <1>3
       DEF Receive, To, NoFault, AFault, TakeUp, TypeOK, Places, Transaction, Outcomes,
           AllOrNothing, None, Rows, OpenStages, JobStages, BatchStages
  <2> QED BY <2>1, <2>2, <2>3, <2>4, <2>5
<1>4. CASE RunNext
  <2>1. TypeOK'
    <3>1. writer' \in Writers
      BY <1>4 DEF RunNext, To, NoFault, AFault, TakeUp, TypeOK, Writers, TheStages
    <3>2. queue' \in Seq(Callers) /\ faults' \in 0 .. MaxFaults
      BY <1>4 DEF RunNext, To, NoFault, AFault, TakeUp, TypeOK
    <3> QED
      BY <1>4, <3>1, <3>2
         DEF RunNext, To, NoFault, AFault, TakeUp, TypeOK, Rows, Places, OpenStages,
             JobStages, BatchStages
  <2>2. Places'
    BY <1>4
       DEF RunNext, To, NoFault, AFault, TakeUp, TypeOK, Places, Queued, OpenStages,
           JobStages, BatchStages
  <2>3. Transaction'
    BY <1>4
       DEF RunNext, To, NoFault, AFault, TakeUp, TypeOK, Places, Transaction, Outcomes,
           Queued, None, Rows, OpenStages, JobStages, BatchStages
  <2>4. Outcomes'
    BY <1>4
       DEF RunNext, To, NoFault, AFault, TakeUp, TypeOK, Places, Transaction, Outcomes,
           Queued, None, Rows, OpenStages, JobStages, BatchStages
  <2>5. AllOrNothing'
    BY <1>4
       DEF RunNext, To, NoFault, AFault, TakeUp, TypeOK, Places, Transaction, Outcomes,
           AllOrNothing, None, Rows, OpenStages, JobStages, BatchStages
  <2> QED BY <2>1, <2>2, <2>3, <2>4, <2>5
<1>5. CASE Savepoint
  <2>1. TypeOK'
    <3>1. writer' \in Writers
      BY <1>5 DEF Savepoint, To, NoFault, AFault, TypeOK, Writers, TheStages
    <3>2. queue' \in Seq(Callers) /\ faults' \in 0 .. MaxFaults
      BY <1>5 DEF Savepoint, To, NoFault, AFault, TypeOK
    <3> QED
      BY <1>5, <3>1, <3>2
         DEF Savepoint, To, NoFault, AFault, TypeOK, Rows, Places, OpenStages,
             JobStages, BatchStages
  <2>2. Places'
    BY <1>5
       DEF Savepoint, To, NoFault, AFault, TypeOK, Places, Queued, OpenStages,
           JobStages, BatchStages
  <2>3. Transaction'
    <3> USE <1>5 DEF Savepoint, To, NoFault, AFault
    <3>1. CASE writer'.stage = "run"
      <4>1. /\ durable \subseteq mark' /\ None(writer.job, mark')
            /\ \A c \in Callers : Rows(c) \cap mark' = Rows(c) \cap tx'
        BY DEF Transaction
      <4> QED BY <3>1, <4>1
                 DEF TypeOK, Places, Transaction, Queued, None, OpenStages, JobStages,
                     BatchStages
    <3>2. CASE writer'.stage = "drop"
      BY <3>2
         DEF TypeOK, Places, Transaction, Queued, None, OpenStages, JobStages,
             BatchStages
    <3> QED BY <3>1, <3>2
  <2>4. Outcomes'
    BY <1>5
       DEF Savepoint, To, NoFault, AFault, TypeOK, Places, Transaction, Outcomes,
           Queued, None, Rows, OpenStages, JobStages, BatchStages
  <2>5. AllOrNothing'
    BY <1>5
       DEF Savepoint, To, NoFault, AFault, TypeOK, Places, Transaction, Outcomes,
           AllOrNothing, None, Rows, OpenStages, JobStages, BatchStages
  <2> QED BY <2>1, <2>2, <2>3, <2>4, <2>5
<1>6. ASSUME NEW p \in Parts, WriteRow(p) PROVE WInv'
  <2>1. TypeOK'
    <3>1. writer' \in Writers
      BY <1>6 DEF WriteRow, To, NoFault, AFault, TypeOK, Writers, TheStages
    <3>2. queue' \in Seq(Callers) /\ faults' \in 0 .. MaxFaults
      BY <1>6 DEF WriteRow, To, NoFault, AFault, TypeOK
    <3> QED
      BY <1>6, <3>1, <3>2
         DEF WriteRow, To, NoFault, AFault, TypeOK, Rows, Places, OpenStages, JobStages,
             BatchStages
  <2>2. Places'
    BY <1>6
       DEF WriteRow, To, NoFault, AFault, TypeOK, Places, Queued, OpenStages, JobStages,
           BatchStages
  <2>3. Transaction'
    BY <1>6
       DEF WriteRow, To, NoFault, AFault, TypeOK, Places, Transaction, Outcomes, Queued,
           None, Rows, OpenStages, JobStages, BatchStages
  <2>4. Outcomes'
    BY <1>6
       DEF WriteRow, To, NoFault, AFault, TypeOK, Places, Transaction, Outcomes, Queued,
           None, Rows, OpenStages, JobStages, BatchStages
  <2>5. AllOrNothing'
    BY <1>6
       DEF WriteRow, To, NoFault, AFault, TypeOK, Places, Transaction, Outcomes,
           AllOrNothing, None, Rows, OpenStages, JobStages, BatchStages
  <2> QED BY <2>1, <2>2, <2>3, <2>4, <2>5
<1>7. CASE Return
  <2>1. TypeOK'
    <3>1. writer' \in Writers
      BY <1>7 DEF Return, To, NoFault, AFault, TypeOK, Writers, TheStages
    <3>2. queue' \in Seq(Callers) /\ faults' \in 0 .. MaxFaults
      BY <1>7 DEF Return, To, NoFault, AFault, TypeOK
    <3> QED
      BY <1>7, <3>1, <3>2
         DEF Return, To, NoFault, AFault, TypeOK, Rows, Places, OpenStages, JobStages,
             BatchStages
  <2>2. Places'
    BY <1>7
       DEF Return, To, NoFault, AFault, TypeOK, Places, Queued, OpenStages, JobStages,
           BatchStages
  <2>3. Transaction'
    BY <1>7
       DEF Return, To, NoFault, AFault, TypeOK, Places, Transaction, Outcomes, Queued,
           None, Rows, OpenStages, JobStages, BatchStages
  <2>4. Outcomes'
    BY <1>7
       DEF Return, To, NoFault, AFault, TypeOK, Places, Transaction, Outcomes, Queued,
           None, Rows, OpenStages, JobStages, BatchStages
  <2>5. AllOrNothing'
    BY <1>7
       DEF Return, To, NoFault, AFault, TypeOK, Places, Transaction, Outcomes,
           AllOrNothing, None, Rows, OpenStages, JobStages, BatchStages
  <2> QED BY <2>1, <2>2, <2>3, <2>4, <2>5
<1>8. CASE Release
  <2>1. TypeOK'
    <3>1. writer' \in Writers
      BY <1>8 DEF Release, To, NoFault, AFault, TypeOK, Writers, TheStages
    <3>2. queue' \in Seq(Callers) /\ faults' \in 0 .. MaxFaults
      BY <1>8 DEF Release, To, NoFault, AFault, TypeOK
    <3> QED
      BY <1>8, <3>1, <3>2
         DEF Release, To, NoFault, AFault, TypeOK, Rows, Places, OpenStages, JobStages,
             BatchStages
  <2>2. Places'
    BY <1>8
       DEF Release, To, NoFault, AFault, TypeOK, Places, Queued, OpenStages, JobStages,
           BatchStages
  <2>3. Transaction'
    <3>1. /\ UNCHANGED <<durable, queue, reply>> /\ batch' = batch \cup {writer.job}
          /\ writer'.stage = "more" /\ writer'.job = NoCaller /\ writer'.next = NoCaller
      BY <1>8 DEF Release, To
    <3>2. /\ writer.stage = "release" /\ tx' \in {tx, mark}
          /\ durable \subseteq tx /\ durable \subseteq mark
          /\ \A c \in Callers : c # writer.job => Rows(c) \cap mark = Rows(c) \cap tx
      BY <1>8 DEF Release, Transaction, OpenStages
    <3>3. durable \subseteq tx' /\ \A c \in Callers :
            c # writer.job => Rows(c) \cap tx' = Rows(c) \cap tx
      BY <3>2
    <3>4. ~Queued(writer.job) /\ writer.next = NoCaller /\ writer.job \in Callers
          /\ reply[writer.job] = "asked"
      BY <3>2 DEF Places, JobStages
    <3>5. \A c \in Callers : reply[c] = "idle" \/ Queued(c) => None(c, tx')
      BY <3>3, <3>4 DEF Transaction, None
    <3>6. \A c \in Callers : c \in batch' \/ Rows(c) \cap tx' = Rows(c) \cap durable
      BY <3>1, <3>2, <3>3 DEF Transaction, OpenStages
    <3>7. \A c \in batch' : None(c, durable)
      BY <3>1, <3>2 DEF Transaction, OpenStages, JobStages
    <3> QED
      BY <3>1, <3>3, <3>5, <3>6, <3>7, NobodyCalls
         DEF Transaction, None, Rows, Queued, OpenStages, JobStages
  <2>4. Outcomes'
    BY <1>8
       DEF Release, To, NoFault, AFault, TypeOK, Places, Transaction, Outcomes, Queued,
           None, Rows, OpenStages, JobStages, BatchStages
  <2>5. AllOrNothing'
    BY <1>8
       DEF Release, To, NoFault, AFault, TypeOK, Places, Transaction, Outcomes,
           AllOrNothing, None, Rows, OpenStages, JobStages, BatchStages
  <2> QED BY <2>1, <2>2, <2>3, <2>4, <2>5
<1>9. CASE Drop
  <2>1. TypeOK'
    <3>1. writer' \in Writers
      BY <1>9 DEF Drop, To, NoFault, AFault, TypeOK, Writers, TheStages
    <3>2. queue' \in Seq(Callers) /\ faults' \in 0 .. MaxFaults
      BY <1>9 DEF Drop, To, NoFault, AFault, TypeOK
    <3> QED
      BY <1>9, <3>1, <3>2
         DEF Drop, To, NoFault, AFault, TypeOK, Rows, Places, OpenStages, JobStages,
             BatchStages
  <2>2. Places'
    BY <1>9
       DEF Drop, To, NoFault, AFault, TypeOK, Places, Queued, OpenStages, JobStages,
           BatchStages
  <2>3. Transaction'
    BY <1>9
       DEF Drop, To, NoFault, AFault, TypeOK, Places, Transaction, Outcomes, Queued,
           None, Rows, OpenStages, JobStages, BatchStages
  <2>4. Outcomes'
    BY <1>9
       DEF Drop, To, NoFault, AFault, TypeOK, Places, Transaction, Outcomes, Queued,
           None, Rows, OpenStages, JobStages, BatchStages
  <2>5. AllOrNothing'
    BY <1>9
       DEF Drop, To, NoFault, AFault, TypeOK, Places, Transaction, Outcomes,
           AllOrNothing, None, Rows, OpenStages, JobStages, BatchStages
  <2> QED BY <2>1, <2>2, <2>3, <2>4, <2>5
<1>10. CASE TakeMore
  <2>1. TypeOK'
    <3>1. writer' \in Writers
      BY <1>10 DEF TakeMore, To, NoFault, AFault, TypeOK, Writers, TheStages
    <3>2. queue' \in Seq(Callers) /\ faults' \in 0 .. MaxFaults
      BY <1>10 DEF TakeMore, To, NoFault, AFault, TypeOK
    <3> QED
      BY <1>10, <3>1, <3>2
         DEF TakeMore, To, NoFault, AFault, TypeOK, Rows, Places, OpenStages, JobStages,
             BatchStages
  <2>2. Places'
    BY <1>10
       DEF TakeMore, To, NoFault, AFault, TypeOK, Places, Queued, OpenStages, JobStages,
           BatchStages
  <2>3. Transaction'
    BY <1>10
       DEF TakeMore, To, NoFault, AFault, TypeOK, Places, Transaction, Outcomes, Queued,
           None, Rows, OpenStages, JobStages, BatchStages
  <2>4. Outcomes'
    BY <1>10, SMTT(60)
       DEF TakeMore, To, NoFault, AFault, TypeOK, Places, Transaction, Outcomes, Queued,
           None, Rows, OpenStages, JobStages, BatchStages
  <2>5. AllOrNothing'
    BY <1>10
       DEF TakeMore, To, NoFault, AFault, TypeOK, Places, Transaction, Outcomes,
           AllOrNothing, None, Rows, OpenStages, JobStages, BatchStages
  <2> QED BY <2>1, <2>2, <2>3, <2>4, <2>5
<1>11. CASE StopTaking
  <2>1. TypeOK'
    <3>1. writer' \in Writers
      BY <1>11 DEF StopTaking, To, NoFault, AFault, TypeOK, Writers, TheStages
    <3>2. queue' \in Seq(Callers) /\ faults' \in 0 .. MaxFaults
      BY <1>11 DEF StopTaking, To, NoFault, AFault, TypeOK
    <3> QED
      BY <1>11, <3>1, <3>2
         DEF StopTaking, To, NoFault, AFault, TypeOK, Rows, Places, OpenStages,
             JobStages, BatchStages
  <2>2. Places'
    BY <1>11
       DEF StopTaking, To, NoFault, AFault, TypeOK, Places, Queued, OpenStages,
           JobStages, BatchStages
  <2>3. Transaction'
    BY <1>11
       DEF StopTaking, To, NoFault, AFault, TypeOK, Places, Transaction, Outcomes,
           Queued, None, Rows, OpenStages, JobStages, BatchStages
  <2>4. Outcomes'
    BY <1>11
       DEF StopTaking, To, NoFault, AFault, TypeOK, Places, Transaction, Outcomes,
           Queued, None, Rows, OpenStages, JobStages, BatchStages
  <2>5. AllOrNothing'
    BY <1>11
       DEF StopTaking, To, NoFault, AFault, TypeOK, Places, Transaction, Outcomes,
           AllOrNothing, None, Rows, OpenStages, JobStages, BatchStages
  <2> QED BY <2>1, <2>2, <2>3, <2>4, <2>5
<1>12. CASE Commit
  <2>1. TypeOK'
    <3>1. writer' \in Writers
      BY <1>12 DEF Commit, To, NoFault, AFault, TypeOK, Writers, TheStages
    <3>2. queue' \in Seq(Callers) /\ faults' \in 0 .. MaxFaults
      BY <1>12 DEF Commit, To, NoFault, AFault, TypeOK
    <3> QED
      BY <1>12, <3>1, <3>2
         DEF Commit, To, NoFault, AFault, TypeOK, Rows, Places, OpenStages, JobStages,
             BatchStages
  <2>2. Places'
    BY <1>12
       DEF Commit, To, NoFault, AFault, TypeOK, Places, Queued, OpenStages, JobStages,
           BatchStages
  <2>3. Transaction'
    BY <1>12
       DEF Commit, To, NoFault, AFault, TypeOK, Places, Transaction, Outcomes, Queued,
           None, Rows, OpenStages, JobStages, BatchStages
  <2>4. Outcomes'
    BY <1>12
       DEF Commit, To, NoFault, AFault, TypeOK, Places, Transaction, Outcomes, Queued,
           None, Rows, OpenStages, JobStages, BatchStages
  <2>5. AllOrNothing'
    BY <1>12
       DEF Commit, To, NoFault, AFault, TypeOK, Places, Transaction, Outcomes,
           AllOrNothing, None, Rows, OpenStages, JobStages, BatchStages
  <2> QED BY <2>1, <2>2, <2>3, <2>4, <2>5
<1>13. CASE StoreIndex
  <2>1. TypeOK'
    <3>1. writer' \in Writers
      BY <1>13 DEF StoreIndex, To, NoFault, AFault, ReadIndex, TypeOK, Writers, TheStages
    <3>2. queue' \in Seq(Callers) /\ faults' \in 0 .. MaxFaults
      BY <1>13 DEF StoreIndex, To, NoFault, AFault, ReadIndex, TypeOK
    <3> QED
      BY <1>13, <3>1, <3>2
         DEF StoreIndex, To, NoFault, AFault, ReadIndex, TypeOK, Rows, Places,
             OpenStages, JobStages, BatchStages
  <2>2. Places'
    BY <1>13
       DEF StoreIndex, To, NoFault, AFault, ReadIndex, TypeOK, Places, Queued,
           OpenStages, JobStages, BatchStages
  <2>3. Transaction'
    BY <1>13
       DEF StoreIndex, To, NoFault, AFault, ReadIndex, TypeOK, Places, Transaction,
           Outcomes, Queued, None, Rows, OpenStages, JobStages, BatchStages
  <2>4. Outcomes'
    BY <1>13
       DEF StoreIndex, To, NoFault, AFault, ReadIndex, TypeOK, Places, Transaction,
           Outcomes, Queued, None, Rows, OpenStages, JobStages, BatchStages
  <2>5. AllOrNothing'
    BY <1>13
       DEF StoreIndex, To, NoFault, AFault, ReadIndex, TypeOK, Places, Transaction,
           Outcomes, AllOrNothing, None, Rows, OpenStages, JobStages, BatchStages
  <2> QED BY <2>1, <2>2, <2>3, <2>4, <2>5
<1>14. ASSUME NEW c \in Callers, Answer(c) PROVE WInv'
  <2>1. TypeOK'
    <3>1. writer' \in Writers
      BY <1>14 DEF Answer, To, NoFault, AFault, AnswerOf, TypeOK, Writers, TheStages
    <3>2. queue' \in Seq(Callers) /\ faults' \in 0 .. MaxFaults
      BY <1>14 DEF Answer, To, NoFault, AFault, AnswerOf, TypeOK
    <3> QED
      BY <1>14, <3>1, <3>2
         DEF Answer, To, NoFault, AFault, AnswerOf, TypeOK, Rows, Places, OpenStages,
             JobStages, BatchStages
  <2>2. Places'
    BY <1>14
       DEF Answer, To, NoFault, AFault, AnswerOf, TypeOK, Places, Queued, OpenStages,
           JobStages, BatchStages
  <2>3. Transaction'
    BY <1>14
       DEF Answer, To, NoFault, AFault, AnswerOf, TypeOK, Places, Transaction, Outcomes,
           Queued, None, Rows, OpenStages, JobStages, BatchStages
  <2>4. Outcomes'
    BY <1>14
       DEF Answer, To, NoFault, AFault, AnswerOf, TypeOK, Places, Transaction, Outcomes,
           Queued, None, Rows, OpenStages, JobStages, BatchStages
  <2>5. AllOrNothing'
    BY <1>14
       DEF Answer, To, NoFault, AFault, AnswerOf, TypeOK, Places, Transaction, Outcomes,
           AllOrNothing, None, Rows, OpenStages, JobStages, BatchStages
  <2> QED BY <2>1, <2>2, <2>3, <2>4, <2>5
<1>15. CASE EndBatch
  <2>1. TypeOK'
    <3>1. writer' \in Writers
      BY <1>15
         DEF EndBatch, To, NoFault, AFault, Idle, NoOutcome, TypeOK, Writers, TheStages
    <3>2. queue' \in Seq(Callers) /\ faults' \in 0 .. MaxFaults
      BY <1>15 DEF EndBatch, To, NoFault, AFault, Idle, NoOutcome, TypeOK
    <3> QED
      BY <1>15, <3>1, <3>2
         DEF EndBatch, To, NoFault, AFault, Idle, NoOutcome, TypeOK, Rows, Places,
             OpenStages, JobStages, BatchStages
  <2>2. Places'
    BY <1>15
       DEF EndBatch, To, NoFault, AFault, Idle, NoOutcome, TypeOK, Places, Queued,
           OpenStages, JobStages, BatchStages
  <2>3. Transaction'
    BY <1>15, SMTT(60)
       DEF EndBatch, To, NoFault, AFault, Idle, NoOutcome, TypeOK, Places, Transaction,
           Outcomes, Queued, None, Rows, OpenStages, JobStages, BatchStages
  <2>4. Outcomes'
    BY <1>15
       DEF EndBatch, To, NoFault, AFault, Idle, NoOutcome, TypeOK, Places, Transaction,
           Outcomes, Queued, None, Rows, OpenStages, JobStages, BatchStages
  <2>5. AllOrNothing'
    BY <1>15
       DEF EndBatch, To, NoFault, AFault, Idle, NoOutcome, TypeOK, Places, Transaction,
           Outcomes, AllOrNothing, None, Rows, OpenStages, JobStages, BatchStages
  <2> QED BY <2>1, <2>2, <2>3, <2>4, <2>5
<1>16. CASE CommitLent
  <2>1. TypeOK'
    <3>1. writer' \in Writers
      BY <1>16 DEF CommitLent, To, NoFault, AFault, TypeOK, Writers, TheStages
    <3>2. queue' \in Seq(Callers) /\ faults' \in 0 .. MaxFaults
      BY <1>16 DEF CommitLent, To, NoFault, AFault, TypeOK
    <3> QED
      BY <1>16, <3>1, <3>2
         DEF CommitLent, To, NoFault, AFault, TypeOK, Rows, Places, OpenStages,
             JobStages, BatchStages
  <2>2. Places'
    BY <1>16
       DEF CommitLent, To, NoFault, AFault, TypeOK, Places, Queued, OpenStages,
           JobStages, BatchStages
  <2>3. Transaction'
    BY <1>16
       DEF CommitLent, To, NoFault, AFault, TypeOK, Places, Transaction, Outcomes,
           Queued, None, Rows, OpenStages, JobStages, BatchStages
  <2>4. Outcomes'
    BY <1>16
       DEF CommitLent, To, NoFault, AFault, TypeOK, Places, Transaction, Outcomes,
           Queued, None, Rows, OpenStages, JobStages, BatchStages
  <2>5. AllOrNothing'
    BY <1>16
       DEF CommitLent, To, NoFault, AFault, TypeOK, Places, Transaction, Outcomes,
           AllOrNothing, None, Rows, OpenStages, JobStages, BatchStages
  <2> QED BY <2>1, <2>2, <2>3, <2>4, <2>5
<1>17. CASE AbandonLent
  <2>1. TypeOK'
    <3>1. writer' \in Writers
      BY <1>17 DEF AbandonLent, To, NoFault, AFault, TypeOK, Writers, TheStages
    <3>2. queue' \in Seq(Callers) /\ faults' \in 0 .. MaxFaults
      BY <1>17 DEF AbandonLent, To, NoFault, AFault, TypeOK
    <3> QED
      BY <1>17, <3>1, <3>2
         DEF AbandonLent, To, NoFault, AFault, TypeOK, Rows, Places, OpenStages,
             JobStages, BatchStages
  <2>2. Places'
    BY <1>17
       DEF AbandonLent, To, NoFault, AFault, TypeOK, Places, Queued, OpenStages,
           JobStages, BatchStages
  <2>3. Transaction'
    BY <1>17
       DEF AbandonLent, To, NoFault, AFault, TypeOK, Places, Transaction, Outcomes,
           Queued, None, Rows, OpenStages, JobStages, BatchStages
  <2>4. Outcomes'
    BY <1>17
       DEF AbandonLent, To, NoFault, AFault, TypeOK, Places, Transaction, Outcomes,
           Queued, None, Rows, OpenStages, JobStages, BatchStages
  <2>5. AllOrNothing'
    BY <1>17
       DEF AbandonLent, To, NoFault, AFault, TypeOK, Places, Transaction, Outcomes,
           AllOrNothing, None, Rows, OpenStages, JobStages, BatchStages
  <2> QED BY <2>1, <2>2, <2>3, <2>4, <2>5
<1>18. CASE GiveBack
  <2>1. TypeOK'
    <3>1. writer' \in Writers
      BY <1>18
         DEF GiveBack, To, NoFault, AFault, ReadIndex, Idle, TypeOK, Writers, TheStages
    <3>2. queue' \in Seq(Callers) /\ faults' \in 0 .. MaxFaults
      BY <1>18 DEF GiveBack, To, NoFault, AFault, ReadIndex, Idle, TypeOK
    <3> QED
      BY <1>18, <3>1, <3>2
         DEF GiveBack, To, NoFault, AFault, ReadIndex, Idle, TypeOK, Rows, Places,
             OpenStages, JobStages, BatchStages
  <2>2. Places'
    BY <1>18
       DEF GiveBack, To, NoFault, AFault, ReadIndex, Idle, TypeOK, Places, Queued,
           OpenStages, JobStages, BatchStages
  <2>3. Transaction'
    BY <1>18
       DEF GiveBack, To, NoFault, AFault, ReadIndex, Idle, TypeOK, Places, Transaction,
           Outcomes, Queued, None, Rows, OpenStages, JobStages, BatchStages
  <2>4. Outcomes'
    BY <1>18
       DEF GiveBack, To, NoFault, AFault, ReadIndex, Idle, TypeOK, Places, Transaction,
           Outcomes, Queued, None, Rows, OpenStages, JobStages, BatchStages
  <2>5. AllOrNothing'
    BY <1>18
       DEF GiveBack, To, NoFault, AFault, ReadIndex, Idle, TypeOK, Places, Transaction,
           Outcomes, AllOrNothing, None, Rows, OpenStages, JobStages, BatchStages
  <2> QED BY <2>1, <2>2, <2>3, <2>4, <2>5
<1>19. CASE Crash
  <2>1. TypeOK'
    <3>1. writer' \in Writers
      BY <1>19 DEF Crash, To, NoFault, AFault, Idle, NoOutcome, TypeOK, Writers, TheStages
    <3>2. queue' \in Seq(Callers) /\ faults' \in 0 .. MaxFaults
      BY <1>19 DEF Crash, To, NoFault, AFault, Idle, NoOutcome, TypeOK
    <3>3. reply' \in [Callers -> {"idle", "asked", "ok", "refused", "failed", "lost"}]
      BY <1>19 DEF Crash, TypeOK
    <3>4. outcome' \in [Callers -> {"none", "ok", "err"}] /\ crashes' \in 0 .. MaxCrashes
      BY <1>19 DEF Crash, TypeOK, NoOutcome
    <3> QED
      BY <1>19, <3>1, <3>2, <3>3, <3>4 DEF Crash, TypeOK
  <2>2. Places'
    BY <1>19
       DEF Crash, To, NoFault, AFault, Idle, NoOutcome, TypeOK, Places, Queued,
           OpenStages, JobStages, BatchStages
  <2>3. Transaction'
    BY <1>19, SMTT(60)
       DEF Crash, To, NoFault, AFault, Idle, NoOutcome, TypeOK, Places, Transaction,
           Outcomes, Queued, None, Rows, OpenStages, JobStages, BatchStages
  <2>4. Outcomes'
    BY <1>19
       DEF Crash, To, NoFault, AFault, Idle, NoOutcome, TypeOK, Places, Transaction,
           Outcomes, Queued, None, Rows, OpenStages, JobStages, BatchStages
  <2>5. AllOrNothing'
    BY <1>19
       DEF Crash, To, NoFault, AFault, Idle, NoOutcome, TypeOK, Places, Transaction,
           Outcomes, AllOrNothing, None, Rows, OpenStages, JobStages, BatchStages
  <2> QED BY <2>1, <2>2, <2>3, <2>4, <2>5
<1> QED
  BY <1>1, <1>2, <1>3, <1>4, <1>5, <1>6, <1>7, <1>8, <1>9, <1>10, <1>11, <1>12, <1>13,
     <1>14, <1>15, <1>16, <1>17, <1>18, <1>19
     DEF Next, WriterStep

\* The inductive invariant holds of every behaviour.
THEOREM WriterInvariance == Spec => []WInv
BY InitW, NextW, PTL DEF Spec

\* The values of the writer thread stay well formed.
THEOREM WriterTypeCorrect == Spec => []TypeOK
<1>1. WInv => TypeOK
  BY DEF WInv
<1> QED BY <1>1, WriterInvariance, PTL

\* A write is committed whole or not at all.
THEOREM WritesAreWhole == Spec => []AllOrNothing
<1>1. WInv => AllOrNothing
  BY DEF WInv
<1> QED BY <1>1, WriterInvariance, PTL

(***************************************************************************)
(* The refinement                                                          *)
(***************************************************************************)
Took == {c \in Callers : Rows(c) \subseteq durable}

\* A write has a row.
LEMMA RowsExist == \A c \in Callers : Rows(c) # {}
<1> TAKE c \in Callers
<1> PICK p \in Parts : TRUE
  BY WriteAssumption
<1>1. <<c, p>> \in Rows(c)
  BY DEF Rows
<1> QED BY <1>1

\* A write that has no committed row has not taken effect.
LEMMA NoRowsNotTaken == \A c \in Callers : None(c, durable) => c \notin Took
BY RowsExist DEF None, Took

\* The commit of a batch is the step in which those of its writes that succeeded take effect.
LEMMA CommitTakesEffect ==
    ASSUME WInv, Commit, writer.failure = "none", durable' = tx
    PROVE  Took' = Took \cup {c \in batch : outcome[c] = "ok"}
<1> USE WriteAssumption DEF WInv
<1>1. \A c \in Callers : Rows(c) \subseteq durable => Rows(c) \subseteq tx
  BY DEF Transaction
<1>2. \A c \in batch : outcome[c] = "ok" => Rows(c) \subseteq tx
  BY DEF Outcomes, Commit, OpenStages
<1>3. ASSUME NEW c \in Callers, Rows(c) \subseteq tx, c \notin batch
      PROVE  Rows(c) \subseteq durable
  <2>1. writer.stage = "commit" /\ c # writer.job
    BY <1>3, NobodyCalls DEF Commit, Places, JobStages
  <2>2. Rows(c) \cap tx = Rows(c) \cap durable
    BY <1>3, <2>1 DEF Transaction, OpenStages
  <2> QED BY <1>3, <2>2
<1>4. ASSUME NEW c \in batch, Rows(c) \subseteq tx PROVE outcome[c] = "ok"
  <2>1. Rows(c) # {}
    BY RowsExist DEF TypeOK
  <2>2. outcome[c] # "ok" => None(c, tx)
    BY <1>4 DEF Outcomes, Commit, OpenStages
  <2> QED BY <1>4, <2>1, <2>2 DEF None
<1>5. batch \subseteq Callers
  BY DEF TypeOK
<1> QED BY <1>1, <1>2, <1>3, <1>4, <1>5 DEF Took, Rows

\* Every step of the writer is a step of AtomicWrites or changes nothing there.
LEMMA StepsRefine == WInv /\ [Next]_vars => [Atomic!Next]_(Atomic!vars)
<1> SUFFICES ASSUME WInv, [Next]_vars, ~UNCHANGED <<Took, reply>>
             PROVE  Atomic!Next
  BY DEF Atomic!vars, Took
<1> USE WriteAssumption, NobodyCalls DEF WInv
<1>1. CASE \E c \in Callers : Send(c)
  <2> PICK c \in Callers : Send(c)
    BY <1>1
  <2>1. Atomic!Ask(c)
    BY DEF Send, Atomic!Ask, Rows
  <2> QED BY <2>1 DEF Atomic!Next
<1>2. CASE Commit
  <2>1. CASE writer.failure = "none" /\ durable' = tx
    <3> DEFINE S == {c \in batch : outcome[c] = "ok"}
    <3>1. S \in SUBSET Callers /\ \A c \in S : reply[c] = "asked"
      BY DEF TypeOK, Places
    <3>2. Took' = Took \cup S /\ UNCHANGED reply
      BY <1>2, <2>1, CommitTakesEffect DEF Commit
    <3>3. Atomic!TakeEffect(S)
      BY <3>1, <3>2 DEF Atomic!TakeEffect, Took
    <3> HIDE DEF S
    <3> QED BY <3>1, <3>3 DEF Atomic!Next
  <2>2. CASE UNCHANGED durable
    BY <1>2, <2>2 DEF Commit, Took, Rows
  <2> QED BY <1>2, <2>1, <2>2 DEF Commit
<1>3. CASE CommitLent
  <2> DEFINE j == writer.job
  <2>1. j \in Callers /\ reply[j] = "asked" /\ batch = {} /\ Rows(j) \subseteq tx
    BY <1>3 DEF CommitLent, Places, JobStages, BatchStages
  <2>2. \A c \in Callers : c # j => Rows(c) \cap tx = Rows(c) \cap durable
    BY <1>3, <2>1 DEF CommitLent, Transaction, OpenStages
  <2>3. durable \subseteq tx /\ durable' = tx /\ UNCHANGED reply
    BY <1>3 DEF CommitLent, Transaction
  <2>4. Took' = Took \cup {j}
    BY <2>1, <2>2, <2>3 DEF Took, Rows
  <2>5. Atomic!TakeEffect({j})
    BY <2>1, <2>3, <2>4 DEF Atomic!TakeEffect, Took
  <2>6. {j} \in SUBSET Callers
    BY <2>1
  <2> QED BY <2>5, <2>6 DEF Atomic!Next
<1>4. CASE \E c \in Callers : Answer(c)
  <2> PICK c \in Callers : Answer(c)
    BY <1>4
  <2>1. reply[c] = "asked" /\ UNCHANGED Took
    BY DEF Answer, Places, Took, Rows
  <2>2. CASE AnswerOf(c) = "ok"
    <3>1. c \in Took
      BY <2>2 DEF Answer, AnswerOf, Outcomes, Took, TypeOK, Writers
    <3>2. Atomic!Succeed(c)
      BY <2>1, <2>2, <3>1 DEF Answer, Atomic!Succeed, Took
    <3> QED BY <3>2 DEF Atomic!Next
  <2>3. CASE AnswerOf(c) \in {"refused", "failed"}
    <3>1. c \notin Took
      BY <2>3, NoRowsNotTaken DEF Answer, AnswerOf, Outcomes
    <3>2. Atomic!Fail(c, AnswerOf(c))
      BY <2>1, <3>1 DEF Answer, Atomic!Fail, Took
    <3> QED BY <2>3, <3>2 DEF Atomic!Next, Atomic!Failures
  <2> QED BY <2>2, <2>3 DEF AnswerOf
<1>5. CASE GiveBack
  <2> DEFINE j == writer.job
  <2>1. j \in Callers /\ reply[j] = "asked" /\ UNCHANGED Took
    BY <1>5 DEF GiveBack, Places, JobStages, Took, Rows
  <2>2. CASE writer.failure = "some"
    <3>1. Atomic!Fail(j, "failed")
      BY <1>5, <2>1, <2>2, NoRowsNotTaken DEF GiveBack, Outcomes, Atomic!Fail, Took
    <3> QED BY <2>1, <3>1 DEF Atomic!Next, Atomic!Failures
  <2>3. CASE writer.failure # "some"
    <3>1. Atomic!Succeed(j)
      BY <1>5, <2>1, <2>3 DEF GiveBack, Outcomes, Atomic!Succeed, Took
    <3> QED BY <2>1, <3>1 DEF Atomic!Next
  <2> QED BY <2>2, <2>3
<1>6. CASE Crash
  BY <1>6 DEF Crash, Atomic!Next, Atomic!Crash, Rows
<1>7. CASE UNCHANGED <<durable, reply>>
  BY <1>7 DEF Took, Rows
<1> QED
  BY <1>1, <1>2, <1>3, <1>4, <1>5, <1>6, <1>7
     DEF Next, WriterStep, vars, Receive, RunNext, Savepoint, Return, Release, Drop,
         TakeMore, StopTaking, StoreIndex, EndBatch, AbandonLent, WriteRow

\* The writer thread implements AtomicWrites.
THEOREM WriterKeepsPromise == Spec => KeepsPromise
<1>1. Init => Atomic!Init
  BY RowsExist DEF Init, Atomic!Init
<1> QED
  BY <1>1, StepsRefine, WriterInvariance, PTL DEF Spec, Atomic!Spec, KeepsPromise
================================================================================

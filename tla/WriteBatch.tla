------------------------------- MODULE WriteBatch -------------------------------
(***************************************************************************)
(* The writer thread of a smallclaims store.  Callers queue writes; the    *)
(* thread runs those queued behind one another in one transaction, each in *)
(* a savepoint of its own, commits once and answers them all.  A caller    *)
(* that needs the connection itself is lent it in its turn.                *)
(*                                                                         *)
(* A write puts one row for each of its Parts.  The database is the set of *)
(* committed rows; an open transaction is a second set that replaces it    *)
(* when it commits.  SQLite is external: each of its statements may fail.  *)
(* A caller that was lent the connection writes in one transaction.        *)
(***************************************************************************)
EXTENDS Naturals, Sequences

CONSTANTS
    Callers,    \* each makes one write
    Lenders,    \* those of them that borrow the connection
    Parts,      \* the rows of a write
    MaxFaults,  \* bound on the statements that fail
    MaxCrashes  \* bound on the crashes

ASSUME WriteAssumption ==
    /\ Lenders \subseteq Callers
    /\ Parts # {}
    /\ MaxFaults \in Nat /\ MaxCrashes \in Nat

NoCaller == "nobody"
ASSUME NobodyCalls == NoCaller \notin Callers

VARIABLES
    queue,    \* the jobs that were sent and not received
    durable,  \* the committed rows
    tx,       \* the rows the open transaction sees
    mark,     \* what it saw at the savepoint
    writer,   \* what the thread does: stage, current job, job to run next, failure
    batch,    \* the callers of this transaction, to be answered
    outcome,  \* what the job of each of them returned
    reply,    \* what each caller was answered
    index,    \* what committed_index counts
    reading,  \* history: whether the last reading of the index failed
    ahead,    \* history: the callers that waited when each one sent its job
    faults, crashes

vars == <<queue, durable, tx, mark, writer, batch, outcome, reply, index, reading, ahead,
          faults, crashes>>

Rows(c) == {c} \X Parts
Idle == [stage |-> "idle", job |-> NoCaller, next |-> NoCaller, failure |-> "none"]
NoOutcome == [c \in Callers |-> "none"]

NoFault == UNCHANGED faults
AFault == faults < MaxFaults /\ faults' = faults + 1

Waiting == {c \in Callers : reply[c] = "asked"}

\* send: the job joins the queue and its caller waits.
Send(c) ==
    /\ reply[c] = "idle"
    /\ reply' = [reply EXCEPT ![c] = "asked"]
    /\ queue' = Append(queue, c)
    /\ ahead' = [ahead EXCEPT ![c] = Waiting]
    /\ UNCHANGED <<durable, tx, mark, writer, batch, outcome, index, reading, faults, crashes>>

(***************************************************************************)
(* write_queue and run_write_batch                                         *)
(***************************************************************************)
To(stage, job, next, failure) ==
    writer' = [stage |-> stage, job |-> job, next |-> next, failure |-> failure]

\* The thread takes up c: it lends it the connection, or begins a transaction for it.
TakeUp(c) ==
    IF c \in Lenders
    THEN To("lent", c, NoCaller, "none") /\ NoFault
    ELSE \/ To("savepoint", c, NoCaller, "none") /\ NoFault
         \/ To("drop", c, NoCaller, "some") /\ AFault

Receive ==
    /\ writer.stage = "idle" /\ queue # <<>>
    /\ TakeUp(Head(queue)) /\ queue' = Tail(queue)
    /\ UNCHANGED <<durable, tx, mark, batch, outcome, reply, index, reading, ahead, crashes>>

\* The job that ended the last batch comes before what is queued.
RunNext ==
    /\ writer.stage = "next"
    /\ TakeUp(writer.next)
    /\ UNCHANGED <<queue, durable, tx, mark, batch, outcome, reply, index, reading, ahead, crashes>>

Savepoint ==
    /\ writer.stage = "savepoint"
    /\ mark' = tx
    /\ \/ To("run", writer.job, NoCaller, "none") /\ NoFault
       \/ To("drop", writer.job, NoCaller, "some") /\ AFault
    /\ UNCHANGED <<queue, durable, tx, batch, outcome, reply, index, reading, ahead, crashes>>

\* The job, or the caller that was lent the connection, writes one of its rows.
WriteRow(p) ==
    /\ writer.stage \in {"run", "lent"}
    /\ <<writer.job, p>> \notin tx
    /\ tx' = tx \cup {<<writer.job, p>>}
    /\ UNCHANGED <<queue, durable, mark, writer, batch, outcome, reply, index, reading, ahead,
                   faults, crashes>>

\* The job returns: it has written all its rows, or it fails, some of them written.
Return ==
    /\ writer.stage = "run"
    /\ To("release", writer.job, NoCaller, "none")
    /\ \/ /\ Rows(writer.job) \subseteq tx /\ NoFault
          /\ outcome' = [outcome EXCEPT ![writer.job] = "ok"]
       \/ /\ AFault
          /\ outcome' = [outcome EXCEPT ![writer.job] = "err"]
    /\ UNCHANGED <<queue, durable, tx, mark, batch, reply, index, reading, ahead, crashes>>

\* Mutant: the savepoint is released whatever the job returned.
ReleaseAlways ==
    /\ writer.stage = "release"
    /\ UNCHANGED tx
    /\ \/ To("more", NoCaller, NoCaller, "none") /\ NoFault
       \/ To("more", NoCaller, NoCaller, "some") /\ AFault
    /\ batch' = batch \cup {writer.job}
    /\ UNCHANGED <<queue, durable, mark, outcome, reply, index, reading, ahead, crashes>>

\* What a job that failed wrote is rolled back to its savepoint.
Release ==
    /\ writer.stage = "release"
    /\ \/ /\ tx' = (IF outcome[writer.job] = "ok" THEN tx ELSE mark)
          /\ To("more", NoCaller, NoCaller, "none") /\ NoFault
       \/ /\ UNCHANGED tx
          /\ To("more", NoCaller, NoCaller, "some") /\ AFault
    /\ batch' = batch \cup {writer.job}
    /\ UNCHANGED <<queue, durable, mark, outcome, reply, index, reading, ahead, crashes>>

\* A job whose transaction or savepoint could not begin is dropped unrun.
Drop ==
    /\ writer.stage = "drop"
    /\ batch' = batch \cup {writer.job}
    /\ To("more", NoCaller, NoCaller, "some")
    /\ UNCHANGED <<queue, durable, tx, mark, outcome, reply, index, reading, ahead,
                   faults, crashes>>

\* The batch takes in a queued job, unless it failed; a lending write ends it and is next.
TakeMore ==
    /\ writer.stage = "more" /\ writer.failure = "none" /\ queue # <<>>
    /\ queue' = Tail(queue)
    /\ IF Head(queue) \in Lenders
       THEN To("commit", NoCaller, Head(queue), "none")
       ELSE To("savepoint", Head(queue), NoCaller, "none")
    /\ UNCHANGED <<durable, tx, mark, batch, outcome, reply, index, reading, ahead,
                   faults, crashes>>

\* The queue is empty, or the batch has reached its limit or its window, or it failed.
StopTaking ==
    /\ writer.stage = "more"
    /\ To("commit", NoCaller, NoCaller, writer.failure)
    /\ UNCHANGED <<queue, durable, tx, mark, batch, outcome, reply, index, reading, ahead,
                   faults, crashes>>

Commit ==
    /\ writer.stage = "commit"
    /\ \/ /\ writer.failure = "none" /\ durable' = tx /\ UNCHANGED tx
          /\ To("index", NoCaller, writer.next, "none") /\ NoFault
       \/ /\ IF writer.failure = "some" THEN NoFault ELSE AFault
          /\ tx' = durable /\ UNCHANGED durable
          /\ To("index", NoCaller, writer.next, "some")
    /\ UNCHANGED <<queue, mark, batch, outcome, reply, index, reading, ahead, crashes>>

\* current_index: what was committed becomes visible to those who watch committed_index.
ReadIndex ==
    \/ index' = durable /\ reading' = "done" /\ NoFault
    \/ reading' = "failed" /\ UNCHANGED index /\ AFault

\* Mutant: the callers are answered first.
StoreIndexLate ==
    /\ writer.stage = "index"
    /\ To("answer", NoCaller, writer.next, writer.failure)
    /\ UNCHANGED <<queue, durable, tx, mark, batch, outcome, reply, index, reading, ahead,
                   faults, crashes>>

StoreIndex ==
    /\ writer.stage = "index"
    /\ ReadIndex
    /\ To("answer", NoCaller, writer.next, writer.failure)
    /\ UNCHANGED <<queue, durable, tx, mark, batch, outcome, reply, ahead, crashes>>

\* Mutant: a batch that failed answers each write with what its own job returned.
AnswerOfJob(c) == IF outcome[c] = "ok" THEN "ok" ELSE "refused"
\* batched: the outer error first, then what the job returned.
AnswerOf(c) ==
    IF writer.failure = "some" THEN "failed" ELSE IF outcome[c] = "ok" THEN "ok" ELSE "refused"

Answer(c) ==
    /\ writer.stage = "answer" /\ c \in batch
    /\ reply' = [reply EXCEPT ![c] = AnswerOf(c)]
    /\ batch' = batch \ {c}
    /\ UNCHANGED <<queue, durable, tx, mark, writer, outcome, index, reading, ahead,
                   faults, crashes>>

\* Mutant: the lending write goes ahead while the batch is being answered.
EndBatchEarly ==
    /\ writer.stage = "answer"
    /\ \/ writer.next # NoCaller /\ To("next", NoCaller, writer.next, "none")
       \/ writer.next = NoCaller /\ batch = {} /\ writer' = Idle
    /\ outcome' = NoOutcome
    /\ UNCHANGED <<queue, durable, tx, mark, batch, reply, index, reading, ahead,
                   faults, crashes>>

\* Mutant: the lending write that ended the batch is forgotten.
EndBatchForgets ==
    /\ writer.stage = "answer" /\ batch = {}
    /\ writer' = Idle /\ outcome' = NoOutcome
    /\ UNCHANGED <<queue, durable, tx, mark, batch, reply, index, reading, ahead,
                   faults, crashes>>

\* Mutant: a job is run next whether or not the batch returned one.
EndBatchRunsNext ==
    /\ writer.stage = "answer" /\ batch = {}
    /\ To("next", NoCaller, writer.next, "none") /\ outcome' = NoOutcome
    /\ UNCHANGED <<queue, durable, tx, mark, batch, reply, index, reading, ahead,
                   faults, crashes>>

EndBatch ==
    /\ writer.stage = "answer" /\ batch = {}
    /\ \/ writer.next # NoCaller /\ To("next", NoCaller, writer.next, "none")
       \/ writer.next = NoCaller /\ writer' = Idle
    /\ outcome' = NoOutcome
    /\ UNCHANGED <<queue, durable, tx, mark, batch, reply, index, reading, ahead,
                   faults, crashes>>

(***************************************************************************)
(* The caller that was lent the connection                                 *)
(***************************************************************************)
CommitLent ==
    /\ writer.stage = "lent" /\ Rows(writer.job) \subseteq tx
    /\ durable' = tx
    /\ To("return", writer.job, NoCaller, "none")
    /\ UNCHANGED <<queue, tx, mark, batch, outcome, reply, index, reading, ahead,
                   faults, crashes>>

\* A statement or the commit fails, or the caller unwinds: its transaction is rolled back.
AbandonLent ==
    /\ writer.stage = "lent" /\ AFault
    /\ tx' = durable
    /\ To("return", writer.job, NoCaller, "some")
    /\ UNCHANGED <<queue, durable, mark, batch, outcome, reply, index, reading, ahead, crashes>>

\* The guard drops: the index is read and the connection goes back to the thread.
GiveBack ==
    /\ writer.stage = "return"
    /\ ReadIndex
    /\ reply' = [reply EXCEPT ![writer.job] = IF writer.failure = "some" THEN "failed" ELSE "ok"]
    /\ writer' = Idle
    /\ UNCHANGED <<queue, durable, tx, mark, batch, outcome, ahead, crashes>>

\* The process dies and the store is opened again: only what was committed is left.
Crash ==
    /\ crashes < MaxCrashes /\ crashes' = crashes + 1
    /\ queue' = <<>> /\ batch' = {} /\ outcome' = NoOutcome
    /\ tx' = durable /\ mark' = durable /\ writer' = Idle
    /\ index' = durable /\ reading' = "done"
    /\ reply' = [c \in Callers |-> IF reply[c] = "asked" THEN "lost" ELSE reply[c]]
    /\ UNCHANGED <<durable, ahead, faults>>

(***************************************************************************)
(* The specification                                                       *)
(***************************************************************************)
Init ==
    /\ queue = <<>> /\ durable = {} /\ tx = {} /\ mark = {}
    /\ writer = Idle /\ batch = {} /\ outcome = NoOutcome
    /\ reply = [c \in Callers |-> "idle"]
    /\ index = {} /\ reading = "done"
    /\ ahead = [c \in Callers |-> {}]
    /\ faults = 0 /\ crashes = 0

WriterStep ==
    \/ Receive \/ RunNext \/ Savepoint \/ Return \/ Release \/ Drop
    \/ TakeMore \/ StopTaking \/ Commit \/ StoreIndex \/ EndBatch
    \/ CommitLent \/ AbandonLent \/ GiveBack
    \/ \E p \in Parts : WriteRow(p)
    \/ \E c \in Callers : Answer(c)

Next == WriterStep \/ Crash \/ \E c \in Callers : Send(c)

Spec == Init /\ [][Next]_vars

\* The thread, and the caller it lends the connection to, keep running.
FairSpec == Spec /\ WF_vars(WriterStep)

(***************************************************************************)
(* Properties                                                              *)
(***************************************************************************)
TheStages == {"idle", "next", "savepoint", "run", "release", "drop", "more", "commit", "index",
              "answer", "lent", "return"}

Writers == [stage : TheStages, job : Callers \cup {NoCaller}, next : Callers \cup {NoCaller},
            failure : {"none", "some"}]

\* The values are well formed.
TypeOK ==
    /\ queue \in Seq(Callers)
    /\ durable \subseteq Callers \X Parts /\ tx \subseteq Callers \X Parts
    /\ mark \subseteq Callers \X Parts /\ index \subseteq Callers \X Parts
    /\ writer \in Writers
    /\ batch \subseteq Callers
    /\ outcome \in [Callers -> {"none", "ok", "err"}]
    /\ reply \in [Callers -> {"idle", "asked", "ok", "refused", "failed", "lost"}]
    /\ reading \in {"done", "failed"} /\ ahead \in [Callers -> SUBSET Callers]
    /\ faults \in 0 .. MaxFaults /\ crashes \in 0 .. MaxCrashes

\* run_write_batch: a write is committed whole or not at all, whatever the other writes of
\* its batch do and wherever a crash falls.
AllOrNothing == \A c \in Callers : Rows(c) \subseteq durable \/ Rows(c) \cap durable = {}

\* run_write_batch and the guard: a caller that was told of its success finds its write
\* counted by committed_index, unless the index could not be read.
SeenByReaders == \A c \in Callers : reply[c] = "ok" => Rows(c) \subseteq index \/ reading = "failed"

\* write: the connection is lent only after every write that was queued before has been
\* answered.
LentInTurn == writer.stage = "lent" => \A c \in ahead[writer.job] : reply[c] # "asked"

\* batched and write: every caller is answered, unless a crash loses its write.
EveryWriteIsAnswered == \A c \in Callers : reply[c] = "asked" ~> reply[c] # "asked"

\* The abstract writer: a write has taken effect when all its rows are committed.
Atomic == INSTANCE AtomicWrites
            WITH done <- {c \in Callers : Rows(c) \subseteq durable}, status <- reply

\* The writer thread keeps the promise of AtomicWrites: a write takes effect at once, and
\* its caller is told what became of it.
KeepsPromise == Atomic!Spec
================================================================================

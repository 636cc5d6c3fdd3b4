----------------------------- MODULE WriteTurnProofs -----------------------------
(***************************************************************************)
(* The turn of a lending write and what readers see, for every number of   *)
(* callers and rows and for every failure.                                 *)
(***************************************************************************)
EXTENDS WriteBatchProofs

\* Every caller that waits is somewhere, and whoever waited before another one is not
\* queued behind it.
Turns ==
    /\ \A c \in Callers : reply[c] = "asked" =>
         Queued(c) \/ c \in batch \/ c = writer.job \/ c = writer.next
    /\ \A i, j \in DOMAIN queue : queue[j] \in ahead[queue[i]] => j < i
    /\ \A i \in DOMAIN queue :
         /\ writer.next # NoCaller => queue[i] \notin ahead[writer.next]
         /\ writer.job # NoCaller => queue[i] \notin ahead[writer.job]
    /\ \A c \in Callers : c \notin ahead[c] /\ \A d \in ahead[c] : reply[d] # "idle"

\* What was told to have succeeded is committed, and the index was read since.
Readers ==
    /\ \A c \in Callers : reply[c] = "ok" => Rows(c) \subseteq durable
    /\ writer.stage = "answer" => index = durable \/ reading = "failed"

TInv == WInv /\ Turns /\ Readers /\ SeenByReaders

\* Turns are kept by a step that leaves the queue alone and moves callers only between the
\* batch and the two places of the thread.
LEMMA TurnsKept ==
    ASSUME WInv, Turns, UNCHANGED <<queue, ahead>>,
           \A c \in Callers : reply[c] # "idle" => reply'[c] # "idle",
           \A c \in Callers : reply'[c] = "asked" => reply[c] = "asked",
           \A c \in Callers :
               reply'[c] = "asked" /\ (c \in batch \/ c = writer.job \/ c = writer.next) =>
                   c \in batch' \/ c = writer'.job \/ c = writer'.next,
           writer'.job \in {NoCaller, writer.job, writer.next},
           writer'.next \in {NoCaller, writer.job, writer.next}
    PROVE  Turns'
<1>1. \A c \in Callers : Queued(c)' <=> Queued(c)
  BY DEF Queued
<1>2. \A c \in Callers : reply'[c] = "asked" =>
        Queued(c)' \/ c \in batch' \/ c = writer'.job \/ c = writer'.next
  BY <1>1 DEF Turns
<1>3. \A c \in Callers : c \notin ahead[c] /\ \A d \in ahead[c] : reply'[d] # "idle"
  BY DEF Turns, WInv, TypeOK
<1>4. \A i \in DOMAIN queue :
        /\ writer'.next # NoCaller => queue[i] \notin ahead[writer'.next]
        /\ writer'.job # NoCaller => queue[i] \notin ahead[writer'.job]
  BY DEF Turns
<1> QED BY <1>2, <1>3, <1>4 DEF Turns

\* Readers are served as before by a step that commits nothing, tells nobody of a success
\* and does not begin to answer.
LEMMA ReadersKept ==
    ASSUME Readers, SeenByReaders, UNCHANGED <<durable, index, reading>>,
           \A c \in Callers : reply'[c] = "ok" => reply[c] = "ok",
           writer'.stage = "answer" => writer.stage = "answer"
    PROVE  Readers' /\ SeenByReaders'
BY DEF Readers, SeenByReaders, Rows

\* Every step keeps turns and readers.
LEMMA NextT == TInv /\ [Next]_vars => TInv'
<1> SUFFICES ASSUME TInv, [Next]_vars PROVE TInv'
  OBVIOUS
<1>0. WInv /\ WInv' /\ Turns /\ Readers /\ SeenByReaders
  BY NextW DEF TInv
<1> SUFFICES Turns' /\ Readers' /\ SeenByReaders'
  BY <1>0 DEF TInv
<1> USE <1>0, WriteAssumption, NobodyCalls
<1>1. CASE UNCHANGED vars
  BY <1>1 DEF vars, Turns, Readers, SeenByReaders, Queued
<1>2. ASSUME NEW c \in Callers, Send(c) PROVE Turns' /\ Readers' /\ SeenByReaders'
  <2>1. Turns'
    <3> USE <1>2 DEF Send
    <3>1. /\ DOMAIN queue' = 1 .. Len(queue) + 1 /\ DOMAIN queue = 1 .. Len(queue)
          /\ \A i \in DOMAIN queue : queue'[i] = queue[i] /\ queue[i] \in Callers
          /\ queue'[Len(queue) + 1] = c /\ Len(queue) \in Nat
      BY DEF WInv, TypeOK
    <3>2. \A d \in Callers : ahead'[d] = IF d = c THEN Waiting ELSE ahead[d]
      BY DEF WInv, TypeOK
    <3>3. \A d \in Callers : Queued(d) => Queued(d)'
      BY <3>1 DEF Queued
    <3>4. Queued(c)' /\ reply[c] = "idle"
      BY <3>1 DEF Queued
    <3>5. UNCHANGED <<batch, writer>> /\ \A d \in Callers : d # c => reply'[d] = reply[d]
      BY DEF WInv, TypeOK
    <3>6. \A d \in Callers : reply'[d] = "asked" =>
            Queued(d)' \/ d \in batch' \/ d = writer'.job \/ d = writer'.next
      BY <3>3, <3>4, <3>5 DEF Turns
    <3>7. ~Queued(c) /\ c # writer.job /\ c # writer.next
      <4>1. ~Queued(c)
        BY <3>4 DEF WInv, Places, Queued
      <4>2. c # writer.job
        BY <3>4 DEF WInv, Places, JobStages
      <4>3. c # writer.next
        BY <3>4 DEF WInv, Places
      <4> QED BY <4>1, <4>2, <4>3
    <3>8. \A d \in Callers : c \notin ahead'[d] /\ \A e \in ahead'[d] : reply'[e] # "idle"
      BY <3>2, <3>4, <3>5 DEF Turns, Waiting, WInv, TypeOK
    <3>9. \A i, j \in DOMAIN queue' : queue'[j] \in ahead'[queue'[i]] => j < i
      BY <3>1, <3>2, <3>7, <3>8 DEF Turns, Queued
    <3>10. \A i \in DOMAIN queue' :
             /\ writer'.next # NoCaller => queue'[i] \notin ahead'[writer'.next]
             /\ writer'.job # NoCaller => queue'[i] \notin ahead'[writer'.job]
      <4>1. writer \in Writers
        BY DEF WInv, TypeOK
      <4>2. writer.next # NoCaller => writer.next \in Callers
        BY <4>1 DEF Writers
      <4>3. writer.job # NoCaller => writer.job \in Callers
        BY <4>1 DEF Writers
      <4> QED BY <3>1, <3>2, <3>5, <3>7, <3>8, <4>2, <4>3 DEF Turns
    <3>11. \A d \in Callers : d \notin ahead'[d]
      BY <3>2, <3>8 DEF Turns
    <3> QED BY <3>6, <3>8, <3>9, <3>10, <3>11 DEF Turns
  <2>2. Readers' /\ SeenByReaders'
    <3>1. UNCHANGED <<durable, index, reading, writer>>
      BY <1>2 DEF Send
    <3>2. \A d \in Callers : reply'[d] = "ok" => reply[d] = "ok"
      BY <1>2 DEF Send, WInv, TypeOK
    <3> QED BY <3>1, <3>2, ReadersKept
  <2> QED BY <2>1, <2>2
<1>3. CASE Receive
  <2>1. Turns'
    <3> USE <1>3 DEF Receive
    <3> DEFINE h == Head(queue)
    <3>1. /\ h = queue[1] /\ h \in Callers /\ 1 \in DOMAIN queue
          /\ \A i \in DOMAIN queue' : i + 1 \in DOMAIN queue /\ queue'[i] = queue[i + 1]
          /\ \A i \in DOMAIN queue : i = 1 \/ (i - 1 \in DOMAIN queue' /\ queue'[i - 1] = queue[i])
          /\ DOMAIN queue \subseteq Nat /\ DOMAIN queue' \subseteq Nat
          /\ \A i \in DOMAIN queue : queue[i] \in Callers
      BY DEF WInv, TypeOK
    <3> HIDE DEF h
    <3>2. writer.job = NoCaller /\ writer.next = NoCaller
      BY DEF WInv, Places, JobStages
    <3>3. \/ writer'.job = h /\ writer'.next = NoCaller
          \/ writer'.job = NoCaller /\ writer'.next = h
      BY <3>1 DEF TakeUp, To, h
    <3>4. UNCHANGED <<batch, reply, ahead>>
      OBVIOUS
    <3>5. \A c \in Callers : reply'[c] = "asked" =>
            Queued(c)' \/ c \in batch' \/ c = writer'.job \/ c = writer'.next
      <4> TAKE c \in Callers
      <4> HAVE reply'[c] = "asked"
      <4>1. Queued(c) \/ c \in batch
        BY <3>2, <3>4 DEF Turns
      <4>2. ASSUME Queued(c) PROVE c = h \/ Queued(c)'
        <5> PICK i \in DOMAIN queue : queue[i] = c
          BY <4>2 DEF Queued
        <5>1. CASE i = 1
          BY <3>1, <5>1
        <5>2. CASE i # 1
          <6>1. i - 1 \in DOMAIN queue' /\ queue'[i - 1] = c
            BY <3>1, <5>2
          <6> QED BY <6>1 DEF Queued
        <5> QED BY <5>1, <5>2
      <4> QED BY <3>3, <3>4, <4>1, <4>2
    <3>6. \A i, j \in DOMAIN queue' : queue'[j] \in ahead'[queue'[i]] => j < i
      BY <3>1, <3>4 DEF Turns
    <3>7. \A i \in DOMAIN queue' : queue'[i] \notin ahead'[h]
      BY <3>1, <3>4 DEF Turns
    <3> QED BY <3>1, <3>3, <3>4, <3>5, <3>6, <3>7 DEF Turns
  <2>2. Readers' /\ SeenByReaders'
    <3>1. UNCHANGED <<durable, index, reading, reply>>
      BY <1>3 DEF Receive
    <3>2. writer'.stage = "answer" => writer.stage = "answer"
      BY <1>3 DEF Receive, To, TakeUp
    <3> QED BY <3>1, <3>2, ReadersKept
  <2> QED BY <2>1, <2>2
<1>4. CASE RunNext
  <2>1. Turns'
    <3>1. UNCHANGED <<queue, ahead, reply>>
      BY <1>4 DEF RunNext
    <3>2. /\ writer'.job \in {NoCaller, writer.job, writer.next}
          /\ writer'.next \in {NoCaller, writer.job, writer.next}
      BY <1>4 DEF RunNext, To, TakeUp
    <3>3. \A d \in Callers :
            reply'[d] = "asked" /\ (d \in batch \/ d = writer.job \/ d = writer.next) =>
                d \in batch' \/ d = writer'.job \/ d = writer'.next
      BY <1>4
         DEF RunNext, To, TakeUp, WInv, Places, JobStages, BatchStages
    <3> QED BY <3>1, <3>2, <3>3, TurnsKept
  <2>2. Readers' /\ SeenByReaders'
    <3>1. UNCHANGED <<durable, index, reading, reply>>
      BY <1>4 DEF RunNext
    <3>2. writer'.stage = "answer" => writer.stage = "answer"
      BY <1>4 DEF RunNext, To, TakeUp
    <3> QED BY <3>1, <3>2, ReadersKept
  <2> QED BY <2>1, <2>2
<1>5. CASE Savepoint
  <2>1. Turns'
    <3>1. UNCHANGED <<queue, ahead, reply>>
      BY <1>5 DEF Savepoint
    <3>2. /\ writer'.job \in {NoCaller, writer.job, writer.next}
          /\ writer'.next \in {NoCaller, writer.job, writer.next}
      BY <1>5 DEF Savepoint, To
    <3>3. \A d \in Callers :
            reply'[d] = "asked" /\ (d \in batch \/ d = writer.job \/ d = writer.next) =>
                d \in batch' \/ d = writer'.job \/ d = writer'.next
      BY <1>5
         DEF Savepoint, To, WInv, Places, JobStages
    <3> QED BY <3>1, <3>2, <3>3, TurnsKept
  <2>2. Readers' /\ SeenByReaders'
    <3>1. UNCHANGED <<durable, index, reading, reply>>
      BY <1>5 DEF Savepoint
    <3>2. writer'.stage = "answer" => writer.stage = "answer"
      BY <1>5 DEF Savepoint, To
    <3> QED BY <3>1, <3>2, ReadersKept
  <2> QED BY <2>1, <2>2
<1>6. ASSUME NEW p \in Parts, WriteRow(p) PROVE Turns' /\ Readers' /\ SeenByReaders'
  <2>1. Turns'
    <3>1. UNCHANGED <<queue, ahead, reply>>
      BY <1>6 DEF WriteRow
    <3>2. /\ writer'.job \in {NoCaller, writer.job, writer.next}
          /\ writer'.next \in {NoCaller, writer.job, writer.next}
      BY <1>6 DEF WriteRow
    <3>3. \A d \in Callers :
            reply'[d] = "asked" /\ (d \in batch \/ d = writer.job \/ d = writer.next) =>
                d \in batch' \/ d = writer'.job \/ d = writer'.next
      BY <1>6
         DEF WriteRow
    <3> QED BY <3>1, <3>2, <3>3, TurnsKept
  <2>2. Readers' /\ SeenByReaders'
    <3>1. UNCHANGED <<durable, index, reading, reply>>
      BY <1>6 DEF WriteRow
    <3>2. writer'.stage = "answer" => writer.stage = "answer"
      BY <1>6 DEF WriteRow
    <3> QED BY <3>1, <3>2, ReadersKept
  <2> QED BY <2>1, <2>2
<1>7. CASE Return
  <2>1. Turns'
    <3>1. UNCHANGED <<queue, ahead, reply>>
      BY <1>7 DEF Return
    <3>2. /\ writer'.job \in {NoCaller, writer.job, writer.next}
          /\ writer'.next \in {NoCaller, writer.job, writer.next}
      BY <1>7 DEF Return, To
    <3>3. \A d \in Callers :
            reply'[d] = "asked" /\ (d \in batch \/ d = writer.job \/ d = writer.next) =>
                d \in batch' \/ d = writer'.job \/ d = writer'.next
      BY <1>7
         DEF Return, To, WInv, Places, JobStages
    <3> QED BY <3>1, <3>2, <3>3, TurnsKept
  <2>2. Readers' /\ SeenByReaders'
    <3>1. UNCHANGED <<durable, index, reading, reply>>
      BY <1>7 DEF Return
    <3>2. writer'.stage = "answer" => writer.stage = "answer"
      BY <1>7 DEF Return, To
    <3> QED BY <3>1, <3>2, ReadersKept
  <2> QED BY <2>1, <2>2
<1>8. CASE Release
  <2>1. Turns'
    <3>1. UNCHANGED <<queue, ahead, reply>>
      BY <1>8 DEF Release
    <3>2. /\ writer'.job \in {NoCaller, writer.job, writer.next}
          /\ writer'.next \in {NoCaller, writer.job, writer.next}
      BY <1>8 DEF Release, To
    <3>3. \A d \in Callers :
            reply'[d] = "asked" /\ (d \in batch \/ d = writer.job \/ d = writer.next) =>
                d \in batch' \/ d = writer'.job \/ d = writer'.next
      BY <1>8
         DEF Release, To, WInv, Places, JobStages
    <3> QED BY <3>1, <3>2, <3>3, TurnsKept
  <2>2. Readers' /\ SeenByReaders'
    <3>1. UNCHANGED <<durable, index, reading, reply>>
      BY <1>8 DEF Release
    <3>2. writer'.stage = "answer" => writer.stage = "answer"
      BY <1>8 DEF Release, To
    <3> QED BY <3>1, <3>2, ReadersKept
  <2> QED BY <2>1, <2>2
<1>9. CASE Drop
  <2>1. Turns'
    <3>1. UNCHANGED <<queue, ahead, reply>>
      BY <1>9 DEF Drop
    <3>2. /\ writer'.job \in {NoCaller, writer.job, writer.next}
          /\ writer'.next \in {NoCaller, writer.job, writer.next}
      BY <1>9 DEF Drop, To
    <3>3. \A d \in Callers :
            reply'[d] = "asked" /\ (d \in batch \/ d = writer.job \/ d = writer.next) =>
                d \in batch' \/ d = writer'.job \/ d = writer'.next
      BY <1>9
         DEF Drop, To, WInv, Places, JobStages
    <3> QED BY <3>1, <3>2, <3>3, TurnsKept
  <2>2. Readers' /\ SeenByReaders'
    <3>1. UNCHANGED <<durable, index, reading, reply>>
      BY <1>9 DEF Drop
    <3>2. writer'.stage = "answer" => writer.stage = "answer"
      BY <1>9 DEF Drop, To
    <3> QED BY <3>1, <3>2, ReadersKept
  <2> QED BY <2>1, <2>2
<1>10. CASE TakeMore
  <2>1. Turns'
    <3> USE <1>10 DEF TakeMore
    <3> DEFINE h == Head(queue)
    <3>1. /\ h = queue[1] /\ h \in Callers /\ 1 \in DOMAIN queue
          /\ \A i \in DOMAIN queue' : i + 1 \in DOMAIN queue /\ queue'[i] = queue[i + 1]
          /\ \A i \in DOMAIN queue : i = 1 \/ (i - 1 \in DOMAIN queue' /\ queue'[i - 1] = queue[i])
          /\ DOMAIN queue \subseteq Nat /\ DOMAIN queue' \subseteq Nat
          /\ \A i \in DOMAIN queue : queue[i] \in Callers
      BY DEF WInv, TypeOK
    <3> HIDE DEF h
    <3>2. writer.job = NoCaller /\ writer.next = NoCaller
      BY DEF WInv, Places, JobStages
    <3>3. \/ writer'.job = h /\ writer'.next = NoCaller
          \/ writer'.job = NoCaller /\ writer'.next = h
      <4>1. CASE h \in Lenders
        BY <4>1 DEF To, h
      <4>2. CASE h \notin Lenders
        BY <4>2 DEF To, h
      <4> QED BY <4>1, <4>2
    <3>4. UNCHANGED <<batch, reply, ahead>>
      OBVIOUS
    <3>5. \A c \in Callers : reply'[c] = "asked" =>
            Queued(c)' \/ c \in batch' \/ c = writer'.job \/ c = writer'.next
      <4> TAKE c \in Callers
      <4> HAVE reply'[c] = "asked"
      <4>1. Queued(c) \/ c \in batch
        BY <3>2, <3>4 DEF Turns
      <4>2. ASSUME Queued(c) PROVE c = h \/ Queued(c)'
        <5> PICK i \in DOMAIN queue : queue[i] = c
          BY <4>2 DEF Queued
        <5>1. CASE i = 1
          BY <3>1, <5>1
        <5>2. CASE i # 1
          <6>1. i - 1 \in DOMAIN queue' /\ queue'[i - 1] = c
            BY <3>1, <5>2
          <6> QED BY <6>1 DEF Queued
        <5> QED BY <5>1, <5>2
      <4> QED BY <3>3, <3>4, <4>1, <4>2
    <3>6. \A i, j \in DOMAIN queue' : queue'[j] \in ahead'[queue'[i]] => j < i
      BY <3>1, <3>4 DEF Turns
    <3>7. \A i \in DOMAIN queue' : queue'[i] \notin ahead'[h]
      BY <3>1, <3>4 DEF Turns
    <3> QED BY <3>1, <3>3, <3>4, <3>5, <3>6, <3>7 DEF Turns
  <2>2. Readers' /\ SeenByReaders'
    <3>1. UNCHANGED <<durable, index, reading, reply>>
      BY <1>10 DEF TakeMore
    <3>2. writer'.stage = "answer" => writer.stage = "answer"
      BY <1>10 DEF TakeMore, To
    <3> QED BY <3>1, <3>2, ReadersKept
  <2> QED BY <2>1, <2>2
<1>11. CASE StopTaking
  <2>1. Turns'
    <3>1. UNCHANGED <<queue, ahead, reply>>
      BY <1>11 DEF StopTaking
    <3>2. /\ writer'.job \in {NoCaller, writer.job, writer.next}
          /\ writer'.next \in {NoCaller, writer.job, writer.next}
      BY <1>11 DEF StopTaking, To
    <3>3. \A d \in Callers :
            reply'[d] = "asked" /\ (d \in batch \/ d = writer.job \/ d = writer.next) =>
                d \in batch' \/ d = writer'.job \/ d = writer'.next
      BY <1>11
         DEF StopTaking, To, WInv, Places, JobStages
    <3> QED BY <3>1, <3>2, <3>3, TurnsKept
  <2>2. Readers' /\ SeenByReaders'
    <3>1. UNCHANGED <<durable, index, reading, reply>>
      BY <1>11 DEF StopTaking
    <3>2. writer'.stage = "answer" => writer.stage = "answer"
      BY <1>11 DEF StopTaking, To
    <3> QED BY <3>1, <3>2, ReadersKept
  <2> QED BY <2>1, <2>2
<1>12. CASE Commit
  <2>1. Turns'
    <3>1. UNCHANGED <<queue, ahead, reply>>
      BY <1>12 DEF Commit
    <3>2. /\ writer'.job \in {NoCaller, writer.job, writer.next}
          /\ writer'.next \in {NoCaller, writer.job, writer.next}
      BY <1>12 DEF Commit, To
    <3>3. \A d \in Callers :
            reply'[d] = "asked" /\ (d \in batch \/ d = writer.job \/ d = writer.next) =>
                d \in batch' \/ d = writer'.job \/ d = writer'.next
      BY <1>12
         DEF Commit, To, WInv, Places, JobStages
    <3> QED BY <3>1, <3>2, <3>3, TurnsKept
  <2>2. Readers' /\ SeenByReaders'
    BY <1>12
       DEF Commit, To, WInv, TypeOK, Transaction, Outcomes, Readers, SeenByReaders
  <2> QED BY <2>1, <2>2
<1>13. CASE StoreIndex
  <2>1. Turns'
    <3>1. UNCHANGED <<queue, ahead, reply>>
      BY <1>13 DEF StoreIndex
    <3>2. /\ writer'.job \in {NoCaller, writer.job, writer.next}
          /\ writer'.next \in {NoCaller, writer.job, writer.next}
      BY <1>13 DEF StoreIndex, To
    <3>3. \A d \in Callers :
            reply'[d] = "asked" /\ (d \in batch \/ d = writer.job \/ d = writer.next) =>
                d \in batch' \/ d = writer'.job \/ d = writer'.next
      BY <1>13
         DEF StoreIndex, To, WInv, Places, JobStages
    <3> QED BY <3>1, <3>2, <3>3, TurnsKept
  <2>2. Readers' /\ SeenByReaders'
    BY <1>13
       DEF StoreIndex, To, ReadIndex, WInv, TypeOK, Transaction, Outcomes, Readers,
           SeenByReaders
  <2> QED BY <2>1, <2>2
<1>14. ASSUME NEW c \in Callers, Answer(c) PROVE Turns' /\ Readers' /\ SeenByReaders'
  <2>1. Turns'
    <3>1. /\ UNCHANGED <<queue, ahead>>
          /\ \A d \in Callers : reply[d] # "idle" => reply'[d] # "idle"
          /\ \A d \in Callers : reply'[d] = "asked" => reply[d] = "asked"
      BY <1>14 DEF Answer, AnswerOf, WInv, TypeOK
    <3>2. /\ writer'.job \in {NoCaller, writer.job, writer.next}
          /\ writer'.next \in {NoCaller, writer.job, writer.next}
      BY <1>14 DEF Answer
    <3>3. \A d \in Callers :
            reply'[d] = "asked" /\ (d \in batch \/ d = writer.job \/ d = writer.next) =>
                d \in batch' \/ d = writer'.job \/ d = writer'.next
      BY <1>14
         DEF Answer, WInv, TypeOK, Places, JobStages, AnswerOf
    <3> QED BY <3>1, <3>2, <3>3, TurnsKept
  <2>2. Readers' /\ SeenByReaders'
    <3>1. UNCHANGED <<durable, index, reading, writer>> /\ writer.stage = "answer" /\ c \in batch
      BY <1>14 DEF Answer
    <3>2. \A d \in Callers : reply'[d] = IF d = c THEN AnswerOf(c) ELSE reply[d]
      BY <1>14 DEF Answer, WInv, TypeOK
    <3>3. AnswerOf(c) = "ok" => Rows(c) \subseteq durable
      BY <3>1 DEF WInv, TypeOK, Writers, Outcomes, AnswerOf
    <3>4. index = durable \/ reading = "failed"
      BY <3>1 DEF Readers
    <3> QED BY <3>1, <3>2, <3>3, <3>4 DEF Readers, SeenByReaders, Rows
  <2> QED BY <2>1, <2>2
<1>15. CASE EndBatch
  <2>1. Turns'
    <3>1. UNCHANGED <<queue, ahead, reply>>
      BY <1>15 DEF EndBatch
    <3>2. /\ writer'.job \in {NoCaller, writer.job, writer.next}
          /\ writer'.next \in {NoCaller, writer.job, writer.next}
      BY <1>15 DEF EndBatch, To, Idle
    <3>3. \A d \in Callers :
            reply'[d] = "asked" /\ (d \in batch \/ d = writer.job \/ d = writer.next) =>
                d \in batch' \/ d = writer'.job \/ d = writer'.next
      BY <1>15
         DEF EndBatch, To, Idle, WInv, Places, JobStages
    <3> QED BY <3>1, <3>2, <3>3, TurnsKept
  <2>2. Readers' /\ SeenByReaders'
    <3>1. UNCHANGED <<durable, index, reading, reply>>
      BY <1>15 DEF EndBatch
    <3>2. writer'.stage = "answer" => writer.stage = "answer"
      BY <1>15 DEF EndBatch, To, Idle
    <3> QED BY <3>1, <3>2, ReadersKept
  <2> QED BY <2>1, <2>2
<1>16. CASE CommitLent
  <2>1. Turns'
    <3>1. UNCHANGED <<queue, ahead, reply>>
      BY <1>16 DEF CommitLent
    <3>2. /\ writer'.job \in {NoCaller, writer.job, writer.next}
          /\ writer'.next \in {NoCaller, writer.job, writer.next}
      BY <1>16 DEF CommitLent, To
    <3>3. \A d \in Callers :
            reply'[d] = "asked" /\ (d \in batch \/ d = writer.job \/ d = writer.next) =>
                d \in batch' \/ d = writer'.job \/ d = writer'.next
      BY <1>16
         DEF CommitLent, To, WInv, Places, JobStages
    <3> QED BY <3>1, <3>2, <3>3, TurnsKept
  <2>2. Readers' /\ SeenByReaders'
    BY <1>16 DEF CommitLent, To, WInv, TypeOK, Transaction, Outcomes, Readers, SeenByReaders
  <2> QED BY <2>1, <2>2
<1>17. CASE AbandonLent
  <2>1. Turns'
    <3>1. UNCHANGED <<queue, ahead, reply>>
      BY <1>17 DEF AbandonLent
    <3>2. /\ writer'.job \in {NoCaller, writer.job, writer.next}
          /\ writer'.next \in {NoCaller, writer.job, writer.next}
      BY <1>17 DEF AbandonLent, To
    <3>3. \A d \in Callers :
            reply'[d] = "asked" /\ (d \in batch \/ d = writer.job \/ d = writer.next) =>
                d \in batch' \/ d = writer'.job \/ d = writer'.next
      BY <1>17
         DEF AbandonLent, To, WInv, Places, JobStages
    <3> QED BY <3>1, <3>2, <3>3, TurnsKept
  <2>2. Readers' /\ SeenByReaders'
    <3>1. UNCHANGED <<durable, index, reading, reply>>
      BY <1>17 DEF AbandonLent
    <3>2. writer'.stage = "answer" => writer.stage = "answer"
      BY <1>17 DEF AbandonLent, To
    <3> QED BY <3>1, <3>2, ReadersKept
  <2> QED BY <2>1, <2>2
<1>18. CASE GiveBack
  <2>1. Turns'
    <3>1. /\ UNCHANGED <<queue, ahead>>
          /\ \A d \in Callers : reply[d] # "idle" => reply'[d] # "idle"
          /\ \A d \in Callers : reply'[d] = "asked" => reply[d] = "asked"
      BY <1>18 DEF GiveBack, WInv, TypeOK
    <3>2. /\ writer'.job \in {NoCaller, writer.job, writer.next}
          /\ writer'.next \in {NoCaller, writer.job, writer.next}
      BY <1>18 DEF GiveBack, Idle
    <3>3. \A d \in Callers :
            reply'[d] = "asked" /\ (d \in batch \/ d = writer.job \/ d = writer.next) =>
                d \in batch' \/ d = writer'.job \/ d = writer'.next
      BY <1>18, SMTT(30)
         DEF GiveBack, Idle, WInv, TypeOK, Places, JobStages, BatchStages
    <3> QED BY <3>1, <3>2, <3>3, TurnsKept
  <2>2. Readers' /\ SeenByReaders'
    BY <1>18
       DEF GiveBack, To, ReadIndex, Idle, WInv, TypeOK, Transaction, Outcomes, Readers,
           SeenByReaders
  <2> QED BY <2>1, <2>2
<1>19. CASE Crash
  <2>1. Turns'
    <3>1. /\ queue' = <<>> /\ writer'.job = NoCaller /\ writer'.next = NoCaller
          /\ UNCHANGED ahead
          /\ \A c \in Callers : reply'[c] # "asked" /\ (reply[c] # "idle" => reply'[c] # "idle")
      BY <1>19 DEF Crash, Idle
    <3>2. \A c \in Callers : c \notin ahead[c] /\ \A d \in ahead[c] : reply'[d] # "idle"
      BY <3>1 DEF Turns, WInv, TypeOK
    <3> QED BY <3>1, <3>2 DEF Turns
  <2>2. Readers' /\ SeenByReaders'
    BY <1>19 DEF Crash, Idle, Readers, SeenByReaders
  <2> QED BY <2>1, <2>2
<1> QED
  BY <1>1, <1>2, <1>3, <1>4, <1>5, <1>6, <1>7, <1>8, <1>9, <1>10, <1>11, <1>12, <1>13,
     <1>14, <1>15, <1>16, <1>17, <1>18, <1>19
     DEF Next, WriterStep

\* Turns and readers hold of every behaviour.
THEOREM TurnInvariance == Spec => []TInv
<1>1. Init => TInv
  <2> SUFFICES ASSUME Init PROVE TInv
    OBVIOUS
  <2>1. Turns /\ Readers /\ SeenByReaders
    BY NobodyCalls DEF Init, Idle, Turns, Readers, SeenByReaders
  <2> QED BY <2>1, InitW DEF TInv
<1> QED BY <1>1, NextT, PTL DEF Spec

\* The connection is lent after every write queued before has been answered.
THEOREM ConnectionIsLentInTurn == Spec => []LentInTurn
<1>1. TInv => LentInTurn
  <2> SUFFICES ASSUME TInv, writer.stage = "lent", NEW c \in ahead[writer.job], reply[c] = "asked"
               PROVE  FALSE
    BY DEF LentInTurn
  <2>1. writer.job \in Callers /\ writer.next = NoCaller /\ batch = {}
    BY DEF TInv, WInv, Places, JobStages, BatchStages
  <2>2. c \in Callers
    BY <2>1 DEF TInv, WInv, TypeOK
  <2>3. Queued(c) \/ c = writer.job
    BY <2>1, <2>2, NobodyCalls DEF TInv, Turns
  <2> QED BY <2>1, <2>2, <2>3, NobodyCalls DEF TInv, Turns, Queued
<1> QED BY <1>1, TurnInvariance, PTL

\* A caller that was told of its success finds its write counted, unless the index could
\* not be read.
THEOREM SuccessIsSeen == Spec => []SeenByReaders
<1>1. TInv => SeenByReaders
  BY DEF TInv
<1> QED BY <1>1, TurnInvariance, PTL
================================================================================

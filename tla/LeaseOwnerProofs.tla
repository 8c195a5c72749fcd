-------------------------- MODULE LeaseOwnerProofs --------------------------
(***************************************************************************)
(* Theorems about LeaseOwner, for every value of its CONSTANTS.             *)
(*                                                                          *)
(* The state's types, and that the records of a lease reach the topic in    *)
(* their order (PublishedInOrder and NoGap), are proved together: the       *)
(* flusher's counts stay in their range only because the publisher's        *)
(* outcomes are in order, and the auditor's reads are in range only because *)
(* the topic holds nothing the owner has not numbered.                      *)
(*                                                                          *)
(* On these rest: a hold has one terminal (OneTerminal), the last record    *)
(* lists the holds (LastRecordListsHolds), the drain log's rows win         *)
(* (DrainedRowsWin), the books are the sums they cache (BooksBalance),      *)
(* whatever prefix of the records the log kept, the allocation covers it    *)
(* (StoredPrefixCovers), and the lease's row follows the records it applied *)
(* and faults none of them (RowFollowsRecords).                             *)
(***************************************************************************)
EXTENDS LeaseOwner, SequenceTheorems, FiniteSetTheorems, FunctionTheorems, TLAPS

\* A terminal names an authorization, and the topic holds only records the
\* owner handed over.
RecordsKnown ==
  /\ \A n \in 1 .. Len(log) : log[n].kind \in Terminals => log[n].auth \in Auths
  /\ \A i \in 1 .. Len(topic) : topic[i] <= Len(log)

Inv == TypeOK /\ PublishedInOrder /\ RecordsKnown /\ NoGap

\* What the parts about the pipeline to the log read.
PipeInv == PipeType /\ LogTypeOK /\ PublishedInOrder /\ RecordsKnown /\ NoGap

-----------------------------------------------------------------------------
(* The pipeline from the owner to the topic.                                *)

\* Publishing the records that follow the last one published since the
\* failure keeps the publisher's outcomes in order (settlelog.go Publish).
LEMMA PublishKeepsOrder ==
  ASSUME MaxRecords \in Nat, LogTypeOK, acked \in Nat, live \in Nat,
         NEW k \in Nat, acked + live + k <= MaxRecords,
         NEW s \in Seq(Numbers), Len(s) = k,
         \A i \in 1 .. k : s[i] = acked + live + i,
         Publish(s), acked' = acked, live' = live + k,
         NEW p \in acked .. acked + live, PublishedUpTo(p)
  PROVE  LogTypeOK' /\ PublishedUpTo(p)'
<1> DEFINE e == acked + live
<1>1. /\ e \in Int /\ p \in Int /\ acked <= p /\ p <= e /\ e + k <= MaxRecords
      /\ Len(sending) \in Nat /\ Len(queue) \in Nat
      /\ acked' + live' = e + k /\ acked \in Nat
  BY DEF LogTypeOK
<1>0. \A i \in 1 .. k : s[i] = e + i
  OBVIOUS
<1> HIDE DEF e
<1>2. /\ sending' = sending /\ paused' = paused /\ topic' = topic
      /\ failures' = failures
  BY DEF Publish
<1>3. \A n \in Numbers : (\E i \in DOMAIN s : s[i] = n) <=> n \in e + 1 .. e + k
  <2>1. DOMAIN s = 1 .. k
    OBVIOUS
  <2>2. ASSUME NEW n \in e + 1 .. e + k
        PROVE  n - e \in 1 .. k /\ s[n - e] = n
    <3>1. n - e \in 1 .. k /\ e + (n - e) = n
      BY <1>1
    <3>2. s[n - e] = e + (n - e)
      BY <1>0, <3>1
    <3> QED BY <3>1, <3>2
  <2>3. ASSUME NEW i \in 1 .. k
        PROVE  s[i] \in e + 1 .. e + k
    BY <1>0, <1>1
  <2> QED BY <2>1, <2>2, <2>3
<1>4. ASSUME NEW o \in Outcomes, waiter' = Finish(waiter, s, o)
      PROVE  /\ waiter' \in [Numbers -> Outcomes]
             /\ \A n \in Numbers :
                  waiter'[n] = IF n \in e + 1 .. e + k THEN o ELSE waiter[n]
  BY <1>3, <1>4 DEF Finish, LogTypeOK
<1>5. CASE paused
  <2>1. queue' = queue /\ waiter' = Finish(waiter, s, "failed")
    BY <1>5 DEF Publish
  <2>2. /\ waiter' \in [Numbers -> Outcomes]
        /\ \A n \in Numbers :
             waiter'[n] = IF n \in e + 1 .. e + k THEN "failed" ELSE waiter[n]
    BY <1>4, <2>1 DEF Outcomes
  <2>3. LogTypeOK'
    BY <1>2, <2>1, <2>2 DEF LogTypeOK
  <2>4. /\ p <= acked' + live' /\ sending = <<>> /\ queue = <<>>
        /\ \A n \in acked + 1 .. p : waiter[n] = "acked"
        /\ \A n \in p + 1 .. MaxRecords : waiter[n] \in {"failed", "notSent"}
    BY <1>1, <1>5 DEF PublishedUpTo
  <2>5. \A n \in acked + 1 .. p : waiter'[n] = "acked"
    <3> TAKE n \in acked + 1 .. p
    <3>1. n \in Numbers /\ n \notin e + 1 .. e + k
      BY <1>1 DEF Numbers
    <3> QED BY <2>2, <2>4, <3>1
  <2>6. \A n \in p + 1 .. MaxRecords : waiter'[n] \in {"failed", "notSent"}
    <3> TAKE n \in p + 1 .. MaxRecords
    <3>1. n \in Numbers
      BY <1>1 DEF Numbers
    <3> QED BY <2>2, <2>4, <3>1
  <2> QED BY <1>1, <1>2, <1>5, <2>1, <2>3, <2>4, <2>5, <2>6 DEF PublishedUpTo
<1>6. CASE ~paused
  <2>1. queue' = queue \o s /\ waiter' = Finish(waiter, s, "pending")
    BY <1>6 DEF Publish
  <2>2. /\ waiter' \in [Numbers -> Outcomes]
        /\ \A n \in Numbers :
             waiter'[n] = IF n \in e + 1 .. e + k THEN "pending" ELSE waiter[n]
    BY <1>4, <2>1 DEF Outcomes
  <2>3. /\ queue' \in Seq(Numbers)
        /\ Len(queue') = Len(queue) + k
        /\ \A i \in 1 .. Len(queue) + k :
             queue'[i] = IF i <= Len(queue) THEN queue[i] ELSE s[i - Len(queue)]
    <3>1. queue \in Seq(Numbers) /\ s \in Seq(Numbers) /\ Len(s) = k
      BY DEF LogTypeOK
    <3> QED BY <2>1, <3>1, ConcatProperties
  <2>4. LogTypeOK'
    BY <1>2, <2>2, <2>3 DEF LogTypeOK
  <2>5. p + Len(sending) + Len(queue) = e
    BY <1>1, <1>6 DEF PublishedUpTo, e
  <2>6. \A i \in 1 .. Len(queue') : queue'[i] = p + Len(sending) + i
    <3> TAKE i \in 1 .. Len(queue')
    <3>1. CASE i <= Len(queue)
      <4>1. queue'[i] = queue[i] /\ i \in 1 .. Len(queue)
        BY <1>1, <2>3, <3>1
      <4> QED BY <4>1 DEF PublishedUpTo
    <3>2. CASE i > Len(queue)
      <4>1. i - Len(queue) \in 1 .. k
        BY <1>1, <2>3, <3>2
      <4>2. queue'[i] = e + (i - Len(queue))
        BY <1>0, <1>1, <2>3, <3>2, <4>1
      <4>3. e + (i - Len(queue)) = p + Len(sending) + i
        BY <1>1, <2>5
      <4> QED BY <4>2, <4>3
    <3> QED BY <3>1, <3>2, <1>1
  <2>7. /\ \A n \in acked + 1 .. p : waiter[n] = "acked"
        /\ \A n \in p + 1 .. e : waiter[n] = "pending"
        /\ \A n \in e + 1 .. MaxRecords : waiter[n] \in {"failed", "notSent"}
        /\ \A i \in 1 .. Len(sending) : sending[i] = p + i
        /\ \A n \in 1 .. p : \E i \in 1 .. Len(topic) : topic[i] = n
    BY <2>5 DEF PublishedUpTo
  <2>8. \A n \in acked + 1 .. p : waiter'[n] = "acked"
    <3> TAKE n \in acked + 1 .. p
    <3>1. n \in Numbers /\ n \notin e + 1 .. e + k
      BY <1>1 DEF Numbers
    <3> QED BY <2>2, <2>7, <3>1
  <2>9. \A n \in p + 1 .. e + k : waiter'[n] = "pending"
    <3> TAKE n \in p + 1 .. e + k
    <3>1. n \in Numbers /\ (n \in p + 1 .. e \/ n \in e + 1 .. e + k)
      BY <1>1 DEF Numbers
    <3> QED BY <2>2, <2>7, <3>1
  <2>10. \A n \in e + k + 1 .. MaxRecords : waiter'[n] \in {"failed", "notSent"}
    <3> TAKE n \in e + k + 1 .. MaxRecords
    <3>1. n \in Numbers /\ n \notin e + 1 .. e + k /\ n \in e + 1 .. MaxRecords
      BY <1>1 DEF Numbers
    <3> QED BY <2>2, <2>7, <3>1
  <2>11. p + Len(sending) + Len(queue') = e + k
    <3>1. Len(queue') = Len(queue) + k
      BY <2>3
    <3> QED BY <1>1, <2>5, <3>1
  <2> QED BY <1>1, <1>2, <1>6, <2>4, <2>6, <2>7, <2>8, <2>9, <2>10, <2>11
          DEF PublishedUpTo
<1> QED BY <1>5, <1>6

\* HandOver of terminals of known authorizations, or of any other records,
\* keeps the pipeline in order (requests.go handOver, settlelog.go Publish).
LEMMA HandOverKeepsOrder ==
  ASSUME PipeInv, MaxRecords \in Nat,
         NEW recs \in Seq(RecordType), HandOver(recs),
         \A i \in 1 .. Len(recs) :
           recs[i].kind \in Terminals => recs[i].auth \in Auths,
         UNCHANGED flusher
  PROVE  PipeInv'
<1> DEFINE k == Len(recs)
           s == [i \in 1 .. k |-> Len(log) + i]
<1>1. /\ log' = log \o recs /\ acked' = acked
      /\ k \in Nat /\ Len(log) \in Nat /\ Len(log) + k <= MaxRecords
      /\ log' \in Seq(RecordType) /\ Len(log') = Len(log) + k
      /\ \A i \in 1 .. Len(log) : log'[i] = log[i]
      /\ \A i \in 1 .. k : log'[Len(log) + i] = recs[i]
  BY ConcatProperties DEF HandOver, CanHandOver, PipeInv, PipeType
<1>2. /\ s \in Seq(Numbers) /\ Len(s) = k
      /\ \A i \in 1 .. k : s[i] = Len(log) + i
  BY <1>1 DEF Numbers
<1>3. RecordsKnown' /\ NoGap' /\ topic' = topic /\ sending' = sending
      /\ paused' = paused /\ failures' = failures
  <2>1. topic' = topic /\ sending' = sending /\ paused' = paused
        /\ failures' = failures
    BY DEF HandOver, Publish, logVars
  <2>2. RecordsKnown'
    <3>1. ASSUME NEW n \in 1 .. Len(log'), log'[n].kind \in Terminals
          PROVE  log'[n].auth \in Auths
      <4>1. CASE n <= Len(log)
        BY <1>1, <3>1, <4>1 DEF PipeInv, RecordsKnown
      <4>2. CASE n > Len(log)
        <5>1. n - Len(log) \in 1 .. k /\ n = Len(log) + (n - Len(log))
          BY <1>1, <4>2
        <5> QED BY <1>1, <3>1, <5>1
      <4> QED BY <4>1, <4>2, <1>1
    <3>2. \A i \in 1 .. Len(topic) : topic[i] <= Len(log')
      BY <1>1 DEF PipeInv, RecordsKnown, LogTypeOK, Numbers
    <3> QED BY <3>1, <3>2, <2>1 DEF RecordsKnown
  <2> QED BY <2>1, <2>2 DEF PipeInv, NoGap
<1>4. CASE live = Inflight
  <2>1. live' = live + k /\ Publish(s)
    BY <1>4 DEF HandOver
  <2>2. PipeType'
    BY <1>1, <1>4, <2>1 DEF PipeInv, PipeType, Inflight
  <2>3. /\ acked \in Nat /\ live \in Nat /\ acked + live = Len(log)
        /\ flusher /= "backoff"
    BY <1>1, <1>4 DEF PipeInv, PipeType, Inflight, PublishedInOrder
  <2>4. PICK p \in acked .. acked + live : PublishedUpTo(p)
    BY DEF PipeInv, PublishedInOrder
  <2> HIDE DEF s, k
  <2>5. LogTypeOK' /\ PublishedUpTo(p)'
    BY <1>1, <1>2, <2>1, <2>3, <2>4, PublishKeepsOrder DEF PipeInv
  <2>6. p \in acked' .. acked' + live'
    BY <1>1, <2>1, <2>3, <2>4
  <2> QED BY <1>3, <2>2, <2>3, <2>5, <2>6 DEF PipeInv, PublishedInOrder
<1>5. CASE live /= Inflight
  <2>1. /\ live' = live /\ queue' = queue /\ sending' = sending
        /\ paused' = paused /\ waiter' = waiter /\ topic' = topic
        /\ failures' = failures
    BY <1>5 DEF HandOver, logVars
  <2>2. PipeType' /\ LogTypeOK'
    BY <1>1, <2>1 DEF PipeInv, PipeType, LogTypeOK, Inflight
  <2>3. PICK p \in acked .. acked + live : PublishedUpTo(p)
    BY DEF PipeInv, PublishedInOrder
  <2>4. /\ acked \in Nat /\ live \in Nat
        /\ Len(sending) \in Nat /\ Len(queue) \in Nat
    BY <1>1 DEF PipeInv, PipeType, LogTypeOK, Inflight
  <2>6. PublishedUpTo(p)'
    BY <1>1, <2>1, <2>3, <2>4 DEF PublishedUpTo
  <2> QED
    BY <1>1, <1>3, <2>1, <2>2, <2>4, <2>6 DEF PipeInv, PublishedInOrder, Inflight
<1> QED BY <1>4, <1>5

\* The numbers the flusher's steps compare, and where the records with the
\* sender end.
LEMMA PipeNumbers ==
  ASSUME PipeInv, MaxRecords \in Nat
  PROVE  /\ acked \in Nat /\ live \in Nat /\ Len(log) \in Nat
         /\ acked + live <= Len(log) /\ Len(log) <= MaxRecords
         /\ Len(sending) \in Nat /\ Len(queue) \in Nat
         /\ Inflight = Len(log) - acked
  BY DEF PipeInv, PipeType, LogTypeOK, Inflight

\* An acknowledgement is of a record published since the last failure
\* (flush.go: live-- never goes below zero).
LEMMA FlushAckKeepsOrder ==
  ASSUME PipeInv, MaxRecords \in Nat, FlushAck
  PROVE  PipeInv'
<1>1. /\ acked' = acked + 1 /\ live' = live - 1 /\ log' = log
      /\ queue' = queue /\ sending' = sending /\ paused' = paused
      /\ waiter' = waiter /\ topic' = topic /\ failures' = failures
      /\ flusher' = flusher /\ flusher /= "backoff"
  BY DEF FlushAck, logVars
<1>2. waiter[acked + 1] = "acked" /\ Len(log) - acked > 0
  BY PipeNumbers DEF FlushAck
<1>3. PICK p \in acked .. acked + live : PublishedUpTo(p)
  BY DEF PipeInv, PublishedInOrder
<1>4. p >= acked + 1
  <2>1. SUFFICES ASSUME p = acked PROVE FALSE
    BY PipeNumbers, <1>3
  <2>2. CASE acked + 1 <= p + Len(sending) + Len(queue)
    <3>1. acked + 1 \in p + 1 .. p + Len(sending) + Len(queue)
      BY PipeNumbers, <2>1, <2>2
    <3> QED BY <3>1, <1>2, <1>3 DEF PublishedUpTo
  <2>3. CASE acked + 1 > p + Len(sending) + Len(queue)
    <3>1. acked + 1 \in p + Len(sending) + Len(queue) + 1 .. MaxRecords
      BY PipeNumbers, <1>2, <2>1, <2>3
    <3> QED BY <3>1, <1>2, <1>3 DEF PublishedUpTo
  <2>4. acked \in Int /\ p + Len(sending) + Len(queue) \in Int
    BY PipeNumbers, <1>3
  <2> QED BY <2>2, <2>3, <2>4
<1>5. /\ p \in acked' .. acked' + live' /\ acked' + live' = acked + live
      /\ acked' \in 0 .. Len(log') /\ live' \in 0 .. Inflight'
  <2>1. Inflight' = Len(log) - (acked + 1)
    BY <1>1 DEF Inflight
  <2>2. /\ acked' = acked + 1 /\ live' = live - 1 /\ Len(log') = Len(log)
        /\ p \in Int /\ acked + 1 <= p /\ p <= acked + live
    BY PipeNumbers, <1>1, <1>3, <1>4
  <2>3. /\ acked \in Nat /\ live \in Nat /\ Len(log) \in Nat
        /\ acked + live <= Len(log)
    BY PipeNumbers
  <2>4. p \in acked + 1 .. acked + live /\ acked' + live' = acked + live
    BY <2>2, <2>3
  <2>5. acked + 1 \in 0 .. Len(log) /\ live - 1 \in 0 .. Len(log) - (acked + 1)
    BY <2>2, <2>3
  <2> QED BY <2>1, <2>2, <2>4, <2>5
<1>6. PublishedUpTo(p)'
  <2>1. \A n \in acked' + 1 .. p : n \in acked + 1 .. p
    BY PipeNumbers, <1>1, <1>3
  <2> QED BY <1>1, <1>3, <1>5, <2>1 DEF PublishedUpTo
<1> QED
  BY <1>1, <1>5, <1>6
     DEF PipeInv, PipeType, LogTypeOK, PublishedInOrder, RecordsKnown, NoGap

\* When the first record in flight has failed, or was never sent, none is
\* with the sender.
LEMMA FailedFirst ==
  ASSUME PipeInv, MaxRecords \in Nat, Len(log) > acked,
         waiter[acked + 1] \in {"failed", "notSent"},
         NEW p \in acked .. acked + live, PublishedUpTo(p)
  PROVE  p = acked /\ Len(sending) = 0 /\ Len(queue) = 0
<1>1. p = acked
  <2>1. SUFFICES ASSUME acked + 1 \in acked + 1 .. p PROVE FALSE
    BY PipeNumbers
  <2> QED BY <2>1 DEF PublishedUpTo
<1>2. Len(sending) + Len(queue) = 0
  <2>1. SUFFICES ASSUME acked + 1 \in p + 1 .. p + Len(sending) + Len(queue)
                 PROVE FALSE
    BY PipeNumbers, <1>1
  <2> QED BY <2>1 DEF PublishedUpTo
<1> QED BY PipeNumbers, <1>1, <1>2

\* A failure leaves nothing published, and nothing with the sender.
LEMMA FlushFailKeepsOrder ==
  ASSUME PipeInv, MaxRecords \in Nat, FlushFail
  PROVE  PipeInv'
<1>1. /\ acked' = acked /\ live' = 0 /\ log' = log
      /\ queue' = queue /\ sending' = sending /\ paused' = paused
      /\ waiter' = waiter /\ topic' = topic /\ failures' = failures
  BY DEF FlushFail, logVars
<1>2. waiter[acked + 1] \in {"failed", "notSent"} /\ Len(log) > acked
  BY PipeNumbers DEF FlushFail
<1>3. PICK p \in acked .. acked + live : PublishedUpTo(p)
  BY DEF PipeInv, PublishedInOrder
<1>4. p = acked /\ Len(sending) = 0 /\ Len(queue) = 0
  BY <1>2, <1>3, FailedFirst
<1>5. /\ Inflight' = Len(log) - acked /\ Inflight' > 0
      /\ p \in acked' .. acked' + live' /\ live' \in 0 .. Inflight'
      /\ acked' + live' = p + Len(sending) + Len(queue)
  BY PipeNumbers, <1>1, <1>2, <1>4 DEF Inflight
<1>6. PublishedUpTo(p)'
  BY PipeNumbers, <1>1, <1>3, <1>4, <1>5 DEF PublishedUpTo
<1> QED
  BY <1>1, <1>5, <1>6
     DEF PipeInv, PipeType, LogTypeOK, PublishedInOrder, RecordsKnown, NoGap

\* The key is resumed only with nothing published and nothing queued.
LEMMA RepublishBeginKeepsOrder ==
  ASSUME PipeInv, MaxRecords \in Nat, RepublishBegin
  PROVE  PipeInv'
<1>1. /\ acked' = acked /\ live' = live /\ log' = log
      /\ queue' = queue /\ sending' = sending /\ paused' \in {paused, FALSE}
      /\ waiter' = waiter /\ topic' = topic /\ failures' = failures
      /\ flusher' /= "backoff" /\ live = 0
  BY DEF RepublishBegin, Resume, logVars, pipe, PipeInv, PublishedInOrder
<1>2. PICK p \in acked .. acked + live : PublishedUpTo(p)
  BY DEF PipeInv, PublishedInOrder
<1>3. /\ p = acked /\ Len(sending) = 0 /\ Len(queue) = 0
      /\ p + Len(sending) + Len(queue) = acked + live
  BY PipeNumbers, <1>1, <1>2 DEF PublishedUpTo
<1>4. sending = <<>> /\ queue = <<>>
  BY <1>3, EmptySeq DEF PipeInv, LogTypeOK
<1>5. PublishedUpTo(p)'
  BY <1>1, <1>2, <1>3, <1>4 DEF PublishedUpTo
<1> QED
  BY <1>1, <1>2, <1>5
     DEF PipeInv, PipeType, LogTypeOK, PublishedInOrder, RecordsKnown, NoGap, Inflight

\* The republish goes on from the first record not published again.
LEMMA RepublishNextKeepsOrder ==
  ASSUME PipeInv, MaxRecords \in Nat, RepublishNext
  PROVE  PipeInv'
<1>1. CASE live < Inflight /\ Within
  <2>1. /\ Publish(<<acked + live + 1>>) /\ live' = live + 1
        /\ acked' = acked /\ log' = log /\ flusher' = flusher
        /\ flusher /= "backoff"
    BY <1>1 DEF RepublishNext, NextToPublish
  <2>2. topic' = topic
    BY <2>1 DEF Publish
  <2>3. /\ acked + live + 1 \in Numbers /\ acked + live + 1 <= MaxRecords
        /\ live' \in 0 .. Len(log) - acked
    BY PipeNumbers, <1>1, <2>1 DEF Numbers
  <2> DEFINE s == <<acked + live + 1>>
  <2>4. s \in Seq(Numbers) /\ Len(s) = 1 /\ \A i \in 1 .. 1 : s[i] = acked + live + i
    BY PipeNumbers, <2>3
  <2>5. PICK p \in acked .. acked + live : PublishedUpTo(p)
    BY DEF PipeInv, PublishedInOrder
  <2> HIDE DEF s
  <2>6. LogTypeOK' /\ PublishedUpTo(p)'
    <3>1. 1 \in Nat /\ Publish(s)
      BY <2>1 DEF s
    <3> QED BY PipeNumbers, <2>1, <2>3, <2>4, <2>5, <3>1, PublishKeepsOrder
            DEF PipeInv
  <2>7. p \in acked' .. acked' + live' /\ Inflight' = Len(log) - acked
    BY PipeNumbers, <2>1, <2>5 DEF Inflight
  <2> QED
    BY <2>1, <2>2, <2>3, <2>6, <2>7
       DEF PipeInv, PipeType, PublishedInOrder, RecordsKnown, NoGap
<1>2. CASE ~(live < Inflight /\ Within)
  <2>1. /\ acked' = acked /\ live' = live /\ log' = log
        /\ queue' = queue /\ sending' = sending /\ paused' = paused
        /\ waiter' = waiter /\ topic' = topic /\ failures' = failures
        /\ flusher' /= "backoff"
    BY <1>2 DEF RepublishNext, logVars
  <2>2. PublishedInOrder'
    BY <2>1 DEF PipeInv, PublishedInOrder, PublishedUpTo, Inflight
  <2> QED
    BY <2>1, <2>2 DEF PipeInv, PipeType, LogTypeOK, RecordsKnown, NoGap, Inflight
<1> QED BY <1>1, <1>2

\* A batch stored after the records it follows leaves the topic without a
\* gap.
LEMMA TopicGrows ==
  ASSUME PipeInv, MaxRecords \in Nat, NEW p \in Nat, p <= Len(log),
         \A n \in 1 .. p : \E i \in 1 .. Len(topic) : topic[i] = n,
         NEW t \in Seq(Numbers), p + Len(t) <= Len(log),
         \A i \in 1 .. Len(t) : t[i] = p + i,
         topic' = topic \o t, log' = log
  PROVE  /\ topic' \in Seq(Numbers) /\ RecordsKnown' /\ NoGap'
         /\ \A n \in 1 .. p + Len(t) : \E i \in 1 .. Len(topic') : topic'[i] = n
<1>1. topic \in Seq(Numbers) /\ Len(topic) \in Nat /\ Len(t) \in Nat
      /\ Len(log) \in Nat
  BY PipeNumbers DEF PipeInv, LogTypeOK
<1>2. /\ topic' \in Seq(Numbers) /\ Len(topic') = Len(topic) + Len(t)
      /\ \A i \in 1 .. Len(topic) + Len(t) :
           topic'[i] = IF i <= Len(topic) THEN topic[i] ELSE t[i - Len(topic)]
  BY <1>1, ConcatProperties
<1>3. \A i \in 1 .. Len(topic) : i \in 1 .. Len(topic') /\ topic'[i] = topic[i]
  BY <1>1, <1>2
<1>4. ASSUME NEW j \in 1 .. Len(t)
      PROVE  /\ Len(topic) + j \in 1 .. Len(topic')
             /\ topic'[Len(topic) + j] = p + j
  <2>1. /\ Len(topic) + j \in 1 .. Len(topic) + Len(t)
        /\ ~(Len(topic) + j <= Len(topic)) /\ (Len(topic) + j) - Len(topic) = j
    BY <1>1
  <2> QED BY <1>2, <2>1
<1>5. ASSUME NEW i \in 1 .. Len(topic')
      PROVE  i \in 1 .. Len(topic) \/ \E j \in 1 .. Len(t) : i = Len(topic) + j
  <2>1. CASE i <= Len(topic)
    BY <1>1, <2>1
  <2>2. CASE i > Len(topic)
    <3>1. i - Len(topic) \in 1 .. Len(t) /\ i = Len(topic) + (i - Len(topic))
      BY <1>1, <1>2, <2>2
    <3> QED BY <3>1
  <2> QED BY <1>1, <2>1, <2>2
<1>6. \A n \in 1 .. p + Len(t) : \E i \in 1 .. Len(topic') : topic'[i] = n
  <2> TAKE n \in 1 .. p + Len(t)
  <2>1. CASE n <= p
    <3>1. n \in 1 .. p
      BY <2>1
    <3> QED BY <1>3, <3>1
  <2>2. CASE n > p
    <3>1. n - p \in 1 .. Len(t) /\ p + (n - p) = n
      BY <1>1, <2>2
    <3>2. topic'[Len(topic) + (n - p)] = n
          /\ Len(topic) + (n - p) \in 1 .. Len(topic')
      BY <1>4, <3>1
    <3> QED BY <3>2
  <2> QED BY <1>1, <2>1, <2>2
<1>7. RecordsKnown'
  <2>1. ASSUME NEW i \in 1 .. Len(topic') PROVE topic'[i] <= Len(log)
    <3>1. CASE i \in 1 .. Len(topic)
      BY <1>3, <3>1 DEF PipeInv, RecordsKnown
    <3>2. ASSUME NEW j \in 1 .. Len(t), i = Len(topic) + j
          PROVE  topic'[i] <= Len(log)
      <4>1. topic'[i] = p + j
        BY <1>4, <3>2
      <4> QED BY <1>1, <4>1
    <3> QED BY <1>5, <3>1, <3>2
  <2> QED BY <2>1 DEF PipeInv, RecordsKnown
<1>8. NoGap'
  <2>1. ASSUME NEW i \in 1 .. Len(topic')
        PROVE  topic'[i] = 1 \/ \E j \in 1 .. i - 1 : topic'[j] = topic'[i] - 1
    <3>1. CASE i \in 1 .. Len(topic)
      <4>1. topic[i] = 1 \/ \E j \in 1 .. i - 1 : topic[j] = topic[i] - 1
        BY <3>1 DEF PipeInv, NoGap
      <4>2. \A j \in 1 .. i - 1 : j \in 1 .. Len(topic)
        BY <1>1, <3>1
      <4> QED BY <1>3, <3>1, <4>1, <4>2
    <3>2. ASSUME NEW j \in 1 .. Len(t), i = Len(topic) + j
          PROVE  topic'[i] = 1 \/ \E h \in 1 .. i - 1 : topic'[h] = topic'[i] - 1
      <4>1. topic'[i] = p + j
        BY <1>4, <3>2
      <4>2. CASE j > 1
        <5>1. j - 1 \in 1 .. Len(t) /\ Len(topic) + (j - 1) \in 1 .. i - 1
          BY <1>1, <3>2, <4>2
        <5>2. topic'[Len(topic) + (j - 1)] = p + (j - 1)
          BY <1>4, <5>1
        <5>3. p + (j - 1) = (p + j) - 1
          OBVIOUS
        <5> QED BY <4>1, <5>1, <5>2, <5>3
      <4>3. CASE j = 1 /\ p > 0
        <5>1. p \in 1 .. p /\ (p + 1) - 1 = p
          BY <4>3
        <5>2. PICK h \in 1 .. Len(topic) : topic[h] = p
          BY <5>1
        <5>3. h \in 1 .. i - 1
          BY <1>1, <3>2, <4>3
        <5> QED BY <1>3, <4>1, <4>3, <5>1, <5>2, <5>3
      <4>4. CASE j = 1 /\ p = 0
        BY <4>1, <4>4
      <4>5. j > 1 \/ (j = 1 /\ p > 0) \/ (j = 1 /\ p = 0)
        BY <1>1
      <4> QED BY <4>2, <4>3, <4>4, <4>5
    <3> QED BY <1>5, <3>1, <3>2
  <2> QED BY <2>1 DEF NoGap
<1> QED BY <1>2, <1>6, <1>7, <1>8

\* The sender takes the next records, in their order.
LEMMA TakeBatchKeepsOrder ==
  ASSUME PipeInv, MaxRecords \in Nat, TakeBatch, UNCHANGED <<log, acked, live, flusher>>
  PROVE  PipeInv'
<1>1. PICK k \in 1 .. Len(queue) : /\ sending' = SubSeq(queue, 1, k)
                                  /\ queue' = SubSeq(queue, k + 1, Len(queue))
  BY DEF TakeBatch
<1>2. /\ sending = <<>> /\ paused' = paused /\ waiter' = waiter
      /\ topic' = topic /\ failures' = failures /\ queue \in Seq(Numbers)
      /\ Len(sending) = 0
  BY DEF TakeBatch, PipeInv, LogTypeOK
<1>3. /\ sending' \in Seq(Numbers) /\ Len(sending') = k
      /\ \A i \in 1 .. k : sending'[i] = queue[i]
  <2>1. \A i \in 1 .. k : queue[i] \in Numbers
    BY PipeNumbers, <1>2, ElementOfSeq
  <2>2. /\ sending' \in Seq(Numbers) /\ Len(sending') = IF 1 <= k THEN k - 1 + 1 ELSE 0
        /\ \A i \in 1 .. k - 1 + 1 : sending'[i] = queue[1 + i - 1]
    <3>1. 1 \in Int /\ k \in Int
      OBVIOUS
    <3> QED BY <1>1, <2>1, <3>1, SubSeqProperties
  <2>3. \A i \in 1 .. k : i \in 1 .. k - 1 + 1 /\ 1 + i - 1 = i
    OBVIOUS
  <2> QED BY <2>2, <2>3
<1>4. /\ queue' \in Seq(Numbers) /\ Len(queue') = Len(queue) - k
      /\ \A i \in 1 .. Len(queue) - k : queue'[i] = queue[k + i]
  <2>1. \A i \in k + 1 .. Len(queue) : queue[i] \in Numbers
    BY PipeNumbers, <1>2, ElementOfSeq
  <2>2. /\ queue' \in Seq(Numbers)
        /\ Len(queue') = IF k + 1 <= Len(queue) THEN Len(queue) - (k + 1) + 1 ELSE 0
        /\ \A i \in 1 .. Len(queue) - (k + 1) + 1 : queue'[i] = queue[(k + 1) + i - 1]
    <3>1. k + 1 \in Int /\ Len(queue) \in Int
      BY PipeNumbers
    <3> QED BY <1>1, <2>1, <3>1, SubSeqProperties
  <2>3. \A i \in 1 .. Len(queue) - k :
          i \in 1 .. Len(queue) - (k + 1) + 1 /\ (k + 1) + i - 1 = k + i
    BY PipeNumbers
  <2> QED BY PipeNumbers, <2>2, <2>3
<1>5. PICK p \in acked .. acked + live : PublishedUpTo(p)
  BY DEF PipeInv, PublishedInOrder
<1>6. ~paused
  BY <1>1, <1>5, PipeNumbers, EmptySeq DEF PublishedUpTo
<1>7. /\ p \in Int /\ k \in Int /\ Len(queue) \in Int
      /\ p + Len(sending') + Len(queue') = p + Len(sending) + Len(queue)
  BY PipeNumbers, <1>2, <1>3, <1>4, <1>5
<1>8. \A i \in 1 .. Len(queue) : queue[i] = p + i
  BY <1>2, <1>5, <1>7 DEF PublishedUpTo
<1>9. \A i \in 1 .. Len(sending') : sending'[i] = p + i
  BY <1>3, <1>7, <1>8
<1>10. \A i \in 1 .. Len(queue') : queue'[i] = p + Len(sending') + i
  <2> TAKE i \in 1 .. Len(queue')
  <2>1. i \in 1 .. Len(queue) - k /\ k + i \in 1 .. Len(queue)
    BY <1>4, <1>7
  <2>2. queue'[i] = p + (k + i)
    BY <1>4, <1>8, <2>1
  <2>3. p + (k + i) = p + k + i
    BY <1>7, <2>1
  <2> QED BY <1>3, <2>2, <2>3
<1>11. PublishedUpTo(p)'
  BY <1>2, <1>5, <1>6, <1>7, <1>9, <1>10 DEF PublishedUpTo
<1> QED
  BY <1>2, <1>3, <1>4, <1>5, <1>11
     DEF PipeInv, PipeType, LogTypeOK, PublishedInOrder, RecordsKnown, NoGap, Inflight

\* A call that succeeds stores its batch and acknowledges it.
LEMMA SendOkKeepsOrder ==
  ASSUME PipeInv, MaxRecords \in Nat, SendOk, UNCHANGED <<log, acked, live, flusher>>
  PROVE  PipeInv'
<1>1. /\ sending' = <<>> /\ queue' = queue /\ paused' = paused
      /\ waiter' = Finish(waiter, sending, "acked")
      /\ topic' = topic \o sending /\ failures' = failures
      /\ sending /= <<>> /\ sending \in Seq(Numbers) /\ Len(sending') = 0
  BY DEF SendOk, PipeInv, LogTypeOK
<1>2. PICK p \in acked .. acked + live : PublishedUpTo(p)
  BY DEF PipeInv, PublishedInOrder
<1>0. PICK r \in Nat : r = p + Len(sending)
  BY PipeNumbers, <1>2
<1>3. /\ p \in Nat /\ r \in Nat /\ acked <= p /\ p <= r /\ r + Len(queue) <= acked + live
      /\ acked + live <= Len(log) /\ Len(log) <= MaxRecords
      /\ acked \in Nat /\ live \in Nat /\ Len(log) \in Nat /\ Len(queue) \in Nat
      /\ r + Len(sending') + Len(queue') = p + Len(sending) + Len(queue)
  BY PipeNumbers, <1>0, <1>1, <1>2 DEF PublishedUpTo
<1>4. /\ topic' \in Seq(Numbers) /\ RecordsKnown' /\ NoGap'
      /\ \A n \in 1 .. r : \E i \in 1 .. Len(topic') : topic'[i] = n
  <2>1. /\ \A n \in 1 .. p : \E i \in 1 .. Len(topic) : topic[i] = n
        /\ \A i \in 1 .. Len(sending) : sending[i] = p + i
    BY <1>2 DEF PublishedUpTo
  <2>2. p <= Len(log) /\ p + Len(sending) <= Len(log)
    BY <1>0, <1>3
  <2> QED BY <1>0, <1>1, <1>3, <2>1, <2>2, TopicGrows
<1>5. /\ waiter' \in [Numbers -> Outcomes]
      /\ \A n \in Numbers : waiter'[n] = IF n \in p + 1 .. r THEN "acked" ELSE waiter[n]
  <2>1. ASSUME NEW n \in Numbers
        PROVE  (\E i \in DOMAIN sending : sending[i] = n) <=> n \in p + 1 .. r
    <3>1. \A i \in 1 .. Len(sending) : sending[i] = p + i
      BY <1>2 DEF PublishedUpTo
    <3>2. DOMAIN sending = 1 .. Len(sending) /\ Len(sending) \in Nat
      BY <1>1
    <3>3. ASSUME n \in p + 1 .. r PROVE \E i \in DOMAIN sending : sending[i] = n
      <4>1. n - p \in 1 .. Len(sending) /\ p + (n - p) = n
        BY <1>0, <1>3, <3>2, <3>3
      <4> QED BY <3>1, <3>2, <4>1
    <3>4. ASSUME NEW i \in 1 .. Len(sending), sending[i] = n PROVE n \in p + 1 .. r
      <4>1. n = p + i
        BY <3>1, <3>4
      <4> QED BY <1>0, <1>3, <3>2, <4>1
    <3> QED BY <3>2, <3>3, <3>4
  <2> QED BY <1>1, <2>1 DEF Finish, PipeInv, LogTypeOK, Outcomes
<1>6. /\ \A n \in acked + 1 .. p : waiter[n] = "acked"
      /\ \A n \in p + 1 .. r + Len(queue) : waiter[n] = "pending"
      /\ \A n \in r + Len(queue) + 1 .. MaxRecords : waiter[n] \in {"failed", "notSent"}
      /\ \A i \in 1 .. Len(queue) : queue[i] = r + i
      /\ paused => queue = <<>>
      /\ ~paused => r + Len(queue) = acked + live
  BY <1>0, <1>2 DEF PublishedUpTo
<1>7. \A n \in acked + 1 .. r : waiter'[n] = "acked"
  <2> TAKE n \in acked + 1 .. r
  <2>1. n \in Numbers /\ (n \in acked + 1 .. p \/ n \in p + 1 .. r)
    BY <1>3 DEF Numbers
  <2> QED BY <1>5, <1>6, <2>1
<1>8. \A n \in r + 1 .. r + Len(queue) : waiter'[n] = "pending"
  <2> TAKE n \in r + 1 .. r + Len(queue)
  <2>1. n \in Numbers /\ n \notin p + 1 .. r /\ n \in p + 1 .. r + Len(queue)
    BY <1>3 DEF Numbers
  <2> QED BY <1>5, <1>6, <2>1
<1>9. \A n \in r + Len(queue) + 1 .. MaxRecords : waiter'[n] \in {"failed", "notSent"}
  <2> TAKE n \in r + Len(queue) + 1 .. MaxRecords
  <2>1. n \in Numbers /\ n \notin p + 1 .. r
    BY <1>3 DEF Numbers
  <2> QED BY <1>5, <1>6, <2>1
<1>10. r + Len(sending') = r /\ r \in acked' .. acked' + live'
  BY <1>1, <1>3
<1>11. PublishedUpTo(r)'
  <2>1. acked' = acked /\ live' = live
    OBVIOUS
  <2>2. /\ r + Len(sending') = r /\ r + Len(sending') + Len(queue') = r + Len(queue)
        /\ r + Len(queue) <= acked + live /\ Len(queue') = Len(queue)
    BY <1>1, <1>3, <1>10
  <2>3. queue' = queue /\ paused' = paused /\ sending' = <<>>
    BY <1>1
  <2>4. \A i \in 1 .. Len(sending') : sending'[i] = r + i
    BY <1>1
  <2> QED BY <1>4, <1>6, <1>7, <1>8, <1>9, <2>1, <2>2, <2>3, <2>4
          DEF PublishedUpTo
<1>12. LogTypeOK'
  BY <1>1, <1>4, <1>5 DEF PipeInv, LogTypeOK
<1>13. PipeType' /\ PublishedInOrder'
  BY <1>10, <1>11 DEF PipeInv, PipeType, PublishedInOrder, Inflight
<1> QED
  BY <1>4, <1>12, <1>13 DEF PipeInv

\* A call that fails stores some of its batch, and fails all that is queued.
LEMMA SendFailsKeepsOrder ==
  ASSUME PipeInv, MaxRecords \in Nat, SendFails, UNCHANGED <<log, acked, live, flusher>>
  PROVE  PipeInv'
<1>1. PICK k \in 0 .. Len(sending) : topic' = topic \o SubSeq(sending, 1, k)
  BY DEF SendFails
<1>2. /\ sending' = <<>> /\ queue' = <<>> /\ paused' = TRUE
      /\ waiter' = Finish(waiter, sending \o queue, "failed")
      /\ failures' = failures + 1 /\ sending \in Seq(Numbers)
      /\ queue \in Seq(Numbers) /\ Len(sending') = 0 /\ Len(queue') = 0
      /\ failures' \in Nat
  BY DEF SendFails, PipeInv, LogTypeOK
<1>3. PICK p \in acked .. acked + live : PublishedUpTo(p)
  BY DEF PipeInv, PublishedInOrder
<1>4. /\ p \in Nat /\ acked <= p /\ p + Len(sending) + Len(queue) <= acked + live
      /\ acked + live <= Len(log) /\ Len(log) <= MaxRecords
      /\ acked \in Nat /\ live \in Nat /\ Len(log) \in Nat /\ Len(queue) \in Nat
      /\ Len(sending) \in Nat
  BY PipeNumbers, <1>3 DEF PublishedUpTo
<1>5. /\ \A n \in 1 .. p : \E i \in 1 .. Len(topic) : topic[i] = n
      /\ \A n \in acked + 1 .. p : waiter[n] = "acked"
      /\ \A i \in 1 .. Len(sending) : sending[i] = p + i
      /\ \A i \in 1 .. Len(queue) : queue[i] = p + Len(sending) + i
      /\ \A n \in p + Len(sending) + Len(queue) + 1 .. MaxRecords :
           waiter[n] \in {"failed", "notSent"}
  BY <1>3 DEF PublishedUpTo
<1>6. /\ topic' \in Seq(Numbers) /\ RecordsKnown' /\ NoGap'
      /\ \A n \in 1 .. p : \E i \in 1 .. Len(topic') : topic'[i] = n
  <2> DEFINE t == SubSeq(sending, 1, k)
  <2>1. \A i \in 1 .. k : sending[i] \in Numbers
    BY <1>2, <1>4, ElementOfSeq
  <2>2. /\ t \in Seq(Numbers) /\ Len(t) = k
        /\ \A i \in 1 .. k : t[i] = sending[i]
    <3>1. 1 \in Int /\ k \in Int
      OBVIOUS
    <3>2. /\ t \in Seq(Numbers) /\ Len(t) = IF 1 <= k THEN k - 1 + 1 ELSE 0
          /\ \A i \in 1 .. k - 1 + 1 : t[i] = sending[1 + i - 1]
      BY <2>1, <3>1, SubSeqProperties
    <3>3. \A i \in 1 .. k : i \in 1 .. k - 1 + 1 /\ 1 + i - 1 = i
      OBVIOUS
    <3> QED BY <3>2, <3>3, <1>4
  <2>3. p <= Len(log) /\ p + Len(t) <= Len(log)
    BY <1>4, <2>2
  <2>4. \A i \in 1 .. Len(t) : t[i] = p + i
    BY <1>4, <1>5, <2>2
  <2>5. topic' = topic \o t /\ log' = log
    BY <1>1
  <2> HIDE DEF t
  <2>6. /\ topic' \in Seq(Numbers) /\ RecordsKnown' /\ NoGap'
        /\ \A n \in 1 .. p + Len(t) : \E i \in 1 .. Len(topic') : topic'[i] = n
    BY <1>4, <1>5, <2>2, <2>3, <2>4, <2>5, TopicGrows
  <2>7. \A n \in 1 .. p : n \in 1 .. p + Len(t)
    BY <1>4, <2>2
  <2> QED BY <2>6, <2>7
<1>7. waiter' \in [Numbers -> Outcomes]
  BY <1>2 DEF Finish, PipeInv, LogTypeOK, Outcomes
<1> DEFINE b == sending \o queue
<1>8. /\ b \in Seq(Numbers) /\ Len(b) = Len(sending) + Len(queue)
      /\ \A i \in 1 .. Len(sending) + Len(queue) : b[i] = p + i
  <2>1. /\ b \in Seq(Numbers) /\ Len(b) = Len(sending) + Len(queue)
        /\ \A i \in 1 .. Len(sending) + Len(queue) :
             b[i] = IF i <= Len(sending) THEN sending[i] ELSE queue[i - Len(sending)]
    BY <1>2, ConcatProperties
  <2> HIDE DEF b
  <2>2. ASSUME NEW i \in 1 .. Len(sending) + Len(queue) PROVE b[i] = p + i
    <3>1. CASE i <= Len(sending)
      BY <1>4, <1>5, <2>1, <3>1
    <3>2. CASE i > Len(sending)
      <4>1. i - Len(sending) \in 1 .. Len(queue)
            /\ p + Len(sending) + (i - Len(sending)) = p + i
            /\ ~(i <= Len(sending))
        BY <1>4, <3>2
      <4> QED BY <1>5, <2>1, <4>1
    <3> QED BY <1>4, <3>1, <3>2
  <2> QED BY <2>1, <2>2
<1>9. \A n \in Numbers : waiter'[n] =
        IF n \in p + 1 .. p + Len(sending) + Len(queue) THEN "failed" ELSE waiter[n]
  <2>1. waiter' = Finish(waiter, b, "failed")
    BY <1>2
  <2> HIDE DEF b
  <2>2. DOMAIN b = 1 .. Len(sending) + Len(queue)
    BY <1>8
  <2>3. ASSUME NEW n \in Numbers
        PROVE  (\E i \in DOMAIN b : b[i] = n)
                  <=> n \in p + 1 .. p + Len(sending) + Len(queue)
    <3>1. ASSUME n \in p + 1 .. p + Len(sending) + Len(queue)
          PROVE  \E i \in DOMAIN b : b[i] = n
      <4>1. n - p \in 1 .. Len(sending) + Len(queue) /\ p + (n - p) = n
        BY <1>4, <3>1
      <4> QED BY <1>8, <2>2, <4>1
    <3>2. ASSUME NEW i \in 1 .. Len(sending) + Len(queue), b[i] = n
          PROVE  n \in p + 1 .. p + Len(sending) + Len(queue)
      <4>1. n = p + i
        BY <1>8, <3>2
      <4> QED BY <1>4, <4>1
    <3> QED BY <2>2, <3>1, <3>2
  <2> QED BY <2>1, <2>3 DEF Finish
<1> HIDE DEF b
<1>10. \A n \in acked + 1 .. p : waiter'[n] = "acked"
  <2> TAKE n \in acked + 1 .. p
  <2>1. n \in Numbers /\ n \notin p + 1 .. p + Len(sending) + Len(queue)
    BY <1>4 DEF Numbers
  <2> QED BY <1>5, <1>9, <2>1
<1>11. \A n \in p + 1 .. MaxRecords : waiter'[n] \in {"failed", "notSent"}
  <2> TAKE n \in p + 1 .. MaxRecords
  <2>1. /\ n \in Numbers
        /\ \/ n \in p + 1 .. p + Len(sending) + Len(queue)
           \/ n \in p + Len(sending) + Len(queue) + 1 .. MaxRecords
    BY <1>4 DEF Numbers
  <2> QED BY <1>5, <1>9, <2>1
<1>12. acked' = acked /\ live' = live /\ p <= acked + live
       /\ p + Len(sending') + Len(queue') = p /\ p + Len(sending') = p
  BY <1>2, <1>4
<1>13. PublishedUpTo(p)'
  BY <1>2, <1>6, <1>10, <1>11, <1>12 DEF PublishedUpTo
<1> QED
  BY <1>2, <1>3, <1>6, <1>7, <1>13
     DEF PipeInv, PipeType, LogTypeOK, PublishedInOrder, Inflight

\* A step that leaves the pipeline alone keeps it.
LEMMA PipeUnchanged ==
  ASSUME PipeInv, UNCHANGED <<pipe, flusher, logVars>>
  PROVE  PipeInv'
<1>1. /\ log' = log /\ acked' = acked /\ live' = live /\ flusher' = flusher
      /\ queue' = queue /\ sending' = sending /\ paused' = paused
      /\ waiter' = waiter /\ topic' = topic /\ failures' = failures
  BY DEF pipe, logVars
<1>2. PublishedInOrder'
  BY <1>1 DEF PipeInv, PublishedInOrder, PublishedUpTo, Inflight
<1> QED
  BY <1>1, <1>2 DEF PipeInv, PipeType, LogTypeOK, RecordsKnown, NoGap, Inflight

-----------------------------------------------------------------------------
(* The rest of the state's types.                                           *)

\* The types of the state beside the pipeline's.
RestType ==
  /\ BooksType
  /\ HoldsType
  /\ FailingType
  /\ FlagsType
  /\ WorkType
  /\ PlacesType
  /\ RowTypeOK

\* The invariant, taken apart for the lemmas below, before and after a step.
LEMMA InvParts ==
  /\ Inv <=> PipeInv /\ RestType
  /\ Inv' <=> PipeInv' /\ RestType'
  BY DEF Inv, PipeInv, RestType, TypeOK

\* What the constants' functions return.
LEMMA ConstantTypes ==
  /\ \A e \in Estimates : e \in Nat /\ Overrun[e] \in Nat
  /\ \A c \in Charges : c \in Nat
  /\ \A m \in Modes : m \in {"request", "stream", "declared"}
  BY EstimatesAssumption, OverrunAssumption, ChargesAssumption, ModesAssumption

\* max(x, 0) is a natural number.
LEMMA PosType == \A x \in Int : Pos(x) \in Nat /\ Pos(x) >= x
  BY DEF Pos

\* What a hold adds to the buffer is a number.
LEMMA CountedType ==
  ASSUME NEW h \in HoldType, h.estimate \in Estimates
  PROVE  Counted(h) \in Nat
  BY ConstantTypes DEF Counted

\* A record's fields may be set one by one.
LEMMA RecordFields ==
  ASSUME NEW r \in RecordType
  PROVE  /\ \A v \in Kinds : [r EXCEPT !.kind = v] \in RecordType
         /\ \A v \in Auths : [r EXCEPT !.auth = v] \in RecordType
         /\ \A v \in Nat : [r EXCEPT !.charge = v] \in RecordType
         /\ \A v \in Nat : [r EXCEPT !.freed = v] \in RecordType
         /\ \A v \in Nat : [r EXCEPT !.shortfall = v] \in RecordType
         /\ \A v \in Nat : [r EXCEPT !.drain = v] \in RecordType
         /\ \A v \in Nat : [r EXCEPT !.raise = v] \in RecordType
         /\ \A v \in Nat : [r EXCEPT !.consumed = v] \in RecordType
         /\ \A v \in Int : [r EXCEPT !.openSum = v] \in RecordType
         /\ \A v \in Nat : [r EXCEPT !.return = v] \in RecordType
         /\ \A v \in SUBSET Auths : [r EXCEPT !.holds = v] \in RecordType
  BY DEF RecordType

\* The record that states nothing is a record.
LEMMA BlankType == Blank \in RecordType
  BY DEF Blank, RecordType, Kinds

\* A heartbeat's record is a record and no terminal (requests.go Heartbeat).
LEMMA HeartbeatRecordType ==
  ASSUME NEW a \in Auths,
         NEW r, r = [Blank EXCEPT !.kind = "heartbeat", !.auth = a]
  PROVE  r \in RecordType /\ r.kind \notin Terminals
<1> DEFINE r1 == [Blank EXCEPT !.kind = "heartbeat"]
           r2 == [r1 EXCEPT !.auth = a]
<1>1. r1 \in RecordType
  BY BlankType, RecordFields DEF Kinds
<1>2. r2 \in RecordType
  BY <1>1, RecordFields
<1>3. r2.kind = "heartbeat"
  BY DEF Blank
<1> QED BY <1>2, <1>3 DEF Terminals

\* So is a checkpoint's (spanner.go checkpoint).
LEMMA CheckpointRecordType ==
  ASSUME NEW c \in Nat, NEW h \in Int, NEW x \in Nat,
         NEW r, r = [Blank EXCEPT !.consumed = c, !.openSum = h, !.return = x]
  PROVE  r \in RecordType /\ r.kind \notin Terminals
<1> DEFINE r1 == [Blank EXCEPT !.consumed = c]
           r2 == [r1 EXCEPT !.openSum = h]
           r3 == [r2 EXCEPT !.return = x]
<1>1. r1 \in RecordType
  BY BlankType, RecordFields
<1>2. r2 \in RecordType
  BY <1>1, RecordFields
<1>3. r3 \in RecordType
  BY <1>2, RecordFields
<1>4. r3.kind = "checkpoint"
  BY DEF Blank
<1> QED BY <1>3, <1>4 DEF Terminals

\* So are a hand-off's chunk and manifest (handoff.go handoff).
LEMMA HandoffRecordType ==
  ASSUME NEW k \in {"handoff", "manifest"},
         NEW r, r = [Blank EXCEPT !.kind = k, !.holds = Open]
  PROVE  r \in RecordType /\ r.kind \notin Terminals
<1> DEFINE r1 == [Blank EXCEPT !.kind = k]
           r2 == [r1 EXCEPT !.holds = Open]
<1>1. r1 \in RecordType
  BY BlankType, RecordFields DEF Kinds
<1>2. r2 \in RecordType
  BY <1>1, RecordFields DEF Open
<1>3. r2.kind = k
  BY DEF Blank
<1> QED BY <1>2, <1>3 DEF Terminals

\* A record that the owner hands over, alone.
LEMMA HandOverOne ==
  ASSUME PipeInv, MaxRecords \in Nat, NEW r \in RecordType, HandOver(<<r>>),
         r.kind \in Terminals => r.auth \in Auths, UNCHANGED flusher
  PROVE  PipeInv'
<1>1. <<r>> \in Seq(RecordType) /\ Len(<<r>>) = 1 /\ <<r>>[1] = r
  OBVIOUS
<1>2. \A i \in 1 .. Len(<<r>>) :
        <<r>>[i].kind \in Terminals => <<r>>[i].auth \in Auths
  BY <1>1
<1> QED BY <1>1, <1>2, HandOverKeepsOrder

\* decide keeps the books' and the holds' types, and its record is one.
LEMMA DecideTypes ==
  ASSUME Inv, MaxRecords \in Nat, NEW a \in Auths, NEW k \in Terminals,
         NEW charge \in Nat, NEW from \in Nat, NEW raise \in Nat,
         Decide(a, k, charge, from, raise), UNCHANGED flusher
  PROVE  PipeInv' /\ BooksType' /\ HoldsType'
<1> DEFINE e == hold[a].estimate
           charged == Charged(k, charge)
           freed == Freed(k, charge, e)
           short == Overdrawn(a, charged, raise)
           r == [Blank EXCEPT !.kind = k, !.auth = a, !.charge = charged,
                      !.freed = freed, !.shortfall = shortfall + short,
                      !.drain = from, !.raise = raise]
<1>1. BooksType /\ HoldsType /\ PipeInv
  BY InvParts DEF RestType
<1>2. hold[a] \in HoldType /\ e \in Nat /\ e \in Estimates
  BY <1>1 DEF HoldsType, HoldType, Decide, Undecided
<1>3. charged \in Nat
  BY DEF Charged
<1>4. freed \in Nat
  BY <1>2, <1>3, PosType DEF Freed
<1>5. short \in Nat
  BY <1>1, <1>2, <1>3, PosType DEF Overdrawn, BooksType
<1>6. /\ HandOver(<<r>>)
      /\ held' = held - e
      /\ consumed' = consumed + charged
      /\ allocation' = allocation + raise + short
      /\ shortfall' = shortfall + short
      /\ buffer' = buffer - Counted(hold[a])
      /\ pending' = pending + freed
      /\ hold' = [hold EXCEPT ![a] = [UnusedHold EXCEPT !.state = "decided",
                                                        !.estimate = e]]
  BY DEF Decide
<1>7. Counted(hold[a]) \in Nat
  BY <1>2, CountedType
<1> HIDE DEF charged, freed, short, e
<1>8. r \in RecordType /\ r.kind = k /\ r.auth = a
  <2>1. shortfall + short \in Nat /\ k \in Kinds
    BY <1>1, <1>5 DEF BooksType, Kinds
  <2> DEFINE r1 == [Blank EXCEPT !.kind = k]
             r2 == [r1 EXCEPT !.auth = a]
             r3 == [r2 EXCEPT !.charge = charged]
             r4 == [r3 EXCEPT !.freed = freed]
             r5 == [r4 EXCEPT !.shortfall = shortfall + short]
             r6 == [r5 EXCEPT !.drain = from]
             r7 == [r6 EXCEPT !.raise = raise]
  <2>2. r3 \in RecordType
    <3>1. r1 \in RecordType
      BY <2>1, BlankType, RecordFields
    <3>2. r2 \in RecordType
      BY <3>1, RecordFields
    <3> QED BY <1>3, <3>2, RecordFields
  <2>3. r7 \in RecordType
    <3>1. r4 \in RecordType
      BY <1>4, <2>2, RecordFields
    <3>2. r5 \in RecordType
      BY <2>1, <3>1, RecordFields
    <3>3. r6 \in RecordType
      BY <3>2, RecordFields
    <3> QED BY <3>3, RecordFields
  <2>4. r7.kind = k /\ r7.auth = a
    BY DEF Blank
  <2> QED BY <2>3, <2>4
<1> HIDE DEF r
<1>9. PipeInv'
  BY <1>1, <1>6, <1>8, HandOverOne
<1>10. HoldsType'
  <2>1. [UnusedHold EXCEPT !.state = "decided", !.estimate = e] \in HoldType
    BY <1>2 DEF HoldType, UnusedHold
  <2>2. [UnusedHold EXCEPT !.state = "decided", !.estimate = e].estimate = e
    BY DEF UnusedHold
  <2> QED BY <1>1, <1>2, <1>6, <2>1, <2>2 DEF HoldsType
<1>11. BooksType'
  BY <1>1, <1>2, <1>3, <1>4, <1>5, <1>6, <1>7 DEF BooksType
<1> QED BY <1>9, <1>10, <1>11

\* A part whose variables a step leaves alone keeps its type.
LEMMA PartsUnchanged ==
  /\ BooksType /\ UNCHANGED books => BooksType'
  /\ HoldsType /\ UNCHANGED hold => HoldsType'
  /\ FailingType /\ UNCHANGED failing => FailingType'
  /\ FlagsType /\ UNCHANGED flags => FlagsType'
  /\ WorkType /\ UNCHANGED work => WorkType'
  /\ RowTypeOK /\ UNCHANGED rowVars => RowTypeOK'
  /\ PlacesType /\ UNCHANGED <<round, adoption, owed, drain>> => PlacesType'
<1>1. BooksType /\ UNCHANGED books => BooksType'
  BY DEF BooksType, books
<1>2. HoldsType /\ UNCHANGED hold => HoldsType'
  BY DEF HoldsType
<1>3. FailingType /\ UNCHANGED failing => FailingType'
  BY DEF FailingType, failing
<1>4. FlagsType /\ UNCHANGED flags => FlagsType'
  BY DEF FlagsType, flags
<1>5. WorkType /\ UNCHANGED work => WorkType'
  <2> SUFFICES ASSUME WorkType, UNCHANGED work PROVE WorkType'
    OBVIOUS
  <2>1. /\ round' = round /\ adoption' = adoption /\ reaper' = reaper
        /\ writer' = writer /\ stored' = stored /\ handoff' = handoff
        /\ owed' = owed
    BY DEF work
  <2> QED BY <2>1 DEF WorkType
<1>6. RowTypeOK /\ UNCHANGED rowVars => RowTypeOK'
  BY DEF RowTypeOK, rowVars
<1>7. PlacesType /\ UNCHANGED <<round, adoption, owed, drain>> => PlacesType'
  BY DEF PlacesType
<1> QED BY <1>1, <1>2, <1>3, <1>4, <1>5, <1>6, <1>7

\* A drain-log row is one, and the first row of an authorization that has one
\* is one of its rows.
LEMMA DrainRows ==
  ASSUME RowTypeOK
  PROVE  /\ Len(drain) \in Nat
         /\ \A i \in 1 .. Len(drain) :
              /\ drain[i].auth \in Auths /\ drain[i].charge \in Nat
              /\ drain[i].kind \in {"settle", "refund"} /\ drain[i].raise \in Nat
<1>1. drain \in Seq(DrainRowType)
  BY DEF RowTypeOK
<1>2. \A i \in 1 .. Len(drain) : drain[i] \in DrainRowType
  BY <1>1, ElementOfSeq
<1> QED BY <1>1, <1>2 DEF DrainRowType

\* The first drain-log row of an authorization that has one (adopt.go
\* undrained) is a row of it, and no row of it is before.
LEMMA FirstRowOf ==
  ASSUME NEW a \in Auths, RowsOf(a) /= {}, Len(drain) \in Nat
  PROVE  FirstRow(a) \in RowsOf(a) /\ \A j \in RowsOf(a) : FirstRow(a) <= j
<1>1. RowsOf(a) \subseteq Nat
  BY DEF RowsOf
<1>2. PICK x \in RowsOf(a) : \A y \in RowsOf(a) : ~(<<y, x>> \in OpToRel(<, Nat))
  BY <1>1, NatLessThanWellFounded, WFMin
<1>3. \A y \in RowsOf(a) : x <= y
  <2> TAKE y \in RowsOf(a)
  <2>1. <<y, x>> \in Nat \X Nat /\ <<y, x>>[1] = y /\ <<y, x>>[2] = x
    BY <1>1
  <2>2. ~(y < x)
    BY <1>2, <2>1 DEF OpToRel
  <2> QED BY <1>1, <2>2
<1> QED BY <1>3 DEF FirstRow

-----------------------------------------------------------------------------
(* Each operation keeps the invariant.                                      *)

\* An admission keeps the invariant (requests.go Admit).
LEMMA AdmitKeeps ==
  ASSUME Inv, NEW a \in Auths, NEW e \in Estimates, NEW m \in Modes,
         Admit(a, e, m)
  PROVE  Inv'
<1>1. PipeInv /\ RestType
  BY InvParts
<1>2. PipeInv'
  BY <1>1, PipeUnchanged DEF Admit, failing
<1> DEFINE h == [UnusedHold EXCEPT !.state = "open", !.estimate = e, !.mode = m]
<1>3. h \in HoldType /\ h.estimate = e
  BY ConstantTypes DEF HoldType, UnusedHold
<1>4. Counted(h) \in Nat
  BY <1>3, CountedType
<1>5. /\ hold' = [hold EXCEPT ![a] = h] /\ buffer' = buffer + Counted(h)
      /\ held' = held + e
      /\ UNCHANGED <<allocation, consumed, pending, shortfall>>
  BY DEF Admit
<1> HIDE DEF h
<1>6. BooksType'
  BY <1>1, <1>4, <1>5, ConstantTypes DEF RestType, BooksType
<1>7. HoldsType'
  BY <1>1, <1>3, <1>5 DEF RestType, HoldsType
<1>8. UNCHANGED failing /\ UNCHANGED flags /\ UNCHANGED work /\ UNCHANGED rowVars
  BY DEF Admit
<1>9. UNCHANGED <<round, adoption, owed, drain>>
  BY <1>8 DEF work, rowVars
<1> QED BY <1>1, <1>2, <1>6, <1>7, <1>8, <1>9, InvParts, PartsUnchanged DEF RestType

\* A heartbeat keeps the invariant (requests.go Heartbeat).
LEMMA HeartbeatKeeps ==
  ASSUME Inv, NEW a \in Auths, NEW c \in Charges, Heartbeat(a, c)
  PROVE  Inv'
<1>1. PipeInv /\ RestType /\ MaxRecords \in Nat
  BY InvParts, MaxRecordsAssumption
<1> DEFINE r == [Blank EXCEPT !.kind = "heartbeat", !.auth = a]
<1>2. /\ HandOver(<<r>>)
      /\ UNCHANGED failing /\ UNCHANGED flags /\ UNCHANGED work /\ UNCHANGED rowVars
  BY DEF Heartbeat
<1>3. r \in RecordType /\ r.kind \notin Terminals
  BY HeartbeatRecordType
<1> HIDE DEF r
<1>4. PipeInv'
  BY <1>1, <1>2, <1>3, HandOverOne DEF failing
<1>5. /\ hold \in [Auths -> HoldType] /\ hold[a].state = "open"
      /\ hold[a] \in HoldType /\ hold[a].estimate \in Estimates /\ Len(log) \in Nat
      /\ c \in Nat
  BY <1>1, ConstantTypes, PipeNumbers DEF Heartbeat, RestType, HoldsType
<1>6. BooksType'
  BY <1>1, <1>5, ConstantTypes DEF Heartbeat, RestType, BooksType
<1>7. HoldsType'
  <2> DEFINE h1 == [hold[a] EXCEPT !.heartbeat = TRUE]
             h2 == [h1 EXCEPT !.running = c]
             h == [h2 EXCEPT !.snapSeq = Len(log) + 1]
  <2>1. h \in HoldType /\ h.estimate = hold[a].estimate
    <3>1. h1 \in HoldType /\ h1.estimate = hold[a].estimate
      BY <1>5 DEF HoldType
    <3>2. h2 \in HoldType /\ h2.estimate = h1.estimate
      BY <1>5, <3>1 DEF HoldType
    <3> HIDE DEF h2
    <3>3. h \in HoldType /\ h.estimate = h2.estimate
      BY <1>5, <3>2 DEF HoldType
    <3> QED BY <3>1, <3>2, <3>3
  <2>2. hold' = [hold EXCEPT ![a] = h]
    BY <1>5 DEF Heartbeat
  <2> HIDE DEF h
  <2> QED BY <1>1, <1>5, <2>1, <2>2 DEF RestType, HoldsType
<1>8. UNCHANGED <<round, adoption, owed, drain>>
  BY <1>2 DEF work, rowVars
<1> QED BY <1>1, <1>2, <1>4, <1>6, <1>7, <1>8, InvParts, PartsUnchanged DEF RestType

\* A decision that moves nothing but the books, the hold and the pipeline.
LEMMA DecideKeeps ==
  ASSUME Inv, NEW a \in Auths, NEW k \in Terminals,
         NEW charge \in Nat, NEW from \in Nat, NEW raise \in Nat,
         Decide(a, k, charge, from, raise),
         UNCHANGED failing, UNCHANGED flags, UNCHANGED rowVars,
         WorkType', PlacesType'
  PROVE  Inv'
<1>1. PipeInv' /\ BooksType' /\ HoldsType'
  BY MaxRecordsAssumption, DecideTypes DEF failing
<1> QED BY <1>1, InvParts, PartsUnchanged DEF RestType

\* Every request does (requests.go).
LEMMA RequestKeeps ==
  ASSUME Inv, Request
  PROVE  Inv'
<1>1. RestType
  BY InvParts
<1>2. ASSUME UNCHANGED work, UNCHANGED rowVars PROVE WorkType' /\ PlacesType'
  <2>1. UNCHANGED <<round, adoption, owed, drain>>
    BY <1>2 DEF work, rowVars
  <2> QED BY <1>1, <1>2, <2>1, PartsUnchanged DEF RestType
<1>3. ASSUME NEW a \in Auths, NEW c \in Charges, Settle(a, c) PROVE Inv'
  <2>1. /\ Decide(a, "settle", c, 0, 0)
        /\ UNCHANGED failing /\ UNCHANGED flags /\ UNCHANGED work /\ UNCHANGED rowVars
    BY <1>3 DEF Settle
  <2>2. c \in Nat /\ "settle" \in Terminals /\ 0 \in Nat
    BY ConstantTypes DEF Terminals
  <2> QED BY <1>2, <2>1, <2>2, DecideKeeps
<1>4. ASSUME NEW a \in Auths, Refund(a) PROVE Inv'
  <2>1. /\ Decide(a, "refund", 0, 0, 0)
        /\ UNCHANGED failing /\ UNCHANGED flags /\ UNCHANGED work /\ UNCHANGED rowVars
    BY <1>4 DEF Refund
  <2>2. "refund" \in Terminals /\ 0 \in Nat
    BY DEF Terminals
  <2> QED BY <1>2, <2>1, <2>2, DecideKeeps
<1> QED BY <1>3, <1>4, AdmitKeeps, HeartbeatKeeps DEF Request

\* Every step of the flusher does (flush.go).
LEMMA FlusherKeeps ==
  ASSUME Inv, Flusher
  PROVE  Inv'
<1>1. PipeInv /\ RestType /\ MaxRecords \in Nat
  BY InvParts, MaxRecordsAssumption
<1>2. UNCHANGED hold /\ UNCHANGED flags /\ UNCHANGED work /\ UNCHANGED rowVars
  BY DEF Flusher, FlushAck, FlushFail, RepublishBegin, RepublishNext
<1>3. HoldsType' /\ FlagsType' /\ WorkType' /\ RowTypeOK' /\ PlacesType'
  <2>1. UNCHANGED <<round, adoption, owed, drain>>
    BY <1>2 DEF work, rowVars
  <2> QED BY <1>1, <1>2, <2>1, PartsUnchanged DEF RestType
<1>4. FailingType'
  BY <1>1 DEF Flusher, FlushAck, FlushFail, RepublishBegin, RepublishNext,
              RestType, FailingType
<1>5. PipeInv'
  BY <1>1, FlushAckKeepsOrder, FlushFailKeepsOrder, RepublishBeginKeepsOrder,
     RepublishNextKeepsOrder DEF Flusher
<1>6. BooksType'
  <2>1. CASE FlushAck
    <3>1. acked + 1 \in 1 .. Len(log)
      BY <1>1, <2>1, PipeNumbers DEF FlushAck
    <3>2. log[acked + 1] \in RecordType
      BY <1>1, <3>1, ElementOfSeq DEF PipeInv, PipeType
    <3>3. log[acked + 1].freed \in Nat
      BY <3>2 DEF RecordType
    <3> QED BY <1>1, <2>1, <3>3 DEF FlushAck, RestType, BooksType
  <2>2. CASE FlushFail \/ RepublishBegin \/ RepublishNext
    <3>1. UNCHANGED books
      BY <2>2 DEF FlushFail, RepublishBegin, RepublishNext
    <3> QED BY <1>1, <3>1, PartsUnchanged DEF RestType
  <2> QED BY <2>1, <2>2 DEF Flusher
<1> QED BY <1>3, <1>4, <1>5, <1>6, InvParts DEF RestType

\* Every step of the log's sender does (settlelog.go send).
LEMMA SenderKeeps ==
  ASSUME Inv, Sender
  PROVE  Inv'
<1>1. PipeInv /\ RestType /\ MaxRecords \in Nat
  BY InvParts, MaxRecordsAssumption
<1>2. /\ UNCHANGED books /\ UNCHANGED hold /\ UNCHANGED failing /\ UNCHANGED flags
      /\ UNCHANGED work /\ UNCHANGED rowVars /\ UNCHANGED <<log, acked, live, flusher>>
  BY DEF Sender, pipe, failing
<1>3. PipeInv'
  BY <1>1, <1>2, TakeBatchKeepsOrder, SendOkKeepsOrder, SendFailsKeepsOrder DEF Sender
<1>4. UNCHANGED <<round, adoption, owed, drain>>
  BY <1>2 DEF work, rowVars
<1> QED BY <1>1, <1>2, <1>3, <1>4, InvParts, PartsUnchanged DEF RestType

\* A step of the round, the writer or the world, that leaves the books, the
\* holds and the pipeline alone.
LEMMA QuietKeeps ==
  ASSUME Inv, UNCHANGED books, UNCHANGED hold, UNCHANGED pipe, UNCHANGED logVars,
         UNCHANGED flusher, FailingType', FlagsType', WorkType', PlacesType', RowTypeOK'
  PROVE  Inv'
<1>1. PipeInv'
  BY InvParts, PipeUnchanged
<1> QED BY <1>1, InvParts, PartsUnchanged DEF RestType

\* The steps that change only the lease's flags, or how it fails.
LEMMA FlagStepsKeep ==
  ASSUME Inv, Close \/ StopWorkers \/ HandoffEnds \/ FinishLease \/ PassCutoff \/ Switch \/ FailLong
  PROVE  Inv'
<1>1. RestType
  BY InvParts
<1>2. /\ UNCHANGED books /\ UNCHANGED hold /\ UNCHANGED pipe /\ UNCHANGED logVars
      /\ UNCHANGED work /\ UNCHANGED rowVars /\ UNCHANGED flusher
  BY DEF Close, StopWorkers, HandoffEnds, FinishLease, PassCutoff, Switch, FailLong, failing
<1>3. FlagsType' /\ FailingType'
  <2>1. CASE Close \/ StopWorkers \/ HandoffEnds \/ FinishLease \/ PassCutoff \/ Switch
    <3>1. UNCHANGED failing
      BY <2>1 DEF Close, StopWorkers, HandoffEnds, FinishLease, PassCutoff, Switch
    <3>2. FlagsType'
      BY <1>1, <2>1 DEF Close, StopWorkers, HandoffEnds, FinishLease, PassCutoff, Switch,
                        RestType, FlagsType
    <3> QED BY <1>1, <3>1, <3>2, PartsUnchanged DEF RestType
  <2>2. CASE FailLong
    <3>1. UNCHANGED flags
      BY <2>2 DEF FailLong
    <3>2. FailingType'
      BY <1>1, <2>2 DEF FailLong, RestType, FailingType
    <3> QED BY <1>1, <3>1, <3>2, PartsUnchanged DEF RestType
  <2> QED BY <2>1, <2>2
<1>4. UNCHANGED <<round, adoption, owed, drain>>
  BY <1>2 DEF work, rowVars
<1> QED BY <1>1, <1>2, <1>3, <1>4, PartsUnchanged, QuietKeeps DEF RestType

\* The round's steps that hand nothing over.
RoundQuiet ==
  \/ RoundBegin \/ RenewCommits \/ RenewFails \/ Renewed \/ RenewRefused
  \/ AdoptRead \/ AdoptFails \/ AdoptDone \/ LetIfAbandoned

\* They keep the invariant (spanner.go Renew, adopt.go adoptDrain).
LEMMA RoundQuietKeeps ==
  ASSUME Inv, RoundQuiet
  PROVE  Inv'
<1>1. RestType
  BY InvParts
<1>2. /\ UNCHANGED books /\ UNCHANGED hold /\ UNCHANGED pipe /\ UNCHANGED logVars
      /\ UNCHANGED failing /\ UNCHANGED rowVars /\ UNCHANGED flusher
      /\ reaper' = reaper /\ writer' = writer /\ stored' = stored
      /\ handoff' = handoff
  BY DEF RoundQuiet, RoundBegin, RenewCommits, RenewFails, Renewed, RenewRefused,
         AdoptRead, AdoptFails, AdoptDone, LetIfAbandoned, failing, flags
<1>3. FlagsType'
  BY <1>1 DEF RoundQuiet, RoundBegin, RenewCommits, RenewFails, Renewed, RenewRefused,
         AdoptRead, AdoptFails, AdoptDone, LetIfAbandoned, flags, RestType, FlagsType
<1>4. /\ Len(drain) \in Nat /\ drain' = drain /\ adoption \in [cursor : Nat, next : Nat, last : Nat]
      /\ adoption.last <= Len(drain) /\ owed <= Len(drain) /\ owed \in Nat
      /\ round = "adopting" => adoption.next >= 1
  BY <1>1, <1>2, DrainRows DEF RestType, WorkType, PlacesType, rowVars
<1>5. /\ round' \in {"idle", "renewing", "renewed", "refused", "adopt",
                     "adopting", "checkpoint", "letgo"}
      /\ adoption' \in [cursor : Nat, next : Nat, last : Nat] /\ owed' \in Nat
      /\ PlacesType'
  <2>1. CASE RoundBegin \/ RenewCommits \/ RenewFails \/ RenewRefused \/ AdoptFails
               \/ LetIfAbandoned
    BY <1>4, <2>1 DEF RoundBegin, RenewCommits, RenewFails, RenewRefused, AdoptFails,
                      LetIfAbandoned, PlacesType
  <2>2. CASE Renewed
    BY <1>4, <2>2 DEF Renewed, PlacesType
  <2>3. CASE AdoptRead
    <3>1. CASE UNCHANGED adoption /\ round' = "checkpoint"
      BY <1>4, <2>3, <3>1 DEF AdoptRead, PlacesType
    <3>2. CASE /\ adoption' = [adoption EXCEPT !.next = FirstUnread, !.last = Len(drain)]
               /\ round' = "adopting"
      <4> DEFINE a1 == [adoption EXCEPT !.next = FirstUnread]
                 a2 == [a1 EXCEPT !.last = Len(drain)]
      <4>1. FirstUnread \in Nat /\ FirstUnread >= 1
        BY <1>4 DEF FirstUnread
      <4>2. a2 \in [cursor : Nat, next : Nat, last : Nat]
            /\ a2.last = Len(drain) /\ a2.next = FirstUnread
        BY <1>4, <4>1
      <4>3. adoption' = a2 /\ owed' = owed
        BY <2>3, <3>2 DEF AdoptRead
      <4> HIDE DEF a2
      <4> QED BY <1>4, <3>2, <4>1, <4>2, <4>3 DEF PlacesType
    <3> QED BY <2>3, <3>1, <3>2 DEF AdoptRead
  <2>4. CASE AdoptDone
    BY <1>4, <2>4 DEF AdoptDone, PlacesType
  <2> QED BY <2>1, <2>2, <2>3, <2>4 DEF RoundQuiet
<1>6. WorkType'
  BY <1>1, <1>2, <1>5 DEF RestType, WorkType
<1> QED BY <1>1, <1>2, <1>3, <1>5, <1>6, PartsUnchanged, QuietKeeps DEF RestType

\* The steps of the reaper, the writer, the hand-off and the process's end
\* that hand nothing over.
WorkQuiet ==
  \/ (\E a \in Auths : ReapScan(a)) \/ ReapUndrained \/ ReapGivesUp
  \/ Stop
  \/ WriterSends \/ WriterAnswered \/ WriterRetries

\* They keep the invariant (adopt.go Reap, spanner.go writeShortfalls).
LEMMA WorkQuietKeeps ==
  ASSUME Inv, WorkQuiet
  PROVE  Inv'
<1>1. RestType
  BY InvParts
<1>2. /\ UNCHANGED books /\ UNCHANGED hold /\ UNCHANGED pipe /\ UNCHANGED logVars
      /\ UNCHANGED failing /\ UNCHANGED rowVars /\ UNCHANGED flusher
      /\ UNCHANGED <<round, adoption, owed, drain>> /\ handoff' = handoff
  BY DEF WorkQuiet, ReapScan, ReapUndrained, ReapGivesUp, Stop, WriterSends,
         WriterAnswered, WriterRetries, failing, rowVars
<1>3. FlagsType'
  BY <1>1 DEF WorkQuiet, ReapScan, ReapUndrained, ReapGivesUp, Stop, WriterSends,
              WriterAnswered, WriterRetries, RestType, FlagsType, flags
<1>4. IdleReaper \in ReaperType
  BY DEF IdleReaper, ReaperType
<1>5. reaper' \in ReaperType
  <2>1. CASE \E a \in Auths : ReapScan(a)
    <3>1. PICK a \in Auths : ReapScan(a)
      BY <2>1
    <3>2. hold[a] \in HoldType
      BY <1>1 DEF RestType, HoldsType
    <3> QED BY <3>1, <3>2 DEF ReapScan, ReaperType, HoldType
  <2>2. CASE ReapUndrained
    BY <1>1, <2>2 DEF ReapUndrained, RestType, WorkType, ReaperType
  <2>3. CASE ReapGivesUp
    BY <1>4, <2>3 DEF ReapGivesUp
  <2>4. CASE Stop \/ WriterSends \/ WriterAnswered \/ WriterRetries
    BY <1>1, <2>4 DEF Stop, WriterSends, WriterAnswered, WriterRetries,
                      RestType, WorkType
  <2> QED BY <2>1, <2>2, <2>3, <2>4 DEF WorkQuiet
<1>6. /\ writer' \in [place : {"idle", "writing", "landed", "ended"}, total : Nat]
      /\ stored' \in Nat
  BY <1>1 DEF WorkQuiet, ReapScan, ReapUndrained, ReapGivesUp, Stop, WriterSends,
              WriterAnswered, WriterRetries, RestType, WorkType, BooksType, Most
<1>7. WorkType'
  BY <1>1, <1>2, <1>5, <1>6 DEF RestType, WorkType
<1> QED BY <1>1, <1>2, <1>3, <1>7, PartsUnchanged, QuietKeeps DEF RestType

-----------------------------------------------------------------------------
(* The row's writers.                                                       *)

\* A row's columns have their types (store/lease.go).
LEMMA RowFields ==
  ASSUME NEW m \in RowType
  PROVE  /\ m.state \in {"open", "draining"} /\ m.revoked \in BOOLEAN
         /\ m.allocation \in Int /\ m.consumed \in Int /\ m.shortfall \in Nat
         /\ m.doorRaised \in Nat /\ m.returned \in Nat /\ m.faultUsage \in Int
         /\ m.osum \in Nat /\ m.auditFault \in Nat /\ m.delivered \in Nat
         /\ m.applied \in Nat /\ m.gap \in BOOLEAN /\ m.winners \in SUBSET Auths
  BY DEF RowType

\* A row's columns may be set one by one.
LEMMA RowUpdates ==
  ASSUME NEW m \in RowType
  PROVE  /\ [m EXCEPT !.state = "draining"] \in RowType
         /\ \A v \in BOOLEAN : [m EXCEPT !.revoked = v] \in RowType
         /\ \A v \in Int : [m EXCEPT !.allocation = v] \in RowType
         /\ \A v \in Int : [m EXCEPT !.consumed = v] \in RowType
         /\ \A v \in Nat : [m EXCEPT !.shortfall = v] \in RowType
         /\ \A v \in Nat : [m EXCEPT !.doorRaised = v] \in RowType
         /\ \A v \in Nat : [m EXCEPT !.returned = v] \in RowType
         /\ \A v \in Int : [m EXCEPT !.faultUsage = v] \in RowType
         /\ \A v \in Nat : [m EXCEPT !.osum = v] \in RowType
         /\ \A v \in Nat : [m EXCEPT !.auditFault = v] \in RowType
         /\ \A v \in Nat : [m EXCEPT !.delivered = v] \in RowType
         /\ \A v \in Nat : [m EXCEPT !.applied = v] \in RowType
         /\ \A v \in BOOLEAN : [m EXCEPT !.gap = v] \in RowType
         /\ \A v \in SUBSET Auths : [m EXCEPT !.winners = v] \in RowType
  BY DEF RowType

\* A booking leaves a row (store/money.go applyMoney).
LEMMA BookType ==
  ASSUME NEW m \in RowType, NEW charge \in Nat, NEW total \in Nat
  PROVE  Book(m, charge, total) \in RowType
<1> DEFINE allocated == m.allocation + Pos(total - m.shortfall)
           booked == Pos(Least(charge, allocated - m.consumed))
           r1 == [m EXCEPT !.allocation = allocated]
           r2 == [r1 EXCEPT !.shortfall = Most(m.shortfall, total)]
           r3 == [r2 EXCEPT !.consumed = m.consumed + booked]
           r4 == [r3 EXCEPT !.faultUsage = m.faultUsage + (charge - booked)]
<1>1. allocated \in Int /\ booked \in Int /\ Most(m.shortfall, total) \in Nat
  BY RowFields, PosType DEF Least, Most
<1>2. m.consumed + booked \in Int /\ m.faultUsage + (charge - booked) \in Int
  BY <1>1, RowFields
<1>3. Book(m, charge, total) = r4
  BY DEF Book
<1> HIDE DEF allocated, booked
<1>4. r1 \in RowType
  BY <1>1, RowUpdates
<1>5. r2 \in RowType
  BY <1>1, <1>4, RowUpdates
<1>6. r3 \in RowType
  BY <1>2, <1>5, RowUpdates
<1>7. r4 \in RowType
  BY <1>2, <1>6, RowUpdates
<1> QED BY <1>3, <1>7

\* A fault leaves a row (auditor/member.go).
LEMMA FaultType ==
  ASSUME NEW m \in RowType, NEW n \in Nat
  PROVE  Fault(m, n) \in RowType
<1> DEFINE v == IF m.auditFault = 0 THEN n ELSE m.auditFault
           r1 == [m EXCEPT !.auditFault = v]
           r2 == [r1 EXCEPT !.revoked = TRUE]
<1>1. v \in Nat
  BY RowFields
<1>2. Fault(m, n) = r2
  BY DEF Fault
<1>3. r1 \in RowType
  BY <1>1, RowUpdates
<1>4. r2 \in RowType
  BY <1>3, RowUpdates
<1> QED BY <1>2, <1>4

\* Any record applied leaves a row (auditor/member.go Apply).
LEMMA ApplyRecordType ==
  ASSUME NEW m \in RowType, NEW n \in Nat, NEW r \in RecordType,
         r.kind \in Terminals => r.auth \in Auths
  PROVE  ApplyRecord(m, n, r) \in RowType
<1>1. /\ r.charge \in Nat /\ r.shortfall \in Nat /\ r.return \in Nat
      /\ r.openSum \in Int /\ r.consumed \in Nat
  BY DEF RecordType
<1>2. CASE r.kind \in Terminals
  <2> DEFINE b == Book(m, IF r.auth \in m.winners THEN 0 ELSE r.charge, r.shortfall)
             b1 == [b EXCEPT !.winners = b.winners \union {r.auth}]
             b2 == [b1 EXCEPT !.osum = b.osum + r.charge]
             b3 == [b2 EXCEPT !.applied = n]
  <2>1. b \in RowType
    <3>1. (IF r.auth \in m.winners THEN 0 ELSE r.charge) \in Nat
      BY <1>1
    <3> QED BY <1>1, <3>1, BookType
  <2>2. ApplyRecord(m, n, r) = b3
    BY <1>2 DEF ApplyRecord, ApplyTerminal
  <2> HIDE DEF b
  <2>3. b.winners \union {r.auth} \in SUBSET Auths /\ b.osum + r.charge \in Nat
    BY <1>1, <1>2, <2>1, RowFields
  <2>4. b1 \in RowType
    BY <2>1, <2>3, RowUpdates
  <2>5. b2 \in RowType
    BY <2>3, <2>4, RowUpdates
  <2>6. b3 \in RowType
    BY <2>5, RowUpdates
  <2> QED BY <2>2, <2>6
<1>3. CASE r.kind = "checkpoint"
  <2> DEFINE t == TakeReturn(m, n, r.return)
             c == CheckOpen(t, n, r.openSum)
             d == ApplyCheckpoint(m, n, r)
  <2>1. t \in RowType
    <3>1. CASE r.return > m.allocation - m.consumed
      BY <3>1, FaultType DEF TakeReturn
    <3>2. CASE ~(r.return > m.allocation - m.consumed)
      <4> DEFINE t1 == [m EXCEPT !.allocation = m.allocation - r.return]
                 t2 == [t1 EXCEPT !.returned = m.returned + r.return]
      <4>1. m.allocation - r.return \in Int /\ m.returned + r.return \in Nat
        BY <1>1, RowFields
      <4>2. t1 \in RowType
        BY <4>1, RowUpdates
      <4>3. t2 \in RowType
        BY <4>1, <4>2, RowUpdates
      <4>4. t = t2
        BY <3>2 DEF TakeReturn
      <4> QED BY <4>3, <4>4
    <3> QED BY <3>1, <3>2
  <2> HIDE DEF t
  <2>2. c \in RowType
    BY <2>1, FaultType DEF CheckOpen
  <2>3. d = IF r.consumed /= m.osum THEN Fault(c, n) ELSE c
    BY DEF ApplyCheckpoint, t
  <2> HIDE DEF c, d
  <2>4. d \in RowType
    BY <2>2, <2>3, FaultType
  <2>5. ApplyRecord(m, n, r) = [d EXCEPT !.applied = n]
    BY <1>2, <1>3 DEF ApplyRecord, d, Terminals
  <2> QED BY <2>4, <2>5, RowUpdates
<1>4. CASE r.kind \notin Terminals /\ r.kind /= "checkpoint"
  <2>1. ApplyRecord(m, n, r) = [m EXCEPT !.applied = n]
    BY <1>4 DEF ApplyRecord
  <2> QED BY <2>1, RowUpdates
<1> QED BY <1>2, <1>3, <1>4

\* A delivery reads a record the owner handed over, and leaves a row
\* (auditor/member.go Apply, store/commit.go).
LEMMA DeliverType ==
  ASSUME Inv, Deliver(topic, log)
  PROVE  RowTypeOK' /\ drain' = drain
<1>1. PipeInv /\ RestType
  BY InvParts
<1> DEFINE i == row.delivered + 1
           n == topic[i]
           m == [row EXCEPT !.delivered = i]
<1>2. row \in RowType /\ row.delivered \in Nat /\ Len(topic) \in Nat
  BY <1>1, RowFields DEF RestType, RowTypeOK, PipeInv, LogTypeOK
<1>3. i \in 1 .. Len(topic) /\ i \in Nat
  BY <1>2 DEF Deliver
<1>4. n \in Numbers /\ n <= Len(log)
  BY <1>1, <1>3, ElementOfSeq DEF PipeInv, LogTypeOK, RecordsKnown
<1>5. n \in 1 .. Len(log) /\ n \in Nat
  BY <1>1, <1>4, PipeNumbers, MaxRecordsAssumption DEF Numbers
<1>6. log[n] \in RecordType /\ (log[n].kind \in Terminals => log[n].auth \in Auths)
  BY <1>1, <1>5, ElementOfSeq DEF PipeInv, PipeType, RecordsKnown
<1>7. m \in RowType
  BY <1>2, <1>3, RowUpdates
<1>8. /\ row' = IF n <= row.applied THEN m
                ELSE IF n = row.applied + 1 THEN ApplyRecord(m, n, log[n])
                ELSE [m EXCEPT !.gap = TRUE]
      /\ drain' = drain
  BY DEF Deliver
<1> HIDE DEF m, n, i
<1>9. row' \in RowType
  <2>1. ApplyRecord(m, n, log[n]) \in RowType
    BY <1>5, <1>6, <1>7, ApplyRecordType
  <2>2. [m EXCEPT !.gap = TRUE] \in RowType
    BY <1>7, RowUpdates
  <2> QED BY <1>7, <1>8, <2>1, <2>2
<1> QED BY <1>1, <1>8, <1>9 DEF RestType, RowTypeOK

\* The steps that write the row and leave the owner's books alone.
RowSteps ==
  \/ WriterLands \/ FinishMarks \/ HandoffMarks \/ RowRevoked \/ RowExpires \/ Auditor

\* They keep the invariant (store/lease.go, auditor/member.go).
LEMMA RowStepsKeep ==
  ASSUME Inv, RowSteps
  PROVE  Inv'
<1>1. RestType
  BY InvParts
<1>2. /\ UNCHANGED books /\ UNCHANGED hold /\ UNCHANGED pipe /\ UNCHANGED logVars
      /\ UNCHANGED failing /\ UNCHANGED flusher
      /\ round' = round /\ adoption' = adoption /\ reaper' = reaper
      /\ stored' = stored /\ owed' = owed
  BY DEF RowSteps, WriterLands, FinishMarks, HandoffMarks, RowRevoked, RowExpires,
         Auditor, failing, work
<1>3. FlagsType'
  BY <1>1 DEF RowSteps, WriterLands, FinishMarks, HandoffMarks, RowRevoked,
              RowExpires, Auditor, flags, RestType, FlagsType
<1>4. WorkType'
  <2>1. /\ writer' \in [place : {"idle", "writing", "landed", "ended"}, total : Nat]
        /\ handoff' \in {"none", "waiting", "ending"}
    BY <1>1 DEF RowSteps, WriterLands, FinishMarks, HandoffMarks, RowRevoked,
                RowExpires, Auditor, work, RestType, WorkType
  <2> QED BY <1>1, <1>2, <2>1 DEF RestType, WorkType
<1>5. row \in RowType /\ drain \in Seq(DrainRowType)
  BY <1>1 DEF RestType, RowTypeOK
<1>6. RowTypeOK' /\ drain' = drain
  <2>1. CASE WriterLands
    <3> DEFINE t == writer.total
               r1 == [row EXCEPT !.shortfall = Most(row.shortfall, t)]
               r2 == [r1 EXCEPT !.allocation = row.allocation + Pos(t - row.shortfall)]
    <3>1. t \in Nat
      BY <1>1 DEF RestType, WorkType
    <3>2. ShortfallWrite(t)
      BY <2>1 DEF WriterLands
    <3> HIDE DEF t
    <3>3. /\ Most(row.shortfall, t) \in Nat
          /\ row.allocation + Pos(t - row.shortfall) \in Int
      BY <1>5, <3>1, RowFields, PosType DEF Most
    <3>4. r1 \in RowType
      BY <1>5, <3>3, RowUpdates
    <3>5. r2 \in RowType
      BY <3>3, <3>4, RowUpdates
    <3>6. row' = r2 /\ drain' = drain
      BY <3>2 DEF ShortfallWrite
    <3> QED BY <1>5, <3>5, <3>6 DEF RowTypeOK
  <2>2. CASE FinishMarks \/ HandoffMarks \/ RowExpires
    <3>1. MarkDraining
      BY <2>2 DEF FinishMarks, HandoffMarks, RowExpires
    <3>2. row' = [row EXCEPT !.state = "draining"] /\ drain' = drain
      BY <3>1 DEF MarkDraining
    <3> QED BY <1>5, <3>2, RowUpdates DEF RowTypeOK
  <2>3. CASE RowRevoked
    <3>1. row' = [row EXCEPT !.revoked = TRUE] /\ drain' = drain
      BY <2>3 DEF RowRevoked, Revoke
    <3>2. row' \in RowType
      BY <1>5, <3>1, RowUpdates
    <3> QED BY <1>5, <3>1, <3>2 DEF RowTypeOK
  <2>4. CASE Auditor
    BY <2>4, DeliverType DEF Auditor
  <2> QED BY <2>1, <2>2, <2>3, <2>4 DEF RowSteps
<1>7. UNCHANGED <<round, adoption, owed, drain>>
  BY <1>2, <1>6
<1> QED
  BY <1>1, <1>2, <1>3, <1>4, <1>6, <1>7, PartsUnchanged, QuietKeeps DEF RestType

\* A front door's append keeps it: the drain log only grows (drain.go Append).
LEMMA FrontDoorKeeps ==
  ASSUME Inv, FrontDoor
  PROVE  Inv'
<1>1. RestType
  BY InvParts
<1>2. PICK a \in Auths, k \in {"settle", "refund"}, charge \in Nat :
        DrainAppend(a, k, charge)
  <2>1. 0 \in Nat /\ \A c \in Charges : c \in Nat
    BY ConstantTypes
  <2> QED BY <2>1 DEF FrontDoor
<1>3. /\ UNCHANGED books /\ UNCHANGED hold /\ UNCHANGED pipe /\ UNCHANGED logVars
      /\ UNCHANGED failing /\ UNCHANGED flusher /\ UNCHANGED flags /\ UNCHANGED work
  BY <1>2 DEF DrainAppend, failing
<1>4. row \in RowType /\ drain \in Seq(DrainRowType) /\ Len(drain) \in Nat
  BY <1>1 DEF RestType, RowTypeOK
<1>5. PICK raise \in Nat : raise = Pos(charge - hold[a].estimate)
  <2>1. hold[a].estimate \in Nat
    BY <1>1 DEF RestType, HoldsType, HoldType
  <2> QED BY <2>1, PosType
<1> DEFINE r == [auth |-> a, kind |-> k, charge |-> charge, raise |-> raise]
           r1 == [row EXCEPT !.allocation = row.allocation + raise]
           r2 == [r1 EXCEPT !.doorRaised = row.doorRaised + raise]
<1>6. drain' = Append(drain, r) /\ row' = r2
  BY <1>2, <1>5 DEF DrainAppend, AppendRow
<1>7. r \in DrainRowType
  BY DEF DrainRowType
<1>8. row.allocation + raise \in Int /\ row.doorRaised + raise \in Nat
  BY <1>4, RowFields
<1>9. r1 \in RowType
  BY <1>4, <1>8, RowUpdates
<1>10. r2 \in RowType
  BY <1>8, <1>9, RowUpdates
<1> HIDE DEF r, r2
<1>11. RowTypeOK' /\ Len(drain') = Len(drain) + 1
  BY <1>4, <1>6, <1>7, <1>10 DEF RowTypeOK
<1>12. PlacesType'
  <2>1. /\ round' = round /\ adoption' = adoption /\ owed' = owed
        /\ adoption.last \in Nat /\ owed \in Nat
    BY <1>1, <1>3 DEF work, RestType, WorkType
  <2> QED BY <1>1, <1>4, <1>11, <2>1 DEF RestType, PlacesType
<1> QED BY <1>1, <1>3, <1>11, <1>12, PartsUnchanged, QuietKeeps DEF RestType

-----------------------------------------------------------------------------
(* The other steps that hand a record over.                                 *)

\* A row's adoption: the row is one of the drain log's (adopt.go adopt).
LEMMA AdoptKeeps ==
  ASSUME Inv, NEW i \in 1 .. Len(drain), Adopt(i),
         UNCHANGED failing, UNCHANGED flags, UNCHANGED rowVars, WorkType', PlacesType'
  PROVE  Inv'
<1>1. RowTypeOK
  BY InvParts DEF RestType
<1>2. /\ drain[i].auth \in Auths /\ drain[i].charge \in Nat /\ i \in Nat
      /\ drain[i].kind \in Terminals /\ drain[i].raise \in Nat
  BY <1>1, DrainRows DEF Terminals
<1>3. Decide(drain[i].auth, drain[i].kind, drain[i].charge, i, drain[i].raise)
  BY DEF Adopt
<1> QED BY <1>2, <1>3, DecideKeeps

\* The round's adoption of the next row read (adopt.go adoptDrain).
LEMMA AdoptNextKeeps ==
  ASSUME Inv, AdoptNext
  PROVE  Inv'
<1>1. RestType
  BY InvParts
<1>2. /\ UNCHANGED failing /\ UNCHANGED flags /\ UNCHANGED rowVars /\ UNCHANGED flusher
      /\ round' = round /\ reaper' = reaper /\ writer' = writer /\ stored' = stored
      /\ handoff' = handoff /\ owed' = owed
      /\ adoption' = [adoption EXCEPT !.next = adoption.next + 1]
      /\ round = "adopting" /\ adoption.next <= adoption.last
  BY DEF AdoptNext, failing
<1>3. /\ adoption \in [cursor : Nat, next : Nat, last : Nat]
      /\ adoption.next \in Nat /\ adoption.last \in Nat /\ adoption.next >= 1
      /\ adoption.last <= Len(drain) /\ owed <= Len(drain) /\ Len(drain) \in Nat
      /\ drain' = drain
  BY <1>1, <1>2, DrainRows DEF RestType, WorkType, PlacesType, rowVars
<1>4. /\ adoption' \in [cursor : Nat, next : Nat, last : Nat]
      /\ adoption'.next = adoption.next + 1 /\ adoption'.last = adoption.last
  BY <1>2, <1>3
<1>5. WorkType' /\ PlacesType'
  BY <1>1, <1>2, <1>3, <1>4 DEF RestType, WorkType, PlacesType
<1>6. adoption.next \in 1 .. Len(drain)
  BY <1>2, <1>3
<1>7. CASE Adopt(adoption.next)
  BY <1>2, <1>5, <1>6, <1>7, AdoptKeeps
<1>8. CASE UNCHANGED <<books, hold, pipe, logVars>>
  <2>1. UNCHANGED books /\ UNCHANGED hold /\ UNCHANGED pipe /\ UNCHANGED logVars
    BY <1>8
  <2> QED BY <1>1, <1>2, <1>5, <2>1, PartsUnchanged, QuietKeeps DEF RestType
<1> QED BY <1>7, <1>8 DEF AdoptNext

\* The round's checkpoint (spanner.go checkpoint).
LEMMA CheckpointKeeps ==
  ASSUME Inv, Checkpoint
  PROVE  Inv'
<1>1. PipeInv /\ RestType /\ MaxRecords \in Nat
  BY InvParts, MaxRecordsAssumption
<1>2. /\ UNCHANGED hold /\ UNCHANGED failing /\ UNCHANGED rowVars /\ UNCHANGED flusher
      /\ round' = "letgo"
      /\ UNCHANGED <<held, consumed, pending, buffer, shortfall>>
      /\ UNCHANGED <<past, let, stopped, closing, unadopted, handedOff, enabled>>
      /\ adoption' = adoption /\ reaper' = reaper /\ writer' = writer
      /\ stored' = stored /\ handoff' = handoff /\ owed' = owed
  BY DEF Checkpoint, failing
<1>3. WorkType' /\ PlacesType'
  <2>1. drain' = drain
    BY <1>2 DEF rowVars
  <2> QED BY <1>1, <1>2, <2>1 DEF RestType, WorkType, PlacesType
<1>4. /\ allocation \in Int /\ consumed \in Nat /\ held \in Int /\ Free \in Int
      /\ Len(log) \in Nat
  BY <1>1, PipeNumbers DEF RestType, BooksType, Free
<1>5. ReturnOf \in Nat
  BY <1>4, PosType DEF ReturnOf
<1>6. PipeInv' /\ allocation' \in Int /\ final' \in Nat
  <2>1. CASE final = 0 /\ CanHandOver(1)
    <3> DEFINE r == [Blank EXCEPT !.consumed = consumed, !.openSum = held,
                                  !.return = ReturnOf]
    <3>1. /\ HandOver(<<r>>) /\ allocation' = allocation - ReturnOf
          /\ final' = IF closing /\ Open = {} THEN Len(log) + 1 ELSE 0
      BY <2>1 DEF Checkpoint
    <3>2. r \in RecordType /\ r.kind \notin Terminals
      BY <1>4, <1>5, CheckpointRecordType
    <3> HIDE DEF r
    <3>3. PipeInv'
      BY <1>1, <1>2, <3>1, <3>2, HandOverOne
    <3> QED BY <1>4, <1>5, <3>1, <3>3
  <2>2. CASE ~(final = 0 /\ CanHandOver(1))
    <3>1. UNCHANGED <<allocation, pipe, final, logVars>>
      BY <2>2 DEF Checkpoint
    <3>2. PipeInv'
      BY <1>1, <1>2, <3>1, PipeUnchanged
    <3> QED BY <1>1, <1>4, <3>1, <3>2 DEF RestType, FlagsType
  <2> QED BY <2>1, <2>2
<1>7. BooksType' /\ FlagsType'
  BY <1>1, <1>2, <1>6 DEF RestType, BooksType, FlagsType
<1> QED BY <1>1, <1>2, <1>3, <1>6, <1>7, InvParts, PartsUnchanged DEF RestType

\* The reaper's steps that end a hold (adopt.go undrained, reap, releaseOne).
LEMMA ReaperKeeps ==
  ASSUME Inv, ReapAdopts \/ ReapDecides
  PROVE  Inv'
<1>1. RestType
  BY InvParts
<1>2. /\ UNCHANGED failing /\ UNCHANGED flags /\ UNCHANGED rowVars
      /\ UNCHANGED <<round, adoption, owed, drain>>
      /\ reaper' = IdleReaper /\ writer' = writer /\ stored' = stored
      /\ handoff' = handoff
  BY DEF ReapAdopts, ReapDecides, rowVars
<1>3. WorkType'
  <2>1. IdleReaper \in ReaperType
    BY DEF IdleReaper, ReaperType
  <2> QED BY <1>1, <1>2, <2>1 DEF RestType, WorkType
<1>4. PlacesType'
  BY <1>1, <1>2, PartsUnchanged DEF RestType
<1>5. reaper \in ReaperType
  BY <1>1 DEF RestType, WorkType
<1>6. CASE ReapAdopts
  <2>1. Adopt(FirstRow(reaper.auth)) /\ RowsOf(reaper.auth) /= {}
    BY <1>6 DEF ReapAdopts
  <2>2. Len(drain) \in Nat /\ \A i \in 1 .. Len(drain) : drain[i].auth \in Auths
    BY <1>1, DrainRows DEF RestType
  <2>3. reaper.auth \in Auths
    BY <2>1, <2>2 DEF RowsOf
  <2>4. FirstRow(reaper.auth) \in 1 .. Len(drain)
    BY <2>1, <2>2, <2>3, FirstRowOf DEF RowsOf
  <2> QED BY <1>2, <1>3, <1>4, <2>1, <2>4, AdoptKeeps
<1>7. CASE ReapDecides
  <2>1. /\ Decide(reaper.auth, reaper.kind, reaper.charge, 0, 0)
        /\ reaper.auth \in Auths
    BY <1>7 DEF ReapDecides, Open
  <2>2. reaper.kind \in Terminals /\ reaper.charge \in Nat /\ 0 \in Nat
    BY <1>5 DEF ReaperType, Terminals
  <2> QED BY <1>2, <1>3, <1>4, <2>1, <2>2, DecideKeeps
<1> QED BY <1>6, <1>7

\* The release of a declared stream with no heartbeat (adopt.go releaseDue).
LEMMA ReleaseDueKeeps ==
  ASSUME Inv, NEW a \in Auths, ReleaseDue(a)
  PROVE  Inv'
<1>1. RestType
  BY InvParts
<1>2. /\ Decide(a, "release", 0, 0, 0)
      /\ UNCHANGED failing /\ UNCHANGED flags /\ UNCHANGED work /\ UNCHANGED rowVars
  BY DEF ReleaseDue
<1>3. UNCHANGED <<round, adoption, owed, drain>>
  BY <1>2 DEF work, rowVars
<1>4. WorkType' /\ PlacesType'
  BY <1>1, <1>2, <1>3, PartsUnchanged DEF RestType
<1>5. "release" \in Terminals /\ 0 \in Nat
  BY DEF Terminals
<1> QED BY <1>2, <1>4, <1>5, DecideKeeps

\* The forced exit's records, its chunk of open holds and its manifest
\* (handoff.go handoff).
LEMMA HandoffKeeps ==
  ASSUME Inv, Handoff \/ HandoffCut
  PROVE  Inv'
<1>1. PipeInv /\ RestType /\ MaxRecords \in Nat
  BY InvParts, MaxRecordsAssumption
<1>2. /\ UNCHANGED books /\ UNCHANGED hold /\ UNCHANGED failing /\ UNCHANGED rowVars
      /\ UNCHANGED flusher
      /\ UNCHANGED <<round, adoption, owed, drain>>
      /\ reaper' = reaper /\ writer' = writer /\ stored' = stored
      /\ handoff' \in {"none", "waiting", "ending"}
  BY DEF Handoff, HandoffCut, failing, rowVars
<1>3. FlagsType'
  BY <1>1 DEF Handoff, HandoffCut, RestType, FlagsType
<1>4. WorkType'
  BY <1>1, <1>2 DEF RestType, WorkType
<1>5. PICK m : m = [Blank EXCEPT !.kind = "manifest", !.holds = Open]
  OBVIOUS
<1>6. PICK c : c = HandoffChunk
  OBVIOUS
<1>7. m \in RecordType /\ m.kind \notin Terminals
  BY <1>5, HandoffRecordType
<1>8. c \in RecordType /\ c.kind \notin Terminals
  BY <1>6, HandoffRecordType DEF HandoffChunk
<1>9. PipeInv'
  <2>1. CASE HandOver(<<m>>)
    BY <1>1, <1>2, <1>7, <2>1, HandOverOne
  <2>2. CASE HandOver(<<c>>)
    BY <1>1, <1>2, <1>8, <2>2, HandOverOne
  <2>3. CASE HandOver(<<c, m>>)
    <3>1. <<c, m>> \in Seq(RecordType) /\ Len(<<c, m>>) = 2
      BY <1>7, <1>8
    <3>2. \A i \in 1 .. 2 : <<c, m>>[i].kind \notin Terminals
      BY <1>7, <1>8
    <3> QED BY <1>1, <1>2, <2>3, <3>1, <3>2, HandOverKeepsOrder
  <2>4. CASE UNCHANGED <<pipe, logVars>>
    BY <1>1, <1>2, <2>4, PipeUnchanged
  <2>5. HandoffRecords = <<m>> \/ HandoffRecords = <<c, m>>
    <3>1. <<>> \o <<m>> = <<m>> /\ <<c>> \o <<m>> = <<c, m>>
      <4>1. <<m>> \in Seq(RecordType) /\ <<c>> \in Seq(RecordType)
            /\ <<c, m>> \in Seq(RecordType)
            /\ Len(<<c, m>>) = 2 /\ Len(<<c>>) = 1 /\ Len(<<m>>) = 1
            /\ <<c>>[1] = c /\ <<m>>[1] = m /\ <<c, m>>[1] = c /\ <<c, m>>[2] = m
        BY <1>7, <1>8
      <4>2. <<>> \o <<m>> = <<m>>
        BY <4>1, ConcatEmptySeq
      <4> DEFINE t == <<c>> \o <<m>>
      <4>3. /\ t \in Seq(RecordType) /\ Len(t) = Len(<<c>>) + Len(<<m>>)
            /\ \A i \in 1 .. Len(<<c>>) + Len(<<m>>) :
                 t[i] = IF i <= Len(<<c>>) THEN <<c>>[i] ELSE <<m>>[i - Len(<<c>>)]
        BY <4>1, ConcatProperties
      <4> HIDE DEF t
      <4>4. Len(t) = 2 /\ t[1] = c /\ t[2] = m
        BY <4>1, <4>3
      <4>5. t = <<c, m>>
        BY <4>1, <4>3, <4>4, SeqEqual
      <4> QED BY <4>2, <4>5 DEF t
    <3> QED BY <1>5, <1>6, <3>1 DEF HandoffRecords
  <2> QED BY <1>6, <2>1, <2>2, <2>3, <2>4, <2>5 DEF Handoff, HandoffCut
<1> QED BY <1>1, <1>2, <1>3, <1>4, <1>9, InvParts, PartsUnchanged DEF RestType

-----------------------------------------------------------------------------
(* The invariant, and what follows from it.                                 *)

\* A lease as it is taken satisfies it (owner.go take, store Grant).
LEMMA InitInv == Init => Inv
<1> SUFFICES ASSUME Init PROVE Inv
  OBVIOUS
<1>1. BooksType
  BY GrantedAssumption DEF Init, BooksType
<1>2. HoldsType
  BY DEF Init, HoldsType, HoldType, UnusedHold
<1>3. /\ log = <<>> /\ acked = 0 /\ live = 0 /\ flusher = "wait"
      /\ queue = <<>> /\ sending = <<>> /\ paused = FALSE /\ topic = <<>>
      /\ waiter = [n \in Numbers |-> "notSent"] /\ failures = 0
  BY DEF Init, LogInit
<1>4. PipeType /\ LogTypeOK
  <2>1. PipeType
    BY <1>3, MaxRecordsAssumption DEF PipeType, Inflight
  <2>2. waiter \in [Numbers -> Outcomes]
    BY <1>3 DEF Outcomes
  <2>3. queue \in Seq(Numbers) /\ sending \in Seq(Numbers) /\ topic \in Seq(Numbers)
    <3>1. queue = <<>> /\ sending = <<>> /\ topic = <<>>
      BY <1>3
    <3> QED BY <3>1
  <2>4. paused \in BOOLEAN /\ failures \in Nat
    BY <1>3
  <2> QED BY <2>1, <2>2, <2>3, <2>4 DEF LogTypeOK
<1>5. FailingType /\ FlagsType
  BY DEF Init, FailingType, FlagsType
<1>6. RowTypeOK
  BY GrantedAssumption DEF Init, RowInit, RowTypeOK, RowType
<1>7. WorkType
  BY DEF Init, WorkType, ReaperType, IdleReaper
<1>8. PlacesType
  BY DEF Init, RowInit, PlacesType
<1>9. PublishedInOrder
  <2>1. PublishedUpTo(0)
    BY <1>3, MaxRecordsAssumption DEF PublishedUpTo, Numbers
  <2> QED BY <1>3, <2>1 DEF PublishedInOrder
<1>10. RecordsKnown /\ NoGap
  BY <1>3 DEF RecordsKnown, NoGap
<1> QED
  BY <1>1, <1>2, <1>4, <1>5, <1>6, <1>7, <1>8, <1>9, <1>10 DEF Inv, TypeOK

\* Every step keeps it.
LEMMA NextInv == Inv /\ [Next]_vars => Inv'
<1> SUFFICES ASSUME Inv, [Next]_vars PROVE Inv'
  OBVIOUS
<1>1. CASE Request
  BY <1>1, RequestKeeps
<1>2. CASE Flusher
  BY <1>2, FlusherKeeps
<1>3. CASE Sender
  BY <1>3, SenderKeeps
<1>4. CASE FailLong \/ StopWorkers \/ Close \/ PassCutoff \/ Switch
  BY <1>4, FlagStepsKeep
<1>5. CASE Auditor \/ RowRevoked \/ RowExpires
  BY <1>5, RowStepsKeep DEF RowSteps
<1>6. CASE FrontDoor
  BY <1>6, FrontDoorKeeps
<1>7. CASE Handoffs
  BY <1>7, HandoffKeeps, RowStepsKeep, FlagStepsKeep DEF Handoffs, RowSteps
<1>8. CASE Reaper
  <2>1. CASE \E a \in Auths : ReleaseDue(a)
    BY <2>1, ReleaseDueKeeps
  <2>2. CASE ReapAdopts \/ ReapDecides
    BY <2>2, ReaperKeeps
  <2>3. CASE (\E a \in Auths : ReapScan(a)) \/ ReapUndrained \/ ReapGivesUp
    BY <2>3, WorkQuietKeeps DEF WorkQuiet
  <2> QED BY <1>8, <2>1, <2>2, <2>3 DEF Reaper
<1>9. CASE Round
  <2>1. CASE AdoptNext
    BY <2>1, AdoptNextKeeps
  <2>2. CASE Checkpoint
    BY <2>2, CheckpointKeeps
  <2>3. CASE FinishMarks \/ FinishLease
    BY <2>3, RowStepsKeep, FlagStepsKeep DEF RowSteps
  <2>4. CASE RoundQuiet
    BY <2>4, RoundQuietKeeps
  <2> QED BY <1>9, <2>1, <2>2, <2>3, <2>4 DEF Round, RoundQuiet
<1>10. CASE Stop
  BY <1>10, WorkQuietKeeps DEF WorkQuiet
<1>11. CASE Writer
  BY <1>11, WorkQuietKeeps, RowStepsKeep DEF Writer, WorkQuiet, RowSteps
<1>12. CASE UNCHANGED vars
  <2>1. /\ UNCHANGED books /\ UNCHANGED hold /\ UNCHANGED pipe /\ UNCHANGED logVars
        /\ UNCHANGED failing /\ UNCHANGED flags /\ UNCHANGED work /\ UNCHANGED rowVars
    BY <1>12 DEF vars
  <2>2. UNCHANGED flusher /\ UNCHANGED <<round, adoption, owed, drain>>
    BY <2>1 DEF failing, work, rowVars
  <2>3. RestType
    BY InvParts
  <2> QED BY <2>1, <2>2, <2>3, PartsUnchanged, QuietKeeps DEF RestType
<1> QED
  BY <1>1, <1>2, <1>3, <1>4, <1>5, <1>6, <1>7, <1>8, <1>9, <1>10, <1>11, <1>12
     DEF Next

\* The state always has its types: in particular the flusher's counts of
\* records in flight and of records published since the last failure stay
\* between zero and what there is (flush.go), and no adoption reads past the
\* drain log (adopt.go).
THEOREM TypeCorrect == Spec => []TypeOK
<1>1. Inv => TypeOK
  BY DEF Inv
<1> QED BY <1>1, InitInv, NextInv, PTL DEF Spec

\* The owner's counts, the publisher and the topic always agree on which
\* records are acknowledged, under way and to be republished, in that order
\* (flush.go, requests.go handOver, settlelog.go).
THEOREM InOrder == Spec => []PublishedInOrder
<1>1. Inv => PublishedInOrder
  BY DEF Inv
<1> QED BY <1>1, InitInv, NextInv, PTL DEF Spec

\* The auditor never meets a gap in a lease's records, however many publishes
\* fail, are stored all the same, or are made again (settlelog.go, flush.go).
THEOREM TopicHasNoGap == Spec => []NoGap
<1>1. Inv => NoGap
  BY DEF Inv
<1> QED BY <1>1, InitInv, NextInv, PTL DEF Spec

-----------------------------------------------------------------------------
(* The first terminal wins: a hold has at most one terminal among its        *)
(* lease's records, whoever of the gateways, the reaper, a release and an    *)
(* adoption races for it (OneTerminal).                                      *)

\* A terminal record decided its hold, and a decided hold stays decided.
TerminalsDecide ==
  \A n \in 1 .. Len(log) :
    log[n].kind \in Terminals => hold[log[n].auth].state = "decided"

\* No two records are terminals of the same hold.
TerminalsDiffer ==
  \A m, n \in 1 .. Len(log) :
    log[m].kind \in Terminals /\ log[n].kind \in Terminals
      /\ log[m].auth = log[n].auth => m = n

TermInv == TerminalsDecide /\ TerminalsDiffer

\* A step leaves a decided hold decided.
StayDecided ==
  \A a \in Auths : hold[a].state = "decided" => hold'[a].state = "decided"

-----------------------------------------------------------------------------
\* A step that hands nothing over, and decides nothing again.
LEMMA NoRecordKeeps ==
  ASSUME Inv, TermInv, log' = log, StayDecided
  PROVE  TermInv'
<1>1. \A n \in 1 .. Len(log) : log[n].kind \in Terminals => log[n].auth \in Auths
  BY DEF Inv, RecordsKnown
<1>2. TerminalsDecide'
  BY <1>1 DEF TermInv, TerminalsDecide, StayDecided
<1>3. TerminalsDiffer'
  BY DEF TermInv, TerminalsDiffer
<1> QED BY <1>2, <1>3 DEF TermInv

\* Records that are no terminals decide nothing (heartbeats, checkpoints, and
\* a hand-off's chunk and manifest).
LEMMA OtherRecordsKeep ==
  ASSUME Inv, TermInv, NEW recs \in Seq(RecordType), log' = log \o recs,
         \A i \in 1 .. Len(recs) : recs[i].kind \notin Terminals, StayDecided
  PROVE  TermInv'
<1>1. \A n \in 1 .. Len(log) : log[n].kind \in Terminals => log[n].auth \in Auths
  BY DEF Inv, RecordsKnown
<1>2. /\ Len(log) \in Nat /\ Len(recs) \in Nat
      /\ Len(log') = Len(log) + Len(recs)
      /\ \A i \in 1 .. Len(log) : log'[i] = log[i]
      /\ \A i \in 1 .. Len(recs) : log'[Len(log) + i] = recs[i]
  BY ConcatProperties DEF Inv, TypeOK, PipeType
<1>3. \A n \in 1 .. Len(log') :
        log'[n].kind \in Terminals => n \in 1 .. Len(log) /\ log'[n] = log[n]
  <2> TAKE n \in 1 .. Len(log')
  <2>1. CASE n <= Len(log)
    BY <1>2, <2>1
  <2>2. CASE n > Len(log)
    <3>1. n - Len(log) \in 1 .. Len(recs) /\ n = Len(log) + (n - Len(log))
      BY <1>2, <2>2
    <3> QED BY <1>2, <3>1
  <2> QED BY <1>2, <2>1, <2>2
<1>4. TerminalsDecide'
  <2> SUFFICES ASSUME NEW n \in 1 .. Len(log'), log'[n].kind \in Terminals
               PROVE  hold'[log'[n].auth].state = "decided"
    BY DEF TerminalsDecide
  <2>1. n \in 1 .. Len(log) /\ log'[n] = log[n]
    BY <1>3
  <2> QED BY <1>1, <2>1 DEF TermInv, TerminalsDecide, StayDecided
<1>5. TerminalsDiffer'
  <2> SUFFICES ASSUME NEW m \in 1 .. Len(log'), NEW n \in 1 .. Len(log'),
                      log'[m].kind \in Terminals, log'[n].kind \in Terminals,
                      log'[m].auth = log'[n].auth
               PROVE  m = n
    BY DEF TerminalsDiffer
  <2>1. /\ m \in 1 .. Len(log) /\ log'[m] = log[m]
        /\ n \in 1 .. Len(log) /\ log'[n] = log[n]
    BY <1>3
  <2> QED BY <2>1 DEF TermInv, TerminalsDiffer
<1> QED BY <1>4, <1>5 DEF TermInv

\* A step that appends one record.
LEMMA OtherRecordKeeps ==
  ASSUME Inv, TermInv, NEW r \in RecordType, log' = log \o <<r>>,
         r.kind \notin Terminals, StayDecided
  PROVE  TermInv'
<1>1. <<r>> \in Seq(RecordType) /\ \A i \in 1 .. Len(<<r>>) : <<r>>[i] = r
  OBVIOUS
<1> QED BY <1>1, OtherRecordsKeep

\* decide: the hold was open, so none of its terminals is among the records
\* (requests.go decide; adopt.go adopt, reap and releaseOne).
LEMMA DecideKeepsOne ==
  ASSUME Inv, TermInv, NEW a \in Auths, NEW k, NEW charge, NEW from, NEW raise,
         Decide(a, k, charge, from, raise)
  PROVE  TermInv'
<1>1. /\ \A n \in 1 .. Len(log) :
           log[n].kind \in Terminals => log[n].auth \in Auths
      /\ hold \in [Auths -> HoldType] /\ log \in Seq(RecordType) /\ Len(log) \in Nat
  BY DEF Inv, RecordsKnown, TypeOK, HoldsType, PipeType
<1>2. PICK r : log' = log \o <<r>> /\ r.auth = a
  <2> DEFINE r == [Blank EXCEPT !.kind = k, !.auth = a,
                      !.charge = Charged(k, charge),
                      !.freed = Freed(k, charge, hold[a].estimate),
                      !.shortfall = shortfall + Overdrawn(a, Charged(k, charge), raise),
                      !.drain = from, !.raise = raise]
  <2>1. log' = log \o <<r>>
    BY DEF Decide, HandOver
  <2>2. r.auth = a
    BY DEF Blank
  <2> QED BY <2>1, <2>2
<1>3. hold[a].state = "open" /\ hold' = [hold EXCEPT ![a] =
        [UnusedHold EXCEPT !.state = "decided", !.estimate = hold[a].estimate]]
  BY DEF Decide, Undecided
<1>4. hold'[a].state = "decided" /\ \A b \in Auths : b /= a => hold'[b] = hold[b]
  BY <1>1, <1>3 DEF UnusedHold
<1>5. /\ Len(log') = Len(log) + 1 /\ log'[Len(log) + 1] = r
      /\ \A i \in 1 .. Len(log) : log'[i] = log[i]
  BY <1>1, <1>2
<1>6. \A n \in 1 .. Len(log) : log[n].kind \in Terminals => log[n].auth /= a
  BY <1>3 DEF TermInv, TerminalsDecide
<1>7. \A n \in 1 .. Len(log') : n \in 1 .. Len(log) \/ n = Len(log) + 1
  BY <1>1, <1>5
<1>8. TerminalsDecide'
  <2> SUFFICES ASSUME NEW n \in 1 .. Len(log'), log'[n].kind \in Terminals
               PROVE  hold'[log'[n].auth].state = "decided"
    BY DEF TerminalsDecide
  <2>1. CASE n \in 1 .. Len(log)
    BY <1>1, <1>4, <1>5, <1>6, <2>1 DEF TermInv, TerminalsDecide
  <2>2. CASE n = Len(log) + 1
    BY <1>2, <1>4, <1>5, <2>2
  <2> QED BY <1>7, <2>1, <2>2
<1>9. TerminalsDiffer'
  <2> SUFFICES ASSUME NEW m \in 1 .. Len(log'), NEW n \in 1 .. Len(log'),
                      log'[m].kind \in Terminals, log'[n].kind \in Terminals,
                      log'[m].auth = log'[n].auth
               PROVE  m = n
    BY DEF TerminalsDiffer
  <2>1. CASE m \in 1 .. Len(log) /\ n \in 1 .. Len(log)
    BY <1>5, <2>1 DEF TermInv, TerminalsDiffer
  <2>2. CASE m \in 1 .. Len(log) /\ n = Len(log) + 1
    BY <1>2, <1>5, <1>6, <2>2
  <2>3. CASE m = Len(log) + 1 /\ n \in 1 .. Len(log)
    BY <1>2, <1>5, <1>6, <2>3
  <2> QED BY <1>7, <2>1, <2>2, <2>3
<1> QED BY <1>8, <1>9 DEF TermInv

-----------------------------------------------------------------------------
\* The requests: only Settle and Refund hand a terminal over (requests.go).
LEMMA RequestKeepsOne ==
  ASSUME Inv, TermInv, Request
  PROVE  TermInv'
<1>1. hold \in [Auths -> HoldType]
  BY DEF Inv, TypeOK, HoldsType
<1>2. ASSUME NEW a \in Auths, NEW e \in Estimates, NEW m \in Modes, Admit(a, e, m)
      PROVE  TermInv'
  <2>1. log' = log
    BY <1>2 DEF Admit, pipe
  <2>2. hold[a].state /= "decided" /\ \A b \in Auths : b /= a => hold'[b] = hold[b]
    BY <1>1, <1>2 DEF Admit
  <2>3. StayDecided
    BY <2>2 DEF StayDecided
  <2> QED BY <2>1, <2>3, NoRecordKeeps
<1>3. ASSUME NEW a \in Auths, NEW c \in Charges, Heartbeat(a, c)
      PROVE  TermInv'
  <2> DEFINE r == [Blank EXCEPT !.kind = "heartbeat", !.auth = a]
  <2>1. log' = log \o <<r>>
    BY <1>3 DEF Heartbeat, HandOver
  <2>2. r \in RecordType /\ r.kind \notin Terminals
    BY HeartbeatRecordType
  <2>3. hold[a].state /= "decided" /\ \A b \in Auths : b /= a => hold'[b] = hold[b]
    BY <1>1, <1>3 DEF Heartbeat
  <2>4. StayDecided
    BY <2>3 DEF StayDecided
  <2> HIDE DEF r
  <2> QED BY <2>1, <2>2, <2>4, OtherRecordKeeps
<1>4. ASSUME NEW a \in Auths, NEW c \in Charges, Settle(a, c)
      PROVE  TermInv'
  BY <1>4, DecideKeepsOne DEF Settle
<1>5. ASSUME NEW a \in Auths, Refund(a)
      PROVE  TermInv'
  BY <1>5, DecideKeepsOne DEF Refund
<1> QED BY <1>2, <1>3, <1>4, <1>5 DEF Request

\* An adopted row names an authorization of the lease (adopt.go adopt).
LEMMA AdoptKeepsOne ==
  ASSUME Inv, TermInv, NEW i \in 1 .. Len(drain), Adopt(i)
  PROVE  TermInv'
<1>1. RowTypeOK
  BY DEF Inv, TypeOK
<1>2. drain[i].auth \in Auths
  BY <1>1, DrainRows
<1> QED BY <1>2, DecideKeepsOne DEF Adopt

\* The round: an adoption decides, a checkpoint does not (adopt.go, spanner.go).
LEMMA RoundKeepsOne ==
  ASSUME Inv, TermInv, Round
  PROVE  TermInv'
<1>1. ASSUME log' = log, hold' = hold PROVE TermInv'
  BY <1>1, NoRecordKeeps DEF StayDecided
<1>2. CASE AdoptNext
  <2>1. CASE Adopt(adoption.next)
    <3>1. /\ adoption.next \in Nat /\ adoption.last \in Nat /\ Len(drain) \in Nat
          /\ adoption.last <= Len(drain) /\ adoption.next >= 1
          /\ adoption.next <= adoption.last
      BY <1>2, DrainRows DEF AdoptNext, Inv, TypeOK, WorkType, PlacesType
    <3>2. adoption.next \in 1 .. Len(drain)
      BY <3>1
    <3> QED BY <2>1, <3>2, AdoptKeepsOne
  <2>2. CASE UNCHANGED <<books, hold, pipe, logVars>>
    BY <1>1, <2>2 DEF pipe
  <2> QED BY <1>2, <2>1, <2>2 DEF AdoptNext
<1>3. CASE Checkpoint
  <2>1. hold' = hold
    BY <1>3 DEF Checkpoint
  <2>2. CASE final = 0 /\ CanHandOver(1)
    <3> DEFINE r == [Blank EXCEPT !.consumed = consumed, !.openSum = held,
                                  !.return = ReturnOf]
    <3>1. log' = log \o <<r>>
      BY <1>3, <2>2 DEF Checkpoint, HandOver
    <3>2. consumed \in Nat /\ held \in Int /\ ReturnOf \in Nat
      <4>1. BooksType
        BY DEF Inv, TypeOK
      <4>2. Free \in Int
        BY <4>1 DEF BooksType, Free
      <4> QED BY <4>1, <4>2, PosType DEF BooksType, ReturnOf
    <3>3. r \in RecordType /\ r.kind \notin Terminals
      BY <3>2, CheckpointRecordType
    <3> HIDE DEF r
    <3> QED BY <2>1, <3>1, <3>3, OtherRecordKeeps DEF StayDecided
  <2>3. CASE ~(final = 0 /\ CanHandOver(1))
    <3>1. log' = log
      BY <1>3, <2>3 DEF Checkpoint, pipe
    <3> QED BY <1>1, <2>1, <3>1
  <2> QED BY <2>2, <2>3
<1>4. CASE RoundQuiet \/ FinishMarks \/ FinishLease
  <2>1. log' = log /\ hold' = hold
    BY <1>4 DEF RoundQuiet, RoundBegin, RenewCommits, RenewFails, Renewed,
                RenewRefused, AdoptRead, AdoptFails, AdoptDone, LetIfAbandoned,
                FinishMarks, FinishLease, pipe
  <2> QED BY <1>1, <2>1
<1> QED BY <1>2, <1>3, <1>4 DEF Round, RoundQuiet

\* The reaper: a reap, a release, and the adoption it makes instead decide
\* (adopt.go).
LEMMA ReaperKeepsOne ==
  ASSUME Inv, TermInv, Reaper
  PROVE  TermInv'
<1>1. CASE ReapAdopts
  <2>1. Adopt(FirstRow(reaper.auth)) /\ RowsOf(reaper.auth) /= {}
    BY <1>1 DEF ReapAdopts
  <2>2. Len(drain) \in Nat /\ \A i \in 1 .. Len(drain) : drain[i].auth \in Auths
    BY DrainRows DEF Inv, TypeOK
  <2>3. reaper.auth \in Auths
    BY <2>1, <2>2 DEF RowsOf
  <2>4. FirstRow(reaper.auth) \in 1 .. Len(drain)
    BY <2>1, <2>2, <2>3, FirstRowOf DEF RowsOf
  <2> QED BY <2>1, <2>4, AdoptKeepsOne
<1>2. CASE ReapDecides
  BY <1>2, DecideKeepsOne DEF ReapDecides, Open
<1>3. CASE \E a \in Auths : ReleaseDue(a)
  BY <1>3, DecideKeepsOne DEF ReleaseDue
<1>4. CASE (\E a \in Auths : ReapScan(a)) \/ ReapUndrained \/ ReapGivesUp
  <2>1. log' = log /\ hold' = hold
    BY <1>4 DEF ReapScan, ReapUndrained, ReapGivesUp, pipe
  <2> QED BY <2>1, NoRecordKeeps DEF StayDecided
<1> QED BY <1>1, <1>2, <1>3, <1>4 DEF Reaper

\* The hand-off's chunk and manifest are no terminals (handoff.go).
LEMMA HandoffKeepsOne ==
  ASSUME Inv, TermInv, Handoff \/ HandoffCut
  PROVE  TermInv'
<1>1. hold' = hold
  BY DEF Handoff, HandoffCut
<1>2. StayDecided
  BY <1>1 DEF StayDecided
<1>3. PICK m : m = [Blank EXCEPT !.kind = "manifest", !.holds = Open]
  OBVIOUS
<1>4. PICK c : c = HandoffChunk
  OBVIOUS
<1>5. m \in RecordType /\ m.kind \notin Terminals
  BY <1>3, HandoffRecordType
<1>6. c \in RecordType /\ c.kind \notin Terminals
  BY <1>4, HandoffRecordType DEF HandoffChunk
<1>7. CASE Handoff
  <2>1. log' = log \o HandoffRecords
    BY <1>7 DEF Handoff, HandOver
  <2>2. PICK s \in Seq(RecordType) :
          /\ HandoffRecords = s \o <<m>>
          /\ \A i \in 1 .. Len(s) : s[i].kind \notin Terminals
    <3>1. /\ <<>> \in Seq(RecordType) /\ <<c>> \in Seq(RecordType)
          /\ \A i \in 1 .. Len(<<>>) : <<>>[i].kind \notin Terminals
          /\ \A i \in 1 .. Len(<<c>>) : <<c>>[i].kind \notin Terminals
      BY <1>6
    <3>2. HandoffRecords = <<>> \o <<m>> \/ HandoffRecords = <<c>> \o <<m>>
      BY <1>3, <1>4 DEF HandoffRecords
    <3> QED BY <3>1, <3>2
  <2>3. /\ s \o <<m>> \in Seq(RecordType)
        /\ \A i \in 1 .. Len(s \o <<m>>) : (s \o <<m>>)[i].kind \notin Terminals
    <3>1. /\ <<m>> \in Seq(RecordType) /\ Len(<<m>>) = 1 /\ <<m>>[1] = m
          /\ Len(s) \in Nat
      BY <1>5
    <3>2. /\ s \o <<m>> \in Seq(RecordType) /\ Len(s \o <<m>>) = Len(s) + 1
          /\ \A i \in 1 .. Len(s) + 1 : (s \o <<m>>)[i] =
               IF i <= Len(s) THEN s[i] ELSE <<m>>[i - Len(s)]
      BY <3>1, ConcatProperties
    <3>3. ASSUME NEW i \in 1 .. Len(s) + 1
          PROVE  (s \o <<m>>)[i].kind \notin Terminals
      <4>1. CASE i <= Len(s)
        <5>1. i \in 1 .. Len(s)
          BY <3>1, <4>1
        <5> QED BY <2>2, <3>2, <4>1, <5>1
      <4>2. CASE ~(i <= Len(s))
        <5>1. i - Len(s) = 1
          BY <3>1, <4>2
        <5> QED BY <1>5, <3>1, <3>2, <4>2, <5>1
      <4> QED BY <4>1, <4>2
    <3> QED BY <3>2, <3>3
  <2> QED BY <1>2, <2>1, <2>2, <2>3, OtherRecordsKeep
<1>8. CASE HandoffCut
  <2>1. log' = log \o <<c>> \/ log' = log
    BY <1>4, <1>8 DEF HandoffCut, HandOver, pipe
  <2> QED BY <1>2, <1>6, <2>1, OtherRecordKeeps, NoRecordKeeps
<1> QED BY <1>7, <1>8

\* Every step keeps it.
LEMMA NextTermInv == Inv /\ TermInv /\ [Next]_vars => TermInv'
<1> SUFFICES ASSUME Inv, TermInv, [Next]_vars PROVE TermInv'
  OBVIOUS
<1>1. ASSUME log' = log, hold' = hold PROVE TermInv'
  BY <1>1, NoRecordKeeps DEF StayDecided
<1>2. CASE Flusher
  <2>1. log' = log /\ hold' = hold
    BY <1>2 DEF Flusher, FlushAck, FlushFail, RepublishBegin, RepublishNext, pipe
  <2> QED BY <1>1, <2>1
<1>3. CASE Sender \/ FailLong \/ StopWorkers \/ Close \/ PassCutoff \/ Switch
  <2>1. log' = log /\ hold' = hold
    BY <1>3 DEF Sender, FailLong, StopWorkers, Close, PassCutoff, Switch, pipe
  <2> QED BY <1>1, <2>1
<1>4. CASE Auditor \/ RowRevoked \/ RowExpires \/ FrontDoor
  <2>1. log' = log /\ hold' = hold
    BY <1>4 DEF Auditor, RowRevoked, RowExpires, FrontDoor, DrainAppend, pipe
  <2> QED BY <1>1, <2>1
<1>5. CASE HandoffMarks \/ HandoffEnds \/ Stop \/ Writer
  <2>1. log' = log /\ hold' = hold
    BY <1>5 DEF HandoffMarks, HandoffEnds, Stop, Writer, WriterSends, WriterLands,
                WriterAnswered, WriterRetries, pipe
  <2> QED BY <1>1, <2>1
<1>6. CASE Handoffs
  BY <1>5, <1>6, HandoffKeepsOne DEF Handoffs
<1>7. CASE UNCHANGED vars
  BY <1>1, <1>7 DEF vars, pipe
<1> QED
  BY <1>2, <1>3, <1>4, <1>5, <1>6, <1>7, RequestKeepsOne, RoundKeepsOne, ReaperKeepsOne
     DEF Next

\* The invariant gives the property, an open hold being undecided.
LEMMA TermInvOne == TermInv => OneTerminal
<1> SUFFICES ASSUME TermInv PROVE OneTerminal
  OBVIOUS
<1>1. \A a \in Open : a \notin Ended(Len(log))
  BY DEF TermInv, TerminalsDecide, Open, Ended
<1> QED BY <1>1 DEF OneTerminal, TermInv, TerminalsDiffer

\* Each hold of a lease has at most one terminal among the lease's records,
\* and none while it is open, whatever requests, retries, reaps, releases and
\* adoptions of the drain log race for it, across failed publishes, lapses
\* and the forced exit (requests.go decide, adopt.go).
THEOREM FirstTerminalWins == Spec => []OneTerminal
<1>1. Init => TermInv
  BY DEF Init, TermInv, TerminalsDecide, TerminalsDiffer
<1> QED BY <1>1, InitInv, NextInv, NextTermInv, TermInvOne, PTL DEF Spec

-----------------------------------------------------------------------------
(* The last record lists the holds: a hand-off's manifest is the last record *)
(* and names every open hold, and a final checkpoint leaves none open        *)
(* (LastRecordListsHolds).  The lease was closing by then, and stays so.     *)

ListInv ==
  /\ handedOff => /\ closing /\ Len(log) > 0
                  /\ log[Len(log)].kind = "manifest"
                  /\ log[Len(log)].holds = Open
  /\ final /= 0 => closing /\ Open = {}

\* What every step but the hand-off does: a lease that handed off issues no
\* record, a closing lease stays closing and opens no hold, and a checkpoint
\* is final only with no hold open.
ListStep ==
  /\ handedOff' => handedOff
  /\ handedOff => log' = log /\ Open' = Open
  /\ closing => closing' /\ Open' \subseteq Open
  /\ final' /= 0 => (final /= 0 \/ (closing' /\ Open' = {}))

LEMMA ListStepKeeps ==
  ASSUME ListInv, ListStep
  PROVE  ListInv'
<1>1. ASSUME handedOff'
      PROVE  closing' /\ (Len(log) > 0)' /\ log'[Len(log')].kind = "manifest"
             /\ log'[Len(log')].holds = Open'
  BY <1>1 DEF ListInv, ListStep
<1>2. ASSUME final' /= 0 PROVE closing' /\ Open' = {}
  BY <1>2 DEF ListInv, ListStep
<1> QED BY <1>1, <1>2 DEF ListInv

\* A step that leaves the holds and the flags alone.
LEMMA ListQuiet ==
  ASSUME UNCHANGED <<handedOff, log, hold, final>>, closing => closing'
  PROVE  ListStep
BY DEF ListStep, Open

\* decide closes a hold, of a lease that has not handed off.
LEMMA DecideLists ==
  ASSUME Inv, NEW a \in Auths, NEW k, NEW charge, NEW from, NEW raise,
         Decide(a, k, charge, from, raise), UNCHANGED <<handedOff, closing, final>>
  PROVE  ListStep
<1>1. hold \in [Auths -> HoldType] /\ handedOff \in BOOLEAN /\ closing \in BOOLEAN
  BY DEF Inv, TypeOK, HoldsType, FlagsType
<1>2. ~handedOff
  BY DEF Decide, HandOver, CanHandOver
<1>3. hold' = [hold EXCEPT ![a] =
        [UnusedHold EXCEPT !.state = "decided", !.estimate = hold[a].estimate]]
  BY DEF Decide
<1>4. hold'[a].state = "decided" /\ \A b \in Auths : b /= a => hold'[b] = hold[b]
  BY <1>1, <1>3 DEF UnusedHold
<1>5. Open' \subseteq Open
  BY <1>4 DEF Open
<1> QED BY <1>2, <1>5, final' /= 0 => final /= 0 DEF ListStep

\* The requests: a closing lease admits none.
LEMMA RequestLists ==
  ASSUME Inv, ListInv, Request
  PROVE  ListStep
<1>1. hold \in [Auths -> HoldType] /\ handedOff \in BOOLEAN /\ closing \in BOOLEAN
  BY DEF Inv, TypeOK, HoldsType, FlagsType
<1>2. ASSUME NEW a \in Auths, NEW e \in Estimates, NEW m \in Modes, Admit(a, e, m)
      PROVE  ListStep
  <2>1. ~closing /\ handedOff' = handedOff /\ log' = log /\ final' = final
    BY <1>2 DEF Admit, Admitting, flags, pipe
  <2>2. ~handedOff
    BY <2>1 DEF ListInv
  <2> QED BY <2>1, <2>2 DEF ListStep
<1>3. ASSUME NEW a \in Auths, NEW c \in Charges, Heartbeat(a, c)
      PROVE  ListStep
  <2>1. ~handedOff /\ UNCHANGED <<handedOff, closing, final>>
    BY <1>3 DEF Heartbeat, HandOver, CanHandOver, flags
  <2>2. hold' = [hold EXCEPT ![a].heartbeat = TRUE, ![a].running = c,
                             ![a].snapSeq = Len(log) + 1]
    BY <1>3 DEF Heartbeat
  <2>3. \A b \in Auths : hold'[b].state = hold[b].state
    BY <1>1, <2>2 DEF HoldType
  <2>4. Open' = Open
    BY <2>3 DEF Open
  <2> QED BY <2>1, <2>4 DEF ListStep
<1>4. ASSUME NEW a \in Auths, NEW c \in Charges, Settle(a, c)
      PROVE  ListStep
  BY <1>4, DecideLists DEF Settle, flags
<1>5. ASSUME NEW a \in Auths, Refund(a)
      PROVE  ListStep
  BY <1>5, DecideLists DEF Refund, flags
<1> QED BY <1>2, <1>3, <1>4, <1>5 DEF Request

\* The round: an adoption decides, and a checkpoint is final with none open.
LEMMA RoundLists ==
  ASSUME Inv, ListInv, Round
  PROVE  ListStep
<1>1. CASE AdoptNext
  <2>1. CASE Adopt(adoption.next)
    <3>1. /\ adoption.next \in Nat /\ adoption.last \in Nat /\ Len(drain) \in Nat
          /\ adoption.last <= Len(drain) /\ adoption.next >= 1
          /\ adoption.next <= adoption.last
      BY <1>1, DrainRows DEF AdoptNext, Inv, TypeOK, WorkType, PlacesType
    <3>2. adoption.next \in 1 .. Len(drain)
      BY <3>1
    <3>3. drain[adoption.next].auth \in Auths
      BY <3>2, DrainRows DEF Inv, TypeOK
    <3>4. UNCHANGED <<handedOff, closing, final>>
      BY <1>1 DEF AdoptNext, flags
    <3> QED BY <2>1, <3>3, <3>4, DecideLists DEF Adopt
  <2>2. CASE UNCHANGED <<books, hold, pipe, logVars>>
    BY <1>1, <2>2, ListQuiet DEF AdoptNext, flags, pipe
  <2> QED BY <1>1, <2>1, <2>2 DEF AdoptNext
<1>2. CASE Checkpoint
  <2>1. hold' = hold /\ UNCHANGED <<handedOff, closing>>
    BY <1>2 DEF Checkpoint
  <2>2. Open' = Open
    BY <2>1 DEF Open
  <2>3. CASE final = 0 /\ CanHandOver(1)
    <3>1. ~handedOff
      BY <2>3 DEF CanHandOver
    <3>2. final' = IF closing /\ Open = {} THEN Len(log) + 1 ELSE 0
      BY <1>2, <2>3 DEF Checkpoint
    <3> QED BY <2>1, <2>2, <3>1, <3>2 DEF ListStep
  <2>4. CASE ~(final = 0 /\ CanHandOver(1))
    BY <1>2, <2>1, <2>2, <2>4 DEF Checkpoint, ListStep, pipe
  <2> QED BY <2>3, <2>4
<1>3. CASE RoundQuiet \/ FinishMarks \/ FinishLease
  <2>1. UNCHANGED <<handedOff, log, hold, final>>
    BY <1>3 DEF RoundQuiet, RoundBegin, RenewCommits, RenewFails, Renewed,
                RenewRefused, AdoptRead, AdoptFails, AdoptDone, LetIfAbandoned,
                FinishMarks, FinishLease, pipe, flags
  <2>2. closing => closing'
    BY <1>3 DEF RoundQuiet, RoundBegin, RenewCommits, RenewFails, Renewed,
                RenewRefused, AdoptRead, AdoptFails, AdoptDone, LetIfAbandoned,
                FinishMarks, FinishLease, flags
  <2> QED BY <2>1, <2>2, ListQuiet
<1> QED BY <1>1, <1>2, <1>3 DEF Round, RoundQuiet

LEMMA ReaperLists ==
  ASSUME Inv, Reaper
  PROVE  ListStep
<1>1. CASE ReapAdopts
  <2>1. Adopt(FirstRow(reaper.auth)) /\ RowsOf(reaper.auth) /= {}
    BY <1>1 DEF ReapAdopts
  <2>2. Len(drain) \in Nat /\ \A i \in 1 .. Len(drain) : drain[i].auth \in Auths
    BY DrainRows DEF Inv, TypeOK
  <2>3. reaper.auth \in Auths
    BY <2>1, <2>2 DEF RowsOf
  <2>4. FirstRow(reaper.auth) \in 1 .. Len(drain)
    BY <2>1, <2>2, <2>3, FirstRowOf DEF RowsOf
  <2>5. UNCHANGED <<handedOff, closing, final>>
    BY <1>1 DEF ReapAdopts, flags
  <2> QED BY <2>1, <2>2, <2>4, <2>5, DecideLists DEF Adopt
<1>2. CASE ReapDecides
  BY <1>2, DecideLists DEF ReapDecides, Open, flags
<1>3. CASE \E a \in Auths : ReleaseDue(a)
  BY <1>3, DecideLists DEF ReleaseDue, flags
<1>4. CASE (\E a \in Auths : ReapScan(a)) \/ ReapUndrained \/ ReapGivesUp
  <2>1. UNCHANGED <<handedOff, log, hold, final, closing>>
    BY <1>4 DEF ReapScan, ReapUndrained, ReapGivesUp, pipe, flags
  <2> QED BY <2>1, ListQuiet
<1> QED BY <1>1, <1>2, <1>3, <1>4 DEF Reaper

\* The hand-off: its manifest is the last record and lists the open holds.
LEMMA HandoffLists ==
  ASSUME Inv, ListInv, Handoff
  PROVE  ListInv'
<1>1. hold' = hold /\ final' = final /\ closing' = TRUE /\ handedOff' = TRUE
      /\ log' = log \o HandoffRecords
  BY DEF Handoff, HandOver
<1>2. Open' = Open
  BY <1>1 DEF Open
<1>3. PICK m : m = [Blank EXCEPT !.kind = "manifest", !.holds = Open]
  OBVIOUS
<1>4. PICK c : c = HandoffChunk
  OBVIOUS
<1>5. m \in RecordType /\ m.kind = "manifest" /\ m.holds = Open
  <2>1. m.kind = "manifest" /\ m.holds = Open
    BY <1>3 DEF Blank
  <2> QED BY <1>3, <2>1, HandoffRecordType
<1>6. c \in RecordType
  BY <1>4, HandoffRecordType DEF HandoffChunk
<1>7. PICK s \in Seq(RecordType) : HandoffRecords = s \o <<m>>
  <2>1. <<>> \in Seq(RecordType) /\ <<c>> \in Seq(RecordType)
    BY <1>6
  <2>2. HandoffRecords = <<>> \o <<m>> \/ HandoffRecords = <<c>> \o <<m>>
    BY <1>3, <1>4 DEF HandoffRecords
  <2> QED BY <2>1, <2>2
<1>8. log \in Seq(RecordType) /\ Len(log) \in Nat /\ Len(s) \in Nat
  BY DEF Inv, TypeOK, PipeType
<1>9. Len(log') > 0 /\ log'[Len(log')] = m
  <2>1. /\ s \o <<m>> \in Seq(RecordType) /\ Len(s \o <<m>>) = Len(s) + 1
        /\ (s \o <<m>>)[Len(s) + 1] = m
    BY <1>5, <1>8
  <2> HIDE DEF HandoffRecords
  <2>2. PICK t \in Seq(RecordType) : t = s \o <<m>>
    BY <2>1
  <2>3. log' = log \o t /\ Len(t) = Len(s) + 1 /\ t[Len(s) + 1] = m
    BY <1>1, <1>7, <2>1, <2>2
  <2> QED BY <1>8, <2>3
<1>10. final' /= 0 => closing' /\ Open' = {}
  BY <1>1, <1>2 DEF ListInv
<1> QED BY <1>1, <1>2, <1>5, <1>9, <1>10 DEF ListInv

\* Every step keeps it.
LEMMA NextListInv == Inv /\ ListInv /\ [Next]_vars => ListInv'
<1> SUFFICES ASSUME Inv, ListInv, [Next]_vars PROVE ListInv'
  OBVIOUS
<1>1. ASSUME UNCHANGED <<handedOff, log, hold, final>>, closing => closing'
      PROVE  ListInv'
  BY <1>1, ListQuiet, ListStepKeeps
<1>2. CASE Flusher
  <2>1. UNCHANGED <<handedOff, log, hold, final, closing>>
    BY <1>2 DEF Flusher, FlushAck, FlushFail, RepublishBegin, RepublishNext, pipe,
                flags
  <2> QED BY <1>1, <2>1
<1>3. CASE Sender \/ FailLong \/ StopWorkers \/ Close \/ PassCutoff \/ Switch
  <2>1. UNCHANGED <<handedOff, log, hold, final>> /\ (closing => closing')
    BY <1>3 DEF Sender, FailLong, StopWorkers, Close, PassCutoff, Switch, pipe, flags
  <2> QED BY <1>1, <2>1
<1>4. CASE Auditor \/ RowRevoked \/ RowExpires \/ FrontDoor
  <2>1. UNCHANGED <<handedOff, log, hold, final, closing>>
    BY <1>4 DEF Auditor, RowRevoked, RowExpires, FrontDoor, DrainAppend, pipe, flags
  <2> QED BY <1>1, <2>1
<1>5. CASE HandoffMarks \/ HandoffEnds \/ Stop \/ Writer
  <2>1. UNCHANGED <<handedOff, log, hold, final, closing>>
    BY <1>5 DEF HandoffMarks, HandoffEnds, Stop, Writer, WriterSends, WriterLands,
                WriterAnswered, WriterRetries, pipe, flags
  <2> QED BY <1>1, <2>1
<1>6. CASE HandoffCut
  <2>1. hold' = hold /\ UNCHANGED <<handedOff, final>> /\ closing' = TRUE
    BY <1>6 DEF HandoffCut
  <2>2. Open' = Open
    BY <2>1 DEF Open
  <2>3. handedOff => log' = log
    BY <1>6 DEF HandoffCut, HandOver, CanHandOver, pipe
  <2>4. ListStep
    BY <2>1, <2>2, <2>3 DEF ListStep
  <2> QED BY <2>4, ListStepKeeps
<1>7. CASE Handoffs
  BY <1>5, <1>6, <1>7, HandoffLists DEF Handoffs
<1>8. CASE UNCHANGED vars
  BY <1>1, <1>8 DEF vars, pipe, flags
<1> QED
  BY <1>2, <1>3, <1>4, <1>5, <1>7, <1>8, RequestLists, RoundLists, ReaperLists,
     ListStepKeeps DEF Next

\* A hand-off's manifest is the lease's last record and names every hold it
\* leaves open, and a final checkpoint leaves none: no request, reap, release
\* or adoption changes a hold after them (handoff.go handoff, spanner.go
\* checkpoint).
THEOREM LastRecordIsComplete == Spec => []LastRecordListsHolds
<1>1. Init => ListInv
  BY DEF Init, ListInv
<1>2. ListInv => LastRecordListsHolds
  BY DEF ListInv, LastRecordListsHolds
<1> QED BY <1>1, <1>2, InitInv, NextInv, NextListInv, PTL DEF Spec

-----------------------------------------------------------------------------
(* The drain log's rows win: a row the owner owes an adoption is the         *)
(* terminal its hold gets (DrainedRowsWin).  No row below the adoption's     *)
(* cursor, nor one the adoption under way has passed, names an open hold,    *)
(* and while the lease decides by itself the rows owed are below the cursor. *)

RowsInv ==
  /\ \A i \in 1 .. Len(drain) : hold[drain[i].auth].state /= "unused"
  /\ adoption.cursor <= Len(drain)
  /\ \A i \in 1 .. adoption.cursor : drain[i].auth \notin Open
  /\ round = "adopting" =>
       /\ adoption.next <= adoption.last + 1 /\ owed <= adoption.last
       /\ \A i \in 1 .. adoption.next - 1 : drain[i].auth \notin Open
  /\ ~unadopted => owed <= adoption.cursor

\* A step opens only a hold not used before, and forgets none.
HoldsAdvance ==
  \A a \in Auths :
    /\ hold'[a].state = "open" => hold[a].state \in {"open", "unused"}
    /\ hold'[a].state = "unused" => hold[a].state = "unused"

\* The types the argument reads.
LEMMA RowsTypes ==
  ASSUME Inv
  PROVE  /\ hold \in [Auths -> HoldType]
         /\ Len(drain) \in Nat /\ adoption.cursor \in Nat /\ adoption.next \in Nat
         /\ adoption.last \in Nat /\ owed \in Nat
         /\ adoption.last <= Len(drain) /\ owed <= Len(drain)
         /\ round = "adopting" => adoption.next >= 1
         /\ \A i \in 1 .. Len(drain) : drain[i].auth \in Auths
<1>1. RowTypeOK /\ WorkType /\ PlacesType /\ HoldsType
  BY DEF Inv, TypeOK
<1>2. Len(drain) \in Nat /\ \A i \in 1 .. Len(drain) : drain[i].auth \in Auths
  BY <1>1, DrainRows
<1> QED BY <1>1, <1>2 DEF WorkType, PlacesType, HoldsType

\* What no row names open stays so while holds advance.
LEMMA PassedRowsStay ==
  ASSUME Inv, RowsInv, HoldsAdvance,
         NEW i \in 1 .. Len(drain), drain[i].auth \notin Open
  PROVE  hold'[drain[i].auth].state /= "open"
<1>1. drain[i].auth \in Auths
  BY RowsTypes
<1>2. hold[drain[i].auth].state /= "unused" /\ hold[drain[i].auth].state /= "open"
  BY <1>1 DEF RowsInv, Open
<1> QED BY <1>1, <1>2 DEF HoldsAdvance

\* A step that leaves the drain log and its adoption alone.
LEMMA RowsQuiet ==
  ASSUME Inv, RowsInv, HoldsAdvance, UNCHANGED <<drain, adoption, owed, unadopted>>,
         round' = "adopting" => round = "adopting"
  PROVE  RowsInv'
<1>1. /\ Len(drain) \in Nat /\ adoption.cursor \in Nat /\ adoption.next \in Nat
      /\ adoption.last \in Nat /\ adoption.last <= Len(drain)
      /\ \A i \in 1 .. Len(drain) : drain[i].auth \in Auths
  BY RowsTypes
<1>2. \A i \in 1 .. Len(drain) : hold'[drain[i].auth].state /= "unused"
  BY <1>1 DEF RowsInv, HoldsAdvance
<1>3. \A i \in 1 .. adoption.cursor : drain[i].auth \notin Open'
  <2> TAKE i \in 1 .. adoption.cursor
  <2>1. i \in 1 .. Len(drain) /\ drain[i].auth \notin Open
    BY <1>1 DEF RowsInv
  <2> QED BY <2>1, PassedRowsStay DEF Open
<1>4. ASSUME round' = "adopting"
      PROVE  \A i \in 1 .. adoption.next - 1 : drain[i].auth \notin Open'
  <2> TAKE i \in 1 .. adoption.next - 1
  <2>1. i \in 1 .. Len(drain) /\ drain[i].auth \notin Open
    BY <1>1, <1>4 DEF RowsInv
  <2> QED BY <2>1, PassedRowsStay DEF Open
<1> QED BY <1>2, <1>3, <1>4 DEF RowsInv

\* A front door's row is of a hold that was admitted.
LEMMA FrontDoorRows ==
  ASSUME Inv, RowsInv, FrontDoor
  PROVE  RowsInv'
<1>1. PICK a \in Auths, k \in {"settle", "refund"}, c \in Charges \union {0} :
        DrainAppend(a, k, c)
  BY DEF FrontDoor
<1>2. /\ hold[a].state /= "unused"
      /\ UNCHANGED <<hold, adoption, owed, unadopted, round>>
  BY <1>1 DEF DrainAppend, work, flags
<1>3. PICK r : drain' = Append(drain, r) /\ r.auth = a
  <2> DEFINE r == [auth |-> a, kind |-> k, charge |-> c, raise |-> Pos(c - hold[a].estimate)]
  <2>1. drain' = Append(drain, r) /\ r.auth = a
    BY <1>1 DEF DrainAppend, AppendRow
  <2> QED BY <2>1
<1>4. drain \in Seq(DrainRowType)
  BY DEF Inv, TypeOK, RowTypeOK
<1>5. /\ Len(drain') = Len(drain) + 1 /\ drain'[Len(drain) + 1] = r
      /\ \A i \in 1 .. Len(drain) : drain'[i] = drain[i]
  BY <1>3, <1>4
<1>6. /\ Len(drain) \in Nat /\ adoption.cursor \in Nat /\ adoption.next \in Nat
      /\ adoption.last \in Nat /\ adoption.last <= Len(drain) /\ owed \in Nat
  BY RowsTypes
<1>7. \A i \in 1 .. Len(drain') : hold'[drain'[i].auth].state /= "unused"
  <2> TAKE i \in 1 .. Len(drain')
  <2>1. CASE i \in 1 .. Len(drain)
    BY <1>2, <1>5, <2>1 DEF RowsInv
  <2>2. CASE i = Len(drain) + 1
    BY <1>2, <1>3, <1>5, <2>2
  <2> QED BY <1>5, <1>6, <2>1, <2>2
<1>8. Open' = Open
  BY <1>2 DEF Open
<1>9. \A i \in 1 .. adoption'.cursor : drain'[i].auth \notin Open'
  <2> TAKE i \in 1 .. adoption'.cursor
  <2>1. i \in 1 .. Len(drain) /\ drain[i].auth \notin Open
    BY <1>2, <1>6 DEF RowsInv
  <2> QED BY <1>5, <1>8, <2>1
<1>10. ASSUME round' = "adopting"
       PROVE  /\ adoption'.next <= adoption'.last + 1 /\ owed' <= adoption'.last
              /\ \A i \in 1 .. adoption'.next - 1 : drain'[i].auth \notin Open'
  <2>1. adoption.next <= adoption.last + 1 /\ owed <= adoption.last
    BY <1>2, <1>10 DEF RowsInv
  <2>2. ASSUME NEW i \in 1 .. adoption'.next - 1 PROVE drain'[i].auth \notin Open'
    <3>1. i \in 1 .. Len(drain) /\ drain[i].auth \notin Open
      BY <1>2, <1>6, <1>10, <2>1 DEF RowsInv
    <3> QED BY <1>5, <1>8, <3>1
  <2> QED BY <1>2, <2>1, <2>2
<1>11. adoption'.cursor <= Len(drain') /\ (~unadopted' => owed' <= adoption'.cursor)
  BY <1>2, <1>5, <1>6 DEF RowsInv
<1> QED BY <1>7, <1>9, <1>10, <1>11 DEF RowsInv

-----------------------------------------------------------------------------
\* decide advances its hold alone.
LEMMA DecideAdvances ==
  ASSUME Inv, NEW a \in Auths, NEW k, NEW charge, NEW from, NEW raise,
         Decide(a, k, charge, from, raise)
  PROVE  /\ HoldsAdvance /\ a \in Open /\ hold'[a].state = "decided"
         /\ \A b \in Auths : b /= a => hold'[b] = hold[b]
<1>1. hold \in [Auths -> HoldType]
  BY RowsTypes
<1>2. hold[a].state = "open" /\ hold' = [hold EXCEPT ![a] =
        [UnusedHold EXCEPT !.state = "decided", !.estimate = hold[a].estimate]]
  BY DEF Decide, Undecided
<1>3. hold'[a].state = "decided" /\ \A b \in Auths : b /= a => hold'[b] = hold[b]
  BY <1>1, <1>2 DEF UnusedHold
<1> QED BY <1>2, <1>3 DEF HoldsAdvance, Open

\* adoptDrain reads from its cursor to the drain log's end.
LEMMA AdoptReadRows ==
  ASSUME Inv, RowsInv, AdoptRead
  PROVE  RowsInv'
<1>1. UNCHANGED <<hold, drain, owed, unadopted>>
  BY DEF AdoptRead, flags, rowVars
<1>2. HoldsAdvance
  BY <1>1 DEF HoldsAdvance
<1>3. CASE round' = "checkpoint" /\ UNCHANGED adoption
  BY <1>1, <1>2, <1>3, RowsQuiet
<1>4. CASE adoption' = [adoption EXCEPT !.next = FirstUnread, !.last = Len(drain)]
  <2>1. adoption \in [cursor : Nat, next : Nat, last : Nat]
    BY DEF Inv, TypeOK, WorkType
  <2>2. /\ adoption'.cursor = adoption.cursor /\ adoption'.last = Len(drain)
        /\ adoption'.next = adoption.cursor + 1
    BY <1>4, <2>1 DEF FirstUnread
  <2>3. Open' = Open
    BY <1>1 DEF Open
  <2>4. adoption.cursor \in Nat /\ Len(drain) \in Nat /\ owed \in Nat /\ owed <= Len(drain)
    BY RowsTypes
  <2>5. adoption'.next - 1 = adoption.cursor
    BY <2>2, <2>4
  <2> QED BY <1>1, <2>2, <2>3, <2>4, <2>5 DEF RowsInv
<1> QED BY <1>3, <1>4 DEF AdoptRead

\* The next row is passed: its hold was not open, or no longer is.
LEMMA AdoptNextRows ==
  ASSUME Inv, RowsInv, AdoptNext
  PROVE  /\ RowsInv'
         /\ adoption.next \in 1 .. Len(drain)
         /\ drain[adoption.next].auth \in Open =>
              /\ Adopt(adoption.next)
              /\ adoption.next = FirstRow(drain[adoption.next].auth)
<1>1. /\ round = "adopting" /\ adoption.next <= adoption.last
      /\ UNCHANGED <<drain, owed, unadopted, round>>
      /\ adoption' = [adoption EXCEPT !.next = @ + 1]
  BY DEF AdoptNext, flags, rowVars
<1>2. adoption \in [cursor : Nat, next : Nat, last : Nat]
  BY DEF Inv, TypeOK, WorkType
<1>3. /\ adoption'.cursor = adoption.cursor /\ adoption'.last = adoption.last
      /\ adoption'.next = adoption.next + 1
  BY <1>1, <1>2
<1>4. /\ Len(drain) \in Nat /\ adoption.cursor \in Nat /\ adoption.next \in Nat
      /\ adoption.last \in Nat /\ adoption.last <= Len(drain) /\ adoption.next >= 1
      /\ \A i \in 1 .. Len(drain) : drain[i].auth \in Auths
      /\ owed \in Nat
  BY <1>1, RowsTypes
<1>5. adoption.next \in 1 .. Len(drain) /\ drain[adoption.next].auth \in Auths
  BY <1>1, <1>4
<1> DEFINE a == drain[adoption.next].auth
<1>6. a \in Open => Adopt(adoption.next)
  BY DEF AdoptNext
<1>7. a \notin Open => hold' = hold
  BY DEF AdoptNext
<1>8. HoldsAdvance /\ hold'[a].state /= "open"
  <2>1. CASE a \in Open
    BY <1>5, <1>6, <2>1, DecideAdvances DEF Adopt
  <2>2. CASE a \notin Open
    BY <1>5, <1>7, <2>2 DEF HoldsAdvance, Open
  <2> QED BY <2>1, <2>2
<1>9. \A i \in 1 .. adoption.next : drain[i].auth \notin Open'
  <2> TAKE i \in 1 .. adoption.next
  <2>1. CASE i = adoption.next
    BY <1>8, <2>1 DEF Open
  <2>2. CASE i /= adoption.next
    <3>1. i \in 1 .. adoption.next - 1 /\ i \in 1 .. Len(drain)
      BY <1>1, <1>4, <2>2
    <3>2. drain[i].auth \notin Open
      BY <1>1, <3>1 DEF RowsInv
    <3> QED BY <1>8, <3>1, <3>2, PassedRowsStay DEF Open
  <2> QED BY <2>1, <2>2
<1>10. \A i \in 1 .. adoption.cursor : drain[i].auth \notin Open'
  <2> TAKE i \in 1 .. adoption.cursor
  <2>1. i \in 1 .. Len(drain) /\ drain[i].auth \notin Open
    BY <1>4 DEF RowsInv
  <2> QED BY <1>8, <2>1, PassedRowsStay DEF Open
<1>11. \A i \in 1 .. Len(drain) : hold'[drain[i].auth].state /= "unused"
  BY <1>4, <1>8 DEF RowsInv, HoldsAdvance
<1>12. RowsInv'
  <2>1. adoption'.next - 1 = adoption.next /\ adoption'.next <= adoption'.last + 1
    BY <1>1, <1>3, <1>4
  <2>2. owed <= adoption.last /\ adoption.cursor <= Len(drain)
        /\ (~unadopted => owed <= adoption.cursor)
    BY <1>1 DEF RowsInv
  <2> QED BY <1>1, <1>3, <1>9, <1>10, <1>11, <2>1, <2>2 DEF RowsInv
<1>13. ASSUME a \in Open PROVE adoption.next = FirstRow(a)
  <2>1. adoption.next \in RowsOf(a)
    BY <1>5 DEF RowsOf
  <2>2. FirstRow(a) \in RowsOf(a) /\ FirstRow(a) <= adoption.next
    BY <1>4, <1>5, <2>1, FirstRowOf
  <2>3. FirstRow(a) \in 1 .. Len(drain) /\ drain[FirstRow(a)].auth = a
    BY <2>2 DEF RowsOf
  <2>4. ~(FirstRow(a) \in 1 .. adoption.next - 1)
    BY <1>1, <1>13, <2>3 DEF RowsInv
  <2> HIDE DEF a
  <2> QED BY <1>4, <2>2, <2>3, <2>4
<1> QED BY <1>5, <1>6, <1>12, <1>13

\* Every row read is passed: the cursor covers what was owed.
LEMMA AdoptDoneRows ==
  ASSUME Inv, RowsInv, AdoptDone
  PROVE  RowsInv'
<1>1. /\ round = "adopting" /\ adoption.next > adoption.last
      /\ UNCHANGED <<hold, drain, owed>> /\ round' = "checkpoint"
      /\ adoption'.cursor = adoption.last
  BY DEF AdoptDone, rowVars
<1>2. /\ Len(drain) \in Nat /\ adoption.next \in Nat /\ adoption.last \in Nat
      /\ adoption.last <= Len(drain) /\ owed \in Nat
  BY RowsTypes
<1>3. Open' = Open
  BY <1>1 DEF Open
<1>4. \A i \in 1 .. adoption.last : i \in 1 .. adoption.next - 1
  BY <1>1, <1>2
<1> QED BY <1>1, <1>2, <1>3, <1>4 DEF RowsInv

\* Renewed: the rows there are become owed, and the lease decides nothing.
LEMMA RenewedRows ==
  ASSUME Inv, RowsInv, Renewed
  PROVE  RowsInv'
<1>1. UNCHANGED <<hold, drain, adoption>> /\ round' = "adopt"
  BY DEF Renewed, rowVars
<1>2. Open' = Open
  BY <1>1 DEF Open
<1>3. ~unadopted' => owed' <= adoption.cursor
  BY DEF Renewed, RowsInv
<1> QED BY <1>1, <1>2, <1>3 DEF RowsInv

-----------------------------------------------------------------------------
\* What the property says of a hold in a step.
RowWins(a) ==
  hold[a].state = "open" /\ hold'[a].state = "decided" /\ FirstRow(a) \in 1 .. owed
    => log'[Len(log')].drain = FirstRow(a)

\* A step's part of the argument.
RowsStep == RowsInv' /\ \A a \in Auths : RowWins(a)

\* A step that decides nothing and leaves the adoption alone.
LEMMA RowsStepQuiet ==
  ASSUME Inv, RowsInv, hold' = hold, UNCHANGED <<drain, adoption, owed, unadopted>>,
         round' = "adopting" => round = "adopting"
  PROVE  RowsStep
<1>1. HoldsAdvance
  BY DEF HoldsAdvance
<1>2. \A a \in Auths : RowWins(a)
  BY DEF RowWins
<1> QED BY <1>1, <1>2, RowsQuiet DEF RowsStep

\* decide: by the lease itself, once every row owed is passed, so no row owed
\* is of its hold; or an adoption of the hold's first row (requests.go decide,
\* adopt.go adopt).
LEMMA DecideRowWins ==
  ASSUME Inv, RowsInv, NEW a \in Auths, NEW k, NEW charge, NEW from, NEW raise,
         Decide(a, k, charge, from, raise), from = 0 \/ from = FirstRow(a)
  PROVE  \A b \in Auths : RowWins(b)
<1>1. /\ hold'[a].state = "decided" /\ a \in Open
      /\ \A b \in Auths : b /= a => hold'[b] = hold[b]
  BY DecideAdvances
<1>2. PICK r : log' = log \o <<r>> /\ r.drain = from
  <2> DEFINE r == [Blank EXCEPT !.kind = k, !.auth = a,
                      !.charge = Charged(k, charge),
                      !.freed = Freed(k, charge, hold[a].estimate),
                      !.shortfall = shortfall + Overdrawn(a, Charged(k, charge), raise),
                      !.drain = from, !.raise = raise]
  <2>1. log' = log \o <<r>>
    BY DEF Decide, HandOver
  <2>2. r.drain = from
    BY DEF Blank
  <2> QED BY <2>1, <2>2
<1>3. log \in Seq(RecordType) /\ Len(log) \in Nat
  BY DEF Inv, TypeOK, PipeType
<1>4. log'[Len(log')].drain = from
  BY <1>2, <1>3
<1>5. ASSUME from = 0, FirstRow(a) \in 1 .. owed PROVE FALSE
  <2>1. ~unadopted
    BY <1>5 DEF Decide, MayDecide
  <2>2. /\ owed <= adoption.cursor /\ adoption.cursor <= Len(drain)
        /\ owed \in Nat /\ adoption.cursor \in Nat /\ Len(drain) \in Nat
    BY <2>1, RowsTypes DEF RowsInv
  <2>3. FirstRow(a) \in 1 .. adoption.cursor
    BY <1>5, <2>2
  <2>4. RowsOf(a) /= {}
    BY <1>5, <2>2 DEF FirstRow
  <2>5. drain[FirstRow(a)].auth = a
    BY <2>2, <2>4, FirstRowOf DEF RowsOf
  <2> QED BY <1>1, <2>3, <2>5 DEF RowsInv
<1>6. RowWins(a)
  BY <1>4, <1>5 DEF RowWins
<1> QED BY <1>1, <1>6 DEF RowWins

\* A decide of the lease's own, or a reaper's adoption.
LEMMA DecideRowsStep ==
  ASSUME Inv, RowsInv, NEW a \in Auths, NEW k, NEW charge, NEW from, NEW raise,
         Decide(a, k, charge, from, raise), from = 0 \/ from = FirstRow(a),
         UNCHANGED <<drain, adoption, owed, unadopted, round>>
  PROVE  RowsStep
<1>1. HoldsAdvance
  BY DecideAdvances
<1> QED BY <1>1, RowsQuiet, DecideRowWins DEF RowsStep

LEMMA RequestRows ==
  ASSUME Inv, RowsInv, Request
  PROVE  RowsStep
<1>1. hold \in [Auths -> HoldType]
  BY RowsTypes
<1>2. UNCHANGED <<drain, adoption, owed, unadopted, round>>
  BY DEF Request, Admit, Heartbeat, Settle, Refund, flags, work, rowVars
<1>3. ASSUME HoldsAdvance,
             \A b \in Auths : hold[b].state = "open" => hold'[b].state = "open"
      PROVE  RowsStep
  <2>1. \A b \in Auths : RowWins(b)
    BY <1>3 DEF RowWins
  <2> QED BY <1>2, <1>3, <2>1, RowsQuiet DEF RowsStep
<1>4. ASSUME NEW a \in Auths, NEW e \in Estimates, NEW m \in Modes, Admit(a, e, m)
      PROVE  RowsStep
  <2>1. hold[a].state = "unused" /\ hold' = [hold EXCEPT ![a] =
          [UnusedHold EXCEPT !.state = "open", !.estimate = e, !.mode = m]]
    BY <1>4 DEF Admit
  <2>2. hold'[a].state = "open" /\ \A b \in Auths : b /= a => hold'[b] = hold[b]
    BY <1>1, <2>1 DEF UnusedHold
  <2> QED BY <1>3, <2>1, <2>2 DEF HoldsAdvance
<1>5. ASSUME NEW a \in Auths, NEW c \in Charges, Heartbeat(a, c)
      PROVE  RowsStep
  <2>1. hold' = [hold EXCEPT ![a].heartbeat = TRUE, ![a].running = c,
                             ![a].snapSeq = Len(log) + 1]
    BY <1>5 DEF Heartbeat
  <2>2. \A b \in Auths : hold'[b].state = hold[b].state
    BY <1>1, <2>1 DEF HoldType
  <2> QED BY <1>3, <2>2 DEF HoldsAdvance
<1>6. ASSUME NEW a \in Auths, NEW c \in Charges, Settle(a, c)
      PROVE  RowsStep
  BY <1>2, <1>6, DecideRowsStep DEF Settle
<1>7. ASSUME NEW a \in Auths, Refund(a)
      PROVE  RowsStep
  BY <1>2, <1>7, DecideRowsStep DEF Refund
<1> QED BY <1>4, <1>5, <1>6, <1>7 DEF Request

LEMMA RoundRows ==
  ASSUME Inv, RowsInv, Round
  PROVE  RowsStep
<1>1. CASE AdoptNext
  <2>1. RowsInv' /\ adoption.next \in 1 .. Len(drain)
    BY <1>1, AdoptNextRows
  <2>2. drain[adoption.next].auth \in Auths
    BY <2>1, RowsTypes
  <2>3. CASE drain[adoption.next].auth \in Open
    <3>1. Adopt(adoption.next) /\ adoption.next = FirstRow(drain[adoption.next].auth)
      BY <1>1, <2>3, AdoptNextRows
    <3> QED BY <2>1, <2>2, <3>1, DecideRowWins DEF Adopt, RowsStep
  <2>4. CASE drain[adoption.next].auth \notin Open
    <3>1. hold' = hold
      BY <1>1, <2>4 DEF AdoptNext
    <3> QED BY <2>1, <3>1 DEF RowWins, RowsStep
  <2> QED BY <2>3, <2>4
<1>2. CASE AdoptRead
  <2>1. hold' = hold
    BY <1>2 DEF AdoptRead
  <2> QED BY <1>2, <2>1, AdoptReadRows DEF RowWins, RowsStep
<1>3. CASE AdoptDone
  <2>1. hold' = hold
    BY <1>3 DEF AdoptDone
  <2> QED BY <1>3, <2>1, AdoptDoneRows DEF RowWins, RowsStep
<1>4. CASE Renewed
  <2>1. hold' = hold
    BY <1>4 DEF Renewed
  <2> QED BY <1>4, <2>1, RenewedRows DEF RowWins, RowsStep
<1>5. CASE RoundBegin \/ RenewCommits \/ RenewFails \/ RenewRefused \/ AdoptFails
  <2>1. hold' = hold /\ UNCHANGED <<drain, adoption, owed, unadopted>>
    BY <1>5 DEF RoundBegin, RenewCommits, RenewFails, RenewRefused, AdoptFails,
                flags, rowVars
  <2>2. round' /= "adopting"
    BY <1>5 DEF RoundBegin, RenewCommits, RenewFails, RenewRefused, AdoptFails
  <2> QED BY <2>1, <2>2, RowsStepQuiet
<1>6. CASE Checkpoint \/ LetIfAbandoned \/ FinishMarks \/ FinishLease
  <2>1. hold' = hold /\ UNCHANGED <<drain, adoption, owed, unadopted>>
    BY <1>6 DEF Checkpoint, LetIfAbandoned, FinishMarks, FinishLease, MarkDraining,
                flags, work, rowVars
  <2>2. round' = "adopting" => round = "adopting"
    BY <1>6 DEF Checkpoint, LetIfAbandoned, FinishMarks, FinishLease, work
  <2> QED BY <2>1, <2>2, RowsStepQuiet
<1> QED BY <1>1, <1>2, <1>3, <1>4, <1>5, <1>6 DEF Round

LEMMA ReaperRows ==
  ASSUME Inv, RowsInv, Reaper
  PROVE  RowsStep
<1>1. UNCHANGED <<drain, adoption, owed, unadopted, round>>
  BY DEF Reaper, ReapScan, ReleaseDue, ReapUndrained, ReapAdopts, ReapDecides,
         ReapGivesUp, flags, work, rowVars
<1>2. CASE ReapAdopts
  <2>1. Adopt(FirstRow(reaper.auth)) /\ RowsOf(reaper.auth) /= {}
    BY <1>2 DEF ReapAdopts
  <2>2. Len(drain) \in Nat /\ \A i \in 1 .. Len(drain) : drain[i].auth \in Auths
    BY RowsTypes
  <2>3. reaper.auth \in Auths
    BY <2>1, <2>2 DEF RowsOf
  <2>4. drain[FirstRow(reaper.auth)].auth = reaper.auth
    BY <2>1, <2>2, <2>3, FirstRowOf DEF RowsOf
  <2> QED BY <1>1, <2>1, <2>3, <2>4, DecideRowsStep DEF Adopt
<1>3. CASE ReapDecides
  BY <1>1, <1>3, DecideRowsStep DEF ReapDecides, Open
<1>4. CASE \E a \in Auths : ReleaseDue(a)
  BY <1>1, <1>4, DecideRowsStep DEF ReleaseDue
<1>5. CASE (\E a \in Auths : ReapScan(a)) \/ ReapUndrained \/ ReapGivesUp
  <2>1. hold' = hold
    BY <1>5 DEF ReapScan, ReapUndrained, ReapGivesUp
  <2> QED BY <1>1, <2>1, RowsStepQuiet
<1> QED BY <1>2, <1>3, <1>4, <1>5 DEF Reaper

\* Every step keeps it, and lets the rows owed win.
LEMMA NextRows == Inv /\ RowsInv /\ [Next]_vars => RowsStep
<1> SUFFICES ASSUME Inv, RowsInv, [Next]_vars PROVE RowsStep
  OBVIOUS
<1>1. CASE Flusher
  <2>1. hold' = hold /\ UNCHANGED <<drain, adoption, owed, unadopted, round>>
    BY <1>1 DEF Flusher, FlushAck, FlushFail, RepublishBegin, RepublishNext, flags,
                work, rowVars
  <2> QED BY <2>1, RowsStepQuiet
<1>2. CASE Sender \/ FailLong \/ StopWorkers \/ Close \/ PassCutoff \/ Switch
  <2>1. hold' = hold /\ UNCHANGED <<drain, adoption, owed, unadopted, round>>
    BY <1>2 DEF Sender, FailLong, StopWorkers, Close, PassCutoff, Switch, flags,
                work, rowVars
  <2> QED BY <2>1, RowsStepQuiet
<1>3. CASE Auditor \/ RowRevoked \/ RowExpires
  <2>1. hold' = hold /\ UNCHANGED <<drain, adoption, owed, unadopted, round>>
    BY <1>3 DEF Auditor, Deliver, RowRevoked, Revoke, RowExpires, MarkDraining,
                flags, work
  <2> QED BY <2>1, RowsStepQuiet
<1>4. CASE FrontDoor
  <2>1. hold' = hold
    BY <1>4 DEF FrontDoor, DrainAppend
  <2> QED BY <1>4, <2>1, FrontDoorRows DEF RowWins, RowsStep
<1>5. CASE Handoffs
  <2>1. hold' = hold /\ UNCHANGED <<drain, adoption, owed, unadopted, round>>
    BY <1>5 DEF Handoffs, Handoff, HandoffCut, HandoffMarks, MarkDraining,
                HandoffEnds, flags, work, rowVars
  <2> QED BY <2>1, RowsStepQuiet
<1>6. CASE Stop \/ Writer
  <2>1. hold' = hold /\ UNCHANGED <<drain, adoption, owed, unadopted, round>>
    BY <1>6 DEF Stop, Writer, WriterSends, WriterLands, ShortfallWrite,
                WriterAnswered, WriterRetries, flags, rowVars
  <2> QED BY <2>1, RowsStepQuiet
<1>7. CASE UNCHANGED vars
  <2>1. hold' = hold /\ UNCHANGED <<drain, adoption, owed, unadopted, round>>
    BY <1>7 DEF vars, flags, work, rowVars
  <2> QED BY <2>1, RowsStepQuiet
<1> QED
  BY <1>1, <1>2, <1>3, <1>4, <1>5, <1>6, <1>7, RequestRows, RoundRows, ReaperRows
     DEF Next

\* A drain-log row that was there when a renewal found the lease past its
\* cutoff is the terminal its hold gets, if it is its hold's first: no
\* settle, refund, reap, release or later row gets in before it, whatever
\* adoptions fail and lapses follow (owner.go Renewed, requests.go decide,
\* adopt.go).
THEOREM OwedRowsWin == Spec => DrainedRowsWin
<1>1. Init => RowsInv
  BY DEF Init, RowsInv, RowInit
<1>2. Inv /\ RowsInv /\ [Next]_vars => RowsInv'
  BY NextRows DEF RowsStep
<1>3. Inv /\ RowsInv /\ [Next]_vars =>
        [\A a \in Auths :
           hold[a].state = "open" /\ hold'[a].state = "decided"
             /\ FirstRow(a) \in 1 .. owed
             => log'[Len(log')].drain = FirstRow(a)]_vars
  BY NextRows DEF RowsStep, RowWins
<1> QED BY <1>1, <1>2, <1>3, InitInv, NextInv, PTL DEF Spec, DrainedRowsWin

-----------------------------------------------------------------------------
(* Sums: the sum of a function is the number of its pairs, so what it gains  *)
(* with one argument more is that argument's value.                          *)

\* The pairs counted, one for each unit of each value.
Pairs(f) == UNION {{x} \X (1 .. f[x]) : x \in DOMAIN f}

LEMMA PairsOf ==
  ASSUME NEW f, NEW p
  PROVE  p \in Pairs(f) <=> \E x \in DOMAIN f : p \in {x} \X (1 .. f[x])
BY DEF Pairs

\* The pairs of a function with a finite domain are finitely many.
LEMMA PairsFinite ==
  ASSUME NEW S, IsFiniteSet(S), NEW f \in [S -> Nat]
  PROVE  IsFiniteSet(Pairs(f)) /\ Sum(f) = Cardinality(Pairs(f)) /\ Sum(f) \in Nat
<1> DEFINE T == {{x} \X (1 .. f[x]) : x \in S}
           g == [x \in S |-> {x} \X (1 .. f[x])]
<1>1. g \in [S -> T] /\ \A t \in T : \E x \in S : g[x] = t
  OBVIOUS
<1>2. g \in Surjection(S, T)
  BY <1>1, Fun_IsSurj
<1>3. IsFiniteSet(T)
  BY <1>2, FS_Surjection
<1>4. ASSUME NEW t \in T PROVE IsFiniteSet(t)
  <2>1. PICK x \in S : t = {x} \X (1 .. f[x])
    OBVIOUS
  <2>2. f[x] \in Int /\ 1 \in Int
    OBVIOUS
  <2>3. IsFiniteSet({x})
    BY FS_Singleton
  <2>4. IsFiniteSet(1 .. f[x])
    BY <2>2, FS_Interval
  <2> QED BY <2>1, <2>3, <2>4, FS_Product
<1>5. IsFiniteSet(UNION T)
  BY <1>3, <1>4, FS_UNION
<1>6. Pairs(f) = UNION T
  BY DEF Pairs
<1>7. Sum(f) = Cardinality(Pairs(f))
  BY DEF Sum, Pairs
<1> QED BY <1>5, <1>6, <1>7, FS_CardinalityType

\* One argument more adds its value.
LEMMA SumAdds ==
  ASSUME NEW S, IsFiniteSet(S), NEW z, z \notin S,
         NEW f \in [S -> Nat], NEW g \in [S \union {z} -> Nat],
         \A x \in S : g[x] = f[x]
  PROVE  Sum(g) = Sum(f) + g[z] /\ Sum(f) \in Nat /\ Sum(g) \in Nat
<1> DEFINE A == Pairs(f)
           B == {z} \X (1 .. g[z])
<1>1. g[z] \in Nat /\ DOMAIN f = S /\ DOMAIN g = S \union {z}
  OBVIOUS
<1>2. IsFiniteSet(A) /\ Sum(f) = Cardinality(A) /\ Sum(f) \in Nat
  BY PairsFinite
<1>3. IsFiniteSet(B) /\ Cardinality(B) = g[z]
  <2>1. /\ IsFiniteSet({z}) /\ Cardinality({z}) = 1
    BY FS_Singleton
  <2>2. IsFiniteSet(1 .. g[z]) /\ Cardinality(1 .. g[z]) = g[z]
    BY <1>1, FS_Interval
  <2>3. IsFiniteSet(B) /\ Cardinality(B) = Cardinality({z}) * Cardinality(1 .. g[z])
    BY <2>1, <2>2, FS_Product
  <2> QED BY <1>1, <2>1, <2>2, <2>3
<1>4. A \cap B = {}
  <2> SUFFICES ASSUME NEW p \in A, p \in B PROVE FALSE
    OBVIOUS
  <2>1. PICK x \in S : p \in {x} \X (1 .. f[x])
    BY <1>1, PairsOf
  <2> QED BY <2>1
<1>5. Pairs(g) = A \union B
  <2>1. ASSUME NEW p, p \in Pairs(g) PROVE p \in A \union B
    <3>1. PICK x \in S \union {z} : p \in {x} \X (1 .. g[x])
      BY <1>1, <2>1, PairsOf
    <3>2. CASE x \in S
      BY <1>1, <3>1, <3>2, PairsOf
    <3>3. CASE x = z
      BY <3>1, <3>3
    <3> QED BY <3>2, <3>3
  <2>2. ASSUME NEW p \in A PROVE p \in Pairs(g)
    <3>1. PICK x \in S : p \in {x} \X (1 .. f[x])
      BY <1>1, PairsOf
    <3>2. x \in DOMAIN g /\ p \in {x} \X (1 .. g[x])
      BY <1>1, <3>1
    <3> QED BY <3>2, PairsOf
  <2>3. ASSUME NEW p \in B PROVE p \in Pairs(g)
    BY <1>1, PairsOf
  <2> QED BY <2>1, <2>2, <2>3
<1>6. IsFiniteSet(S \union {z})
  BY FS_AddElement
<1>7. Sum(g) = Cardinality(Pairs(g)) /\ Sum(g) \in Nat
  BY <1>6, PairsFinite
<1>8. Cardinality(A \union B) = Cardinality(A) + Cardinality(B) - Cardinality(A \cap B)
  BY <1>2, <1>3, FS_Union
<1>9. Cardinality(A \cap B) = 0
  BY <1>4, FS_EmptySet
<1> HIDE DEF A, B
<1> QED BY <1>1, <1>2, <1>3, <1>5, <1>7, <1>8, <1>9

\* Fewer arguments, no more.
LEMMA SumFewer ==
  ASSUME NEW S, IsFiniteSet(S), NEW R \in SUBSET S,
         NEW f \in [S -> Nat], NEW g \in [R -> Nat], \A x \in R : g[x] = f[x]
  PROVE  Sum(g) <= Sum(f)
<1>1. IsFiniteSet(R)
  BY FS_Subset
<1>2. /\ IsFiniteSet(Pairs(f)) /\ Sum(f) = Cardinality(Pairs(f))
      /\ Sum(g) = Cardinality(Pairs(g))
  BY <1>1, PairsFinite
<1>3. Pairs(g) \subseteq Pairs(f)
  <2> SUFFICES ASSUME NEW p, p \in Pairs(g) PROVE p \in Pairs(f)
    OBVIOUS
  <2>1. PICK x \in R : p \in {x} \X (1 .. g[x])
    BY PairsOf
  <2>2. x \in DOMAIN f /\ p \in {x} \X (1 .. f[x])
    BY <2>1
  <2> QED BY <2>2, PairsOf
<1> QED BY <1>2, <1>3, FS_Subset

\* The sum of no value is nothing.
LEMMA SumOfNone ==
  ASSUME NEW f \in [{} -> Nat]
  PROVE  Sum(f) = 0
<1>1. Pairs(f) = {}
  BY PairsOf
<1>2. Sum(f) = Cardinality(Pairs(f))
  BY FS_EmptySet, PairsFinite
<1> QED BY <1>1, <1>2, FS_EmptySet
-----------------------------------------------------------------------------
(* What a log's records sum to, for any log l.                               *)

ChargesOf(l, m) == Sum([n \in 1 .. m |-> l[n].charge])
RaisesOf(l, m) == Sum([n \in 1 .. m |-> l[n].raise])
ReturnsOf(l, m) == Sum([n \in 1 .. m |-> l[n].return])
FreedOf(l, k, m) == Sum([n \in k .. m |-> l[n].freed])
TerminalsOf(l, m) == {n \in 1 .. m : l[n].kind \in Terminals}
TotalAt(l, T) ==
  IF T = {} THEN 0 ELSE l[CHOOSE n \in T : \A k \in T : k <= n].shortfall
TotalOf(l, m) == TotalAt(l, TerminalsOf(l, m))
AllocatedOf(l, m) == Granted + TotalOf(l, m) + RaisesOf(l, m) - ReturnsOf(l, m)

\* One number more, at an interval's end or before its start.
LEMMA IntervalAdds ==
  ASSUME NEW k \in Int, NEW m \in Int, k <= m + 1,
         NEW f \in [k .. m -> Nat], NEW g \in [k .. m + 1 -> Nat],
         \A x \in k .. m : g[x] = f[x]
  PROVE  Sum(g) = Sum(f) + g[m + 1] /\ Sum(f) \in Nat /\ Sum(g) \in Nat
<1>1. k .. m + 1 = (k .. m) \union {m + 1} /\ m + 1 \notin k .. m
  OBVIOUS
<1>2. IsFiniteSet(k .. m)
  BY FS_Interval
<1> QED BY <1>1, <1>2, SumAdds

LEMMA IntervalDrops ==
  ASSUME NEW k \in Int, NEW m \in Int, k <= m,
         NEW f \in [k + 1 .. m -> Nat], NEW g \in [k .. m -> Nat],
         \A x \in k + 1 .. m : g[x] = f[x]
  PROVE  Sum(g) = Sum(f) + g[k] /\ Sum(f) \in Nat /\ Sum(g) \in Nat
<1>1. k .. m = (k + 1 .. m) \union {k} /\ k \notin k + 1 .. m
  OBVIOUS
<1>2. IsFiniteSet(k + 1 .. m)
  BY FS_Interval
<1>3. PICK K : K = k + 1 .. m
  OBVIOUS
<1>4. /\ IsFiniteSet(K) /\ k \notin K /\ f \in [K -> Nat]
      /\ g \in [K \union {k} -> Nat] /\ \A x \in K : g[x] = f[x]
  BY <1>1, <1>2, <1>3
<1> QED BY <1>4, SumAdds

\* A record of a log is one, and its money is a number.
LEMMA RecordMoney ==
  ASSUME NEW l \in Seq(RecordType), NEW n \in 1 .. Len(l)
  PROVE  /\ l[n].charge \in Nat /\ l[n].raise \in Nat /\ l[n].return \in Nat
         /\ l[n].freed \in Nat /\ l[n].shortfall \in Nat
<1>1. l[n] \in RecordType
  BY ElementOfSeq
<1> QED BY <1>1 DEF RecordType

\* A log's sums are numbers.
LEMMA LogSums ==
  ASSUME NEW l \in Seq(RecordType), NEW m \in 0 .. Len(l)
  PROVE  /\ ChargesOf(l, m) \in Nat /\ RaisesOf(l, m) \in Nat
         /\ ReturnsOf(l, m) \in Nat
         /\ \A k \in 1 .. m + 1 : FreedOf(l, k, m) \in Nat
<1>1. m \in Nat /\ Len(l) \in Nat /\ \A n \in 1 .. m : n \in 1 .. Len(l)
  OBVIOUS
<1>2. /\ [n \in 1 .. m |-> l[n].charge] \in [1 .. m -> Nat]
      /\ [n \in 1 .. m |-> l[n].raise] \in [1 .. m -> Nat]
      /\ [n \in 1 .. m |-> l[n].return] \in [1 .. m -> Nat]
  BY <1>1, RecordMoney
<1>3. IsFiniteSet(1 .. m)
  BY <1>1, FS_Interval
<1>4. ASSUME NEW k \in 1 .. m + 1 PROVE FreedOf(l, k, m) \in Nat
  <2>1. [n \in k .. m |-> l[n].freed] \in [k .. m -> Nat]
    BY <1>1, RecordMoney
  <2>2. IsFiniteSet(k .. m)
    BY <1>1, FS_Interval
  <2> QED BY <2>1, <2>2, PairsFinite DEF FreedOf
<1> QED BY <1>2, <1>3, <1>4, PairsFinite DEF ChargesOf, RaisesOf, ReturnsOf

\* A nonempty set of numbers has a least, and one up to m a greatest.
LEMMA LeastOf ==
  ASSUME NEW S \in SUBSET Nat, S /= {}
  PROVE  \E x \in S : \A y \in S : x <= y
<1>1. PICK x \in S : \A y \in S : ~(<<y, x>> \in OpToRel(<, Nat))
  BY NatLessThanWellFounded, WFMin
<1>2. \A y \in S : x <= y
  <2> TAKE y \in S
  <2>1. <<y, x>> \in Nat \X Nat /\ <<y, x>>[1] = y /\ <<y, x>>[2] = x
    OBVIOUS
  <2>2. ~(y < x)
    BY <1>1, <2>1 DEF OpToRel
  <2> QED BY <2>2
<1> QED BY <1>2

LEMMA LastOf ==
  ASSUME NEW m \in Nat, NEW T \in SUBSET (1 .. m), T /= {}
  PROVE  \E x \in T : \A y \in T : y <= x
<1> DEFINE U == {x \in 0 .. m : m - x \in T}
<1>1. PICK t \in T : TRUE
  OBVIOUS
<1>2. m - t \in 0 .. m /\ m - (m - t) = t
  BY <1>1
<1>3. U \in SUBSET Nat /\ U /= {}
  <2>1. m - t \in U
    BY <1>1, <1>2
  <2>2. \A x \in U : x \in Nat
    OBVIOUS
  <2> HIDE DEF U
  <2> QED BY <2>1, <2>2
<1>4. PICK x \in U : \A y \in U : x <= y
  <2> HIDE DEF U
  <2> QED BY <1>3, LeastOf
<1>5. m - x \in T
  BY <1>4
<1>6. ASSUME NEW y \in T PROVE y <= m - x
  <2>1. m - y \in 0 .. m /\ m - (m - y) = y
    OBVIOUS
  <2>2. m - y \in U
    BY <2>1
  <2>3. x <= m - y /\ x \in 0 .. m
    BY <1>4, <2>2
  <2> QED BY <2>3
<1> QED BY <1>5, <1>6

\* The records before a log's end say what they said, whatever follows.
LEMMA PrefixKept ==
  ASSUME NEW l, NEW l2, NEW m \in Nat, \A n \in 1 .. m : l2[n] = l[n]
  PROVE  /\ ChargesOf(l2, m) = ChargesOf(l, m) /\ RaisesOf(l2, m) = RaisesOf(l, m)
         /\ ReturnsOf(l2, m) = ReturnsOf(l, m) /\ TotalOf(l2, m) = TotalOf(l, m)
         /\ AllocatedOf(l2, m) = AllocatedOf(l, m)
         /\ \A k \in 1 .. m + 1 : FreedOf(l2, k, m) = FreedOf(l, k, m)
<1>1. /\ [n \in 1 .. m |-> l2[n].charge] = [n \in 1 .. m |-> l[n].charge]
      /\ [n \in 1 .. m |-> l2[n].raise] = [n \in 1 .. m |-> l[n].raise]
      /\ [n \in 1 .. m |-> l2[n].return] = [n \in 1 .. m |-> l[n].return]
  OBVIOUS
<1>2. ASSUME NEW k \in 1 .. m + 1
      PROVE  FreedOf(l2, k, m) = FreedOf(l, k, m)
  <2>1. [n \in k .. m |-> l2[n].freed] = [n \in k .. m |-> l[n].freed]
    OBVIOUS
  <2> QED BY <2>1 DEF FreedOf
<1>3. TerminalsOf(l2, m) = TerminalsOf(l, m)
  BY DEF TerminalsOf
<1>4. TotalOf(l2, m) = TotalOf(l, m)
  <2>1. CASE TerminalsOf(l, m) = {}
    BY <1>3, <2>1 DEF TotalOf, TotalAt
  <2>2. CASE TerminalsOf(l, m) /= {}
    <3> DEFINE T == TerminalsOf(l, m)
               c == CHOOSE n \in T : \A k \in T : k <= n
    <3>1. c \in T
      <4>1. T \subseteq Nat /\ T \subseteq 1 .. m
        BY DEF TerminalsOf
      <4>2. \E n \in T : \A k \in T : k <= n
        BY <2>2, <4>1, LastOf
      <4> QED BY <4>2
    <3>2. l2[c] = l[c]
      BY <3>1 DEF TerminalsOf
    <3>3. TotalOf(l2, m) = l2[c].shortfall /\ TotalOf(l, m) = l[c].shortfall
      BY <1>3, <2>2 DEF TotalOf, TotalAt
    <3> QED BY <3>2, <3>3
  <2> QED BY <2>1, <2>2
<1>5. /\ ChargesOf(l2, m) = ChargesOf(l, m) /\ RaisesOf(l2, m) = RaisesOf(l, m)
      /\ ReturnsOf(l2, m) = ReturnsOf(l, m)
  BY <1>1 DEF ChargesOf, RaisesOf, ReturnsOf
<1> QED BY <1>2, <1>4, <1>5 DEF AllocatedOf

\* One record more: the log, and what each of its sums gains.
LEMMA LogGrows ==
  ASSUME NEW l \in Seq(RecordType), NEW r \in RecordType, NEW l2, l2 = l \o <<r>>
  PROVE  /\ l2 \in Seq(RecordType) /\ Len(l2) = Len(l) + 1 /\ l2[Len(l) + 1] = r
         /\ \A n \in 1 .. Len(l) : l2[n] = l[n]
OBVIOUS

LEMMA ChargesGrow ==
  ASSUME NEW l \in Seq(RecordType), NEW r \in RecordType, NEW l2, l2 = l \o <<r>>
  PROVE  ChargesOf(l2, Len(l) + 1) = ChargesOf(l, Len(l)) + r.charge
<1>1. PICK m \in Nat : m = Len(l)
  OBVIOUS
<1>2. /\ l2 \in Seq(RecordType) /\ Len(l2) = m + 1 /\ l2[m + 1] = r
      /\ \A n \in 1 .. m : l2[n] = l[n]
  BY <1>1, LogGrows
<1>3. /\ \A n \in 1 .. m : l[n].charge \in Nat
      /\ \A n \in 1 .. m + 1 : l2[n].charge \in Nat
  BY <1>1, <1>2, RecordMoney
<1> DEFINE f == [n \in 1 .. m |-> l[n].charge]
           g == [n \in 1 .. m + 1 |-> l2[n].charge]
<1>4. /\ f \in [1 .. m -> Nat] /\ g \in [1 .. m + 1 -> Nat]
      /\ \A x \in 1 .. m : g[x] = f[x]
  BY <1>1, <1>2, <1>3
<1>5. 1 \in Int /\ m \in Int /\ 1 <= m + 1 /\ g[m + 1] = r.charge
  BY <1>1, <1>2
<1> HIDE DEF f, g
<1>6. Sum(g) = Sum(f) + g[m + 1]
  BY <1>4, <1>5, IntervalAdds
<1> QED BY <1>1, <1>5, <1>6 DEF ChargesOf, f, g

LEMMA RaisesGrow ==
  ASSUME NEW l \in Seq(RecordType), NEW r \in RecordType, NEW l2, l2 = l \o <<r>>
  PROVE  RaisesOf(l2, Len(l) + 1) = RaisesOf(l, Len(l)) + r.raise
<1>1. PICK m \in Nat : m = Len(l)
  OBVIOUS
<1>2. /\ l2 \in Seq(RecordType) /\ Len(l2) = m + 1 /\ l2[m + 1] = r
      /\ \A n \in 1 .. m : l2[n] = l[n]
  BY <1>1, LogGrows
<1>3. /\ \A n \in 1 .. m : l[n].raise \in Nat
      /\ \A n \in 1 .. m + 1 : l2[n].raise \in Nat
  BY <1>1, <1>2, RecordMoney
<1> DEFINE f == [n \in 1 .. m |-> l[n].raise]
           g == [n \in 1 .. m + 1 |-> l2[n].raise]
<1>4. /\ f \in [1 .. m -> Nat] /\ g \in [1 .. m + 1 -> Nat]
      /\ \A x \in 1 .. m : g[x] = f[x]
  BY <1>1, <1>2, <1>3
<1>5. 1 \in Int /\ m \in Int /\ 1 <= m + 1 /\ g[m + 1] = r.raise
  BY <1>1, <1>2
<1> HIDE DEF f, g
<1>6. Sum(g) = Sum(f) + g[m + 1]
  BY <1>4, <1>5, IntervalAdds
<1> QED BY <1>1, <1>5, <1>6 DEF RaisesOf, f, g

LEMMA ReturnsGrow ==
  ASSUME NEW l \in Seq(RecordType), NEW r \in RecordType, NEW l2, l2 = l \o <<r>>
  PROVE  ReturnsOf(l2, Len(l) + 1) = ReturnsOf(l, Len(l)) + r.return
<1>1. PICK m \in Nat : m = Len(l)
  OBVIOUS
<1>2. /\ l2 \in Seq(RecordType) /\ Len(l2) = m + 1 /\ l2[m + 1] = r
      /\ \A n \in 1 .. m : l2[n] = l[n]
  BY <1>1, LogGrows
<1>3. /\ \A n \in 1 .. m : l[n].return \in Nat
      /\ \A n \in 1 .. m + 1 : l2[n].return \in Nat
  BY <1>1, <1>2, RecordMoney
<1> DEFINE f == [n \in 1 .. m |-> l[n].return]
           g == [n \in 1 .. m + 1 |-> l2[n].return]
<1>4. /\ f \in [1 .. m -> Nat] /\ g \in [1 .. m + 1 -> Nat]
      /\ \A x \in 1 .. m : g[x] = f[x]
  BY <1>1, <1>2, <1>3
<1>5. 1 \in Int /\ m \in Int /\ 1 <= m + 1 /\ g[m + 1] = r.return
  BY <1>1, <1>2
<1> HIDE DEF f, g
<1>6. Sum(g) = Sum(f) + g[m + 1]
  BY <1>4, <1>5, IntervalAdds
<1> QED BY <1>1, <1>5, <1>6 DEF ReturnsOf, f, g

LEMMA FreedGrows ==
  ASSUME NEW l \in Seq(RecordType), NEW r \in RecordType, NEW l2, l2 = l \o <<r>>,
         NEW k \in 1 .. Len(l) + 1
  PROVE  FreedOf(l2, k, Len(l) + 1) = FreedOf(l, k, Len(l)) + r.freed
<1>1. PICK m \in Nat : m = Len(l)
  OBVIOUS
<1>2. /\ l2 \in Seq(RecordType) /\ Len(l2) = m + 1 /\ l2[m + 1] = r
      /\ \A n \in 1 .. m : l2[n] = l[n]
  BY <1>1, LogGrows
<1>3. /\ \A n \in 1 .. m : l[n].freed \in Nat
      /\ \A n \in 1 .. m + 1 : l2[n].freed \in Nat
  BY <1>1, <1>2, RecordMoney
<1> DEFINE f == [n \in k .. m |-> l[n].freed]
           g == [n \in k .. m + 1 |-> l2[n].freed]
<1>4. /\ f \in [k .. m -> Nat] /\ g \in [k .. m + 1 -> Nat]
      /\ \A x \in k .. m : g[x] = f[x]
  BY <1>1, <1>2, <1>3
<1>5. k \in Int /\ m \in Int /\ k <= m + 1 /\ g[m + 1] = r.freed
  BY <1>1, <1>2
<1> HIDE DEF f, g
<1>6. Sum(g) = Sum(f) + g[m + 1]
  BY <1>4, <1>5, IntervalAdds
<1> QED BY <1>1, <1>5, <1>6 DEF FreedOf, f, g

\* The last total, with a record r more.
NextTotal(r, sh) == IF r.kind \in Terminals THEN r.shortfall ELSE sh

LEMMA TotalGrows ==
  ASSUME NEW l \in Seq(RecordType), NEW r \in RecordType, NEW l2, l2 = l \o <<r>>
  PROVE  TotalOf(l2, Len(l) + 1) = NextTotal(r, TotalOf(l, Len(l)))
<1>1. PICK m \in Nat : m = Len(l)
  OBVIOUS
<1>2. /\ l2 \in Seq(RecordType) /\ Len(l2) = m + 1 /\ l2[m + 1] = r
      /\ \A n \in 1 .. m : l2[n] = l[n]
  BY <1>1, LogGrows
<1>3. TotalOf(l2, m + 1) = IF r.kind \in Terminals THEN r.shortfall ELSE TotalOf(l, m)
  <2> DEFINE T == TerminalsOf(l2, m + 1)
             c == CHOOSE n \in T : \A k \in T : k <= n
  <2>1. CASE r.kind \in Terminals
    <3>1. m + 1 \in T /\ \A k \in T : k <= m + 1
      BY <1>2, <2>1 DEF TerminalsOf
    <3>2. T \subseteq 1 .. m + 1
      BY DEF TerminalsOf
    <3>3. \A n \in T : (\A k \in T : k <= n) => n = m + 1
      <4> HIDE DEF T
      <4> QED BY <3>1, <3>2
    <3>4. c = m + 1
      <4>1. c \in T /\ \A k \in T : k <= c
        <5> HIDE DEF T
        <5> QED BY <3>1
      <4> HIDE DEF c, T
      <4> QED BY <3>3, <4>1
    <3>5. TotalOf(l2, m + 1) = l2[c].shortfall
      <4>1. T /= {}
        BY <3>1
      <4> QED BY <4>1 DEF TotalOf, TotalAt
    <3> QED BY <1>2, <2>1, <3>4, <3>5
  <2>2. CASE r.kind \notin Terminals
    <3>1. T = TerminalsOf(l2, m)
      BY <1>2, <2>2 DEF TerminalsOf
    <3>2. TotalOf(l2, m + 1) = TotalOf(l2, m)
      BY <3>1 DEF TotalOf
    <3> QED BY <1>2, <2>2, <3>2, PrefixKept
  <2> QED BY <2>1, <2>2
<1> QED BY <1>1, <1>3 DEF NextTotal

\* The last total a log's terminals carry is a number.
LEMMA TotalType ==
  ASSUME NEW l \in Seq(RecordType), NEW m \in 0 .. Len(l)
  PROVE  TotalOf(l, m) \in Nat
<1> DEFINE T == TerminalsOf(l, m)
           c == CHOOSE n \in T : \A k \in T : k <= n
<1>1. CASE T = {}
  BY <1>1 DEF TotalOf, TotalAt
<1>2. CASE T /= {}
  <2>1. m \in Nat /\ T \in SUBSET (1 .. m) /\ 1 .. m \subseteq 1 .. Len(l)
    BY DEF TerminalsOf
  <2>2. \E n \in T : \A k \in T : k <= n
    <3> HIDE DEF T
    <3> QED BY <1>2, <2>1, LastOf
  <2>3. c \in T
    <3> HIDE DEF T
    <3> QED BY <2>2
  <2>4. TotalOf(l, m) = l[c].shortfall
    BY <1>2 DEF TotalOf, TotalAt
  <2> HIDE DEF T, c
  <2>5. c \in 1 .. Len(l)
    BY <2>1, <2>3
  <2> QED BY <2>4, <2>5, RecordMoney
<1> QED BY <1>1, <1>2
-----------------------------------------------------------------------------
(* The books balance: what the owner keeps in its books is what its holds    *)
(* and records sum to (BooksBalance).                                        *)

EstimatesOf(h, S) == Sum([a \in S |-> h[a].estimate])
BuffersOf(h, S) == Sum([a \in S |-> Counted(h[a])])

\* The figures a log l, acknowledged up to k, leaves.
Balanced(l, k, al, co, pe, sh) ==
  /\ pe = FreedOf(l, k + 1, Len(l))
  /\ co = ChargesOf(l, Len(l))
  /\ sh = TotalOf(l, Len(l))
  /\ al = AllocatedOf(l, Len(l))

LEMMA AfterIs ==
  /\ \A m : /\ ConsumedAfter(m) = ChargesOf(log, m)
            /\ ShortfallAfter(m) = TotalOf(log, m)
            /\ AllocationAfter(m) = AllocatedOf(log, m)
  /\ (\A m : /\ ConsumedAfter(m) = ChargesOf(log, m)
             /\ ShortfallAfter(m) = TotalOf(log, m)
             /\ AllocationAfter(m) = AllocatedOf(log, m))'
<1>1. ASSUME NEW m PROVE ConsumedAfter(m) = ChargesOf(log, m)
  BY DEF ConsumedAfter, ChargesOf
<1>2. ASSUME NEW m PROVE ShortfallAfter(m) = TotalOf(log, m)
  BY DEF ShortfallAfter, TotalOf, TotalAt, TerminalsOf
<1>3. ASSUME NEW m PROVE AllocationAfter(m) = AllocatedOf(log, m)
  BY <1>2 DEF AllocationAfter, AllocatedOf, RaisesOf, ReturnsOf
<1>4. ASSUME NEW m PROVE (ConsumedAfter(m) = ChargesOf(log, m))'
  BY DEF ConsumedAfter, ChargesOf
<1>5. ASSUME NEW m PROVE (ShortfallAfter(m) = TotalOf(log, m))'
  BY DEF ShortfallAfter, TotalOf, TotalAt, TerminalsOf
<1>6. ASSUME NEW m PROVE (AllocationAfter(m) = AllocatedOf(log, m))'
  BY <1>5 DEF AllocationAfter, AllocatedOf, RaisesOf, ReturnsOf
<1> QED BY <1>1, <1>2, <1>3, <1>4, <1>5, <1>6

\* The property in these terms.
HoldsBalance ==
  held = EstimatesOf(hold, Open) /\ buffer = BuffersOf(hold, Open)
RecordsBalance == Balanced(log, acked, allocation, consumed, pending, shortfall)

LEMMA BooksAre ==
  /\ BooksBalance <=> HoldsBalance /\ RecordsBalance
  /\ (BooksBalance <=> HoldsBalance /\ RecordsBalance)'
<1>1. BooksBalance <=> HoldsBalance /\ RecordsBalance
  BY AfterIs DEF BooksBalance, HoldsBalance, RecordsBalance, Balanced, EstimatesOf,
                 BuffersOf, FreedOf
<1>2. (BooksBalance <=> HoldsBalance /\ RecordsBalance)'
  BY AfterIs DEF BooksBalance, HoldsBalance, RecordsBalance, Balanced, EstimatesOf,
                 BuffersOf, FreedOf
<1> QED BY <1>1, <1>2

\* A record more moves the figures by what it states.
LEMMA RecordBalances ==
  ASSUME NEW l \in Seq(RecordType), NEW k \in 0 .. Len(l), NEW r \in RecordType,
         NEW al, NEW co, NEW pe, NEW sh, Balanced(l, k, al, co, pe, sh),
         NEW sh2, sh2 = NextTotal(r, sh)
  PROVE  /\ al \in Int /\ co \in Nat /\ pe \in Nat /\ sh \in Int
         /\ Balanced(l \o <<r>>, k, al + (sh2 - sh) + r.raise - r.return,
                     co + r.charge, pe + r.freed, sh2)
<1>1. PICK l2 : l2 = l \o <<r>>
  OBVIOUS
<1>0. /\ Len(l2) = Len(l) + 1
      /\ ChargesOf(l2, Len(l) + 1) = ChargesOf(l, Len(l)) + r.charge
      /\ RaisesOf(l2, Len(l) + 1) = RaisesOf(l, Len(l)) + r.raise
      /\ ReturnsOf(l2, Len(l) + 1) = ReturnsOf(l, Len(l)) + r.return
      /\ \A x \in 1 .. Len(l) + 1 :
           FreedOf(l2, x, Len(l) + 1) = FreedOf(l, x, Len(l)) + r.freed
      /\ TotalOf(l2, Len(l) + 1) = NextTotal(r, TotalOf(l, Len(l)))
  <2>1. Len(l2) = Len(l) + 1
    BY <1>1, LogGrows
  <2>2. ChargesOf(l2, Len(l) + 1) = ChargesOf(l, Len(l)) + r.charge
    BY <1>1, ChargesGrow
  <2>3. RaisesOf(l2, Len(l) + 1) = RaisesOf(l, Len(l)) + r.raise
    BY <1>1, RaisesGrow
  <2>4. ReturnsOf(l2, Len(l) + 1) = ReturnsOf(l, Len(l)) + r.return
    BY <1>1, ReturnsGrow
  <2>5. ASSUME NEW x \in 1 .. Len(l) + 1
        PROVE  FreedOf(l2, x, Len(l) + 1) = FreedOf(l, x, Len(l)) + r.freed
    BY <1>1, FreedGrows
  <2>6. TotalOf(l2, Len(l) + 1) = NextTotal(r, TotalOf(l, Len(l)))
    BY <1>1, TotalGrows
  <2> QED BY <2>1, <2>2, <2>3, <2>4, <2>5, <2>6
<1>2. PICK m \in Nat : m = Len(l)
  OBVIOUS
<1>3. /\ Len(l2) = m + 1
      /\ ChargesOf(l2, m + 1) = ChargesOf(l, m) + r.charge
      /\ RaisesOf(l2, m + 1) = RaisesOf(l, m) + r.raise
      /\ ReturnsOf(l2, m + 1) = ReturnsOf(l, m) + r.return
      /\ \A x \in 1 .. m + 1 : FreedOf(l2, x, m + 1) = FreedOf(l, x, m) + r.freed
      /\ TotalOf(l2, m + 1) = NextTotal(r, TotalOf(l, m))
  BY <1>0, <1>2
<1>4. /\ ChargesOf(l, m) \in Nat /\ RaisesOf(l, m) \in Nat /\ ReturnsOf(l, m) \in Nat
      /\ \A x \in 1 .. m + 1 : FreedOf(l, x, m) \in Nat
  <2>1. m \in 0 .. Len(l)
    BY <1>2
  <2> QED BY <2>1, LogSums, Zenon
<1>5. r.raise \in Nat /\ r.return \in Nat /\ r.shortfall \in Nat /\ r.charge \in Nat
      /\ r.freed \in Nat
  BY DEF RecordType
<1>6. k + 1 \in 1 .. m + 1
  BY <1>2
<1>7. TotalOf(l, m) \in Int
  BY <1>2, TotalType
<1>8. /\ co = ChargesOf(l, m) /\ pe = FreedOf(l, k + 1, m) /\ sh = TotalOf(l, m)
      /\ al = Granted + TotalOf(l, m) + RaisesOf(l, m) - ReturnsOf(l, m)
  BY <1>2 DEF Balanced, AllocatedOf
<1>9. sh2 = TotalOf(l2, m + 1) /\ sh2 \in Int
  <2>1. sh2 = TotalOf(l2, m + 1)
    BY <1>3, <1>8
  <2>2. sh2 \in Int
    BY <1>5, <1>7, <1>8 DEF NextTotal
  <2> QED BY <2>1, <2>2
<1>10. al + (sh2 - sh) + r.raise - r.return = AllocatedOf(l2, m + 1)
  <2>1. AllocatedOf(l2, m + 1) =
          Granted + sh2 + (RaisesOf(l, m) + r.raise) - (ReturnsOf(l, m) + r.return)
    BY <1>3, <1>9 DEF AllocatedOf
  <2>2. al = Granted + sh + RaisesOf(l, m) - ReturnsOf(l, m) /\ sh \in Int
    BY <1>7, <1>8
  <2>3. PICK x \in Nat, y \in Nat, u \in Nat, v \in Nat :
          x = RaisesOf(l, m) /\ y = ReturnsOf(l, m) /\ u = r.raise /\ v = r.return
    BY <1>4, <1>5
  <2>4. /\ AllocatedOf(l2, m + 1) = Granted + sh2 + (x + u) - (y + v)
        /\ al = Granted + sh + x - y
    BY <2>1, <2>2, <2>3
  <2>5. al + (sh2 - sh) + u - v = Granted + sh2 + (x + u) - (y + v)
    <3>1. sh2 \in Int /\ sh \in Int /\ Granted \in Int
      BY <1>9, <2>2, GrantedAssumption
    <3>2. al = Granted + sh + x - y
      BY <2>4
    <3> QED BY <3>1, <3>2
  <2> QED BY <2>3, <2>4, <2>5
<1>11. Balanced(l2, k, al + (sh2 - sh) + r.raise - r.return, co + r.charge,
                pe + r.freed, sh2)
  BY <1>3, <1>6, <1>8, <1>9, <1>10 DEF Balanced
<1> QED BY <1>1, <1>4, <1>6, <1>7, <1>8, <1>11, GrantedAssumption

\* A record that states no money leaves them.
MoneyFree(r) ==
  /\ r.kind \notin Terminals
  /\ r.raise = 0 /\ r.return = 0 /\ r.charge = 0 /\ r.freed = 0

LEMMA BlankBalances ==
  ASSUME NEW l \in Seq(RecordType), NEW k \in 0 .. Len(l), NEW r \in RecordType,
         NEW al, NEW co, NEW pe, NEW sh, Balanced(l, k, al, co, pe, sh),
         MoneyFree(r)
  PROVE  Balanced(l \o <<r>>, k, al, co, pe, sh)
<1>0. sh = NextTotal(r, sh)
  BY DEF NextTotal, MoneyFree
<1>1. /\ al \in Int /\ co \in Nat /\ pe \in Nat /\ sh \in Int
      /\ Balanced(l \o <<r>>, k, al + (sh - sh) + r.raise - r.return,
                  co + r.charge, pe + r.freed, sh)
  BY <1>0, RecordBalances
<1>2. /\ al + (sh - sh) + r.raise - r.return = al
      /\ co + r.charge = co /\ pe + r.freed = pe
  BY <1>1 DEF MoneyFree
<1> QED BY <1>1, <1>2

\* The first record not acknowledged is: what it freed is no longer pending.
LEMMA AckBalances ==
  ASSUME NEW l \in Seq(RecordType), NEW k \in 0 .. Len(l) - 1,
         NEW al, NEW co, NEW pe, NEW sh, Balanced(l, k, al, co, pe, sh)
  PROVE  Balanced(l, k + 1, al, co, pe - l[k + 1].freed, sh)
<1>1. PICK m \in Nat : m = Len(l)
  OBVIOUS
<1> DEFINE f == [n \in k + 2 .. m |-> l[n].freed]
           g == [n \in k + 1 .. m |-> l[n].freed]
<1>2. \A n \in 1 .. m : l[n].freed \in Nat
  BY <1>1, RecordMoney
<1>3. /\ f \in [(k + 1) + 1 .. m -> Nat] /\ g \in [k + 1 .. m -> Nat]
      /\ \A x \in (k + 1) + 1 .. m : g[x] = f[x]
  BY <1>1, <1>2
<1>4. g[k + 1] = l[k + 1].freed
  BY <1>1
<1>5. k + 1 \in Int /\ m \in Int /\ k + 1 <= m
  BY <1>1
<1> HIDE DEF f, g
<1>6. Sum(g) = Sum(f) + g[k + 1] /\ Sum(f) \in Nat /\ Sum(g) \in Nat
  BY <1>3, <1>5, IntervalDrops
<1>7. pe = Sum(g)
  BY <1>1 DEF Balanced, FreedOf, g
<1>8. FreedOf(l, (k + 1) + 1, m) = Sum(f)
  <2>1. (k + 1) + 1 = k + 2
    OBVIOUS
  <2> QED BY <2>1 DEF FreedOf, f
<1>9. l[k + 1].freed \in Nat
  BY <1>1, <1>2
<1>10. pe - l[k + 1].freed = FreedOf(l, (k + 1) + 1, m)
  BY <1>4, <1>6, <1>7, <1>8, <1>9
<1> QED BY <1>1, <1>10 DEF Balanced

\* The estimates and buffers of the holds S are numbers, and the same in both.
HoldsKnown(h, S) == \A x \in S : h[x].estimate \in Nat /\ Counted(h[x]) \in Nat
HoldsSame(h, h2, S) ==
  \A x \in S : h2[x].estimate = h[x].estimate /\ Counted(h2[x]) = Counted(h[x])

\* A hold more adds its estimate, and its part of the buffer.
LEMMA EstimateAdds ==
  ASSUME NEW S, IsFiniteSet(S), NEW z, z \notin S, NEW T, T = S \union {z},
         NEW h, NEW h2, HoldsSame(h, h2, S), HoldsKnown(h, S), HoldsKnown(h2, {z})
  PROVE  EstimatesOf(h2, T) = EstimatesOf(h, S) + h2[z].estimate
<1> DEFINE f == [a \in S |-> h[a].estimate]
           g == [a \in S \union {z} |-> h2[a].estimate]
<1>1. /\ f \in [S -> Nat] /\ g \in [S \union {z} -> Nat]
      /\ \A x \in S : g[x] = f[x]
  BY DEF HoldsSame, HoldsKnown
<1>2. g[z] = h2[z].estimate
  OBVIOUS
<1>3. EstimatesOf(h2, T) = Sum(g) /\ EstimatesOf(h, S) = Sum(f)
  BY DEF EstimatesOf
<1> HIDE DEF f, g
<1>4. Sum(g) = Sum(f) + g[z]
  BY <1>1, SumAdds
<1> QED BY <1>2, <1>3, <1>4

\* The same of the buffer.
LEMMA BufferAdds ==
  ASSUME NEW S, IsFiniteSet(S), NEW z, z \notin S, NEW T, T = S \union {z},
         NEW h, NEW h2, HoldsSame(h, h2, S), HoldsKnown(h, S), HoldsKnown(h2, {z})
  PROVE  BuffersOf(h2, T) = BuffersOf(h, S) + Counted(h2[z])
<1> DEFINE f == [a \in S |-> Counted(h[a])]
           g == [a \in S \union {z} |-> Counted(h2[a])]
<1>1. /\ f \in [S -> Nat] /\ g \in [S \union {z} -> Nat]
      /\ \A x \in S : g[x] = f[x]
  BY DEF HoldsSame, HoldsKnown
<1>2. g[z] = Counted(h2[z])
  OBVIOUS
<1>3. BuffersOf(h2, T) = Sum(g) /\ BuffersOf(h, S) = Sum(f)
  BY DEF BuffersOf
<1> HIDE DEF f, g
<1>4. Sum(g) = Sum(f) + g[z]
  BY <1>1, SumAdds
<1> QED BY <1>2, <1>3, <1>4

\* What it takes of a set of holds.
LEMMA HoldsSums ==
  ASSUME NEW S, IsFiniteSet(S), NEW h, HoldsKnown(h, S)
  PROVE  EstimatesOf(h, S) \in Nat /\ BuffersOf(h, S) \in Nat
<1>1. /\ [a \in S |-> h[a].estimate] \in [S -> Nat]
      /\ [a \in S |-> Counted(h[a])] \in [S -> Nat]
  BY DEF HoldsKnown
<1> QED BY <1>1, PairsFinite DEF EstimatesOf, BuffersOf
\* The authorizations ever admitted: finitely many, since one step admits one.
Admitted == {a \in Auths : hold[a].state /= "unused"}

BooksInv == IsFiniteSet(Admitted) /\ BooksBalance

\* The open holds are finitely many, and their figures are numbers.
LEMMA OpenKnown ==
  ASSUME Inv, BooksInv
  PROVE  IsFiniteSet(Open) /\ HoldsKnown(hold, Open)
<1>1. Open \subseteq Admitted
  BY DEF Open, Admitted
<1>2. IsFiniteSet(Open)
  BY <1>1, FS_Subset DEF BooksInv
<1>3. ASSUME NEW x \in Open PROVE hold[x].estimate \in Nat /\ Counted(hold[x]) \in Nat
  <2>1. hold[x] \in HoldType /\ hold[x].estimate \in Estimates
    BY DEF Open, Inv, TypeOK, HoldsType
  <2> QED BY <2>1, CountedType, ConstantTypes
<1> QED BY <1>2, <1>3 DEF HoldsKnown

\* What the books' lemmas read of the invariant.
LEMMA BooksParts ==
  ASSUME Inv, BooksInv
  PROVE  /\ HoldsBalance /\ RecordsBalance
         /\ log \in Seq(RecordType) /\ acked \in 0 .. Len(log) /\ Len(log) \in Nat
         /\ allocation \in Int /\ held \in Int /\ consumed \in Nat /\ pending \in Int
         /\ buffer \in Int /\ shortfall \in Nat
         /\ hold \in [Auths -> HoldType]
  BY BooksAre DEF BooksInv, Inv, TypeOK, PipeType, BooksType, HoldsType

\* A step that changes neither the holds nor their figures.
LEMMA HoldsQuiet ==
  ASSUME BooksInv, UNCHANGED <<held, buffer, hold>>
  PROVE  HoldsBalance' /\ IsFiniteSet(Admitted')
<1>1. Open' = Open /\ Admitted' = Admitted
  BY DEF Open, Admitted
<1> QED BY <1>1, BooksAre DEF BooksInv, HoldsBalance

\* A step that changes nothing the property reads.
LEMMA BooksQuiet ==
  ASSUME BooksInv, UNCHANGED <<books, hold, log, acked>>
  PROVE  BooksInv'
<1>1. HoldsBalance' /\ IsFiniteSet(Admitted')
  BY HoldsQuiet DEF books
<1>2. RecordsBalance'
  BY BooksAre DEF BooksInv, RecordsBalance, books
<1> QED BY <1>1, <1>2, BooksAre DEF BooksInv

\* An admission adds the hold's estimate and its part of the buffer.
LEMMA AdmitBooks ==
  ASSUME Inv, BooksInv, NEW a \in Auths, NEW e \in Estimates, NEW m \in Modes,
         Admit(a, e, m)
  PROVE  BooksInv'
<1> DEFINE h == [UnusedHold EXCEPT !.state = "open", !.estimate = e, !.mode = m]
<1>1. /\ hold[a].state = "unused" /\ hold' = [hold EXCEPT ![a] = h]
      /\ buffer' = buffer + Counted(h) /\ held' = held + e
      /\ UNCHANGED <<allocation, consumed, pending, shortfall>> /\ UNCHANGED pipe
  BY DEF Admit
<1>2. h \in HoldType /\ h.estimate = e /\ h.state = "open"
  BY ConstantTypes DEF HoldType, UnusedHold
<1> HIDE DEF h
<1>3. hold'[a] = h /\ \A b \in Auths : b /= a => hold'[b] = hold[b]
  BY <1>1, BooksParts
<1>4. /\ a \notin Open /\ Open' = Open \union {a} /\ Admitted' = Admitted \union {a}
      /\ Open \subseteq Auths
  <2>1. Open' = Open \union {a} /\ a \notin Open
    BY <1>1, <1>2, <1>3 DEF Open
  <2>2. Admitted' = Admitted \union {a}
    BY <1>1, <1>2, <1>3 DEF Admitted
  <2> QED BY <2>1, <2>2 DEF Open
<1>5. HoldsSame(hold, hold', Open)
  BY <1>3, <1>4 DEF HoldsSame
<1>6. HoldsKnown(hold', {a})
  <2>1. Counted(h) \in Nat /\ h.estimate \in Nat
    BY <1>2, CountedType, ConstantTypes
  <2> QED BY <1>3, <2>1 DEF HoldsKnown
<1>7. EstimatesOf(hold', Open') = EstimatesOf(hold, Open) + e
  BY <1>2, <1>3, <1>4, <1>5, <1>6, OpenKnown, EstimateAdds
<1>8. BuffersOf(hold', Open') = BuffersOf(hold, Open) + Counted(h)
  BY <1>3, <1>4, <1>5, <1>6, OpenKnown, BufferAdds
<1>9. HoldsBalance'
  BY <1>1, <1>7, <1>8, BooksParts DEF HoldsBalance
<1>10. RecordsBalance'
  BY <1>1, BooksParts DEF RecordsBalance, pipe
<1>11. IsFiniteSet(Admitted')
  BY <1>4, FS_AddElement DEF BooksInv
<1> QED BY <1>9, <1>10, <1>11, BooksAre DEF BooksInv

\* Of a hold that is open, and stays among the open or not, the others' sums.
LEMMA OneHold ==
  ASSUME Inv, BooksInv, NEW a \in Open, NEW h2,
         HoldsSame(hold, h2, Open \ {a}), HoldsKnown(h2, {a})
  PROVE  /\ held = EstimatesOf(h2, Open \ {a}) + hold[a].estimate
         /\ buffer = BuffersOf(h2, Open \ {a}) + Counted(hold[a])
         /\ EstimatesOf(h2, Open) = EstimatesOf(h2, Open \ {a}) + h2[a].estimate
         /\ BuffersOf(h2, Open) = BuffersOf(h2, Open \ {a}) + Counted(h2[a])
         /\ EstimatesOf(h2, Open \ {a}) \in Nat /\ BuffersOf(h2, Open \ {a}) \in Nat
<1>1. PICK S : S = Open \ {a}
  OBVIOUS
<1>2. /\ a \notin S /\ Open = S \union {a} /\ IsFiniteSet(S) /\ S \subseteq Open
  BY <1>1, OpenKnown, FS_Subset
<1>3. /\ HoldsKnown(hold, S) /\ HoldsKnown(hold, {a}) /\ HoldsKnown(h2, S)
      /\ HoldsSame(h2, hold, S) /\ HoldsSame(h2, h2, S)
  <2>1. HoldsKnown(hold, S) /\ HoldsKnown(hold, {a})
    BY <1>2, OpenKnown DEF HoldsKnown
  <2>2. HoldsSame(h2, hold, S) /\ HoldsSame(h2, h2, S)
    BY <1>1 DEF HoldsSame
  <2> QED BY <2>1, <2>2 DEF HoldsKnown, HoldsSame
<1>4. EstimatesOf(hold, Open) = EstimatesOf(h2, S) + hold[a].estimate
  BY <1>2, <1>3, EstimateAdds
<1>5. BuffersOf(hold, Open) = BuffersOf(h2, S) + Counted(hold[a])
  BY <1>2, <1>3, BufferAdds
<1>6. EstimatesOf(h2, Open) = EstimatesOf(h2, S) + h2[a].estimate
  BY <1>2, <1>3, EstimateAdds
<1>7. BuffersOf(h2, Open) = BuffersOf(h2, S) + Counted(h2[a])
  BY <1>2, <1>3, BufferAdds
<1>8. EstimatesOf(h2, S) \in Nat /\ BuffersOf(h2, S) \in Nat
  BY <1>2, <1>3, HoldsSums
<1> QED BY <1>1, <1>4, <1>5, <1>6, <1>7, <1>8, BooksParts DEF HoldsBalance
\* A record that states no money: the heartbeat's, the chunk's, the manifest's.
LEMMA HeartbeatIsFree ==
  ASSUME NEW a, NEW r, r = [Blank EXCEPT !.kind = "heartbeat", !.auth = a]
  PROVE  MoneyFree(r)
  BY DEF MoneyFree, Blank, Terminals

LEMMA HandoffIsFree ==
  ASSUME NEW k \in {"handoff", "manifest"}, NEW r,
         r = [Blank EXCEPT !.kind = k, !.holds = Open]
  PROVE  MoneyFree(r) /\ r.kind /= "checkpoint"
  BY DEF MoneyFree, Blank, Terminals

\* A heartbeat's record moves no money; a stream's first counts its buffer.
LEMMA HeartbeatBooks ==
  ASSUME Inv, BooksInv, NEW a \in Auths, NEW c \in Charges, Heartbeat(a, c)
  PROVE  BooksInv'
<1>1. PICK r : r = [Blank EXCEPT !.kind = "heartbeat", !.auth = a]
  OBVIOUS
<1>2. /\ hold[a].state = "open" /\ hold[a].mode /= "request"
      /\ log' = log \o <<r>> /\ acked' = acked
      /\ buffer' = buffer + (IF hold[a].heartbeat THEN 0 ELSE Overrun[hold[a].estimate])
      /\ hold' = [hold EXCEPT ![a].heartbeat = TRUE, ![a].running = c,
                              ![a].snapSeq = Len(log) + 1]
      /\ UNCHANGED <<allocation, held, consumed, pending, shortfall>>
  BY <1>1 DEF Heartbeat, HandOver
<1>3. r \in RecordType /\ MoneyFree(r)
  BY <1>1, HeartbeatRecordType, HeartbeatIsFree
<1>4. RecordsBalance'
  <2>1. Balanced(log \o <<r>>, acked, allocation, consumed, pending, shortfall)
    BY <1>3, BooksParts, BlankBalances DEF RecordsBalance
  <2> QED BY <1>2, <2>1 DEF RecordsBalance
<1>5. /\ hold[a] \in HoldType /\ a \in Open
      /\ hold'[a].estimate = hold[a].estimate /\ hold'[a].mode = hold[a].mode
      /\ hold'[a].heartbeat = TRUE /\ hold'[a].state = hold[a].state
      /\ \A b \in Auths : b /= a => hold'[b] = hold[b]
  BY <1>2, BooksParts DEF Open, HoldType
<1>6. Open' = Open /\ Admitted' = Admitted /\ Open \subseteq Auths
  <2>1. \A b \in Auths : hold'[b].state = hold[b].state
    BY <1>5
  <2> QED BY <2>1 DEF Open, Admitted
<1>7. /\ Overrun[hold[a].estimate] \in Nat /\ hold[a].estimate \in Nat
  BY <1>2, ConstantTypes DEF Inv, TypeOK, HoldsType
<1>8. Counted(hold'[a]) = Overrun[hold[a].estimate]
  BY <1>5 DEF Counted
<1>9. Counted(hold[a]) = IF hold[a].heartbeat THEN Overrun[hold[a].estimate] ELSE 0
  BY <1>2 DEF Counted
<1>10. HoldsSame(hold, hold', Open \ {a}) /\ HoldsKnown(hold', {a})
  <2>1. HoldsSame(hold, hold', Open \ {a})
    BY <1>5, <1>6 DEF HoldsSame
  <2>2. HoldsKnown(hold', {a})
    BY <1>5, <1>7, <1>8 DEF HoldsKnown
  <2> QED BY <2>1, <2>2
<1>11. held' = EstimatesOf(hold', Open')
  <2>1. held = EstimatesOf(hold', Open \ {a}) + hold[a].estimate
    BY <1>5, <1>10, OneHold
  <2>2. EstimatesOf(hold', Open) = EstimatesOf(hold', Open \ {a}) + hold'[a].estimate
    BY <1>5, <1>10, OneHold
  <2> QED BY <1>2, <1>5, <1>6, <2>1, <2>2
<1>12. buffer' = BuffersOf(hold', Open')
  <2>1. buffer = BuffersOf(hold', Open \ {a}) + Counted(hold[a])
    BY <1>5, <1>10, OneHold
  <2>2. BuffersOf(hold', Open) = BuffersOf(hold', Open \ {a}) + Counted(hold'[a])
    BY <1>5, <1>10, OneHold
  <2>3. BuffersOf(hold', Open \ {a}) \in Nat
    BY <1>5, <1>10, OneHold
  <2>4. CASE hold[a].heartbeat
    <3>1. buffer' = buffer + 0 /\ Counted(hold[a]) = Counted(hold'[a])
      BY <1>2, <1>8, <1>9, <2>4
    <3>2. buffer \in Int
      BY BooksParts
    <3> QED BY <1>6, <2>1, <2>2, <3>1, <3>2
  <2>5. CASE ~hold[a].heartbeat
    <3>1. buffer' = buffer + Counted(hold'[a]) /\ Counted(hold[a]) = 0
      BY <1>2, <1>8, <1>9, <2>5
    <3>2. buffer = BuffersOf(hold', Open \ {a})
      BY <2>1, <2>3, <3>1
    <3> QED BY <1>6, <2>2, <3>1, <3>2
  <2> QED BY <2>4, <2>5
<1>13. HoldsBalance'
  BY <1>11, <1>12 DEF HoldsBalance
<1> QED BY <1>4, <1>6, <1>13, BooksAre DEF BooksInv

\* What decide hands over (requests.go decide).
TerminalRecord(r, a, k, charge, from, raise) ==
  /\ r.kind = k /\ r.auth = a /\ r.charge = Charged(k, charge)
  /\ r.freed = Freed(k, charge, hold[a].estimate)
  /\ r.shortfall = shortfall + Overdrawn(a, Charged(k, charge), raise)
  /\ r.drain = from /\ r.raise = raise /\ r.return = 0

LEMMA DecideRecord ==
  ASSUME Inv, NEW a \in Auths, NEW k \in Terminals, NEW charge \in Nat,
         NEW from \in Nat, NEW raise \in Nat, Decide(a, k, charge, from, raise)
  PROVE  /\ \E r \in RecordType :
                log' = log \o <<r>> /\ TerminalRecord(r, a, k, charge, from, raise)
         /\ acked' = acked
<1> DEFINE charged == Charged(k, charge)
           freed == Freed(k, charge, hold[a].estimate)
           short == Overdrawn(a, charged, raise)
           r == [Blank EXCEPT !.kind = k, !.auth = a, !.charge = charged,
                      !.freed = freed, !.shortfall = shortfall + short,
                      !.drain = from, !.raise = raise]
<1>1. BooksType /\ HoldsType
  BY DEF Inv, TypeOK
<1>2. hold[a].estimate \in Nat
  BY <1>1 DEF HoldsType, HoldType
<1>3. charged \in Nat
  BY DEF Charged
<1>4. freed \in Nat
  BY <1>2, <1>3, PosType DEF Freed
<1>5. shortfall + short \in Nat
  BY <1>1, <1>2, <1>3, PosType DEF Overdrawn, BooksType
<1>6. log' = log \o <<r>> /\ acked' = acked
  BY DEF Decide, HandOver
<1> HIDE DEF charged, freed, short
<1>7. r \in RecordType
  <2> DEFINE r1 == [Blank EXCEPT !.kind = k]
             r2 == [r1 EXCEPT !.auth = a]
             r3 == [r2 EXCEPT !.charge = charged]
             r4 == [r3 EXCEPT !.freed = freed]
             r5 == [r4 EXCEPT !.shortfall = shortfall + short]
             r6 == [r5 EXCEPT !.drain = from]
             r7 == [r6 EXCEPT !.raise = raise]
  <2>1. r2 \in RecordType
    <3>1. r1 \in RecordType
      BY BlankType, RecordFields DEF Kinds
    <3> QED BY <3>1, RecordFields
  <2>2. r4 \in RecordType
    <3>1. r3 \in RecordType
      BY <1>3, <2>1, RecordFields
    <3> QED BY <1>4, <3>1, RecordFields
  <2>3. r6 \in RecordType
    <3>1. r5 \in RecordType
      BY <1>5, <2>2, RecordFields
    <3> QED BY <3>1, RecordFields
  <2> QED BY <2>3, RecordFields
<1>8. /\ r.kind = k /\ r.auth = a /\ r.charge = charged /\ r.freed = freed
      /\ r.shortfall = shortfall + short /\ r.drain = from /\ r.raise = raise
      /\ r.return = 0
  BY DEF Blank
<1>9. TerminalRecord(r, a, k, charge, from, raise)
  BY <1>8 DEF TerminalRecord, charged, freed, short
<1> HIDE DEF r
<1> QED BY <1>6, <1>7, <1>9

\* decide's record states what the books' figures move by.
LEMMA DecideBooks ==
  ASSUME Inv, BooksInv, NEW a \in Auths, NEW k \in Terminals, NEW charge \in Nat,
         NEW from \in Nat, NEW raise \in Nat, Decide(a, k, charge, from, raise)
  PROVE  BooksInv'
<1>0. PICK r \in RecordType :
        log' = log \o <<r>> /\ TerminalRecord(r, a, k, charge, from, raise)
  BY DecideRecord
<1>1. /\ log' = log \o <<r>> /\ acked' = acked
      /\ r.kind = k /\ r.charge = Charged(k, charge)
      /\ r.freed = Freed(k, charge, hold[a].estimate)
      /\ r.shortfall = shortfall + Overdrawn(a, Charged(k, charge), raise)
      /\ r.raise = raise /\ r.return = 0
  BY <1>0, DecideRecord DEF TerminalRecord
<1>2. /\ hold[a].state = "open"
      /\ held' = held - hold[a].estimate
      /\ consumed' = consumed + r.charge
      /\ allocation' = allocation + raise + Overdrawn(a, Charged(k, charge), raise)
      /\ shortfall' = r.shortfall
      /\ buffer' = buffer - Counted(hold[a])
      /\ pending' = pending + r.freed
      /\ hold' = [hold EXCEPT ![a] = [UnusedHold EXCEPT !.state = "decided",
                                        !.estimate = hold[a].estimate]]
  BY <1>1 DEF Decide, Undecided
<1>3. PICK short \in Int : short = Overdrawn(a, Charged(k, charge), raise)
  <2>1. Charged(k, charge) \in Nat
    BY DEF Charged
  <2>2. hold[a].estimate \in Nat
    BY BooksParts DEF HoldType
  <2>3. consumed \in Int /\ held \in Int /\ allocation \in Int
    BY BooksParts
  <2>4. Overdrawn(a, Charged(k, charge), raise) \in Int
    BY <2>1, <2>2, <2>3, PosType DEF Overdrawn
  <2> QED BY <2>4
<1>4. RecordsBalance'
  <2>1. PICK sh2 : sh2 = r.shortfall
    OBVIOUS
  <2>2. sh2 = NextTotal(r, shortfall)
    BY <1>1, <2>1 DEF NextTotal
  <2>3. Balanced(log \o <<r>>, acked,
                 allocation + (sh2 - shortfall) + r.raise - r.return,
                 consumed + r.charge, pending + r.freed, sh2)
    BY <2>2, BooksParts, RecordBalances DEF RecordsBalance
  <2>4. allocation' = allocation + (sh2 - shortfall) + r.raise - r.return
    <3>1. allocation \in Int /\ shortfall \in Int /\ raise \in Int
      BY BooksParts
    <3>2. sh2 = shortfall + short /\ r.raise = raise /\ r.return = 0
          /\ allocation' = allocation + raise + short
      BY <1>1, <1>2, <1>3, <2>1
    <3> QED BY <3>1, <3>2
  <2> QED BY <1>1, <1>2, <2>1, <2>3, <2>4 DEF RecordsBalance
<1>5. /\ hold'[a].state = "decided" /\ hold'[a].estimate = hold[a].estimate
      /\ hold'[a] \in HoldType
      /\ \A b \in Auths : b /= a => hold'[b] = hold[b]
  <2>1. hold[a].estimate \in Nat
    BY BooksParts DEF HoldType
  <2> QED BY <1>2, <2>1, BooksParts DEF UnusedHold, HoldType
<1>6. a \in Open /\ Open' = Open \ {a} /\ Admitted' = Admitted /\ Open \subseteq Auths
  <2>1. Open' = Open \ {a} /\ a \in Open
    BY <1>2, <1>5 DEF Open
  <2>2. Admitted' = Admitted
    BY <1>2, <1>5 DEF Admitted
  <2> QED BY <2>1, <2>2 DEF Open
<1>7. HoldsSame(hold, hold', Open \ {a})
  BY <1>5, <1>6 DEF HoldsSame
<1>8. HoldsKnown(hold', {a})
  <2>1. hold[a].estimate \in Estimates /\ hold[a].estimate \in Nat
    BY <1>2, ConstantTypes DEF Inv, TypeOK, HoldsType
  <2>2. Counted(hold'[a]) \in Nat
    BY <1>5, <2>1, CountedType
  <2> QED BY <1>5, <2>1, <2>2 DEF HoldsKnown
<1>9. held' = EstimatesOf(hold', Open')
  <2>1. held = EstimatesOf(hold', Open \ {a}) + hold[a].estimate
    BY <1>6, <1>7, <1>8, OneHold
  <2>2. EstimatesOf(hold', Open \ {a}) \in Nat
    BY <1>6, <1>7, <1>8, OneHold
  <2>3. hold[a].estimate \in Nat
    BY BooksParts DEF HoldType
  <2> QED BY <1>2, <1>6, <2>1, <2>2, <2>3
<1>10. buffer' = BuffersOf(hold', Open')
  <2>1. buffer = BuffersOf(hold', Open \ {a}) + Counted(hold[a])
    BY <1>6, <1>7, <1>8, OneHold
  <2>2. BuffersOf(hold', Open \ {a}) \in Nat
    BY <1>6, <1>7, <1>8, OneHold
  <2>3. Counted(hold[a]) \in Nat
    BY <1>6, OpenKnown DEF HoldsKnown
  <2> QED BY <1>2, <1>6, <2>1, <2>2, <2>3
<1>11. HoldsBalance'
  BY <1>9, <1>10 DEF HoldsBalance
<1> QED BY <1>4, <1>6, <1>11, BooksAre DEF BooksInv
\* The terminals decide is asked for: a request's or the reaper's raises
\* nothing, and an adoption's is its drain-log row's (adopt.go adopt).
DecidedFrom(a, k, charge, from, raise) ==
  \/ from = 0 /\ raise = 0
  \/ /\ from \in 1 .. Len(drain)
     /\ a = drain[from].auth /\ k = drain[from].kind
     /\ charge = drain[from].charge /\ raise = drain[from].raise

DecideStep ==
  \E a \in Auths, k \in Terminals, charge \in Nat, from \in Nat, raise \in Nat :
    /\ Decide(a, k, charge, from, raise)
    /\ DecidedFrom(a, k, charge, from, raise)
    /\ UNCHANGED rowVars

LEMMA AdoptDecides ==
  ASSUME Inv, NEW i \in 1 .. Len(drain), Adopt(i), UNCHANGED rowVars
  PROVE  DecideStep
<1>1. /\ drain[i].auth \in Auths /\ drain[i].charge \in Nat /\ i \in Nat
      /\ drain[i].kind \in Terminals /\ drain[i].raise \in Nat
  BY DrainRows DEF Inv, TypeOK, Terminals
<1>2. Decide(drain[i].auth, drain[i].kind, drain[i].charge, i, drain[i].raise)
  BY DEF Adopt
<1>3. DecidedFrom(drain[i].auth, drain[i].kind, drain[i].charge, i, drain[i].raise)
  BY DEF DecidedFrom
<1> HIDE DEF Decide, DecidedFrom
<1> QED BY <1>1, <1>2, <1>3 DEF DecideStep

LEMMA OwnDecides ==
  ASSUME NEW a \in Auths, NEW k \in Terminals, NEW c \in Nat, Decide(a, k, c, 0, 0),
         UNCHANGED rowVars
  PROVE  DecideStep
<1>1. DecidedFrom(a, k, c, 0, 0) /\ 0 \in Nat
  BY DEF DecidedFrom
<1> QED BY <1>1 DEF DecideStep

\* What the books' parts a step may change: nothing, or by one operation.
BooksQuietStep == UNCHANGED <<books, hold, log, acked>>

BooksStep ==
  \/ BooksQuietStep
  \/ \E a \in Auths, e \in Estimates, m \in Modes : Admit(a, e, m)
  \/ \E a \in Auths, c \in Charges : Heartbeat(a, c)
  \/ DecideStep
  \/ FlushAck \/ Checkpoint \/ Handoff \/ HandoffCut

LEMMA RequestBooks ==
  ASSUME Request
  PROVE  BooksStep
<1>1. ASSUME NEW a \in Auths, NEW c \in Charges, Settle(a, c) PROVE DecideStep
  <2>1. Decide(a, "settle", c, 0, 0) /\ UNCHANGED rowVars
    BY <1>1 DEF Settle
  <2>2. "settle" \in Terminals /\ c \in Nat
    BY ConstantTypes DEF Terminals
  <2> QED BY <2>1, <2>2, OwnDecides
<1>2. ASSUME NEW a \in Auths, Refund(a) PROVE DecideStep
  <2>1. Decide(a, "refund", 0, 0, 0) /\ UNCHANGED rowVars
    BY <1>2 DEF Refund
  <2>2. "refund" \in Terminals /\ 0 \in Nat
    BY DEF Terminals
  <2> QED BY <2>1, <2>2, OwnDecides
<1> QED BY <1>1, <1>2 DEF Request, BooksStep

LEMMA RoundBooks ==
  ASSUME Inv, Round
  PROVE  BooksStep
<1>1. CASE AdoptNext
  <2>1. CASE Adopt(adoption.next)
    <3>1. /\ adoption.next \in Nat /\ adoption.last \in Nat /\ Len(drain) \in Nat
          /\ adoption.last <= Len(drain) /\ adoption.next >= 1
          /\ adoption.next <= adoption.last
      BY <1>1, DrainRows DEF AdoptNext, Inv, TypeOK, WorkType, PlacesType
    <3>2. adoption.next \in 1 .. Len(drain)
      BY <3>1
    <3>3. UNCHANGED rowVars
      BY <1>1 DEF AdoptNext
    <3> QED BY <2>1, <3>2, <3>3, AdoptDecides DEF BooksStep
  <2>2. CASE UNCHANGED <<books, hold, pipe, logVars>>
    BY <2>2 DEF BooksStep, BooksQuietStep, pipe
  <2> QED BY <1>1, <2>1, <2>2 DEF AdoptNext
<1>2. CASE Checkpoint
  BY <1>2 DEF BooksStep
<1>3. CASE RoundQuiet \/ FinishMarks \/ FinishLease
  <2>1. UNCHANGED books /\ UNCHANGED hold /\ UNCHANGED pipe
    BY <1>3 DEF RoundQuiet, RoundBegin, RenewCommits, RenewFails, Renewed,
                RenewRefused, AdoptRead, AdoptFails, AdoptDone, LetIfAbandoned,
                FinishMarks, FinishLease
  <2> QED BY <2>1 DEF BooksStep, BooksQuietStep, pipe
<1> QED BY <1>1, <1>2, <1>3 DEF Round, RoundQuiet

LEMMA ReaperBooks ==
  ASSUME Inv, Reaper
  PROVE  BooksStep
<1>1. CASE ReapAdopts
  <2>1. Adopt(FirstRow(reaper.auth)) /\ RowsOf(reaper.auth) /= {}
    BY <1>1 DEF ReapAdopts
  <2>2. Len(drain) \in Nat /\ \A i \in 1 .. Len(drain) : drain[i].auth \in Auths
    BY DrainRows DEF Inv, TypeOK
  <2>3. reaper.auth \in Auths
    BY <2>1, <2>2 DEF RowsOf
  <2>4. FirstRow(reaper.auth) \in 1 .. Len(drain)
    BY <2>1, <2>2, <2>3, FirstRowOf DEF RowsOf
  <2>5. UNCHANGED rowVars
    BY <1>1 DEF ReapAdopts
  <2> QED BY <2>1, <2>4, <2>5, AdoptDecides DEF BooksStep
<1>2. CASE ReapDecides
  <2>1. /\ Decide(reaper.auth, reaper.kind, reaper.charge, 0, 0)
        /\ UNCHANGED rowVars /\ reaper.auth \in Auths
    BY <1>2 DEF ReapDecides, Open
  <2>2. reaper.kind \in Terminals /\ reaper.charge \in Nat
    BY DEF Inv, TypeOK, WorkType, ReaperType, Terminals
  <2> QED BY <2>1, <2>2, OwnDecides DEF BooksStep
<1>3. CASE \E a \in Auths : ReleaseDue(a)
  <2>1. PICK a \in Auths : ReleaseDue(a)
    BY <1>3
  <2>2. Decide(a, "release", 0, 0, 0) /\ UNCHANGED rowVars
    BY <2>1 DEF ReleaseDue
  <2>3. "release" \in Terminals /\ 0 \in Nat
    BY DEF Terminals
  <2> QED BY <2>2, <2>3, OwnDecides DEF BooksStep
<1>4. CASE (\E a \in Auths : ReapScan(a)) \/ ReapUndrained \/ ReapGivesUp
  <2>1. UNCHANGED books /\ UNCHANGED hold /\ UNCHANGED pipe
    BY <1>4 DEF ReapScan, ReapUndrained, ReapGivesUp
  <2> QED BY <2>1 DEF BooksStep, BooksQuietStep, pipe
<1> QED BY <1>1, <1>2, <1>3, <1>4 DEF Reaper

\* Every step is one of them.
LEMMA NextBooks == Inv /\ [Next]_vars => BooksStep
<1> SUFFICES ASSUME Inv, [Next]_vars PROVE BooksStep
  OBVIOUS
<1>1. CASE FlushFail \/ RepublishBegin \/ RepublishNext
  <2>1. UNCHANGED <<books, hold, log, acked>>
    BY <1>1 DEF FlushFail, RepublishBegin, RepublishNext, pipe
  <2> QED BY <2>1 DEF BooksStep, BooksQuietStep
<1>2. CASE Flusher
  BY <1>1, <1>2 DEF Flusher, BooksStep
<1>3. CASE Sender \/ FailLong \/ StopWorkers \/ Close \/ PassCutoff \/ Switch
  <2>1. UNCHANGED books /\ UNCHANGED hold /\ UNCHANGED pipe
    BY <1>3 DEF Sender, FailLong, StopWorkers, Close, PassCutoff, Switch
  <2> QED BY <2>1 DEF BooksStep, BooksQuietStep, pipe
<1>4. CASE Auditor \/ RowRevoked \/ RowExpires \/ FrontDoor
  <2>1. UNCHANGED books /\ UNCHANGED hold /\ UNCHANGED pipe
    BY <1>4 DEF Auditor, RowRevoked, RowExpires, FrontDoor, DrainAppend
  <2> QED BY <2>1 DEF BooksStep, BooksQuietStep, pipe
<1>5. CASE HandoffMarks \/ HandoffEnds \/ Stop \/ Writer
  <2>1. UNCHANGED books /\ UNCHANGED hold /\ UNCHANGED pipe
    BY <1>5 DEF HandoffMarks, HandoffEnds, Stop, Writer, WriterSends, WriterLands,
                WriterAnswered, WriterRetries
  <2> QED BY <2>1 DEF BooksStep, BooksQuietStep, pipe
<1>6. CASE Handoffs
  BY <1>5, <1>6 DEF Handoffs, BooksStep
<1>7. CASE UNCHANGED vars
  <2>1. UNCHANGED books /\ UNCHANGED hold /\ UNCHANGED pipe
    BY <1>7 DEF vars
  <2> QED BY <2>1 DEF BooksStep, BooksQuietStep, pipe
<1> QED
  BY <1>2, <1>3, <1>4, <1>5, <1>6, <1>7, RequestBooks, RoundBooks, ReaperBooks DEF Next

\* An acknowledgement takes what the record freed out of what is pending.
LEMMA FlushAckBooks ==
  ASSUME Inv, BooksInv, FlushAck
  PROVE  BooksInv'
<1>1. /\ acked' = acked + 1 /\ pending' = pending - log[acked + 1].freed
      /\ Inflight > 0
      /\ UNCHANGED <<allocation, held, consumed, buffer, shortfall, hold, log>>
  BY DEF FlushAck
<1>2. acked \in 0 .. Len(log) - 1
  BY <1>1, BooksParts DEF Inflight
<1>3. Balanced(log, acked + 1, allocation, consumed, pending - log[acked + 1].freed,
               shortfall)
  BY <1>2, BooksParts, AckBalances DEF RecordsBalance
<1>4. RecordsBalance'
  BY <1>1, <1>3 DEF RecordsBalance
<1>5. HoldsBalance' /\ IsFiniteSet(Admitted')
  BY <1>1, HoldsQuiet
<1> QED BY <1>4, <1>5, BooksAre DEF BooksInv

\* A checkpoint's return leaves the allocation with its record.
LEMMA CheckpointBooks ==
  ASSUME Inv, BooksInv, Checkpoint
  PROVE  BooksInv'
<1>1. UNCHANGED <<held, consumed, pending, buffer, shortfall, hold>>
  BY DEF Checkpoint
<1>2. HoldsBalance' /\ IsFiniteSet(Admitted')
  BY <1>1, HoldsQuiet
<1>3. CASE final = 0 /\ CanHandOver(1)
  <2>1. PICK r : r = [Blank EXCEPT !.consumed = consumed, !.openSum = held,
                                   !.return = ReturnOf]
    OBVIOUS
  <2>2. log' = log \o <<r>> /\ acked' = acked /\ allocation' = allocation - ReturnOf
    BY <1>3, <2>1 DEF Checkpoint, HandOver
  <2>3. ReturnOf \in Nat
    <3>1. Free \in Int
      BY BooksParts DEF Free
    <3> QED BY <3>1, PosType DEF ReturnOf
  <2>4. r \in RecordType /\ r.kind \notin Terminals
    BY <2>1, <2>3, BooksParts, CheckpointRecordType
  <2>5. r.raise = 0 /\ r.charge = 0 /\ r.freed = 0 /\ r.return = ReturnOf
    BY <2>1 DEF Blank
  <2>6. shortfall = NextTotal(r, shortfall)
    BY <2>4 DEF NextTotal
  <2>7. Balanced(log \o <<r>>, acked,
                 allocation + (shortfall - shortfall) + r.raise - r.return,
                 consumed + r.charge, pending + r.freed, shortfall)
    BY <2>4, <2>6, BooksParts, RecordBalances DEF RecordsBalance
  <2>8. /\ allocation + (shortfall - shortfall) + r.raise - r.return
             = allocation - ReturnOf
        /\ consumed + r.charge = consumed /\ pending + r.freed = pending
    BY <2>3, <2>5, BooksParts
  <2>9. Balanced(log', acked', allocation', consumed', pending', shortfall')
    BY <1>1, <2>2, <2>7, <2>8
  <2> QED BY <1>2, <2>9, BooksAre DEF BooksInv, RecordsBalance
<1>4. CASE ~(final = 0 /\ CanHandOver(1))
  <2>1. UNCHANGED <<allocation, pipe>>
    BY <1>4 DEF Checkpoint
  <2> QED BY <1>1, <2>1, BooksQuiet DEF books, pipe
<1> QED BY <1>3, <1>4

\* A hand-off's records, with or without the chunk, move no money.
HandoffLog(c, x) ==
  /\ MoneyFree(c) /\ MoneyFree(x)
  /\ c.kind /= "checkpoint" /\ x.kind /= "checkpoint"
  /\ \/ log' = log \/ log' = log \o <<c>> \/ log' = log \o <<x>>
     \/ log' = (log \o <<c>>) \o <<x>>

LEMMA HandoffIssues ==
  ASSUME Inv, Handoff \/ HandoffCut
  PROVE  /\ \E c, x \in RecordType : HandoffLog(c, x)
         /\ acked' = acked /\ UNCHANGED books /\ hold' = hold
<1>1. UNCHANGED books /\ hold' = hold
  BY DEF Handoff, HandoffCut
<1>2. PICK c : c = HandoffChunk
  OBVIOUS
<1>3. PICK x : x = [Blank EXCEPT !.kind = "manifest", !.holds = Open]
  OBVIOUS
<1>4. /\ c \in RecordType /\ MoneyFree(c) /\ x \in RecordType /\ MoneyFree(x)
      /\ c.kind /= "checkpoint" /\ x.kind /= "checkpoint"
  <2>1. c = [Blank EXCEPT !.kind = "handoff", !.holds = Open]
    BY <1>2 DEF HandoffChunk
  <2> QED BY <1>3, <2>1, HandoffRecordType, HandoffIsFree
<1>5. /\ acked' = acked
      /\ \/ log' = log \/ log' = log \o <<c>> \/ log' = log \o <<x>>
         \/ log' = (log \o <<c>>) \o <<x>>
  <2>1. CASE Handoff
    <3>1. acked' = acked /\ log' = log \o HandoffRecords
      BY <2>1 DEF Handoff, HandOver
    <3>2. CASE Open = {}
      <4>1. HandoffRecords = <<>> \o <<x>>
        BY <1>3, <3>2 DEF HandoffRecords
      <4>2. <<>> \o <<x>> = <<x>>
        OBVIOUS
      <4> QED BY <3>1, <4>1, <4>2
    <3>3. CASE Open /= {}
      <4>1. HandoffRecords = <<c>> \o <<x>>
        BY <1>2, <1>3, <3>3 DEF HandoffRecords
      <4>2. /\ log \in Seq(RecordType) /\ <<c>> \in Seq(RecordType)
            /\ <<x>> \in Seq(RecordType)
        BY <1>4 DEF Inv, TypeOK, PipeType
      <4>3. log \o (<<c>> \o <<x>>) = (log \o <<c>>) \o <<x>>
        BY <4>2, ConcatAssociative
      <4> QED BY <3>1, <4>1, <4>3
    <3> QED BY <3>2, <3>3
  <2>2. CASE HandoffCut
    BY <1>2, <2>2 DEF HandoffCut, HandOver, pipe
  <2> QED BY <2>1, <2>2
<1>6. HandoffLog(c, x)
  BY <1>4, <1>5 DEF HandoffLog
<1> QED BY <1>1, <1>4, <1>5, <1>6

LEMMA HandoffBooks ==
  ASSUME Inv, BooksInv, Handoff \/ HandoffCut
  PROVE  BooksInv'
<1>1. acked' = acked /\ UNCHANGED books /\ hold' = hold
  BY HandoffIssues
<1>2. PICK c, x \in RecordType : HandoffLog(c, x)
  BY HandoffIssues
<1>3. ASSUME NEW r \in RecordType, MoneyFree(r)
      PROVE  Balanced(log \o <<r>>, acked, allocation, consumed, pending, shortfall)
  BY <1>3, BooksParts, BlankBalances DEF RecordsBalance
<1>4. Balanced((log \o <<c>>) \o <<x>>, acked, allocation, consumed, pending, shortfall)
  <2>1. PICK l : l = log \o <<c>>
    OBVIOUS
  <2>2. l \in Seq(RecordType) /\ Len(l) = Len(log) + 1
    BY <2>1, BooksParts
  <2>3. acked \in 0 .. Len(l)
    BY <2>2, BooksParts
  <2>4. Balanced(l, acked, allocation, consumed, pending, shortfall)
    BY <1>2, <1>3, <2>1 DEF HandoffLog
  <2>5. MoneyFree(x)
    BY <1>2 DEF HandoffLog
  <2> QED BY <2>1, <2>2, <2>3, <2>4, <2>5, BlankBalances
<1>5. Balanced(log', acked, allocation, consumed, pending, shortfall)
  BY <1>2, <1>3, <1>4, BooksParts DEF RecordsBalance, HandoffLog
<1>6. RecordsBalance'
  BY <1>1, <1>5 DEF RecordsBalance, books
<1>7. HoldsBalance' /\ IsFiniteSet(Admitted')
  BY <1>1, HoldsQuiet DEF books
<1> QED BY <1>6, <1>7, BooksAre DEF BooksInv

LEMMA NextBooksInv == Inv /\ BooksInv /\ [Next]_vars => BooksInv'
<1> SUFFICES ASSUME Inv, BooksInv, BooksStep PROVE BooksInv'
  BY NextBooks
<1>1. CASE DecideStep
  BY <1>1, DecideBooks DEF DecideStep
<1>2. CASE BooksQuietStep
  BY <1>2, BooksQuiet DEF BooksQuietStep
<1> QED
  BY <1>1, <1>2, AdmitBooks, HeartbeatBooks, FlushAckBooks, CheckpointBooks,
     HandoffBooks DEF BooksStep

\* With no record and no hold every sum is 0, and the allocation is the grant.
LEMMA InitBooksInv == Init => BooksInv
<1> SUFFICES ASSUME Init PROVE BooksInv
  OBVIOUS
<1>1. /\ allocation = Granted /\ held = 0 /\ consumed = 0 /\ pending = 0
      /\ buffer = 0 /\ shortfall = 0 /\ log = <<>> /\ acked = 0
      /\ hold = [a \in Auths |-> UnusedHold]
  BY DEF Init
<1>2. Open = {} /\ Admitted = {}
  BY <1>1 DEF Open, Admitted, UnusedHold
<1>3. HoldsBalance
  <2>1. EstimatesOf(hold, {}) = 0
    BY SumOfNone DEF EstimatesOf
  <2>2. BuffersOf(hold, {}) = 0
    BY SumOfNone DEF BuffersOf
  <2> QED BY <1>1, <1>2, <2>1, <2>2 DEF HoldsBalance
<1>4. Len(log) = 0 /\ 1 .. 0 = {} /\ 0 + 1 = 1
  BY <1>1
<1>5. ChargesOf(log, 0) = 0
  BY <1>4, SumOfNone DEF ChargesOf
<1>6. RaisesOf(log, 0) = 0
  BY <1>4, SumOfNone DEF RaisesOf
<1>7. ReturnsOf(log, 0) = 0
  BY <1>4, SumOfNone DEF ReturnsOf
<1>8. FreedOf(log, 1, 0) = 0
  BY <1>4, SumOfNone DEF FreedOf
<1>9. TotalOf(log, 0) = 0
  BY <1>4 DEF TotalOf, TotalAt, TerminalsOf
<1>10. AllocatedOf(log, 0) = Granted
  BY <1>6, <1>7, <1>9, GrantedAssumption DEF AllocatedOf
<1>11. RecordsBalance
  BY <1>1, <1>4, <1>5, <1>8, <1>9, <1>10 DEF RecordsBalance, Balanced
<1> QED BY <1>2, <1>3, <1>11, BooksAre, FS_EmptySet DEF BooksInv

\* The owner's books are what its holds and records sum to, after any sequence
\* of admissions, heartbeats, terminals, adoptions, acknowledgements,
\* checkpoints and hand-offs, whatever the estimates and charges (owner.go).
THEOREM BooksAreBalanced == Spec => []BooksBalance
<1>1. BooksInv => BooksBalance
  BY DEF BooksInv
<1> QED BY <1>1, InitInv, NextInv, InitBooksInv, NextBooksInv, PTL DEF Spec

-----------------------------------------------------------------------------
(* Whatever prefix of the records the log keeps, its allocation covers what   *)
(* it books and leaves open (StoredPrefixCovers).  What a prefix leaves room  *)
(* for falls short of what the owner has now by no more than what the records *)
(* after it freed, and that much is pending.                                  *)

\* Whose terminal is among the records 1 .. m of l, and the room those records
\* leave when the authorizations A were admitted.
EndedOf(l, m) ==
  {a \in Auths : \E n \in 1 .. m : l[n].auth = a /\ l[n].kind \in Terminals}
LeftOf(l, A, m) == A \ EndedOf(l, m)
RoomOf(l, h, A, m) ==
  AllocatedOf(l, m) - ChargesOf(l, m) - EstimatesOf(h, LeftOf(l, A, m))

\* Every prefix from k on has room, and with what the later records freed as
\* much as the whole log.
Covered(l, k, h, A) ==
  \A m \in k .. Len(l) :
    /\ RoomOf(l, h, A, m) >= 0
    /\ RoomOf(l, h, A, m) + FreedOf(l, m + 1, Len(l)) >= RoomOf(l, h, A, Len(l))

LEMMA AllocatedType ==
  ASSUME NEW l \in Seq(RecordType), NEW m \in 0 .. Len(l)
  PROVE  AllocatedOf(l, m) \in Int
<1>1. RaisesOf(l, m) \in Nat
  BY LogSums
<1>2. ReturnsOf(l, m) \in Nat
  BY LogSums
<1>3. TotalOf(l, m) \in Nat
  BY TotalType
<1> QED BY <1>1, <1>2, <1>3, GrantedAssumption DEF AllocatedOf

LEMMA LeftSums ==
  ASSUME NEW l, NEW m, NEW h, NEW A, IsFiniteSet(A), HoldsKnown(h, A)
  PROVE  EstimatesOf(h, LeftOf(l, A, m)) \in Nat
<1>1. PICK S : S = LeftOf(l, A, m)
  OBVIOUS
<1>2. S \subseteq A
  BY <1>1 DEF LeftOf
<1>3. IsFiniteSet(S) /\ HoldsKnown(h, S)
  BY <1>2, FS_Subset DEF HoldsKnown
<1> QED BY <1>1, <1>3, HoldsSums

LEMMA RoomType ==
  ASSUME NEW l \in Seq(RecordType), NEW m \in 0 .. Len(l), NEW h, NEW A,
         IsFiniteSet(A), HoldsKnown(h, A)
  PROVE  RoomOf(l, h, A, m) \in Int
<1>1. AllocatedOf(l, m) \in Int
  BY AllocatedType
<1>2. ChargesOf(l, m) \in Nat
  BY LogSums
<1>3. EstimatesOf(h, LeftOf(l, A, m)) \in Nat
  BY LeftSums
<1> QED BY <1>1, <1>2, <1>3 DEF RoomOf

\* What the admitted holds' estimates are does not change.
SameEstimates(h, h2, A) == \A x \in A : h2[x].estimate = h[x].estimate

\* The log l2 is l with the record r more.
Grown(l, r, l2) == l \in Seq(RecordType) /\ r \in RecordType /\ l2 = l \o <<r>>

\* A record more leaves the room after the earlier ones.
LEMMA RoomStays ==
  ASSUME NEW l, NEW r, NEW l2, Grown(l, r, l2),
         NEW h, NEW h2, NEW A, SameEstimates(h, h2, A), NEW m \in 0 .. Len(l)
  PROVE  RoomOf(l2, h2, A, m) = RoomOf(l, h, A, m)
<1>1. m \in Nat /\ \A n \in 1 .. m : l2[n] = l[n]
  <2>1. Len(l) \in Nat /\ \A n \in 1 .. Len(l) : l2[n] = l[n]
    BY LogGrows DEF Grown
  <2> QED BY <2>1
<1>2. AllocatedOf(l2, m) = AllocatedOf(l, m) /\ ChargesOf(l2, m) = ChargesOf(l, m)
  BY <1>1, PrefixKept
<1>3. EndedOf(l2, m) = EndedOf(l, m)
  BY <1>1 DEF EndedOf
<1>4. LeftOf(l2, A, m) = LeftOf(l, A, m) /\ LeftOf(l, A, m) \subseteq A
  BY <1>3 DEF LeftOf
<1>5. EstimatesOf(h2, LeftOf(l2, A, m)) = EstimatesOf(h, LeftOf(l, A, m))
  <2>1. PICK S : S = LeftOf(l, A, m)
    OBVIOUS
  <2>2. [a \in S |-> h2[a].estimate] = [a \in S |-> h[a].estimate]
    BY <1>4, <2>1 DEF SameEstimates
  <2> QED BY <1>4, <2>1, <2>2 DEF EstimatesOf
<1> QED BY <1>2, <1>5 DEF RoomOf

\* With a record more every prefix is covered if the new room is there, and
\* more than the old by no more than the record frees.
LEMMA CoveredGrows ==
  ASSUME NEW l, NEW r, NEW l2, Grown(l, r, l2),
         NEW h, NEW h2, NEW A, SameEstimates(h, h2, A), IsFiniteSet(A),
         HoldsKnown(h, A), HoldsKnown(h2, A),
         NEW k \in 0 .. Len(l), Covered(l, k, h, A),
         RoomOf(l2, h2, A, Len(l) + 1) >= 0,
         RoomOf(l2, h2, A, Len(l) + 1) <= RoomOf(l, h, A, Len(l)) + r.freed
  PROVE  Covered(l2, k, h2, A)
<1>0. l \in Seq(RecordType) /\ r \in RecordType /\ l2 = l \o <<r>>
  BY DEF Grown
<1>1. PICK z \in Nat : z = Len(l)
  BY <1>0
<1>2. l2 \in Seq(RecordType) /\ Len(l2) = z + 1
  BY <1>0, <1>1, LogGrows
<1>3. PICK new \in Int : new = RoomOf(l2, h2, A, z + 1)
  <2>1. z + 1 \in 0 .. Len(l2)
    BY <1>2
  <2> QED BY <1>2, <2>1, RoomType
<1>4. PICK old \in Int : old = RoomOf(l, h, A, z)
  <2>1. z \in 0 .. Len(l)
    BY <1>1
  <2> QED BY <1>0, <2>1, RoomType
<1>5. PICK fr \in Nat : fr = r.freed
  BY <1>0 DEF RecordType
<1>6. new >= 0 /\ new <= old + fr
  BY <1>1, <1>3, <1>4, <1>5
<1>7. ASSUME NEW m \in k .. z
      PROVE  /\ RoomOf(l2, h2, A, m) >= 0
             /\ RoomOf(l2, h2, A, m) + FreedOf(l2, m + 1, z + 1) >= new
  <2>1. m \in 0 .. Len(l) /\ m + 1 \in 1 .. Len(l) + 1 /\ m \in k .. Len(l)
    BY <1>1, <1>7
  <2>2. RoomOf(l2, h2, A, m) = RoomOf(l, h, A, m)
    BY <2>1, RoomStays
  <2>3. PICK ro \in Int : ro = RoomOf(l, h, A, m)
    BY <1>0, <2>1, RoomType
  <2>4. FreedOf(l2, m + 1, z + 1) = FreedOf(l, m + 1, z) + fr
    BY <1>0, <1>1, <1>5, <2>1, FreedGrows
  <2>5. PICK fm \in Nat : fm = FreedOf(l, m + 1, z)
    <3>1. Len(l) \in 0 .. Len(l)
      BY <1>1
    <3>2. FreedOf(l, m + 1, Len(l)) \in Nat
      BY <1>0, <2>1, <3>1, LogSums
    <3> QED BY <1>1, <3>2
  <2>6. ro >= 0 /\ ro + fm >= old
    <3>1. /\ RoomOf(l, h, A, m) >= 0
          /\ RoomOf(l, h, A, m) + FreedOf(l, m + 1, Len(l)) >= RoomOf(l, h, A, Len(l))
      BY <2>1 DEF Covered
    <3> QED BY <1>1, <1>4, <2>3, <2>5, <3>1
  <2>7. ro + (fm + fr) >= new
    BY <1>6, <2>6
  <2> QED BY <2>2, <2>3, <2>4, <2>5, <2>6, <2>7
<1>8. /\ RoomOf(l2, h2, A, z + 1) >= 0
      /\ RoomOf(l2, h2, A, z + 1) + FreedOf(l2, (z + 1) + 1, z + 1) >= new
  <2>1. PICK fm \in Nat : fm = FreedOf(l2, (z + 1) + 1, z + 1)
    <3>1. z + 1 \in 0 .. Len(l2) /\ (z + 1) + 1 \in 1 .. (z + 1) + 1
      BY <1>2
    <3> QED BY <1>2, <3>1, LogSums
  <2>2. new + fm >= new
    OBVIOUS
  <2> QED BY <1>3, <1>6, <2>1, <2>2
<1>9. ASSUME NEW m \in k .. z + 1
      PROVE  /\ RoomOf(l2, h2, A, m) >= 0
             /\ RoomOf(l2, h2, A, m) + FreedOf(l2, m + 1, z + 1) >= new
  <2>1. m \in k .. z \/ m = z + 1
    OBVIOUS
  <2> QED BY <1>7, <1>8, <2>1
<1> QED BY <1>2, <1>3, <1>9 DEF Covered

\* A record that moves no money leaves the room.
LEMMA BlankRoom ==
  ASSUME NEW l, NEW r, NEW l2, Grown(l, r, l2),
         MoneyFree(r), NEW h, NEW h2, NEW A, SameEstimates(h, h2, A)
  PROVE  RoomOf(l2, h2, A, Len(l) + 1) = RoomOf(l, h, A, Len(l))
<1>0. l \in Seq(RecordType) /\ r \in RecordType /\ l2 = l \o <<r>>
  BY DEF Grown
<1>1. PICK z \in Nat : z = Len(l)
  BY <1>0
<1>2. /\ l2 \in Seq(RecordType) /\ Len(l2) = z + 1 /\ l2[z + 1] = r
      /\ \A n \in 1 .. z : l2[n] = l[n]
  BY <1>0, <1>1, LogGrows
<1>3. /\ AllocatedOf(l2, z + 1) = AllocatedOf(l, z)
      /\ ChargesOf(l2, z + 1) = ChargesOf(l, z)
  <2>1. Balanced(l, 0, AllocatedOf(l, z), ChargesOf(l, z), FreedOf(l, 0 + 1, z),
                 TotalOf(l, z))
    BY <1>1 DEF Balanced
  <2>2. Balanced(l2, 0, AllocatedOf(l, z), ChargesOf(l, z), FreedOf(l, 0 + 1, z),
                 TotalOf(l, z))
    <3>1. 0 \in 0 .. Len(l)
      BY <1>1
    <3> QED BY <1>0, <2>1, <3>1, BlankBalances
  <2> QED BY <1>2, <2>2 DEF Balanced
<1>4. EndedOf(l2, z + 1) = EndedOf(l, z)
  <2>1. r.kind \notin Terminals
    BY DEF MoneyFree
  <2>2. ASSUME NEW a, NEW n \in 1 .. z + 1, l2[n].auth = a, l2[n].kind \in Terminals
        PROVE  n \in 1 .. z /\ l[n].auth = a /\ l[n].kind \in Terminals
    BY <1>2, <2>1, <2>2
  <2>3. ASSUME NEW a, NEW n \in 1 .. z, l[n].auth = a, l[n].kind \in Terminals
        PROVE  n \in 1 .. z + 1 /\ l2[n].auth = a /\ l2[n].kind \in Terminals
    BY <1>2, <2>3
  <2> QED BY <2>2, <2>3 DEF EndedOf
<1>5. EstimatesOf(h2, LeftOf(l2, A, z + 1)) = EstimatesOf(h, LeftOf(l, A, z))
  <2>1. PICK S : S = LeftOf(l, A, z)
    OBVIOUS
  <2>2. LeftOf(l2, A, z + 1) = S /\ S \subseteq A
    BY <1>4, <2>1 DEF LeftOf
  <2>3. [a \in S |-> h2[a].estimate] = [a \in S |-> h[a].estimate]
    BY <2>2 DEF SameEstimates
  <2> QED BY <2>1, <2>2, <2>3 DEF EstimatesOf
<1> QED BY <1>1, <1>3, <1>5 DEF RoomOf

LEMMA BlankCovered ==
  ASSUME NEW l, NEW r, NEW l2, Grown(l, r, l2),
         MoneyFree(r), NEW h, NEW h2, NEW A, SameEstimates(h, h2, A),
         IsFiniteSet(A), HoldsKnown(h, A), HoldsKnown(h2, A),
         NEW k \in 0 .. Len(l), Covered(l, k, h, A)
  PROVE  Covered(l2, k, h2, A)
<1>1. RoomOf(l2, h2, A, Len(l) + 1) = RoomOf(l, h, A, Len(l))
  BY BlankRoom
<1>2. r.freed = 0
  BY DEF MoneyFree
<1>3. Len(l) \in k .. Len(l) /\ Len(l) \in 0 .. Len(l) /\ l \in Seq(RecordType)
  BY DEF Grown
<1>4. PICK ro \in Int : ro = RoomOf(l, h, A, Len(l))
  BY <1>3, RoomType
<1>5. ro >= 0 /\ ro <= ro + 0
  <2>1. RoomOf(l, h, A, Len(l)) >= 0
    BY <1>3 DEF Covered
  <2> QED BY <1>4, <2>1
<1> QED BY <1>1, <1>2, <1>4, <1>5, CoveredGrows
-----------------------------------------------------------------------------
\* A decided hold's terminal is among the records.
EndedInv ==
  \A a \in Auths : hold[a].state = "decided" => a \in EndedOf(log, Len(log))

\* A drain-log row raised what its charge exceeds its hold's estimate by, and
\* a refund's charges nothing (drain.go Append).
RaiseInv ==
  \A i \in 1 .. Len(drain) :
    /\ hold[drain[i].auth].state /= "unused"
    /\ drain[i].raise = Pos(drain[i].charge - hold[drain[i].auth].estimate)
    /\ drain[i].kind = "refund" => drain[i].charge = 0

PrefixInv == EndedInv /\ RaiseInv /\ Covered(log, acked, hold, Admitted)

\* A hold once admitted stays admitted, at its estimate.
AdmittedStay ==
  \A a \in Auths : hold[a].state /= "unused" =>
    hold'[a].state /= "unused" /\ hold'[a].estimate = hold[a].estimate

LEMMA BooksStepStays ==
  ASSUME Inv, BooksStep
  PROVE  AdmittedStay
<1>1. hold \in [Auths -> HoldType]
  BY DEF Inv, TypeOK, HoldsType
<1>2. ASSUME hold' = hold PROVE AdmittedStay
  BY <1>2 DEF AdmittedStay
<1>3. ASSUME NEW a \in Auths, NEW e \in Estimates, NEW m \in Modes, Admit(a, e, m)
      PROVE  AdmittedStay
  <2>1. /\ hold[a].state = "unused"
        /\ \E h : hold' = [hold EXCEPT ![a] = h]
    BY <1>3 DEF Admit
  <2>2. \A b \in Auths : b /= a => hold'[b] = hold[b]
    BY <1>1, <2>1
  <2> QED BY <2>1, <2>2 DEF AdmittedStay
<1>4. ASSUME NEW a \in Auths, NEW c \in Charges, Heartbeat(a, c) PROVE AdmittedStay
  <2>1. hold' = [hold EXCEPT ![a].heartbeat = TRUE, ![a].running = c,
                             ![a].snapSeq = Len(log) + 1]
    BY <1>4 DEF Heartbeat
  <2>2. \A b \in Auths : hold'[b].state = hold[b].state
                         /\ hold'[b].estimate = hold[b].estimate
    BY <1>1, <2>1 DEF HoldType
  <2> QED BY <2>2 DEF AdmittedStay
<1>5. ASSUME NEW a \in Auths, NEW k, NEW charge, NEW from, NEW raise,
             Decide(a, k, charge, from, raise)
      PROVE  AdmittedStay
  <2>1. hold' = [hold EXCEPT ![a] = [UnusedHold EXCEPT !.state = "decided",
                                        !.estimate = hold[a].estimate]]
    BY <1>5 DEF Decide
  <2>2. hold'[a].state = "decided" /\ hold'[a].estimate = hold[a].estimate
    BY <1>1, <2>1 DEF UnusedHold
  <2>3. \A b \in Auths : b /= a => hold'[b] = hold[b]
    BY <1>1, <2>1
  <2> QED BY <2>2, <2>3 DEF AdmittedStay
<1>6. CASE DecideStep
  BY <1>5, <1>6 DEF DecideStep
<1>7. CASE BooksQuietStep \/ FlushAck \/ Checkpoint \/ Handoff \/ HandoffCut
  <2>1. hold' = hold
    BY <1>7 DEF BooksQuietStep, FlushAck, Checkpoint, Handoff, HandoffCut
  <2> QED BY <1>2, <2>1
<1> QED BY <1>3, <1>4, <1>6, <1>7 DEF BooksStep

\* Only a front door appends to the drain log.
LEMMA OnlyDoorsDrain ==
  ASSUME [Next]_vars
  PROVE  drain' = drain \/ FrontDoor
<1>1. CASE Request
  BY <1>1 DEF Request, Admit, Heartbeat, Settle, Refund, rowVars
<1>2. CASE Flusher \/ Sender \/ FailLong \/ StopWorkers
  BY <1>2 DEF Flusher, FlushAck, FlushFail, RepublishBegin, RepublishNext, Sender,
              FailLong, StopWorkers, rowVars
<1>3. CASE Auditor \/ RowRevoked \/ RowExpires
  BY <1>3 DEF Auditor, Deliver, RowRevoked, RowExpires, Revoke, MarkDraining
<1>4. CASE Close \/ PassCutoff \/ Stop \/ Switch
  BY <1>4 DEF Close, PassCutoff, Stop, Switch, rowVars
<1>5. CASE Handoffs
  BY <1>5 DEF Handoffs, Handoff, HandoffCut, HandoffMarks, HandoffEnds, MarkDraining,
              rowVars
<1>6. CASE Reaper
  BY <1>6 DEF Reaper, ReapScan, ReleaseDue, ReapUndrained, ReapAdopts, ReapDecides,
              ReapGivesUp, rowVars
<1>7. CASE RoundQuiet \/ FinishMarks \/ FinishLease
  BY <1>7 DEF RoundQuiet, RoundBegin, RenewCommits, RenewFails, Renewed, RenewRefused,
              AdoptRead, AdoptFails, AdoptDone, LetIfAbandoned, FinishMarks,
              FinishLease, MarkDraining, rowVars
<1>8. CASE AdoptNext \/ Checkpoint
  BY <1>8 DEF AdoptNext, Checkpoint, rowVars
<1>9. CASE Writer
  BY <1>9 DEF Writer, WriterSends, WriterLands, WriterAnswered, WriterRetries,
              ShortfallWrite, rowVars
<1>10. CASE UNCHANGED vars
  BY <1>10 DEF vars, rowVars
<1> QED
  BY <1>1, <1>2, <1>3, <1>4, <1>5, <1>6, <1>7, <1>8, <1>9, <1>10
  DEF Next, Round, RoundQuiet

LEMMA RaiseKept ==
  ASSUME Inv, RaiseInv, BooksStep, [Next]_vars
  PROVE  RaiseInv'
<1>1. /\ Len(drain) \in Nat /\ drain \in Seq(DrainRowType)
      /\ \A i \in 1 .. Len(drain) : drain[i].auth \in Auths
  BY DrainRows DEF Inv, TypeOK, RowTypeOK
<1>2. ASSUME NEW i \in 1 .. Len(drain), drain'[i] = drain[i]
      PROVE  /\ hold'[drain'[i].auth].state /= "unused"
             /\ drain'[i].raise = Pos(drain'[i].charge - hold'[drain'[i].auth].estimate)
             /\ drain'[i].kind = "refund" => drain'[i].charge = 0
  BY <1>1, <1>2, BooksStepStays DEF AdmittedStay, RaiseInv
<1>3. CASE drain' = drain
  BY <1>2, <1>3 DEF RaiseInv
<1>4. ASSUME NEW a \in Auths, NEW k, NEW c, DrainAppend(a, k, c),
             k = "refund" => c = 0
      PROVE  RaiseInv'
  <2>1. PICK r : r = [auth |-> a, kind |-> k, charge |-> c,
                      raise |-> Pos(c - hold[a].estimate)]
    OBVIOUS
  <2>2. hold[a].state /= "unused" /\ hold' = hold /\ drain' = Append(drain, r)
    BY <1>4, <2>1 DEF DrainAppend, AppendRow
  <2>3. /\ Len(drain') = Len(drain) + 1 /\ drain'[Len(drain) + 1] = r
        /\ \A i \in 1 .. Len(drain) : drain'[i] = drain[i]
    BY <1>1, <2>2
  <2>4. /\ r.auth = a /\ r.kind = k /\ r.charge = c
        /\ r.raise = Pos(c - hold[a].estimate)
    BY <2>1
  <2>5. \A i \in 1 .. Len(drain) + 1 : i \in 1 .. Len(drain) \/ i = Len(drain) + 1
    BY <1>1
  <2> QED BY <1>2, <1>4, <2>2, <2>3, <2>4, <2>5 DEF RaiseInv
<1>5. CASE FrontDoor
  BY <1>4, <1>5 DEF FrontDoor
<1> QED BY <1>3, <1>5, OnlyDoorsDrain

\* The records end the holds that are decided, and no others: what the whole
\* log leaves is the open holds, and its room what the books have.
LEMMA WholeLog ==
  ASSUME Inv, TermInv, BooksInv, EndedInv
  PROVE  /\ LeftOf(log, Admitted, Len(log)) = Open
         /\ RoomOf(log, hold, Admitted, Len(log)) = allocation - consumed - held
<1>1. \A n \in 1 .. Len(log) : log[n].kind \in Terminals =>
         log[n].auth \in Auths /\ hold[log[n].auth].state = "decided"
  BY DEF Inv, RecordsKnown, TermInv, TerminalsDecide
<1>2. \A a \in Auths : a \in EndedOf(log, Len(log)) <=> hold[a].state = "decided"
  BY <1>1 DEF EndedInv, EndedOf
<1>3. \A a \in Auths : hold[a].state \in {"unused", "open", "decided"}
  BY DEF Inv, TypeOK, HoldsType, HoldType
<1>4. LeftOf(log, Admitted, Len(log)) = Open
  BY <1>2, <1>3 DEF LeftOf, Admitted, Open
<1>5. /\ allocation = AllocatedOf(log, Len(log)) /\ consumed = ChargesOf(log, Len(log))
      /\ held = EstimatesOf(hold, Open)
  BY BooksParts DEF HoldsBalance, RecordsBalance, Balanced
<1> QED BY <1>4, <1>5 DEF RoomOf

LEMMA AdmittedKnown ==
  ASSUME Inv
  PROVE  HoldsKnown(hold, Admitted)
<1>1. ASSUME NEW x \in Admitted
      PROVE  hold[x].estimate \in Nat /\ Counted(hold[x]) \in Nat
  <2>1. hold[x] \in HoldType /\ hold[x].estimate \in Estimates
    BY DEF Admitted, Inv, TypeOK, HoldsType
  <2> QED BY <2>1, CountedType, ConstantTypes
<1> QED BY <1>1 DEF HoldsKnown

\* Only an admission admits.
LEMMA StaySame ==
  ASSUME AdmittedStay
  PROVE  SameEstimates(hold, hold', Admitted) /\ Admitted \subseteq Admitted'
  BY DEF AdmittedStay, SameEstimates, Admitted
\* The whole log's room is what the books have, before and after a step.
LEMMA WholeRoom ==
  Inv /\ TermInv /\ BooksInv /\ EndedInv =>
    RoomOf(log, hold, Admitted, Len(log)) = allocation - consumed - held
  BY WholeLog

LEMMA WholeRoomAfter ==
  (Inv /\ TermInv /\ BooksInv /\ EndedInv =>
    RoomOf(log, hold, Admitted, Len(log)) = allocation - consumed - held)'
  BY WholeRoom, PTL

LEMMA KnownAlways == Inv => HoldsKnown(hold, Admitted)
  BY AdmittedKnown

LEMMA KnownAfter == (Inv => HoldsKnown(hold, Admitted))'
  BY KnownAlways, PTL

\* The records handed over stay.
LogExtends ==
  /\ Len(log') \in Nat /\ Len(log) <= Len(log')
  /\ \A n \in 1 .. Len(log) : log'[n] = log[n]

LEMMA OneMore ==
  ASSUME Inv, NEW r \in RecordType, log' = log \o <<r>>
  PROVE  /\ LogExtends /\ Grown(log, r, log') /\ Len(log') = Len(log) + 1
         /\ log'[Len(log) + 1] = r
<1>1. log \in Seq(RecordType) /\ Len(log) \in Nat
  BY DEF Inv, TypeOK, PipeType
<1>2. /\ Len(log') = Len(log) + 1 /\ log'[Len(log) + 1] = r
      /\ \A n \in 1 .. Len(log) : log'[n] = log[n]
  BY <1>1, LogGrows
<1> QED BY <1>1, <1>2 DEF LogExtends, Grown

LEMMA EndedStays ==
  ASSUME Len(log) \in Nat, LogExtends
  PROVE  EndedOf(log, Len(log)) \subseteq EndedOf(log', Len(log'))
<1>1. \A n \in 1 .. Len(log) : n \in 1 .. Len(log')
  BY DEF LogExtends
<1> QED BY <1>1 DEF LogExtends, EndedOf

\* A step that decides nothing keeps EndedInv.
LEMMA EndedQuiet ==
  ASSUME EndedInv, Len(log) \in Nat, log' = log \/ LogExtends,
         \A a \in Auths : hold'[a].state = "decided" => hold[a].state = "decided"
  PROVE  EndedInv'
<1>1. EndedOf(log, Len(log)) \subseteq EndedOf(log', Len(log'))
  BY EndedStays
<1> QED BY <1>1 DEF EndedInv

\* A step that leaves the room where it was.
LEMMA PrefixQuiet ==
  ASSUME Inv, PrefixInv, UNCHANGED <<hold, log>>, RaiseInv', acked' \in Nat,
         acked <= acked'
  PROVE  PrefixInv'
<1>1. Admitted' = Admitted
  BY DEF Admitted
<1>2. EndedInv'
  BY DEF PrefixInv, EndedInv
<1>3. acked \in Nat /\ Len(log) \in Nat
  BY DEF Inv, TypeOK, PipeType
<1>4. \A m \in acked' .. Len(log) : m \in acked .. Len(log)
  BY <1>3
<1>5. Covered(log, acked', hold, Admitted)
  BY <1>4 DEF PrefixInv, Covered
<1> QED BY <1>1, <1>2, <1>5 DEF PrefixInv

\* What the steps below start from.
StepInv ==
  /\ Inv /\ TermInv /\ BooksInv /\ PrefixInv
  /\ Inv' /\ TermInv' /\ BooksInv' /\ RaiseInv' /\ AdmittedStay

\* A record that moves no money.
LEMMA BlankPrefix ==
  ASSUME StepInv, NEW r \in RecordType, MoneyFree(r), log' = log \o <<r>>,
         acked' = acked, \A a \in Auths : hold'[a].state = hold[a].state
  PROVE  PrefixInv'
<1>1. Admitted' = Admitted
  BY DEF Admitted
<1>2. Grown(log, r, log') /\ LogExtends
  BY OneMore DEF StepInv
<1>3. EndedInv'
  BY <1>2, EndedQuiet, BooksParts DEF StepInv, PrefixInv
<1>4. SameEstimates(hold, hold', Admitted)
  BY StaySame DEF StepInv
<1>5. HoldsKnown(hold, Admitted) /\ HoldsKnown(hold', Admitted) /\ IsFiniteSet(Admitted)
  BY <1>1, KnownAlways, KnownAfter DEF StepInv, BooksInv
<1>6. acked \in 0 .. Len(log) /\ Covered(log, acked, hold, Admitted)
  BY BooksParts DEF StepInv, PrefixInv
<1>7. Covered(log', acked, hold', Admitted)
  BY <1>2, <1>4, <1>5, <1>6, BlankCovered
<1> QED BY <1>1, <1>3, <1>7 DEF StepInv, PrefixInv

LEMMA HeartbeatPrefix ==
  ASSUME StepInv, NEW a \in Auths, NEW c \in Charges, Heartbeat(a, c)
  PROVE  PrefixInv'
<1>1. PICK r : r = [Blank EXCEPT !.kind = "heartbeat", !.auth = a]
  OBVIOUS
<1>2. /\ log' = log \o <<r>> /\ acked' = acked
      /\ hold' = [hold EXCEPT ![a].heartbeat = TRUE, ![a].running = c,
                              ![a].snapSeq = Len(log) + 1]
  BY <1>1 DEF Heartbeat, HandOver
<1>3. r \in RecordType /\ MoneyFree(r)
  BY <1>1, HeartbeatRecordType, HeartbeatIsFree
<1>4. \A b \in Auths : hold'[b].state = hold[b].state
  BY <1>2, BooksParts DEF StepInv, HoldType
<1> QED BY <1>2, <1>3, <1>4, BlankPrefix

\* A hand-off's records.
LEMMA HandoffPrefix ==
  ASSUME StepInv, Handoff \/ HandoffCut
  PROVE  PrefixInv'
<1>1. /\ acked' = acked /\ hold' = hold
      /\ \E c, x \in RecordType : HandoffLog(c, x)
  BY HandoffIssues DEF StepInv
<1>2. PICK c, x \in RecordType : HandoffLog(c, x)
  BY <1>1
<1>3. CASE log' = log
  <2>1. acked' \in Nat /\ acked <= acked'
    BY <1>1, BooksParts DEF StepInv
  <2> QED BY <1>1, <1>3, <2>1, PrefixQuiet DEF StepInv
<1>4. CASE log' = log \o <<c>>
  BY <1>1, <1>2, <1>4, BlankPrefix DEF HandoffLog
<1>5. CASE log' = log \o <<x>>
  BY <1>1, <1>2, <1>5, BlankPrefix DEF HandoffLog
<1>6. CASE log' = (log \o <<c>>) \o <<x>>
  <2>1. PICK l : l = log \o <<c>>
    OBVIOUS
  <2>2. log \in Seq(RecordType) /\ Len(log) \in Nat /\ acked \in 0 .. Len(log)
    BY BooksParts DEF StepInv
  <2>3. /\ l \in Seq(RecordType) /\ Len(l) = Len(log) + 1
        /\ \A n \in 1 .. Len(log) : l[n] = log[n]
    BY <2>1, <2>2, LogGrows
  <2>4. log' = l \o <<x>>
    BY <1>6, <2>1
  <2>5. Len(log') = Len(l) + 1 /\ \A n \in 1 .. Len(l) : log'[n] = l[n]
    BY <2>3, <2>4, LogGrows
  <2>6. LogExtends
    <3>1. \A n \in 1 .. Len(log) : n \in 1 .. Len(l)
      BY <2>2, <2>3
    <3> QED BY <2>2, <2>3, <2>5, <3>1 DEF LogExtends
  <2>7. EndedInv'
    BY <1>1, <2>2, <2>6, EndedQuiet DEF StepInv, PrefixInv
  <2>8. Grown(log, c, l) /\ Grown(l, x, log')
    BY <2>1, <2>2, <2>3, <2>4 DEF Grown
  <2>9. /\ HoldsKnown(hold, Admitted) /\ IsFiniteSet(Admitted)
        /\ SameEstimates(hold, hold, Admitted) /\ Covered(log, acked, hold, Admitted)
    BY KnownAlways DEF StepInv, BooksInv, SameEstimates, PrefixInv
  <2>10. MoneyFree(c) /\ MoneyFree(x)
    BY <1>2 DEF HandoffLog
  <2>11. Covered(l, acked, hold, Admitted)
    BY <2>2, <2>8, <2>9, <2>10, BlankCovered
  <2>12. acked \in 0 .. Len(l)
    BY <2>2, <2>3
  <2>13. Covered(log', acked, hold, Admitted)
    BY <2>8, <2>9, <2>10, <2>11, <2>12, BlankCovered
  <2>14. Admitted' = Admitted
    BY <1>1 DEF Admitted
  <2> QED BY <1>1, <2>7, <2>13, <2>14 DEF StepInv, PrefixInv
<1> QED BY <1>2, <1>3, <1>4, <1>5, <1>6 DEF HandoffLog

\* A record that leaves the books no more room than it frees.
LEMMA RecordPrefix ==
  ASSUME StepInv, EndedInv', NEW r \in RecordType, log' = log \o <<r>>,
         acked' = acked, Admitted' = Admitted,
         allocation' - consumed' - held' >= 0,
         allocation' - consumed' - held' <= allocation - consumed - held + r.freed
  PROVE  PrefixInv'
<1>1. Grown(log, r, log') /\ Len(log') = Len(log) + 1
  BY OneMore DEF StepInv
<1>2. SameEstimates(hold, hold', Admitted)
  BY StaySame DEF StepInv
<1>3. HoldsKnown(hold, Admitted) /\ HoldsKnown(hold', Admitted) /\ IsFiniteSet(Admitted)
  BY KnownAlways, KnownAfter DEF StepInv, BooksInv
<1>4. acked \in 0 .. Len(log) /\ Covered(log, acked, hold, Admitted)
  BY BooksParts DEF StepInv, PrefixInv
<1>5. RoomOf(log, hold, Admitted, Len(log)) = allocation - consumed - held
  BY WholeRoom DEF StepInv, PrefixInv
<1>6. RoomOf(log', hold', Admitted, Len(log) + 1) = allocation' - consumed' - held'
  BY <1>1, WholeRoomAfter DEF StepInv
<1>7. Covered(log', acked, hold', Admitted)
  BY <1>1, <1>2, <1>3, <1>4, <1>5, <1>6, CoveredGrows
<1> QED BY <1>7 DEF StepInv, PrefixInv

\* The books have room for what they hold, and the parts of Free are numbers.
LEMMA RoomNow ==
  ASSUME Inv, TermInv, BooksInv, PrefixInv
  PROVE  allocation - consumed - held >= 0 /\ buffer \in Nat /\ pending \in Nat
<1>1. Len(log) \in acked .. Len(log) /\ acked + 1 \in 1 .. Len(log) + 1
      /\ Len(log) \in 0 .. Len(log) /\ log \in Seq(RecordType)
  BY BooksParts
<1>2. RoomOf(log, hold, Admitted, Len(log)) >= 0
  BY <1>1 DEF PrefixInv, Covered
<1>3. RoomOf(log, hold, Admitted, Len(log)) = allocation - consumed - held
  BY WholeRoom DEF PrefixInv
<1>4. buffer \in Nat
  BY OpenKnown, HoldsSums, BooksParts DEF HoldsBalance
<1>5. pending \in Nat
  <2>1. FreedOf(log, acked + 1, Len(log)) \in Nat
    BY <1>1, LogSums
  <2> QED BY <2>1, BooksParts DEF RecordsBalance, Balanced
<1> QED BY <1>2, <1>3, <1>4, <1>5

\* A checkpoint returns no more than the free room.
LEMMA CheckpointPrefix ==
  ASSUME StepInv, Checkpoint
  PROVE  PrefixInv'
<1>1. UNCHANGED <<held, consumed, pending, buffer, shortfall, hold>>
  BY DEF Checkpoint
<1>2. CASE final = 0 /\ CanHandOver(1)
  <2>1. PICK r : r = [Blank EXCEPT !.consumed = consumed, !.openSum = held,
                                   !.return = ReturnOf]
    OBVIOUS
  <2>2. log' = log \o <<r>> /\ acked' = acked /\ allocation' = allocation - ReturnOf
    BY <1>2, <2>1 DEF Checkpoint, HandOver
  <2>3. allocation \in Int /\ consumed \in Nat /\ held \in Int /\ pending \in Nat
        /\ buffer \in Nat /\ allocation - consumed - held >= 0
    BY BooksParts, RoomNow DEF StepInv
  <2>4. ReturnOf \in Nat /\ ReturnOf <= allocation - consumed - held
    <3>1. Free \in Int /\ Free <= allocation - consumed - held
      BY <2>3 DEF Free
    <3>2. Pos(Free) \in Nat /\ Pos(Free) <= allocation - consumed - held
      BY <2>3, <3>1 DEF Pos
    <3> QED BY <2>3, <3>2 DEF ReturnOf
  <2>5. r \in RecordType
    BY <2>1, <2>3, <2>4, CheckpointRecordType
  <2>6. r.freed = 0
    BY <2>1 DEF Blank
  <2>7. /\ allocation' - consumed' - held' >= 0
        /\ allocation' - consumed' - held' <= allocation - consumed - held + r.freed
    BY <1>1, <2>2, <2>3, <2>4, <2>6
  <2>8. EndedInv' /\ Admitted' = Admitted
    <3>1. LogExtends
      BY <2>2, <2>5, OneMore DEF StepInv
    <3>2. EndedInv'
      BY <1>1, <3>1, EndedQuiet, BooksParts DEF StepInv, PrefixInv
    <3> QED BY <1>1, <3>2 DEF Admitted
  <2> QED BY <2>2, <2>5, <2>7, <2>8, RecordPrefix
<1>3. CASE ~(final = 0 /\ CanHandOver(1))
  <2>1. UNCHANGED pipe
    BY <1>3 DEF Checkpoint
  <2>2. acked' \in Nat /\ acked <= acked'
    BY <2>1, BooksParts DEF StepInv, pipe
  <2> QED BY <1>1, <2>1, <2>2, PrefixQuiet DEF StepInv, pipe
<1> QED BY <1>2, <1>3
\* What a charge leaves of the room x, when the hold had e of it, the row raised
\* raise and the rest is short.
LEMMA Charging ==
  ASSUME NEW x \in Int, x >= 0, NEW e \in Nat, NEW c \in Nat,
         NEW raise \in Nat, NEW short \in Nat, NEW freed \in Nat,
         raise = 0 \/ raise = Pos(c - e), short = Pos(c - e - x - raise),
         freed = Pos(e - c)
  PROVE  /\ x + raise + short - c + e >= 0
         /\ x + raise + short - c + e <= x + freed
  BY DEF Pos

\* decide: what it adds to the room is what its record freed, or nothing, and
\* no less than what the charge leaves (requests.go decide, adopt.go adopt).
LEMMA DecidePrefix ==
  ASSUME StepInv, NEW a \in Auths, NEW k \in Terminals, NEW charge \in Nat,
         NEW from \in Nat, NEW raise \in Nat, Decide(a, k, charge, from, raise),
         DecidedFrom(a, k, charge, from, raise)
  PROVE  PrefixInv'
<1>1. PICK r \in RecordType :
        log' = log \o <<r>> /\ TerminalRecord(r, a, k, charge, from, raise)
  BY DecideRecord DEF StepInv
<1>2. acked' = acked
  BY DecideRecord DEF StepInv
<1>3. PICK e \in Nat : e = hold[a].estimate
  BY BooksParts DEF StepInv, HoldType
<1>4. PICK c \in Nat : c = Charged(k, charge)
  BY DEF Charged
<1>5. PICK x \in Int : x = allocation - consumed - held
  BY BooksParts DEF StepInv
<1>6. x >= 0
  BY <1>5, RoomNow DEF StepInv
<1>7. PICK short \in Nat : short = Overdrawn(a, c, raise) /\ short = Pos(c - e - x - raise)
  <2>1. consumed \in Int /\ held \in Int /\ allocation \in Int
    BY BooksParts DEF StepInv
  <2>2. consumed + c + (held - e) - (allocation + raise) = c - e - x - raise
    BY <1>5, <2>1
  <2>3. Overdrawn(a, c, raise) = Pos(c - e - x - raise)
    BY <1>3, <2>2 DEF Overdrawn
  <2>4. Pos(c - e - x - raise) \in Nat
    BY PosType
  <2> QED BY <2>3, <2>4
<1>8. PICK freed \in Nat : freed = r.freed /\ freed = Pos(e - c)
  <2>1. r.freed = Pos(e - c)
    BY <1>1, <1>3, <1>4 DEF TerminalRecord, Freed
  <2>2. Pos(e - c) \in Nat
    BY PosType
  <2> QED BY <2>1, <2>2
<1>9. raise = 0 \/ raise = Pos(c - e)
  <2>1. CASE from \in 1 .. Len(drain) /\ a = drain[from].auth /\ k = drain[from].kind
             /\ charge = drain[from].charge /\ raise = drain[from].raise
    <3>1. (k = "refund" => charge = 0) /\ k \in {"settle", "refund"}
      BY <1>3, <2>1, DrainRows DEF StepInv, PrefixInv, RaiseInv, Inv, TypeOK
    <3>2. raise = Pos(charge - e)
      BY <1>3, <2>1, DrainRows DEF StepInv, PrefixInv, RaiseInv, Inv, TypeOK
    <3>3. c = charge
      BY <1>4, <3>1 DEF Charged
    <3> QED BY <3>2, <3>3
  <2> QED BY <2>1 DEF DecidedFrom
<1>10. /\ allocation' = allocation + raise + short /\ consumed' = consumed + c
       /\ held' = held - e /\ hold[a].state = "open"
       /\ hold' = [hold EXCEPT ![a] = [UnusedHold EXCEPT !.state = "decided",
                                         !.estimate = hold[a].estimate]]
  BY <1>3, <1>4, <1>7 DEF Decide, Undecided
<1>11. x + raise + short - c + e >= 0 /\ x + raise + short - c + e <= x + freed
  BY <1>6, <1>7, <1>8, <1>9, Charging
<1>12. allocation' - consumed' - held' = x + raise + short - c + e
  <2>1. consumed \in Int /\ held \in Int /\ allocation \in Int
    BY BooksParts DEF StepInv
  <2> QED BY <1>5, <1>10, <2>1
<1>13. /\ allocation' - consumed' - held' >= 0
       /\ allocation' - consumed' - held' <= allocation - consumed - held + r.freed
  BY <1>5, <1>8, <1>11, <1>12
<1>14. hold'[a].state = "decided" /\ \A b \in Auths : b /= a => hold'[b] = hold[b]
  BY <1>10, BooksParts DEF StepInv, UnusedHold
<1>15. Admitted' = Admitted
  BY <1>10, <1>14 DEF Admitted
<1>16. EndedInv'
  <2>1. LogExtends /\ Len(log') = Len(log) + 1 /\ log'[Len(log) + 1] = r /\ Len(log) \in Nat
    BY <1>1, OneMore, BooksParts DEF StepInv
  <2>2. EndedOf(log, Len(log)) \subseteq EndedOf(log', Len(log'))
    BY <2>1, EndedStays
  <2>3. a \in EndedOf(log', Len(log'))
    <3>1. Len(log) + 1 \in 1 .. Len(log')
      BY <2>1
    <3>2. log'[Len(log) + 1].auth = a /\ log'[Len(log) + 1].kind \in Terminals
      BY <1>1, <2>1 DEF TerminalRecord
    <3> QED BY <3>1, <3>2 DEF EndedOf
  <2> QED BY <1>14, <2>2, <2>3 DEF StepInv, PrefixInv, EndedInv
<1> QED BY <1>1, <1>2, <1>13, <1>15, <1>16, RecordPrefix

\* What records m + 1 .. z freed is no more than what records k + 1 .. z did.
LEMMA FewerFreed ==
  ASSUME NEW l \in Seq(RecordType), NEW k \in 0 .. Len(l), NEW m \in k .. Len(l)
  PROVE  FreedOf(l, m + 1, Len(l)) <= FreedOf(l, k + 1, Len(l))
<1>1. PICK z \in Nat : z = Len(l)
  OBVIOUS
<1> DEFINE f == [n \in k + 1 .. z |-> l[n].freed]
           g == [n \in m + 1 .. z |-> l[n].freed]
<1>2. \A n \in 1 .. z : l[n].freed \in Nat
  BY <1>1, RecordMoney
<1>3. /\ f \in [k + 1 .. z -> Nat] /\ g \in [m + 1 .. z -> Nat]
      /\ (m + 1 .. z) \in SUBSET (k + 1 .. z)
      /\ \A x \in m + 1 .. z : g[x] = f[x]
  BY <1>1, <1>2
<1>4. IsFiniteSet(k + 1 .. z)
  BY <1>1, FS_Interval
<1>5. FreedOf(l, k + 1, z) = Sum(f) /\ FreedOf(l, m + 1, z) = Sum(g)
  BY DEF FreedOf
<1> HIDE DEF f, g
<1>6. Sum(g) <= Sum(f)
  BY <1>3, <1>4, SumFewer
<1> QED BY <1>1, <1>5, <1>6

\* The hold z joins the holds S.
Joins(S, z, T, h, h2) ==
  /\ IsFiniteSet(S) /\ z \notin S /\ T = S \union {z}
  /\ HoldsSame(h, h2, S) /\ HoldsKnown(h, S) /\ HoldsKnown(h2, {z})

LEMMA JoinAdds ==
  ASSUME NEW S, NEW z, NEW T, NEW h, NEW h2, Joins(S, z, T, h, h2)
  PROVE  EstimatesOf(h2, T) = EstimatesOf(h, S) + h2[z].estimate
  BY EstimateAdds DEF Joins

\* An admission takes of the room of every prefix, which has it: what the
\* records after the prefix freed is still pending, and not given.
LEMMA AdmitPrefix ==
  ASSUME StepInv, NEW a \in Auths, NEW e \in Estimates, NEW m \in Modes,
         Admit(a, e, m)
  PROVE  PrefixInv'
<1> DEFINE h == [UnusedHold EXCEPT !.state = "open", !.estimate = e, !.mode = m]
<1>1. /\ hold[a].state = "unused" /\ hold' = [hold EXCEPT ![a] = h]
      /\ Free >= e + Overrun[e] /\ UNCHANGED pipe
  BY DEF Admit
<1>2. h.estimate = e /\ h.state = "open"
  BY DEF UnusedHold
<1> HIDE DEF h
<1>3. hold'[a] = h /\ \A b \in Auths : b /= a => hold'[b] = hold[b]
  BY <1>1, BooksParts DEF StepInv
<1>4. a \notin Admitted /\ Admitted' = Admitted \union {a} /\ Admitted \subseteq Auths
  BY <1>1, <1>2, <1>3 DEF Admitted
<1>5. log' = log /\ acked' = acked
  BY <1>1 DEF pipe
<1>6. EndedInv'
  BY <1>1, <1>2, <1>3, <1>5 DEF StepInv, PrefixInv, EndedInv
<1>7. /\ allocation \in Int /\ consumed \in Int /\ held \in Int /\ pending \in Nat
      /\ buffer \in Nat
  BY BooksParts, RoomNow DEF StepInv
<1>8. e \in Nat /\ Overrun[e] \in Nat
  BY ConstantTypes
<1>9. allocation - consumed - held >= e + pending
  BY <1>1, <1>7, <1>8 DEF Free
<1>10. /\ log \in Seq(RecordType) /\ acked \in 0 .. Len(log) /\ Len(log) \in Nat
  BY BooksParts DEF StepInv
<1>11. ASSUME NEW n \in acked .. Len(log)
       PROVE  RoomOf(log, hold', Admitted', n) = RoomOf(log, hold, Admitted, n) - e
  <2>1. n \in 0 .. Len(log) /\ n \in Nat
    BY <1>10
  <2>2. a \notin EndedOf(log, n)
    <3>1. \A i \in 1 .. Len(log) : log[i].kind \in Terminals =>
             hold[log[i].auth].state = "decided"
      BY DEF StepInv, TermInv, TerminalsDecide
    <3>2. \A i \in 1 .. n : i \in 1 .. Len(log)
      BY <1>10, <2>1
    <3> QED BY <1>1, <3>1, <3>2 DEF EndedOf
  <2>3. PICK S : S = LeftOf(log, Admitted, n)
    OBVIOUS
  <2>4. PICK T : T = LeftOf(log, Admitted', n)
    OBVIOUS
  <2>5. a \notin S /\ T = S \union {a} /\ S \subseteq Admitted
    BY <1>4, <2>2, <2>3, <2>4 DEF LeftOf
  <2>6. IsFiniteSet(S) /\ HoldsKnown(hold, S)
    <3>1. IsFiniteSet(Admitted) /\ HoldsKnown(hold, Admitted)
      BY KnownAlways DEF StepInv, BooksInv
    <3> QED BY <2>5, <3>1, FS_Subset DEF HoldsKnown
  <2>7. HoldsSame(hold, hold', S)
    BY <1>3, <1>4, <2>5 DEF HoldsSame
  <2>8. HoldsKnown(hold', {a})
    <3>1. HoldsKnown(hold', Admitted')
      BY KnownAfter DEF StepInv
    <3> QED BY <1>4, <3>1 DEF HoldsKnown
  <2>9. EstimatesOf(hold', T) = EstimatesOf(hold, S) + hold'[a].estimate
    <3>1. Joins(S, a, T, hold, hold')
      BY <2>5, <2>6, <2>7, <2>8 DEF Joins
    <3> QED BY <3>1, JoinAdds
  <2>10. PICK x \in Nat : x = EstimatesOf(hold, S)
    BY <2>6, HoldsSums
  <2>11. PICK al \in Int : al = AllocatedOf(log, n)
    BY <1>10, <2>1, AllocatedType
  <2>12. PICK ch \in Nat : ch = ChargesOf(log, n)
    BY <1>10, <2>1, LogSums
  <2>13. al - ch - (x + e) = (al - ch - x) - e
    BY <1>8
  <2>14. RoomOf(log, hold', Admitted', n) = al - ch - (x + e)
    BY <1>2, <1>3, <2>4, <2>9, <2>10, <2>11, <2>12 DEF RoomOf
  <2>15. RoomOf(log, hold, Admitted, n) = al - ch - x
    BY <2>3, <2>10, <2>11, <2>12 DEF RoomOf
  <2> QED BY <2>13, <2>14, <2>15
<1>12. PICK now \in Int : now = RoomOf(log, hold, Admitted, Len(log))
  <2>1. RoomOf(log, hold, Admitted, Len(log)) = allocation - consumed - held
    BY WholeRoom DEF StepInv, PrefixInv
  <2>2. allocation - consumed - held \in Int
    BY <1>7
  <2> QED BY <2>1, <2>2
<1>13. now >= e + pending
  BY <1>9, <1>12, WholeRoom DEF StepInv, PrefixInv
<1>14. RoomOf(log, hold', Admitted', Len(log)) = now - e
  <2>1. Len(log) \in acked .. Len(log)
    BY <1>10
  <2> QED BY <1>11, <1>12, <2>1
<1>15. ASSUME NEW n \in acked .. Len(log)
       PROVE  /\ RoomOf(log, hold', Admitted', n) >= 0
              /\ RoomOf(log, hold', Admitted', n) + FreedOf(log, n + 1, Len(log))
                   >= now - e
  <2>1. n \in 0 .. Len(log) /\ n + 1 \in 1 .. Len(log) + 1
        /\ Len(log) \in 0 .. Len(log)
    BY <1>10
  <2>2. PICK ro \in Int : ro = RoomOf(log, hold, Admitted, n)
    BY <1>10, <2>1, RoomType, KnownAlways DEF StepInv, BooksInv
  <2>3. PICK fr \in Nat : fr = FreedOf(log, n + 1, Len(log))
    BY <1>10, <2>1, LogSums
  <2>4. fr <= pending
    <3>1. pending = FreedOf(log, acked + 1, Len(log))
      BY BooksParts DEF StepInv, RecordsBalance, Balanced
    <3> QED BY <1>10, <2>3, <3>1, FewerFreed
  <2>5. ro + fr >= now
    <3>1. RoomOf(log, hold, Admitted, n) + FreedOf(log, n + 1, Len(log))
            >= RoomOf(log, hold, Admitted, Len(log))
      BY DEF StepInv, PrefixInv, Covered
    <3> QED BY <1>12, <2>2, <2>3, <3>1
  <2>6. ro - e >= 0 /\ (ro - e) + fr >= now - e
    BY <1>7, <1>8, <1>13, <2>4, <2>5
  <2> QED BY <1>11, <2>2, <2>3, <2>6
<1>16. Covered(log, acked, hold', Admitted')
  BY <1>14, <1>15 DEF Covered
<1> QED BY <1>5, <1>6, <1>16 DEF StepInv, PrefixInv

LEMMA NextPrefixInv ==
  /\ Inv /\ TermInv /\ BooksInv /\ PrefixInv
  /\ Inv' /\ TermInv' /\ BooksInv'
  /\ [Next]_vars
  => PrefixInv'
<1> SUFFICES ASSUME Inv, TermInv, BooksInv, PrefixInv, Inv', TermInv', BooksInv',
                    [Next]_vars
             PROVE  PrefixInv'
  OBVIOUS
<1>1. BooksStep
  BY NextBooks
<1>2. AdmittedStay
  BY <1>1, BooksStepStays
<1>3. RaiseInv'
  BY <1>1, RaiseKept DEF PrefixInv
<1>4. StepInv
  BY <1>2, <1>3 DEF StepInv
<1>5. CASE DecideStep
  BY <1>4, <1>5, DecidePrefix DEF DecideStep
<1>6. CASE BooksQuietStep
  <2>1. UNCHANGED <<hold, log>> /\ acked' = acked
    BY <1>6 DEF BooksQuietStep
  <2>2. acked' \in Nat /\ acked <= acked'
    BY <2>1, BooksParts
  <2> QED BY <1>3, <2>1, <2>2, PrefixQuiet
<1>7. CASE FlushAck
  <2>1. UNCHANGED <<hold, log>> /\ acked' = acked + 1
    BY <1>7 DEF FlushAck
  <2>2. acked' \in Nat /\ acked <= acked'
    BY <2>1, BooksParts
  <2> QED BY <1>3, <2>1, <2>2, PrefixQuiet
<1> QED
  BY <1>1, <1>4, <1>5, <1>6, <1>7, AdmitPrefix, HeartbeatPrefix, CheckpointPrefix,
     HandoffPrefix DEF BooksStep

LEMMA InitPrefixInv == Init => PrefixInv
<1> SUFFICES ASSUME Init PROVE PrefixInv
  OBVIOUS
<1>1. BooksInv /\ Inv /\ log = <<>> /\ acked = 0 /\ drain = <<>>
      /\ hold = [a \in Auths |-> UnusedHold]
  BY InitBooksInv, InitInv DEF Init, RowInit
<1>2. \A a \in Auths : hold[a].state = "unused"
  BY <1>1 DEF UnusedHold
<1>3. EndedInv /\ TermInv
  BY <1>1, <1>2 DEF EndedInv, TermInv, TerminalsDecide, TerminalsDiffer
<1>4. RaiseInv
  BY <1>1 DEF RaiseInv
<1>5. RoomOf(log, hold, Admitted, Len(log)) = Granted
  <2>1. allocation = Granted /\ consumed = 0 /\ held = 0
    BY DEF Init
  <2>2. RoomOf(log, hold, Admitted, Len(log)) = allocation - consumed - held
    BY <1>1, <1>3, WholeRoom
  <2> QED BY <2>1, <2>2, GrantedAssumption
<1>6. Len(log) = 0 /\ \A m \in 0 .. 0 : m = 0
  BY <1>1
<1>7. PICK fr \in Nat : fr = FreedOf(log, 0 + 1, 0)
  <2>1. FreedOf(log, acked + 1, Len(log)) \in Nat
    <3>1. FreedOf(log, acked + 1, Len(log)) = pending /\ pending = 0
      BY <1>1, BooksParts DEF RecordsBalance, Balanced, Init
    <3> QED BY <3>1
  <2> QED BY <1>1, <1>6, <2>1
<1>8. RoomOf(log, hold, Admitted, 0) = Granted
  BY <1>5, <1>6
<1>9. Covered(log, 0, hold, Admitted)
  <2>1. Granted >= 0 /\ Granted + fr >= Granted
    BY GrantedAssumption
  <2> QED BY <1>6, <1>7, <1>8, <2>1 DEF Covered
<1> QED BY <1>1, <1>3, <1>4, <1>9 DEF PrefixInv

\* If the owner dies now, whatever prefix of its records the log keeps covers
\* what it books and every hold it leaves open: a hold's room is given again
\* only once the record that freed it is acknowledged (requests.go Admit and
\* decide, flush.go, spanner.go checkpoint).
THEOREM PrefixesCover == Spec => []StoredPrefixCovers
<1>1. Inv /\ BooksInv /\ PrefixInv => StoredPrefixCovers
  <2> SUFFICES ASSUME Inv, BooksInv, PrefixInv, NEW m \in acked .. Len(log)
               PROVE  ConsumedAfter(m) + HeldAfter(m) <= AllocationAfter(m)
    BY DEF StoredPrefixCovers
  <2>1. m \in 0 .. Len(log) /\ log \in Seq(RecordType)
    BY BooksParts
  <2>2. PICK al \in Int : al = AllocatedOf(log, m)
    BY <2>1, AllocatedType
  <2>3. PICK ch \in Nat : ch = ChargesOf(log, m)
    BY <2>1, LogSums
  <2>4. PICK es \in Nat : es = EstimatesOf(hold, LeftOf(log, Admitted, m))
    BY LeftSums, KnownAlways DEF BooksInv
  <2>5. RoomOf(log, hold, Admitted, m) >= 0
    BY DEF PrefixInv, Covered
  <2>6. al - ch - es >= 0
    BY <2>2, <2>3, <2>4, <2>5 DEF RoomOf
  <2>7. HeldAfter(m) = es
    BY <2>4 DEF HeldAfter, OpenAfter, Ended, EndedOf, LeftOf, Admitted, EstimatesOf
  <2>8. ConsumedAfter(m) = ch /\ AllocationAfter(m) = al
    BY <2>2, <2>3, AfterIs
  <2> QED BY <2>6, <2>7, <2>8
<1>2. Init => TermInv
  BY DEF Init, TermInv, TerminalsDecide, TerminalsDiffer
<1> QED
  BY <1>1, <1>2, InitInv, NextInv, NextTermInv, InitBooksInv, NextBooksInv,
     InitPrefixInv, NextPrefixInv, PTL DEF Spec

-----------------------------------------------------------------------------
(* The row follows the records it has applied, and faults no honest owner     *)
(* (RowFollowsRecords).                                                       *)

\* What record m + 1 does to the figures of the records 1 .. m.
FiguresStep(l, m) ==
  /\ ChargesOf(l, m + 1) = ChargesOf(l, m) + l[m + 1].charge
  /\ RaisesOf(l, m + 1) = RaisesOf(l, m) + l[m + 1].raise
  /\ ReturnsOf(l, m + 1) = ReturnsOf(l, m) + l[m + 1].return
  /\ TotalOf(l, m + 1) = NextTotal(l[m + 1], TotalOf(l, m))

LEMMA FiguresMove ==
  ASSUME NEW l \in Seq(RecordType), NEW m \in Nat, m + 1 <= Len(l)
  PROVE  FiguresStep(l, m)
<1>1. PICK r \in RecordType : r = l[m + 1]
  <2>1. m + 1 \in 1 .. Len(l)
    OBVIOUS
  <2>2. l[m + 1] \in RecordType
    BY <2>1, ElementOfSeq
  <2> QED BY <2>2
<1>2. PICK p \in Seq(RecordType) : Len(p) = m /\ \A n \in 1 .. m : p[n] = l[n]
  <2> DEFINE p == [n \in 1 .. m |-> l[n]]
  <2>1. \A n \in 1 .. m : l[n] \in RecordType
    BY ElementOfSeq
  <2>2. p \in Seq(RecordType) /\ Len(p) = m /\ \A n \in 1 .. m : p[n] = l[n]
    <3>1. p \in [1 .. m -> RecordType]
      BY <2>1
    <3>2. p \in Seq(RecordType)
      BY <3>1, SeqDef
    <3>3. DOMAIN p = 1 .. m
      OBVIOUS
    <3>4. Len(p) = m
      BY <3>2, <3>3, LenProperties
    <3> QED BY <3>2, <3>4
  <2> QED BY <2>2
<1>3. PICK q : q = p \o <<r>>
  OBVIOUS
<1>4. \A n \in 1 .. m + 1 : q[n] = l[n]
  <2>1. q[m + 1] = r /\ \A n \in 1 .. m : q[n] = p[n]
    BY <1>2, <1>3, LogGrows
  <2>2. \A n \in 1 .. m + 1 : n \in 1 .. m \/ n = m + 1
    OBVIOUS
  <2> QED BY <1>1, <1>2, <2>1, <2>2
<1>5. /\ ChargesOf(q, m + 1) = ChargesOf(l, m + 1)
      /\ RaisesOf(q, m + 1) = RaisesOf(l, m + 1)
      /\ ReturnsOf(q, m + 1) = ReturnsOf(l, m + 1)
      /\ TotalOf(q, m + 1) = TotalOf(l, m + 1)
  <2>1. m + 1 \in Nat
    OBVIOUS
  <2> QED BY <1>4, <2>1, PrefixKept
<1>6. /\ ChargesOf(p, m) = ChargesOf(l, m) /\ RaisesOf(p, m) = RaisesOf(l, m)
      /\ ReturnsOf(p, m) = ReturnsOf(l, m) /\ TotalOf(p, m) = TotalOf(l, m)
  BY <1>2, PrefixKept
<1>7. ChargesOf(q, m + 1) = ChargesOf(p, m) + r.charge
  BY <1>2, <1>3, ChargesGrow
<1>8. RaisesOf(q, m + 1) = RaisesOf(p, m) + r.raise
  BY <1>2, <1>3, RaisesGrow
<1>9. ReturnsOf(q, m + 1) = ReturnsOf(p, m) + r.return
  BY <1>2, <1>3, ReturnsGrow
<1>10. TotalOf(q, m + 1) = NextTotal(r, TotalOf(p, m))
  BY <1>2, <1>3, TotalGrows
<1> QED BY <1>1, <1>5, <1>6, <1>7, <1>8, <1>9, <1>10 DEF FiguresStep

\* The figures are numbers.
LEMMA FiguresTypes ==
  ASSUME NEW l \in Seq(RecordType), NEW m \in 0 .. Len(l)
  PROVE  /\ ChargesOf(l, m) \in Nat /\ RaisesOf(l, m) \in Nat
         /\ ReturnsOf(l, m) \in Nat /\ TotalOf(l, m) \in Nat
         /\ AllocatedOf(l, m) \in Int
  BY LogSums, TotalType, AllocatedType

\* A record's allocation is what was allocated before it and what it moves.
AllocatedMoves(l, m) ==
  AllocatedOf(l, m + 1) =
    AllocatedOf(l, m) + (TotalOf(l, m + 1) - TotalOf(l, m))
      + l[m + 1].raise - l[m + 1].return

LEMMA AllocatedStep ==
  ASSUME NEW l \in Seq(RecordType), NEW m \in Nat, m + 1 <= Len(l)
  PROVE  AllocatedMoves(l, m)
<1>1. FiguresStep(l, m)
  BY FiguresMove
<1>2. m \in 0 .. Len(l) /\ m + 1 \in 0 .. Len(l) /\ m + 1 \in 1 .. Len(l)
  OBVIOUS
<1>3. PICK ra \in Nat : ra = RaisesOf(l, m)
  BY <1>2, FiguresTypes
<1>4. PICK re \in Nat : re = ReturnsOf(l, m)
  BY <1>2, FiguresTypes
<1>5. PICK s0 \in Nat : s0 = TotalOf(l, m)
  BY <1>2, FiguresTypes
<1>6. PICK s1 \in Nat : s1 = TotalOf(l, m + 1)
  BY <1>2, FiguresTypes
<1>7. PICK x \in Nat, y \in Nat : x = l[m + 1].raise /\ y = l[m + 1].return
  BY <1>2, RecordMoney
<1>8. RaisesOf(l, m + 1) = ra + x /\ ReturnsOf(l, m + 1) = re + y
  BY <1>1, <1>3, <1>4, <1>7 DEF FiguresStep
<1>9. /\ AllocatedOf(l, m) = Granted + s0 + ra - re
      /\ AllocatedOf(l, m + 1) = Granted + s1 + (ra + x) - (re + y)
  BY <1>3, <1>4, <1>5, <1>6, <1>8 DEF AllocatedOf
<1>10. Granted + s1 + (ra + x) - (re + y)
         = (Granted + s0 + ra - re) + (s1 - s0) + x - y
  BY GrantedAssumption
<1> QED BY <1>5, <1>6, <1>7, <1>9, <1>10 DEF AllocatedMoves

\* What a row that has applied w.applied of the records l holds.
Follows(w, l) ==
  /\ w.consumed = ChargesOf(l, w.applied)
  /\ w.allocation = AllocatedOf(l, w.applied)
                      + (w.shortfall - TotalOf(l, w.applied))
                      + (w.doorRaised - RaisesOf(l, w.applied))
  /\ w.shortfall >= TotalOf(l, w.applied)
  /\ w.faultUsage = 0 /\ w.auditFault = 0
  /\ w.osum = ChargesOf(l, w.applied) /\ w.winners = EndedOf(l, w.applied)

\* What the owner's record n states of the records before it.
TerminalSound(l, n) ==
  /\ l[n].return = 0 /\ l[n].auth \notin EndedOf(l, n - 1) /\ l[n].auth \in Auths
  /\ l[n].shortfall >= TotalOf(l, n - 1)
CheckpointSound(l, n) ==
  /\ l[n].charge = 0 /\ l[n].raise = 0 /\ l[n].consumed = ChargesOf(l, n - 1)
  /\ l[n].openSum <= AllocatedOf(l, n) - ChargesOf(l, n)
Sound(l, n) ==
  /\ ChargesOf(l, n) <= AllocatedOf(l, n)
  /\ \/ l[n].kind \in Terminals /\ TerminalSound(l, n)
     \/ l[n].kind = "checkpoint" /\ CheckpointSound(l, n)
     \/ l[n].kind /= "checkpoint" /\ MoneyFree(l[n])

\* Whose terminal is among one record more.
LEMMA EndedStep ==
  ASSUME NEW l, NEW m \in Nat
  PROVE  EndedOf(l, m + 1) =
           IF l[m + 1].kind \in Terminals /\ l[m + 1].auth \in Auths
             THEN EndedOf(l, m) \union {l[m + 1].auth} ELSE EndedOf(l, m)
<1>1. \A n \in 1 .. m + 1 : n \in 1 .. m \/ n = m + 1
  OBVIOUS
<1>2. \A n \in 1 .. m : n \in 1 .. m + 1
  OBVIOUS
<1>3. m + 1 \in 1 .. m + 1
  OBVIOUS
<1>4. ASSUME NEW a \in EndedOf(l, m + 1)
      PROVE  a \in EndedOf(l, m) \/ (l[m + 1].kind \in Terminals /\ l[m + 1].auth = a)
  BY <1>1 DEF EndedOf
<1>5. EndedOf(l, m) \subseteq EndedOf(l, m + 1)
  BY <1>2 DEF EndedOf
<1>6. l[m + 1].kind \in Terminals /\ l[m + 1].auth \in Auths
        => l[m + 1].auth \in EndedOf(l, m + 1)
  BY <1>3 DEF EndedOf
<1>7. EndedOf(l, m + 1) \subseteq Auths
  BY DEF EndedOf
<1> QED BY <1>4, <1>5, <1>6, <1>7
\* A booking's columns.
Booked(b, m, charge, total, al, bo) ==
  /\ al = m.allocation + Pos(total - m.shortfall)
  /\ bo = Pos(Least(charge, al - m.consumed))
  /\ b.allocation = al /\ b.consumed = m.consumed + bo
  /\ b.shortfall = Most(m.shortfall, total)
  /\ b.faultUsage = m.faultUsage + (charge - bo)
  /\ b.doorRaised = m.doorRaised /\ b.auditFault = m.auditFault
  /\ b.winners = m.winners /\ b.osum = m.osum

LEMMA BookFields ==
  ASSUME NEW m \in RowType, NEW charge \in Nat, NEW total \in Nat
  PROVE  \E al, bo : Booked(Book(m, charge, total), m, charge, total, al, bo)
<1>1. PICK al : al = m.allocation + Pos(total - m.shortfall)
  OBVIOUS
<1>2. PICK bo : bo = Pos(Least(charge, al - m.consumed))
  OBVIOUS
<1>3. Book(m, charge, total) =
        [m EXCEPT !.allocation = al, !.shortfall = Most(m.shortfall, total),
                  !.consumed = m.consumed + bo,
                  !.faultUsage = m.faultUsage + (charge - bo)]
  BY <1>1, <1>2 DEF Book
<1>4. PICK b : b = Book(m, charge, total)
  OBVIOUS
<1>5. /\ b.allocation = al /\ b.consumed = m.consumed + bo
      /\ b.shortfall = Most(m.shortfall, total)
      /\ b.faultUsage = m.faultUsage + (charge - bo)
      /\ b.doorRaised = m.doorRaised /\ b.auditFault = m.auditFault
      /\ b.winners = m.winners /\ b.osum = m.osum
  BY <1>3, <1>4 DEF RowType
<1>6. Booked(b, m, charge, total, al, bo)
  BY <1>1, <1>2, <1>5 DEF Booked
<1> QED BY <1>4, <1>6

\* A terminal's, the first of its authorization.
TerminalApplied(v, b, r, n) ==
  /\ v.allocation = b.allocation /\ v.consumed = b.consumed
  /\ v.shortfall = b.shortfall /\ v.faultUsage = b.faultUsage
  /\ v.doorRaised = b.doorRaised /\ v.auditFault = b.auditFault
  /\ v.winners = b.winners \union {r.auth} /\ v.osum = b.osum + r.charge
  /\ v.applied = n

LEMMA TerminalFields ==
  ASSUME NEW m \in RowType, NEW r \in RecordType, NEW n \in Nat,
         r.kind \in Terminals, r.auth \in Auths, r.auth \notin m.winners
  PROVE  TerminalApplied(ApplyRecord(m, n, r), Book(m, r.charge, r.shortfall), r, n)
<1>1. PICK b : b = Book(m, r.charge, r.shortfall)
  OBVIOUS
<1>2. b \in RowType
  BY <1>1, BookType DEF RecordType
<1>3. ApplyRecord(m, n, r) =
        [[b EXCEPT !.winners = b.winners \union {r.auth}, !.osum = b.osum + r.charge]
           EXCEPT !.applied = n]
  BY <1>1 DEF ApplyRecord, ApplyTerminal
<1> QED BY <1>1, <1>2, <1>3 DEF RowType, TerminalApplied

\* A checkpoint's, that finds what it states.
CheckpointApplied(v, m, r, n) ==
  /\ v.allocation = m.allocation - r.return /\ v.consumed = m.consumed
  /\ v.shortfall = m.shortfall /\ v.faultUsage = m.faultUsage
  /\ v.doorRaised = m.doorRaised /\ v.auditFault = m.auditFault
  /\ v.winners = m.winners /\ v.osum = m.osum /\ v.applied = n

LEMMA CheckpointFields ==
  ASSUME NEW m \in RowType, NEW r \in RecordType, NEW n \in Nat,
         r.kind = "checkpoint", r.return <= m.allocation - m.consumed,
         r.openSum <= m.allocation - r.return - m.consumed, r.consumed = m.osum
  PROVE  CheckpointApplied(ApplyRecord(m, n, r), m, r, n)
<1>1. /\ m.allocation \in Int /\ m.consumed \in Int /\ r.return \in Nat
      /\ r.openSum \in Int
  BY RowFields DEF RecordType
<1>2. PICK t : t = [m EXCEPT !.allocation = m.allocation - r.return,
                             !.returned = m.returned + r.return]
  OBVIOUS
<1>3. /\ t.allocation = m.allocation - r.return /\ t.consumed = m.consumed
      /\ t.shortfall = m.shortfall /\ t.faultUsage = m.faultUsage
      /\ t.doorRaised = m.doorRaised /\ t.auditFault = m.auditFault
      /\ t.winners = m.winners /\ t.osum = m.osum /\ "applied" \in DOMAIN t
  BY <1>2 DEF RowType
<1>4. TakeReturn(m, n, r.return) = t
  BY <1>1, <1>2 DEF TakeReturn
<1>5. CheckOpen(t, n, r.openSum) = t
  BY <1>1, <1>3 DEF CheckOpen
<1>6. ApplyCheckpoint(m, n, r) = t
  BY <1>4, <1>5 DEF ApplyCheckpoint
<1>7. ApplyRecord(m, n, r) = [t EXCEPT !.applied = n]
  BY <1>6 DEF ApplyRecord, Terminals
<1> QED
  <2>1. t \in RowType
    <3>1. m.allocation - r.return \in Int /\ m.returned + r.return \in Nat
      BY <1>1, RowFields
    <3> QED BY <1>2, <3>1, RowFields DEF RowType
  <2> QED BY <1>3, <1>7, <2>1 DEF RowType, CheckpointApplied

\* The room a booking finds: the record's own figures leave enough.
BookingRoom(a0, s0, s1, sf, dr, r0, ra, c0, ch, al) ==
  /\ r0 + ra <= dr /\ c0 + ch <= a0 + (s1 - s0) + ra
  /\ al = a0 + (sf - s0) + (dr - r0) + Pos(s1 - sf)
BookingLeaves(a0, s0, s1, sf, dr, r0, ra, c0, ch, al) ==
  /\ al = (a0 + (s1 - s0) + ra) + (Most(sf, s1) - s1) + (dr - (r0 + ra))
  /\ Most(sf, s1) >= s1 /\ Most(sf, s1) \in Nat
  /\ Pos(Least(ch, al - c0)) = ch

LEMMA BookingFits ==
  ASSUME NEW a0 \in Int, NEW s0 \in Nat, NEW s1 \in Nat, NEW sf \in Nat, NEW dr \in Nat,
         NEW r0 \in Nat, NEW ra \in Nat, NEW c0 \in Nat, NEW ch \in Nat, NEW al \in Int,
         BookingRoom(a0, s0, s1, sf, dr, r0, ra, c0, ch, al)
  PROVE  BookingLeaves(a0, s0, s1, sf, dr, r0, ra, c0, ch, al)
<1> USE DEF BookingRoom, BookingLeaves
<1>1. CASE s1 > sf
  <2>1. Most(sf, s1) = s1 /\ Pos(s1 - sf) = s1 - sf
    BY <1>1 DEF Most, Pos
  <2>2. al - c0 >= ch
    BY <2>1
  <2>3. Least(ch, al - c0) = ch
    BY <2>2 DEF Least
  <2>4. Pos(ch) = ch
    BY DEF Pos
  <2> QED BY <2>1, <2>3, <2>4
<1>2. CASE ~(s1 > sf)
  <2>1. Pos(s1 - sf) = 0
    BY <1>2 DEF Pos
  <2>5. Most(sf, s1) = sf
    BY <1>2 DEF Most
  <2>2. al - c0 >= ch
    BY <1>2, <2>1
  <2>3. Least(ch, al - c0) = ch
    BY <2>2 DEF Least
  <2>4. Pos(ch) = ch
    BY DEF Pos
  <2> QED BY <1>2, <2>1, <2>3, <2>4, <2>5
<1> QED BY <1>1, <1>2

\* What the record k + 1 of l leaves of a row w.
Applied(v, w, l, k) ==
  /\ Follows(v, l) /\ v.applied = k + 1 /\ v.doorRaised = w.doorRaised

\* The row after the next terminal follows it.
LEMMA TerminalFollows ==
  ASSUME NEW w \in RowType, NEW l \in Seq(RecordType), NEW k \in Nat, w.applied = k,
         k + 1 <= Len(l), Follows(w, l), Sound(l, k + 1),
         l[k + 1].kind \in Terminals, RaisesOf(l, k + 1) <= w.doorRaised
  PROVE  /\ Applied(ApplyRecord(w, k + 1, l[k + 1]), w, l, k)
         /\ ApplyRecord(w, k + 1, l[k + 1]).shortfall = Most(w.shortfall, l[k + 1].shortfall)
<1>1. PICK r \in RecordType : r = l[k + 1]
  <2>1. k + 1 \in 1 .. Len(l)
    OBVIOUS
  <2>2. l[k + 1] \in RecordType
    BY <2>1, ElementOfSeq
  <2> QED BY <2>2
<1>2. k \in 0 .. Len(l) /\ k + 1 \in 0 .. Len(l) /\ (k + 1) - 1 = k
  OBVIOUS
<1>3. r.kind /= "checkpoint" /\ ~MoneyFree(r) /\ r.kind \in Terminals
  BY <1>1 DEF Terminals, MoneyFree
<1>4. /\ r.return = 0 /\ r.auth \notin EndedOf(l, k) /\ r.auth \in Auths
      /\ r.shortfall >= TotalOf(l, k) /\ ChargesOf(l, k + 1) <= AllocatedOf(l, k + 1)
  BY <1>1, <1>2, <1>3 DEF Sound, TerminalSound
<1>5. PICK c0 \in Nat, r0 \in Nat, s0 \in Nat, a0 \in Int :
        /\ c0 = ChargesOf(l, k) /\ r0 = RaisesOf(l, k) /\ s0 = TotalOf(l, k)
        /\ a0 = AllocatedOf(l, k)
  BY <1>2, FiguresTypes
<1>6. PICK ch \in Nat, ra \in Nat : ch = r.charge /\ ra = r.raise
  BY DEF RecordType
<1>7. PICK s1 \in Nat : s1 = r.shortfall
  BY DEF RecordType
<1>8. /\ ChargesOf(l, k + 1) = c0 + ch /\ RaisesOf(l, k + 1) = r0 + ra
      /\ TotalOf(l, k + 1) = s1
  BY <1>1, <1>3, <1>5, <1>6, <1>7, FiguresMove DEF FiguresStep, NextTotal
<1>9. AllocatedOf(l, k + 1) = a0 + (s1 - s0) + ra
  <2>1. AllocatedMoves(l, k)
    BY AllocatedStep
  <2>2. l[k + 1].raise = ra /\ l[k + 1].return = 0
    BY <1>1, <1>4, <1>6
  <2>3. AllocatedOf(l, k + 1) = a0 + (s1 - s0) + ra - 0
    BY <1>5, <1>8, <2>1, <2>2 DEF AllocatedMoves
  <2>4. a0 + (s1 - s0) + ra - 0 = a0 + (s1 - s0) + ra
    OBVIOUS
  <2> QED BY <2>3, <2>4
<1>10. PICK sf \in Nat, dr \in Nat : sf = w.shortfall /\ dr = w.doorRaised
  BY RowFields
<1>11. /\ w.consumed = c0 /\ w.allocation = a0 + (sf - s0) + (dr - r0)
       /\ w.faultUsage = 0 /\ w.auditFault = 0 /\ w.osum = c0
       /\ w.winners = EndedOf(l, k)
  BY <1>5, <1>10 DEF Follows
<1>12. r0 + ra <= dr
  BY <1>8, <1>10
<1>13. c0 + ch <= a0 + (s1 - s0) + ra
  BY <1>4, <1>8, <1>9
<1>14. PICK b : b = Book(w, r.charge, r.shortfall)
  OBVIOUS
<1>15. PICK al, bo : Booked(b, w, ch, s1, al, bo)
  BY <1>6, <1>7, <1>14, BookFields
<1>16. al = a0 + (sf - s0) + (dr - r0) + Pos(s1 - sf)
  BY <1>10, <1>11, <1>15 DEF Booked
<1>17. bo = Pos(Least(ch, al - c0))
  BY <1>11, <1>15 DEF Booked
<1>18. al \in Int
  BY <1>16 DEF Pos
<1>19. /\ al = (a0 + (s1 - s0) + ra) + (Most(sf, s1) - s1) + (dr - (r0 + ra))
       /\ Most(sf, s1) >= s1 /\ Most(sf, s1) \in Nat /\ Pos(Least(ch, al - c0)) = ch
  <2>1. BookingRoom(a0, s0, s1, sf, dr, r0, ra, c0, ch, al)
    BY <1>12, <1>13, <1>16 DEF BookingRoom
  <2>2. BookingLeaves(a0, s0, s1, sf, dr, r0, ra, c0, ch, al)
    BY <1>18, <2>1, BookingFits
  <2> QED BY <2>2 DEF BookingLeaves
<1>20. PICK v : v = ApplyRecord(w, k + 1, r)
  OBVIOUS
<1>21. TerminalApplied(v, b, r, k + 1)
  <2>1. r.auth \notin w.winners
    BY <1>4, <1>11
  <2>2. TerminalApplied(ApplyRecord(w, k + 1, r), Book(w, r.charge, r.shortfall), r, k + 1)
    <3>1. k + 1 \in Nat
      OBVIOUS
    <3> QED BY <1>3, <1>4, <2>1, <3>1, TerminalFields
  <2> QED BY <1>14, <1>20, <2>2
<1>22. /\ v.allocation = al /\ v.consumed = c0 + ch /\ v.shortfall = Most(sf, s1)
       /\ v.doorRaised = dr /\ v.auditFault = 0
       /\ v.winners = EndedOf(l, k) \union {r.auth} /\ v.osum = c0 + ch
       /\ v.applied = k + 1
  BY <1>6, <1>10, <1>11, <1>15, <1>17, <1>19, <1>21 DEF TerminalApplied, Booked
<1>23. v.faultUsage = 0
  <2>1. v.faultUsage = 0 + (ch - ch)
    BY <1>11, <1>15, <1>17, <1>19, <1>21 DEF TerminalApplied, Booked
  <2> QED BY <2>1
<1>24. EndedOf(l, k + 1) = EndedOf(l, k) \union {r.auth}
  BY <1>1, <1>3, <1>4, EndedStep
<1>25. v.allocation = AllocatedOf(l, k + 1) + (v.shortfall - TotalOf(l, k + 1))
                        + (v.doorRaised - RaisesOf(l, k + 1))
  BY <1>8, <1>9, <1>19, <1>22
<1>26. Follows(v, l)
  BY <1>8, <1>19, <1>22, <1>23, <1>24, <1>25 DEF Follows
<1> QED BY <1>1, <1>7, <1>10, <1>20, <1>22, <1>26 DEF Applied

\* The row after the next checkpoint follows it.
LEMMA CheckpointFollows ==
  ASSUME NEW w \in RowType, NEW l \in Seq(RecordType), NEW k \in Nat, w.applied = k,
         k + 1 <= Len(l), Follows(w, l), Sound(l, k + 1),
         l[k + 1].kind = "checkpoint", RaisesOf(l, k + 1) <= w.doorRaised
  PROVE  /\ Applied(ApplyRecord(w, k + 1, l[k + 1]), w, l, k)
         /\ ApplyRecord(w, k + 1, l[k + 1]).shortfall = w.shortfall
<1>1. PICK r \in RecordType : r = l[k + 1]
  <2>1. k + 1 \in 1 .. Len(l)
    OBVIOUS
  <2>2. l[k + 1] \in RecordType
    BY <2>1, ElementOfSeq
  <2> QED BY <2>2
<1>2. k \in 0 .. Len(l) /\ k + 1 \in 0 .. Len(l) /\ (k + 1) - 1 = k
  OBVIOUS
<1>3. r.kind = "checkpoint" /\ r.kind \notin Terminals
  BY <1>1 DEF Terminals
<1>4. /\ r.charge = 0 /\ r.raise = 0 /\ r.consumed = ChargesOf(l, k)
      /\ r.openSum <= AllocatedOf(l, k + 1) - ChargesOf(l, k + 1)
      /\ ChargesOf(l, k + 1) <= AllocatedOf(l, k + 1)
  BY <1>1, <1>2, <1>3 DEF Sound, CheckpointSound
<1>5. PICK c0 \in Nat, r0 \in Nat, s0 \in Nat, a0 \in Int :
        /\ c0 = ChargesOf(l, k) /\ r0 = RaisesOf(l, k) /\ s0 = TotalOf(l, k)
        /\ a0 = AllocatedOf(l, k)
  BY <1>2, FiguresTypes
<1>6. PICK re \in Nat, os \in Int : re = r.return /\ os = r.openSum
  BY DEF RecordType
<1>7. FiguresStep(l, k) /\ AllocatedMoves(l, k)
  BY FiguresMove, AllocatedStep
<1>8. l[k + 1].charge = 0 /\ l[k + 1].raise = 0 /\ l[k + 1].return = re /\ l[k + 1].kind \notin Terminals
  BY <1>1, <1>3, <1>4, <1>6
<1>9. ChargesOf(l, k + 1) = c0 /\ RaisesOf(l, k + 1) = r0
  BY <1>5, <1>7, <1>8 DEF FiguresStep
<1>10. TotalOf(l, k + 1) = s0
  BY <1>5, <1>7, <1>8 DEF FiguresStep, NextTotal
<1>11. AllocatedOf(l, k + 1) = a0 - re
  BY <1>5, <1>7, <1>8, <1>10 DEF AllocatedMoves
<1>12. PICK sf \in Nat, dr \in Nat : sf = w.shortfall /\ dr = w.doorRaised
  BY RowFields
<1>13. /\ w.consumed = c0 /\ w.allocation = a0 + (sf - s0) + (dr - r0) /\ sf >= s0
       /\ w.faultUsage = 0 /\ w.auditFault = 0 /\ w.osum = c0
       /\ w.winners = EndedOf(l, k)
  BY <1>5, <1>12 DEF Follows
<1>14. PICK al \in Int : al = w.allocation /\ al = a0 + (sf - s0) + (dr - r0)
  BY <1>13
<1>15. r0 <= dr /\ os <= (a0 - re) - c0 /\ c0 <= a0 - re
  BY <1>4, <1>6, <1>9, <1>11, <1>12
<1>16. re <= al - c0 /\ os <= al - re - c0
  <2>1. al >= a0
    BY <1>13, <1>14, <1>15
  <2> QED BY <1>15, <2>1
<1>17. PICK v : v = ApplyRecord(w, k + 1, r)
  OBVIOUS
<1>18. CheckpointApplied(v, w, r, k + 1)
  <2>1. r.return <= w.allocation - w.consumed
    BY <1>6, <1>13, <1>14, <1>16
  <2>2. r.openSum <= w.allocation - r.return - w.consumed
    BY <1>6, <1>13, <1>14, <1>16
  <2>3. r.consumed = w.osum
    BY <1>4, <1>5, <1>13
  <2>4. k + 1 \in Nat
    OBVIOUS
  <2> QED BY <1>3, <1>17, <2>1, <2>2, <2>3, <2>4, CheckpointFields
<1>19. /\ v.allocation = al - re /\ v.consumed = c0 /\ v.shortfall = sf
       /\ v.faultUsage = 0 /\ v.doorRaised = dr /\ v.auditFault = 0
       /\ v.winners = EndedOf(l, k) /\ v.osum = c0 /\ v.applied = k + 1
  BY <1>6, <1>12, <1>13, <1>14, <1>18 DEF CheckpointApplied
<1>20. EndedOf(l, k + 1) = EndedOf(l, k)
  BY <1>8, EndedStep
<1>21. v.allocation = AllocatedOf(l, k + 1) + (v.shortfall - TotalOf(l, k + 1))
                        + (v.doorRaised - RaisesOf(l, k + 1))
  BY <1>9, <1>10, <1>11, <1>14, <1>19
<1>22. Follows(v, l)
  BY <1>9, <1>10, <1>13, <1>19, <1>20, <1>21 DEF Follows
<1> QED BY <1>1, <1>12, <1>17, <1>19, <1>22 DEF Applied

\* A record that moves no money leaves the row's.
LEMMA BlankFollows ==
  ASSUME NEW w \in RowType, NEW l \in Seq(RecordType), NEW k \in Nat, w.applied = k,
         k + 1 <= Len(l), Follows(w, l), MoneyFree(l[k + 1]), l[k + 1].kind /= "checkpoint"
  PROVE  /\ Applied(ApplyRecord(w, k + 1, l[k + 1]), w, l, k)
         /\ ApplyRecord(w, k + 1, l[k + 1]).shortfall = w.shortfall
<1>1. PICK r : r = l[k + 1]
  OBVIOUS
<1>2. k \in 0 .. Len(l) /\ k + 1 \in 0 .. Len(l)
  OBVIOUS
<1>3. /\ l[k + 1].charge = 0 /\ l[k + 1].raise = 0 /\ l[k + 1].return = 0
      /\ l[k + 1].kind \notin Terminals
  BY DEF MoneyFree
<1>4. PICK c0 \in Nat, r0 \in Nat, s0 \in Nat, a0 \in Int :
        /\ c0 = ChargesOf(l, k) /\ r0 = RaisesOf(l, k) /\ s0 = TotalOf(l, k)
        /\ a0 = AllocatedOf(l, k)
  BY <1>2, FiguresTypes
<1>5. FiguresStep(l, k) /\ AllocatedMoves(l, k)
  BY FiguresMove, AllocatedStep
<1>6. ChargesOf(l, k + 1) = c0 /\ RaisesOf(l, k + 1) = r0
  BY <1>3, <1>4, <1>5 DEF FiguresStep
<1>7. TotalOf(l, k + 1) = s0
  BY <1>3, <1>4, <1>5 DEF FiguresStep, NextTotal
<1>8. AllocatedOf(l, k + 1) = a0
  BY <1>3, <1>4, <1>5, <1>7 DEF AllocatedMoves
<1>9. EndedOf(l, k + 1) = EndedOf(l, k)
  BY <1>3, EndedStep
<1>10. PICK v : v = ApplyRecord(w, k + 1, r)
  OBVIOUS
<1>11. v = [w EXCEPT !.applied = k + 1]
  BY <1>1, <1>3, <1>10 DEF ApplyRecord
<1>12. /\ v.allocation = w.allocation /\ v.consumed = w.consumed
       /\ v.shortfall = w.shortfall /\ v.faultUsage = w.faultUsage
       /\ v.doorRaised = w.doorRaised /\ v.auditFault = w.auditFault
       /\ v.winners = w.winners /\ v.osum = w.osum /\ v.applied = k + 1
  BY <1>11 DEF RowType
<1>13. Follows(v, l)
  BY <1>4, <1>6, <1>7, <1>8, <1>9, <1>12 DEF Follows
<1> QED BY <1>1, <1>10, <1>12, <1>13 DEF Applied

-----------------------------------------------------------------------------
\* A sum whose values are another's, each taken once, is no more than it.
Draws(f, g, S, T, p) ==
  /\ \A x \in S : f[x] /= 0 => p[x] \in T /\ g[p[x]] = f[x]
  /\ \A x, y \in S : f[x] /= 0 /\ f[y] /= 0 /\ p[x] = p[y] => x = y

LEMMA SumDraws ==
  ASSUME NEW S, IsFiniteSet(S), NEW T, IsFiniteSet(T), NEW p,
         NEW f \in [S -> Nat], NEW g \in [T -> Nat], Draws(f, g, S, T, p)
  PROVE  Sum(f) <= Sum(g)
<1>1. /\ IsFiniteSet(Pairs(f)) /\ Sum(f) = Cardinality(Pairs(f))
      /\ IsFiniteSet(Pairs(g)) /\ Sum(g) = Cardinality(Pairs(g))
  BY PairsFinite
<1>2. ASSUME NEW u \in Pairs(f)
      PROVE  /\ u = <<u[1], u[2]>> /\ u[1] \in S /\ u[2] \in 1 .. f[u[1]] /\ f[u[1]] /= 0
             /\ <<p[u[1]], u[2]>> \in Pairs(g)
  <2>1. PICK x \in S : u \in {x} \X (1 .. f[x])
    BY PairsOf
  <2>2. u = <<u[1], u[2]>> /\ u[1] = x /\ u[2] \in 1 .. f[x]
    BY <2>1
  <2>3. f[x] \in Nat
    OBVIOUS
  <2>4. f[x] /= 0
    BY <2>2, <2>3
  <2>5. p[x] \in T /\ g[p[x]] = f[x]
    BY <2>4 DEF Draws
  <2>6. <<p[x], u[2]>> \in {p[x]} \X (1 .. g[p[x]])
    BY <2>2, <2>5
  <2>7. p[x] \in DOMAIN g
    BY <2>5
  <2>8. <<p[x], u[2]>> \in Pairs(g)
    BY <2>6, <2>7, PairsOf
  <2> QED BY <2>2, <2>4, <2>8
<1> DEFINE q == [u \in Pairs(f) |-> <<p[u[1]], u[2]>>]
<1>3. q \in [Pairs(f) -> Pairs(g)]
  BY <1>2
<1>4. ASSUME NEW u \in Pairs(f), NEW v \in Pairs(f), q[u] = q[v] PROVE u = v
  <2>1. <<p[u[1]], u[2]>> = <<p[v[1]], v[2]>>
    BY <1>4
  <2>2. p[u[1]] = p[v[1]] /\ u[2] = v[2]
    BY <2>1
  <2>3. u[1] = v[1]
    BY <1>2, <2>2 DEF Draws
  <2>4. u = <<u[1], u[2]>> /\ v = <<v[1], v[2]>>
    BY <1>2
  <2> QED BY <2>2, <2>3, <2>4
<1>5. q \in Injection(Pairs(f), Pairs(g))
  <2> HIDE DEF q
  <2> QED BY <1>3, <1>4, Fun_IsInj
<1> HIDE DEF q
<1> QED BY <1>1, <1>5, FS_Injection

\* What the front doors' rows raised.
DoorsOf(d) == Sum([i \in 1 .. Len(d) |-> d[i].raise])

\* A record that raises the allocation is a drain-log row's, adopted.
Linked(r, d) ==
  r.raise /= 0 =>
    /\ r.kind \in Terminals /\ r.drain \in 1 .. Len(d)
    /\ d[r.drain].raise = r.raise /\ d[r.drain].auth = r.auth

LinkInv == \A n \in 1 .. Len(log) : Linked(log[n], drain)

\* So the raises the records state, the rows have made.
LEMMA RaisesFit ==
  ASSUME Inv, TermInv, LinkInv, NEW m \in 0 .. Len(log)
  PROVE  RaisesOf(log, m) <= DoorsOf(drain)
<1>1. /\ log \in Seq(RecordType) /\ Len(log) \in Nat /\ m \in Nat /\ RowTypeOK
      /\ \A n \in 1 .. m : n \in 1 .. Len(log)
  BY DEF Inv, TypeOK, PipeType
<1>2. \A n \in 1 .. Len(log) : log[n].raise \in Nat
  BY <1>1, RecordMoney
<1>3. Len(drain) \in Nat /\ \A i \in 1 .. Len(drain) : drain[i].raise \in Nat
  BY <1>1, DrainRows
<1> DEFINE f == [n \in 1 .. m |-> log[n].raise]
           g == [i \in 1 .. Len(drain) |-> drain[i].raise]
           p == [n \in 1 .. m |-> log[n].drain]
<1>4. f \in [1 .. m -> Nat] /\ g \in [1 .. Len(drain) -> Nat]
  BY <1>1, <1>2, <1>3
<1>5. IsFiniteSet(1 .. m) /\ IsFiniteSet(1 .. Len(drain))
  BY <1>1, <1>3, FS_Interval
<1>6. ASSUME NEW n \in 1 .. m, f[n] /= 0
      PROVE  /\ p[n] \in 1 .. Len(drain) /\ g[p[n]] = f[n]
             /\ log[n].kind \in Terminals /\ drain[p[n]].auth = log[n].auth
  <2>1. n \in 1 .. Len(log) /\ log[n].raise /= 0
    BY <1>1, <1>6
  <2>2. /\ log[n].kind \in Terminals /\ log[n].drain \in 1 .. Len(drain)
        /\ drain[log[n].drain].raise = log[n].raise
        /\ drain[log[n].drain].auth = log[n].auth
    BY <2>1 DEF LinkInv, Linked
  <2> QED BY <2>2
<1>7. ASSUME NEW x \in 1 .. m, NEW y \in 1 .. m, f[x] /= 0, f[y] /= 0, p[x] = p[y]
      PROVE  x = y
  <2>1. log[x].kind \in Terminals /\ log[y].kind \in Terminals /\ log[x].auth = log[y].auth
    BY <1>6, <1>7
  <2> QED BY <1>1, <2>1 DEF TermInv, TerminalsDiffer
<1>8. RaisesOf(log, m) = Sum(f) /\ DoorsOf(drain) = Sum(g)
  BY DEF RaisesOf, DoorsOf
<1> HIDE DEF f, g, p
<1>9. Draws(f, g, 1 .. m, 1 .. Len(drain), p)
  BY <1>6, <1>7 DEF Draws
<1>10. Sum(f) <= Sum(g)
  BY <1>4, <1>5, <1>9, SumDraws
<1> QED BY <1>8, <1>10

\* The row after the next record follows it, and knows of no shortfall S has
\* not.
LEMMA ApplyFollows ==
  ASSUME NEW w \in RowType, NEW l \in Seq(RecordType), NEW k \in Nat, w.applied = k,
         k + 1 <= Len(l), Follows(w, l), Sound(l, k + 1),
         RaisesOf(l, k + 1) <= w.doorRaised, NEW S \in Nat, w.shortfall <= S,
         l[k + 1].kind \in Terminals => l[k + 1].shortfall <= S
  PROVE  /\ Applied(ApplyRecord(w, k + 1, l[k + 1]), w, l, k)
         /\ ApplyRecord(w, k + 1, l[k + 1]).shortfall <= S
<1>1. CASE l[k + 1].kind \in Terminals
  <2>1. /\ Applied(ApplyRecord(w, k + 1, l[k + 1]), w, l, k)
        /\ ApplyRecord(w, k + 1, l[k + 1]).shortfall = Most(w.shortfall, l[k + 1].shortfall)
    BY <1>1, TerminalFollows
  <2>2. Most(w.shortfall, l[k + 1].shortfall) <= S
    BY <1>1 DEF Most
  <2> QED BY <2>1, <2>2
<1>2. CASE l[k + 1].kind = "checkpoint"
  <2>1. /\ Applied(ApplyRecord(w, k + 1, l[k + 1]), w, l, k)
        /\ ApplyRecord(w, k + 1, l[k + 1]).shortfall = w.shortfall
    BY <1>2, CheckpointFollows
  <2> QED BY <2>1
<1>3. CASE l[k + 1].kind /= "checkpoint" /\ MoneyFree(l[k + 1])
  <2>1. /\ Applied(ApplyRecord(w, k + 1, l[k + 1]), w, l, k)
        /\ ApplyRecord(w, k + 1, l[k + 1]).shortfall = w.shortfall
    BY <1>3, BlankFollows
  <2> QED BY <2>1
<1> QED BY <1>1, <1>2, <1>3 DEF Sound

\* Every record is sound, and what the records book fits what they allocate.
SoundLog(l) == \A n \in 1 .. Len(l) : Sound(l, n)
FitsLog(l) == ChargesOf(l, Len(l)) <= AllocatedOf(l, Len(l))

\* A sound record stays so, whatever follows it.
LEMMA SoundKept ==
  ASSUME NEW l, NEW l2, NEW n \in Nat, n >= 1, \A i \in 1 .. n : l2[i] = l[i], Sound(l, n)
  PROVE  Sound(l2, n)
<1>1. PICK m \in Nat : m = n - 1 /\ \A i \in 1 .. m : l2[i] = l[i]
  <2>1. n - 1 \in Nat /\ \A i \in 1 .. n - 1 : i \in 1 .. n
    OBVIOUS
  <2> QED BY <2>1
<1>2. /\ ChargesOf(l2, n) = ChargesOf(l, n) /\ AllocatedOf(l2, n) = AllocatedOf(l, n)
  BY PrefixKept
<1>3. /\ ChargesOf(l2, m) = ChargesOf(l, m) /\ TotalOf(l2, m) = TotalOf(l, m)
  BY <1>1, PrefixKept
<1>4. EndedOf(l2, m) = EndedOf(l, m)
  BY <1>1 DEF EndedOf
<1>5. l2[n] = l[n]
  <2>1. n \in 1 .. n
    OBVIOUS
  <2> QED BY <2>1
<1> QED BY <1>1, <1>2, <1>3, <1>4, <1>5 DEF Sound, TerminalSound, CheckpointSound

\* A log whose last record is sound, and the others were.
LEMMA SoundGrows ==
  ASSUME NEW l, NEW r, NEW l2, Grown(l, r, l2), SoundLog(l), Sound(l2, Len(l) + 1)
  PROVE  SoundLog(l2)
<1>1. /\ l \in Seq(RecordType) /\ Len(l) \in Nat
      /\ Len(l2) = Len(l) + 1 /\ \A n \in 1 .. Len(l) : l2[n] = l[n]
  BY LogGrows DEF Grown
<1>2. ASSUME NEW n \in 1 .. Len(l) PROVE Sound(l2, n)
  <2>1. n \in Nat /\ n >= 1 /\ \A i \in 1 .. n : i \in 1 .. Len(l)
    BY <1>1
  <2>2. \A i \in 1 .. n : l2[i] = l[i]
    BY <1>1, <2>1
  <2>3. Sound(l, n)
    BY DEF SoundLog
  <2> QED BY <2>1, <2>2, <2>3, SoundKept
<1>3. \A n \in 1 .. Len(l) + 1 : n \in 1 .. Len(l) \/ n = Len(l) + 1
  BY <1>1
<1> QED BY <1>1, <1>2, <1>3 DEF SoundLog

\* What a record more does to the figures of a whole log.
LEMMA GrownFigures ==
  ASSUME NEW l, NEW r, NEW l2, Grown(l, r, l2)
  PROVE  /\ FiguresStep(l2, Len(l)) /\ AllocatedMoves(l2, Len(l))
         /\ ChargesOf(l2, Len(l)) = ChargesOf(l, Len(l))
         /\ TotalOf(l2, Len(l)) = TotalOf(l, Len(l))
         /\ AllocatedOf(l2, Len(l)) = AllocatedOf(l, Len(l))
         /\ EndedOf(l2, Len(l)) = EndedOf(l, Len(l))
         /\ l2[Len(l) + 1] = r /\ Len(l2) = Len(l) + 1
         /\ l2 \in Seq(RecordType) /\ Len(l) \in Nat
<1>1. /\ l \in Seq(RecordType) /\ Len(l) \in Nat /\ l2 \in Seq(RecordType)
      /\ Len(l2) = Len(l) + 1 /\ l2[Len(l) + 1] = r
      /\ \A n \in 1 .. Len(l) : l2[n] = l[n]
  BY LogGrows DEF Grown
<1>2. FiguresStep(l2, Len(l)) /\ AllocatedMoves(l2, Len(l))
  BY <1>1, FiguresMove, AllocatedStep
<1>3. /\ ChargesOf(l2, Len(l)) = ChargesOf(l, Len(l))
      /\ TotalOf(l2, Len(l)) = TotalOf(l, Len(l))
      /\ AllocatedOf(l2, Len(l)) = AllocatedOf(l, Len(l))
  BY <1>1, PrefixKept
<1>4. EndedOf(l2, Len(l)) = EndedOf(l, Len(l))
  BY <1>1 DEF EndedOf
<1> QED BY <1>1, <1>2, <1>3, <1>4

\* A record that moves no money is sound.
LEMMA BlankSound ==
  ASSUME NEW l, NEW r, NEW l2, Grown(l, r, l2), SoundLog(l), FitsLog(l),
         MoneyFree(r), r.kind /= "checkpoint"
  PROVE  SoundLog(l2) /\ FitsLog(l2)
<1>1. PICK m \in Nat : m = Len(l)
  BY GrownFigures
<1>2. /\ FiguresStep(l2, m) /\ AllocatedMoves(l2, m)
      /\ ChargesOf(l2, m) = ChargesOf(l, m) /\ TotalOf(l2, m) = TotalOf(l, m)
      /\ AllocatedOf(l2, m) = AllocatedOf(l, m)
      /\ l2[m + 1] = r /\ Len(l2) = m + 1 /\ l2 \in Seq(RecordType)
  BY <1>1, GrownFigures
<1>3. /\ l2[m + 1].charge = 0 /\ l2[m + 1].raise = 0 /\ l2[m + 1].return = 0
      /\ l2[m + 1].kind \notin Terminals
  BY <1>2 DEF MoneyFree
<1>4. PICK c0 \in Nat, s0 \in Nat, a0 \in Int :
        c0 = ChargesOf(l2, m) /\ s0 = TotalOf(l2, m) /\ a0 = AllocatedOf(l2, m)
  <2>1. m \in 0 .. Len(l2)
    BY <1>2
  <2> QED BY <1>2, <2>1, FiguresTypes
<1>5. ChargesOf(l2, m + 1) = c0
  BY <1>2, <1>3, <1>4 DEF FiguresStep
<1>6. TotalOf(l2, m + 1) = s0
  BY <1>2, <1>3, <1>4 DEF FiguresStep, NextTotal
<1>7. AllocatedOf(l2, m + 1) = a0
  BY <1>2, <1>3, <1>4, <1>6 DEF AllocatedMoves
<1>8. c0 <= a0
  BY <1>1, <1>2, <1>4 DEF FitsLog
<1>9. Sound(l2, m + 1)
  BY <1>2, <1>5, <1>7, <1>8 DEF Sound
<1>10. SoundLog(l2)
  BY <1>1, <1>9, SoundGrows
<1> QED BY <1>2, <1>5, <1>7, <1>8, <1>10 DEF FitsLog

-----------------------------------------------------------------------------
\* The records fit, and leave room for the holds that are open.
LEMMA FitsNow ==
  Inv /\ TermInv /\ BooksInv /\ PrefixInv =>
    /\ FitsLog(log) /\ held <= AllocatedOf(log, Len(log)) - ChargesOf(log, Len(log))
    /\ consumed = ChargesOf(log, Len(log)) /\ shortfall = TotalOf(log, Len(log))
<1> SUFFICES ASSUME Inv, TermInv, BooksInv, PrefixInv
             PROVE  /\ FitsLog(log)
                    /\ held <= AllocatedOf(log, Len(log)) - ChargesOf(log, Len(log))
                    /\ consumed = ChargesOf(log, Len(log))
                    /\ shortfall = TotalOf(log, Len(log))
  OBVIOUS
<1>1. /\ consumed = ChargesOf(log, Len(log)) /\ allocation = AllocatedOf(log, Len(log))
      /\ shortfall = TotalOf(log, Len(log)) /\ held = EstimatesOf(hold, Open)
  BY BooksParts DEF HoldsBalance, RecordsBalance, Balanced
<1>2. allocation \in Int /\ consumed \in Nat
  BY BooksParts
<1>3. held \in Nat
  BY <1>1, OpenKnown, HoldsSums
<1>4. allocation - consumed - held >= 0
  BY RoomNow
<1>5. held <= allocation - consumed /\ consumed <= allocation
  BY <1>2, <1>3, <1>4
<1> QED BY <1>1, <1>5 DEF FitsLog

LEMMA FitsAfter ==
  (Inv /\ TermInv /\ BooksInv /\ PrefixInv =>
    /\ FitsLog(log) /\ held <= AllocatedOf(log, Len(log)) - ChargesOf(log, Len(log))
    /\ consumed = ChargesOf(log, Len(log)) /\ shortfall = TotalOf(log, Len(log)))'
  BY FitsNow, PTL

\* What the steps below start from.
RowStepInv ==
  /\ Inv /\ TermInv /\ BooksInv /\ PrefixInv
  /\ Inv' /\ TermInv' /\ BooksInv' /\ PrefixInv'

\* A terminal is the first of its authorization, and its total is no less than
\* the totals before it.
LEMMA DecideSound ==
  ASSUME RowStepInv, SoundLog(log), NEW a \in Auths, NEW k \in Terminals,
         NEW charge \in Nat, NEW from \in Nat, NEW raise \in Nat,
         Decide(a, k, charge, from, raise)
  PROVE  SoundLog(log')
<1>1. PICK r \in RecordType :
        log' = log \o <<r>> /\ TerminalRecord(r, a, k, charge, from, raise)
  BY DecideRecord DEF RowStepInv
<1>2. Grown(log, r, log')
  BY <1>1, OneMore DEF RowStepInv
<1>3. PICK m \in Nat : m = Len(log)
  BY <1>2, GrownFigures
<1>4. /\ TotalOf(log', m) = TotalOf(log, m) /\ EndedOf(log', m) = EndedOf(log, m)
      /\ log'[m + 1] = r /\ Len(log') = m + 1 /\ (m + 1) - 1 = m
  BY <1>2, <1>3, GrownFigures
<1>5. r.kind \in Terminals /\ r.auth = a /\ r.return = 0
      /\ r.shortfall = shortfall + Overdrawn(a, Charged(k, charge), raise)
  BY <1>1 DEF TerminalRecord
<1>6. r.shortfall >= TotalOf(log, m)
  <2>1. shortfall = TotalOf(log, m) /\ shortfall \in Nat
    BY <1>3, FitsNow, BooksParts DEF RowStepInv
  <2>2. Overdrawn(a, Charged(k, charge), raise) \in Nat
    <3>1. Charged(k, charge) \in Nat
      BY DEF Charged
    <3>2. hold[a].estimate \in Nat
      BY BooksParts DEF HoldType, RowStepInv
    <3>3. consumed \in Int /\ held \in Int /\ allocation \in Int
      BY BooksParts DEF RowStepInv
    <3> QED BY <3>1, <3>2, <3>3, PosType DEF Overdrawn
  <2> QED BY <1>5, <2>1, <2>2
<1>7. a \notin EndedOf(log, m)
  <2>1. hold[a].state = "open"
    BY DEF Decide, Undecided
  <2>2. \A n \in 1 .. Len(log) : log[n].kind \in Terminals =>
           hold[log[n].auth].state = "decided"
    BY DEF RowStepInv, TermInv, TerminalsDecide
  <2> QED BY <1>3, <2>1, <2>2 DEF EndedOf
<1>8. TerminalSound(log', m + 1)
  BY <1>4, <1>5, <1>6, <1>7 DEF TerminalSound
<1>9. ChargesOf(log', m + 1) <= AllocatedOf(log', m + 1)
  BY <1>4, FitsAfter DEF RowStepInv, FitsLog
<1>10. Sound(log', m + 1)
  BY <1>4, <1>5, <1>8, <1>9 DEF Sound
<1> QED BY <1>2, <1>3, <1>10, SoundGrows

\* A checkpoint states what the terminals charged, and its open holds fit.
LEMMA CheckpointIsSound ==
  ASSUME RowStepInv, SoundLog(log), Checkpoint
  PROVE  SoundLog(log')
<1>1. held' = held /\ consumed' = consumed
  BY DEF Checkpoint
<1>2. CASE final = 0 /\ CanHandOver(1)
  <2>1. PICK r : r = [Blank EXCEPT !.consumed = consumed, !.openSum = held,
                                   !.return = ReturnOf]
    OBVIOUS
  <2>2. log' = log \o <<r>>
    BY <1>2, <2>1 DEF Checkpoint, HandOver
  <2>3. consumed \in Nat /\ held \in Int /\ allocation \in Int /\ ReturnOf \in Nat
    <3>1. Free \in Int
      BY BooksParts DEF Free, RowStepInv
    <3> QED BY <3>1, PosType, BooksParts DEF ReturnOf, RowStepInv
  <2>4. r \in RecordType
    BY <2>1, <2>3, CheckpointRecordType
  <2>5. /\ r.kind = "checkpoint" /\ r.charge = 0 /\ r.raise = 0
        /\ r.consumed = consumed /\ r.openSum = held
    BY <2>1 DEF Blank
  <2>6. Grown(log, r, log')
    BY <2>2, <2>4, OneMore DEF RowStepInv
  <2>7. PICK m \in Nat : m = Len(log)
    BY <2>6, GrownFigures
  <2>8. /\ ChargesOf(log', m) = ChargesOf(log, m)
        /\ log'[m + 1] = r /\ Len(log') = m + 1 /\ (m + 1) - 1 = m
    BY <2>6, <2>7, GrownFigures
  <2>9. consumed = ChargesOf(log, m)
    BY <2>7, FitsNow DEF RowStepInv
  <2>10. /\ ChargesOf(log', m + 1) <= AllocatedOf(log', m + 1)
         /\ held' <= AllocatedOf(log', m + 1) - ChargesOf(log', m + 1)
    BY <2>8, FitsAfter DEF RowStepInv, FitsLog
  <2>11. CheckpointSound(log', m + 1)
    BY <1>1, <2>5, <2>8, <2>9, <2>10 DEF CheckpointSound
  <2>12. Sound(log', m + 1)
    BY <2>5, <2>8, <2>10, <2>11 DEF Sound
  <2> QED BY <2>6, <2>7, <2>12, SoundGrows
<1>3. CASE ~(final = 0 /\ CanHandOver(1))
  <2>1. log' = log
    BY <1>3 DEF Checkpoint, pipe
  <2> QED BY <2>1
<1> QED BY <1>2, <1>3

\* The records that move no money.
LEMMA BlankIsSound ==
  ASSUME RowStepInv, SoundLog(log), NEW r \in RecordType, MoneyFree(r),
         r.kind /= "checkpoint", log' = log \o <<r>>
  PROVE  SoundLog(log')
<1>1. Grown(log, r, log')
  BY OneMore DEF RowStepInv
<1>2. FitsLog(log)
  BY FitsNow DEF RowStepInv
<1> QED BY <1>1, <1>2, BlankSound

LEMMA HandoffIsSound ==
  ASSUME RowStepInv, SoundLog(log), Handoff \/ HandoffCut
  PROVE  SoundLog(log')
<1>1. PICK c, x \in RecordType : HandoffLog(c, x)
  BY HandoffIssues DEF RowStepInv
<1>2. /\ MoneyFree(c) /\ MoneyFree(x) /\ c.kind /= "checkpoint" /\ x.kind /= "checkpoint"
  BY <1>1 DEF HandoffLog
<1>3. CASE log' = log
  BY <1>3
<1>4. CASE log' = log \o <<c>>
  BY <1>2, <1>4, BlankIsSound
<1>5. CASE log' = log \o <<x>>
  BY <1>2, <1>5, BlankIsSound
<1>6. CASE log' = (log \o <<c>>) \o <<x>>
  <2>1. PICK l : l = log \o <<c>>
    OBVIOUS
  <2>2. log \in Seq(RecordType) /\ FitsLog(log)
    BY BooksParts, FitsNow DEF RowStepInv
  <2>3. Grown(log, c, l)
    BY <2>1, <2>2 DEF Grown
  <2>4. SoundLog(l) /\ FitsLog(l)
    BY <1>2, <2>2, <2>3, BlankSound
  <2>5. l \in Seq(RecordType)
    BY <2>3, GrownFigures
  <2>6. Grown(l, x, log')
    BY <1>6, <2>1, <2>5 DEF Grown
  <2> QED BY <1>2, <2>4, <2>6, BlankSound
<1> QED BY <1>1, <1>3, <1>4, <1>5, <1>6 DEF HandoffLog

LEMMA SoundStep ==
  ASSUME RowStepInv, SoundLog(log), BooksStep
  PROVE  SoundLog(log')
<1>1. CASE DecideStep
  BY <1>1, DecideSound DEF DecideStep
<1>2. CASE BooksQuietStep \/ FlushAck
  <2>1. log' = log
    BY <1>2 DEF BooksQuietStep, FlushAck
  <2> QED BY <2>1
<1>3. ASSUME NEW a \in Auths, NEW e \in Estimates, NEW m \in Modes, Admit(a, e, m)
      PROVE  SoundLog(log')
  <2>1. log' = log
    BY <1>3 DEF Admit, pipe
  <2> QED BY <2>1
<1>4. ASSUME NEW a \in Auths, NEW c \in Charges, Heartbeat(a, c)
      PROVE  SoundLog(log')
  <2>1. PICK r : r = [Blank EXCEPT !.kind = "heartbeat", !.auth = a]
    OBVIOUS
  <2>2. log' = log \o <<r>>
    BY <1>4, <2>1 DEF Heartbeat, HandOver
  <2>3. r \in RecordType /\ MoneyFree(r)
    BY <2>1, HeartbeatRecordType, HeartbeatIsFree
  <2>4. r.kind /= "checkpoint"
    BY <2>1 DEF Blank
  <2> QED BY <2>2, <2>3, <2>4, BlankIsSound
<1> QED
  BY <1>1, <1>2, <1>3, <1>4, CheckpointIsSound, HandoffIsSound DEF BooksStep

\* The records a step adds: those that raise are linked, and a terminal
\* carries the owner's total as it then is.
NewRecord(r, d, total) ==
  Linked(r, d) /\ (r.kind \in Terminals => r.shortfall = total)
LogStep ==
  /\ LogExtends /\ shortfall <= shortfall'
  /\ \A n \in Len(log) + 1 .. Len(log') : NewRecord(log'[n], drain, shortfall')

LEMMA FreeIsNew ==
  ASSUME NEW r, MoneyFree(r), NEW d, NEW total
  PROVE  NewRecord(r, d, total)
  BY DEF NewRecord, Linked, MoneyFree

LEMMA OneNew ==
  ASSUME Inv, NEW r \in RecordType, log' = log \o <<r>>, NewRecord(r, drain, shortfall'),
         shortfall <= shortfall'
  PROVE  LogStep
<1>1. LogExtends /\ Len(log') = Len(log) + 1 /\ log'[Len(log) + 1] = r
  BY OneMore
<1>2. Len(log) \in Nat
  BY DEF Inv, TypeOK, PipeType
<1>3. \A n \in Len(log) + 1 .. Len(log') : n = Len(log) + 1
  BY <1>1, <1>2
<1> QED BY <1>1, <1>3 DEF LogStep

LEMMA NoneNew ==
  ASSUME Inv, log' = log, shortfall' = shortfall
  PROVE  LogStep
<1>1. Len(log) \in Nat /\ shortfall \in Nat
  BY DEF Inv, TypeOK, PipeType, BooksType
<1>2. \A n \in Len(log) + 1 .. Len(log') : FALSE
  BY <1>1
<1>3. LogExtends
  BY <1>1 DEF LogExtends
<1> QED BY <1>1, <1>2, <1>3 DEF LogStep

LEMMA HandoffNew ==
  ASSUME Inv, Handoff \/ HandoffCut
  PROVE  LogStep
<1>1. PICK c, x \in RecordType : HandoffLog(c, x)
  BY HandoffIssues
<1>2. shortfall' = shortfall /\ shortfall \in Nat
  BY HandoffIssues DEF books, Inv, TypeOK, BooksType
<1>3. \A d, t : NewRecord(c, d, t) /\ NewRecord(x, d, t)
  BY <1>1, FreeIsNew DEF HandoffLog
<1>4. CASE log' = log
  BY <1>2, <1>4, NoneNew
<1>5. CASE log' = log \o <<c>>
  BY <1>2, <1>3, <1>5, OneNew
<1>6. CASE log' = log \o <<x>>
  BY <1>2, <1>3, <1>6, OneNew
<1>7. CASE log' = (log \o <<c>>) \o <<x>>
  <2>1. PICK l : l = log \o <<c>>
    OBVIOUS
  <2>2. log \in Seq(RecordType) /\ Len(log) \in Nat
    BY DEF Inv, TypeOK, PipeType
  <2>3. /\ l \in Seq(RecordType) /\ Len(l) = Len(log) + 1 /\ l[Len(log) + 1] = c
        /\ \A n \in 1 .. Len(log) : l[n] = log[n]
    BY <2>1, <2>2, LogGrows
  <2>4. /\ Len(log') = Len(l) + 1 /\ log'[Len(l) + 1] = x
        /\ \A n \in 1 .. Len(l) : log'[n] = l[n]
    BY <1>7, <2>1, <2>3, LogGrows
  <2>5. PICK m \in Nat : m = Len(log)
    BY <2>2
  <2>6. /\ Len(l) = m + 1 /\ Len(log') = m + 2 /\ m + 1 \in 1 .. Len(l)
        /\ \A n \in 1 .. m : n \in 1 .. Len(l)
        /\ \A n \in m + 1 .. m + 2 : n = m + 1 \/ n = m + 2
    BY <2>3, <2>4, <2>5
  <2>7. log'[m + 1] = c /\ log'[m + 2] = x /\ \A n \in 1 .. m : log'[n] = log[n]
    <3>1. (m + 1) + 1 = m + 2
      OBVIOUS
    <3> QED BY <2>3, <2>4, <2>5, <2>6, <3>1
  <2>8. LogExtends
    BY <2>5, <2>6, <2>7 DEF LogExtends
  <2>9. \A n \in m + 1 .. m + 2 : NewRecord(log'[n], drain, shortfall')
    BY <1>3, <2>6, <2>7
  <2> QED BY <1>2, <2>5, <2>6, <2>8, <2>9 DEF LogStep
<1> QED BY <1>1, <1>4, <1>5, <1>6, <1>7 DEF HandoffLog

LEMMA DecideNew ==
  ASSUME Inv, NEW a \in Auths, NEW k \in Terminals, NEW charge \in Nat,
         NEW from \in Nat, NEW raise \in Nat, Decide(a, k, charge, from, raise),
         DecidedFrom(a, k, charge, from, raise)
  PROVE  LogStep
<1>1. PICK r \in RecordType :
        log' = log \o <<r>> /\ TerminalRecord(r, a, k, charge, from, raise)
  BY DecideRecord
<1>2. PICK short : short = Overdrawn(a, Charged(k, charge), raise)
  OBVIOUS
<1>3. /\ r.kind = k /\ r.auth = a /\ r.shortfall = shortfall + short
      /\ r.drain = from /\ r.raise = raise
  BY <1>1, <1>2 DEF TerminalRecord
<1>4. shortfall' = shortfall + short
  BY <1>2 DEF Decide
<1>5. short \in Nat /\ shortfall \in Nat
  <2>1. Charged(k, charge) \in Nat
    BY DEF Charged
  <2>2. hold[a].estimate \in Nat
    BY DEF Inv, TypeOK, HoldsType, HoldType
  <2>3. consumed \in Int /\ held \in Int /\ allocation \in Int /\ shortfall \in Nat
    BY DEF Inv, TypeOK, BooksType
  <2> QED BY <1>2, <2>1, <2>2, <2>3, PosType DEF Overdrawn
<1>6. Linked(r, drain)
  <2>1. CASE from = 0 /\ raise = 0
    BY <1>3, <2>1 DEF Linked
  <2>2. CASE /\ from \in 1 .. Len(drain)
             /\ a = drain[from].auth /\ raise = drain[from].raise
    BY <1>3, <2>2 DEF Linked
  <2> QED BY <2>1, <2>2 DEF DecidedFrom
<1>7. NewRecord(r, drain, shortfall')
  BY <1>3, <1>4, <1>6 DEF NewRecord
<1>8. shortfall <= shortfall'
  BY <1>4, <1>5
<1> QED BY <1>1, <1>7, <1>8, OneNew

\* What every step adds to the log.
LEMMA NextLog ==
  ASSUME Inv, BooksStep
  PROVE  LogStep
<1>1. CASE DecideStep
  BY <1>1, DecideNew DEF DecideStep
<1>2. CASE BooksQuietStep \/ FlushAck
  <2>1. log' = log /\ shortfall' = shortfall
    BY <1>2 DEF BooksQuietStep, FlushAck, books
  <2> QED BY <2>1, NoneNew
<1>3. ASSUME NEW a \in Auths, NEW e \in Estimates, NEW m \in Modes, Admit(a, e, m)
      PROVE  LogStep
  <2>1. log' = log /\ shortfall' = shortfall
    BY <1>3 DEF Admit, pipe
  <2> QED BY <2>1, NoneNew
<1>4. ASSUME NEW a \in Auths, NEW c \in Charges, Heartbeat(a, c)
      PROVE  LogStep
  <2>1. PICK r : r = [Blank EXCEPT !.kind = "heartbeat", !.auth = a]
    OBVIOUS
  <2>2. log' = log \o <<r>> /\ shortfall' = shortfall
    BY <1>4, <2>1 DEF Heartbeat, HandOver
  <2>3. r \in RecordType /\ MoneyFree(r)
    BY <2>1, HeartbeatRecordType, HeartbeatIsFree
  <2>4. shortfall \in Nat
    BY DEF Inv, TypeOK, BooksType
  <2> QED BY <2>2, <2>3, <2>4, FreeIsNew, OneNew
<1>5. CASE Checkpoint
  <2>1. shortfall' = shortfall /\ shortfall \in Nat
    BY <1>5 DEF Checkpoint, Inv, TypeOK, BooksType
  <2>2. CASE final = 0 /\ CanHandOver(1)
    <3>1. PICK r : r = [Blank EXCEPT !.consumed = consumed, !.openSum = held,
                                     !.return = ReturnOf]
      OBVIOUS
    <3>2. log' = log \o <<r>>
      BY <1>5, <2>2, <3>1 DEF Checkpoint, HandOver
    <3>3. consumed \in Nat /\ held \in Int /\ ReturnOf \in Nat
      <4>1. Free \in Int /\ consumed \in Nat /\ held \in Int
        BY DEF Inv, TypeOK, BooksType, Free
      <4> QED BY <4>1, PosType DEF ReturnOf
    <3>4. r \in RecordType
      BY <3>1, <3>3, CheckpointRecordType
    <3>5. r.kind \notin Terminals /\ r.raise = 0
      BY <3>1 DEF Blank, Terminals
    <3>6. NewRecord(r, drain, shortfall')
      BY <3>5 DEF NewRecord, Linked
    <3> QED BY <2>1, <3>2, <3>4, <3>6, OneNew
  <2>3. CASE ~(final = 0 /\ CanHandOver(1))
    <3>1. log' = log
      BY <1>5, <2>3 DEF Checkpoint, pipe
    <3> QED BY <2>1, <3>1, NoneNew
  <2> QED BY <2>2, <2>3
<1> QED BY <1>1, <1>2, <1>3, <1>4, <1>5, HandoffNew DEF BooksStep

-----------------------------------------------------------------------------
\* A terminal's total is none the owner has not.
TotalsInv == \A n \in 1 .. Len(log) : log[n].kind \in Terminals => log[n].shortfall <= shortfall

\* The row follows the records it has applied; the totals it has and the one
\* the writer writes are the owner's, and its raises the drain log's.
RowInv ==
  /\ Follows(row, log) /\ row.applied <= Len(log)
  /\ row.shortfall <= shortfall /\ writer.total <= shortfall
  /\ row.doorRaised = DoorsOf(drain)

FollowInv == SoundLog(log) /\ LinkInv /\ TotalsInv /\ RowInv

\* The drain log only grows.
DrainExtends ==
  /\ Len(drain') \in Nat /\ Len(drain) <= Len(drain')
  /\ \A i \in 1 .. Len(drain) : drain'[i] = drain[i]

LEMMA DrainGrows ==
  ASSUME Inv, [Next]_vars
  PROVE  DrainExtends
<1>1. drain \in Seq(DrainRowType) /\ Len(drain) \in Nat
  BY DEF Inv, TypeOK, RowTypeOK
<1>2. CASE drain' = drain
  BY <1>1, <1>2 DEF DrainExtends
<1>3. ASSUME NEW r, drain' = Append(drain, r) PROVE DrainExtends
  <2>1. Len(drain') = Len(drain) + 1 /\ \A i \in 1 .. Len(drain) : drain'[i] = drain[i]
    BY <1>1, <1>3
  <2> QED BY <1>1, <2>1 DEF DrainExtends
<1>4. CASE FrontDoor
  <2>1. \E r : drain' = Append(drain, r)
    BY <1>4 DEF FrontDoor, DrainAppend, AppendRow
  <2> QED BY <1>3, <2>1
<1> QED BY <1>2, <1>4, OnlyDoorsDrain

LEMMA LinkedStays ==
  ASSUME Len(drain) \in Nat, DrainExtends, NEW r, Linked(r, drain)
  PROVE  Linked(r, drain')
<1>1. \A i \in 1 .. Len(drain) : i \in 1 .. Len(drain')
  BY DEF DrainExtends
<1> QED BY <1>1 DEF DrainExtends, Linked

LEMMA LinkStep ==
  ASSUME Inv, LinkInv, LogStep, DrainExtends
  PROVE  LinkInv'
<1>1. Len(log) \in Nat /\ Len(log') \in Nat /\ Len(drain) \in Nat
  BY DrainRows DEF Inv, TypeOK, PipeType, LogStep, LogExtends
<1>2. ASSUME NEW n \in 1 .. Len(log') PROVE Linked(log'[n], drain)
  <2>1. n \in 1 .. Len(log) \/ n \in Len(log) + 1 .. Len(log')
    BY <1>1
  <2>2. CASE n \in 1 .. Len(log)
    BY <2>2 DEF LogStep, LogExtends, LinkInv
  <2>3. CASE n \in Len(log) + 1 .. Len(log')
    BY <2>3 DEF LogStep, NewRecord
  <2> QED BY <2>1, <2>2, <2>3
<1>3. \A n \in 1 .. Len(log') : Linked(log'[n], drain')
  BY <1>1, <1>2, LinkedStays
<1> QED BY <1>3 DEF LinkInv

LEMMA TotalsStep ==
  ASSUME Inv, Inv', TotalsInv, LogStep
  PROVE  TotalsInv'
<1>1. /\ Len(log) \in Nat /\ Len(log') \in Nat /\ log \in Seq(RecordType)
      /\ shortfall \in Nat /\ shortfall' \in Nat
  BY DEF Inv, TypeOK, PipeType, BooksType
<1>2. ASSUME NEW n \in 1 .. Len(log'), log'[n].kind \in Terminals
      PROVE  log'[n].shortfall <= shortfall'
  <2>1. n \in 1 .. Len(log) \/ n \in Len(log) + 1 .. Len(log')
    BY <1>1
  <2>2. CASE n \in 1 .. Len(log)
    <3>1. log'[n] = log[n] /\ shortfall <= shortfall'
      BY <2>2 DEF LogStep, LogExtends
    <3>2. log[n].shortfall <= shortfall
      BY <1>2, <2>2, <3>1 DEF TotalsInv
    <3>3. log[n].shortfall \in Nat
      BY <1>1, <2>2, RecordMoney
    <3> QED BY <1>1, <3>1, <3>2, <3>3
  <2>3. CASE n \in Len(log) + 1 .. Len(log')
    <3>1. log'[n].shortfall = shortfall'
      BY <1>2, <2>3 DEF LogStep, NewRecord
    <3> QED BY <1>1, <3>1
  <2> QED BY <2>1, <2>2, <2>3
<1> QED BY <1>2 DEF TotalsInv

\* What a row follows, it follows whatever records come after.
LEMMA FollowsKept ==
  ASSUME Inv, NEW w \in RowType, Follows(w, log), w.applied <= Len(log), LogExtends
  PROVE  Follows(w, log') /\ w.applied <= Len(log')
<1>1. PICK m \in Nat : m = w.applied
  BY RowFields
<1>2. Len(log) \in Nat /\ Len(log') \in Nat /\ Len(log) <= Len(log') /\ m <= Len(log)
  BY <1>1 DEF Inv, TypeOK, PipeType, LogExtends
<1>3. \A n \in 1 .. m : log'[n] = log[n]
  <2>1. \A n \in 1 .. m : n \in 1 .. Len(log)
    BY <1>1, <1>2
  <2> QED BY <2>1 DEF LogExtends
<1>4. /\ ChargesOf(log', m) = ChargesOf(log, m) /\ RaisesOf(log', m) = RaisesOf(log, m)
      /\ TotalOf(log', m) = TotalOf(log, m) /\ AllocatedOf(log', m) = AllocatedOf(log, m)
  BY <1>3, PrefixKept
<1>5. EndedOf(log', m) = EndedOf(log, m)
  BY <1>3 DEF EndedOf
<1>6. Follows(w, log')
  BY <1>1, <1>4, <1>5 DEF Follows
<1> QED BY <1>1, <1>2, <1>6

\* A write that leaves the row's money and what it has applied.
SameMoney(v, w) ==
  /\ v.allocation = w.allocation /\ v.consumed = w.consumed
  /\ v.shortfall = w.shortfall /\ v.faultUsage = w.faultUsage
  /\ v.doorRaised = w.doorRaised /\ v.auditFault = w.auditFault
  /\ v.winners = w.winners /\ v.osum = w.osum /\ v.applied = w.applied

LEMMA SameFollows ==
  ASSUME NEW v, NEW w, SameMoney(v, w), NEW l, Follows(w, l)
  PROVE  Follows(v, l)
  BY DEF SameMoney, Follows

LEMMA SameMoneyWrites ==
  ASSUME NEW w \in RowType, NEW n \in Nat
  PROVE  /\ SameMoney([w EXCEPT !.state = "draining"], w)
         /\ SameMoney([w EXCEPT !.revoked = TRUE], w)
         /\ SameMoney([w EXCEPT !.delivered = n], w)
         /\ SameMoney([w EXCEPT !.gap = TRUE], w)
  BY DEF SameMoney, RowType

\* A shortfall write raises the allocation with the total.
LEMMA ShortfallFollows ==
  ASSUME NEW w \in RowType, NEW l \in Seq(RecordType), w.applied <= Len(l), Follows(w, l),
         NEW t \in Nat, NEW v,
         v = [w EXCEPT !.shortfall = Most(w.shortfall, t),
                       !.allocation = w.allocation + Pos(t - w.shortfall)]
  PROVE  /\ Follows(v, l) /\ v.applied = w.applied /\ v.doorRaised = w.doorRaised
         /\ v.shortfall = Most(w.shortfall, t)
<1>1. /\ v.allocation = w.allocation + Pos(t - w.shortfall)
      /\ v.consumed = w.consumed
      /\ v.shortfall = Most(w.shortfall, t) /\ v.faultUsage = w.faultUsage
      /\ v.doorRaised = w.doorRaised /\ v.auditFault = w.auditFault
      /\ v.winners = w.winners /\ v.osum = w.osum /\ v.applied = w.applied
  BY DEF RowType
<1>2. PICK m \in Nat : m = w.applied
  BY RowFields
<1>3. m \in 0 .. Len(l)
  BY <1>2
<1>4. PICK r0 \in Nat, s0 \in Nat, a0 \in Int :
        r0 = RaisesOf(l, m) /\ s0 = TotalOf(l, m) /\ a0 = AllocatedOf(l, m)
  BY <1>3, FiguresTypes
<1>5. PICK sf \in Nat, dr \in Nat : sf = w.shortfall /\ dr = w.doorRaised
  BY RowFields
<1>6. w.allocation = a0 + (sf - s0) + (dr - r0) /\ sf >= s0
  BY <1>2, <1>4, <1>5 DEF Follows
<1>7. CASE t > sf
  <2>1. Most(sf, t) = t /\ Pos(t - sf) = t - sf
    BY <1>7 DEF Most, Pos
  <2>2. v.shortfall = t /\ v.allocation = a0 + (t - s0) + (dr - r0) /\ t >= s0
    BY <1>1, <1>5, <1>6, <1>7, <2>1
  <2> QED BY <1>1, <1>2, <1>4, <1>5, <2>1, <2>2 DEF Follows
<1>8. CASE ~(t > sf)
  <2>1. Pos(t - sf) = 0
    BY <1>8 DEF Pos
  <2>2. Most(sf, t) = sf
    BY <1>8 DEF Most
  <2>3. v.shortfall = sf /\ v.allocation = a0 + (sf - s0) + (dr - r0)
    BY <1>1, <1>5, <1>6, <2>1, <2>2
  <2> QED BY <1>1, <1>2, <1>4, <1>5, <1>6, <2>2, <2>3 DEF Follows
<1> QED BY <1>7, <1>8

\* A front door's raise.
RaisedBy(w, v, x) ==
  v = [w EXCEPT !.allocation = w.allocation + x, !.doorRaised = w.doorRaised + x]

LEMMA RaiseFollows ==
  ASSUME NEW w \in RowType, NEW l \in Seq(RecordType), w.applied <= Len(l), Follows(w, l),
         NEW x \in Nat, NEW v, RaisedBy(w, v, x)
  PROVE  /\ Follows(v, l) /\ v.applied = w.applied /\ v.doorRaised = w.doorRaised + x
         /\ v.shortfall = w.shortfall
<1>1. /\ v.allocation = w.allocation + x /\ v.consumed = w.consumed
      /\ v.shortfall = w.shortfall /\ v.faultUsage = w.faultUsage
      /\ v.doorRaised = w.doorRaised + x /\ v.auditFault = w.auditFault
      /\ v.winners = w.winners /\ v.osum = w.osum /\ v.applied = w.applied
  BY DEF RowType, RaisedBy
<1>2. PICK m \in Nat : m = w.applied
  BY RowFields
<1>3. m \in 0 .. Len(l)
  BY <1>2
<1>4. PICK r0 \in Nat, s0 \in Nat, a0 \in Int :
        r0 = RaisesOf(l, m) /\ s0 = TotalOf(l, m) /\ a0 = AllocatedOf(l, m)
  BY <1>3, FiguresTypes
<1>5. PICK sf \in Nat, dr \in Nat : sf = w.shortfall /\ dr = w.doorRaised
  BY RowFields
<1>6. w.allocation = a0 + (sf - s0) + (dr - r0)
  BY <1>2, <1>4, <1>5 DEF Follows
<1>7. v.allocation = a0 + (sf - s0) + ((dr + x) - r0)
  BY <1>1, <1>6
<1> QED BY <1>1, <1>2, <1>4, <1>5, <1>7 DEF Follows

\* A row more raises the doors' sum by what it raised.
LEMMA DoorsGrow ==
  ASSUME NEW d \in Seq(DrainRowType), NEW r \in DrainRowType, NEW d2, d2 = Append(d, r)
  PROVE  DoorsOf(d2) = DoorsOf(d) + r.raise
<1>1. PICK m \in Nat : m = Len(d)
  OBVIOUS
<1>2. /\ d2 \in Seq(DrainRowType) /\ Len(d2) = m + 1 /\ d2[m + 1] = r
      /\ \A n \in 1 .. m : d2[n] = d[n]
  BY <1>1
<1>3. /\ \A n \in 1 .. m : d[n].raise \in Nat
      /\ \A n \in 1 .. m + 1 : d2[n].raise \in Nat
  <2>1. \A n \in 1 .. m : d[n] \in DrainRowType
    BY <1>1, ElementOfSeq
  <2>2. \A n \in 1 .. m + 1 : d2[n] \in DrainRowType
    BY <1>2, ElementOfSeq
  <2> QED BY <2>1, <2>2 DEF DrainRowType
<1> DEFINE f == [n \in 1 .. m |-> d[n].raise]
           g == [n \in 1 .. m + 1 |-> d2[n].raise]
<1>4. /\ f \in [1 .. m -> Nat] /\ g \in [1 .. m + 1 -> Nat]
      /\ \A x \in 1 .. m : g[x] = f[x]
  BY <1>2, <1>3
<1>5. 1 \in Int /\ m \in Int /\ 1 <= m + 1 /\ g[m + 1] = r.raise
  BY <1>2
<1> HIDE DEF f, g
<1>6. Sum(g) = Sum(f) + g[m + 1]
  BY <1>4, <1>5, IntervalAdds
<1> QED BY <1>1, <1>2, <1>5, <1>6 DEF DoorsOf, f, g

-----------------------------------------------------------------------------
\* Who writes the row.
LEMMA OnlyRowSteps ==
  ASSUME [Next]_vars
  PROVE  row' = row \/ FrontDoor \/ RowSteps
<1>1. CASE Request
  BY <1>1 DEF Request, Admit, Heartbeat, Settle, Refund, rowVars
<1>2. CASE Flusher \/ Sender \/ FailLong \/ StopWorkers
  BY <1>2 DEF Flusher, FlushAck, FlushFail, RepublishBegin, RepublishNext, Sender,
              FailLong, StopWorkers, rowVars
<1>3. CASE Auditor \/ RowRevoked \/ RowExpires \/ WriterLands \/ FinishMarks \/ HandoffMarks
  BY <1>3 DEF RowSteps
<1>4. CASE Close \/ PassCutoff \/ Stop \/ Switch
  BY <1>4 DEF Close, PassCutoff, Stop, Switch, rowVars
<1>5. CASE Handoffs
  BY <1>3, <1>5 DEF Handoffs, Handoff, HandoffCut, HandoffEnds, rowVars
<1>6. CASE Reaper
  BY <1>6 DEF Reaper, ReapScan, ReleaseDue, ReapUndrained, ReapAdopts, ReapDecides,
              ReapGivesUp, rowVars
<1>7. CASE RoundQuiet \/ FinishLease
  BY <1>7 DEF RoundQuiet, RoundBegin, RenewCommits, RenewFails, Renewed, RenewRefused,
              AdoptRead, AdoptFails, AdoptDone, LetIfAbandoned, FinishLease, rowVars
<1>8. CASE AdoptNext \/ Checkpoint
  BY <1>8 DEF AdoptNext, Checkpoint, rowVars
<1>9. CASE Writer
  BY <1>3, <1>9 DEF Writer, WriterSends, WriterAnswered, WriterRetries, rowVars
<1>10. CASE UNCHANGED vars
  BY <1>10 DEF vars, rowVars
<1> QED
  BY <1>1, <1>2, <1>3, <1>4, <1>5, <1>6, <1>7, <1>8, <1>9, <1>10
  DEF Next, Round, RoundQuiet

\* The total under way is one the owner had.
LEMMA WriterTotal ==
  ASSUME Inv, writer.total <= shortfall, [Next]_vars
  PROVE  writer'.total <= shortfall
<1>0. shortfall \in Nat /\ writer \in [place : {"idle", "writing", "landed", "ended"}, total : Nat]
  BY DEF Inv, TypeOK, BooksType, WorkType
<1>1. CASE Request
  BY <1>1 DEF Request, Admit, Heartbeat, Settle, Refund, work
<1>2. CASE Flusher \/ Sender \/ FailLong \/ StopWorkers
  BY <1>2 DEF Flusher, FlushAck, FlushFail, RepublishBegin, RepublishNext, Sender,
              FailLong, StopWorkers, work
<1>3. CASE Auditor \/ RowRevoked \/ RowExpires \/ FrontDoor
  BY <1>3 DEF Auditor, RowRevoked, RowExpires, FrontDoor, DrainAppend, work
<1>4. CASE Close \/ PassCutoff \/ Switch
  BY <1>4 DEF Close, PassCutoff, Switch, work
<1>5. CASE Stop
  <2>1. writer'.total = 0
    BY <1>5 DEF Stop
  <2> QED BY <1>0, <2>1
<1>6. CASE Handoffs
  BY <1>6 DEF Handoffs, Handoff, HandoffCut, HandoffMarks, HandoffEnds, work
<1>7. CASE Reaper
  BY <1>7 DEF Reaper, ReapScan, ReleaseDue, ReapUndrained, ReapAdopts, ReapDecides,
              ReapGivesUp, work
<1>8. CASE RoundQuiet \/ FinishMarks \/ FinishLease
  BY <1>8 DEF RoundQuiet, RoundBegin, RenewCommits, RenewFails, Renewed, RenewRefused,
              AdoptRead, AdoptFails, AdoptDone, LetIfAbandoned, FinishMarks,
              FinishLease, work
<1>9. CASE AdoptNext \/ Checkpoint
  BY <1>9 DEF AdoptNext, Checkpoint
<1>10. CASE WriterSends
  <2>1. writer'.total = shortfall
    BY <1>10 DEF WriterSends
  <2> QED BY <1>0, <2>1
<1>11. CASE WriterLands
  <2>1. writer'.total = writer.total
    BY <1>0, <1>11 DEF WriterLands
  <2> QED BY <2>1
<1>12. CASE WriterAnswered \/ WriterRetries
  <2>1. writer'.total = 0
    BY <1>12 DEF WriterAnswered, WriterRetries
  <2> QED BY <1>0, <2>1
<1>13. CASE UNCHANGED vars
  BY <1>13 DEF vars, work
<1> QED
  BY <1>1, <1>2, <1>3, <1>4, <1>5, <1>6, <1>7, <1>8, <1>9, <1>10, <1>11, <1>12, <1>13
  DEF Next, Round, RoundQuiet, Writer

\* What a step leaves of the row, by the log and the books before it.
RowGood(v, d) ==
  /\ Follows(v, log) /\ v.applied <= Len(log) /\ v.shortfall <= shortfall
  /\ v.doorRaised = DoorsOf(d)

LEMMA FrontDoorGood ==
  ASSUME Inv, RowInv, FrontDoor
  PROVE  RowGood(row', drain')
<1>1. PICK a \in Auths, k \in {"settle", "refund"}, charge \in Nat :
        DrainAppend(a, k, charge)
  <2>1. 0 \in Nat /\ \A c \in Charges : c \in Nat
    BY ConstantTypes
  <2> QED BY <2>1 DEF FrontDoor
<1>2. PICK raise \in Nat : raise = Pos(charge - hold[a].estimate)
  <2>1. hold[a].estimate \in Nat
    BY DEF Inv, TypeOK, HoldsType, HoldType
  <2> QED BY <2>1, PosType
<1>3. PICK r : r = [auth |-> a, kind |-> k, charge |-> charge, raise |-> raise]
  OBVIOUS
<1>4. /\ drain' = Append(drain, r)
      /\ row' = [row EXCEPT !.allocation = row.allocation + raise,
                            !.doorRaised = row.doorRaised + raise]
  BY <1>1, <1>2, <1>3 DEF DrainAppend, AppendRow
<1>5. r \in DrainRowType /\ r.raise = raise
  BY <1>3 DEF DrainRowType
<1>6. row \in RowType /\ drain \in Seq(DrainRowType) /\ log \in Seq(RecordType)
  BY DEF Inv, TypeOK, RowTypeOK, PipeType
<1>7. DoorsOf(drain') = DoorsOf(drain) + raise
  BY <1>4, <1>5, <1>6, DoorsGrow
<1>8. /\ Follows(row', log) /\ row'.applied = row.applied
      /\ row'.doorRaised = row.doorRaised + raise /\ row'.shortfall = row.shortfall
  <2>1. row \in RowType /\ log \in Seq(RecordType) /\ row.applied <= Len(log) /\ Follows(row, log)
    BY <1>6 DEF RowInv
  <2>2. RaisedBy(row, row', raise)
    BY <1>4 DEF RaisedBy
  <2> QED BY <2>1, <2>2, RaiseFollows
<1> QED BY <1>7, <1>8 DEF RowInv, RowGood

LEMMA WriterGood ==
  ASSUME Inv, RowInv, WriterLands
  PROVE  RowGood(row', drain')
<1>1. PICK t \in Nat : t = writer.total
  BY DEF Inv, TypeOK, WorkType
<1>2. /\ row' = [row EXCEPT !.shortfall = Most(row.shortfall, t),
                            !.allocation = row.allocation + Pos(t - row.shortfall)]
      /\ drain' = drain
  BY <1>1 DEF WriterLands, ShortfallWrite
<1>3. /\ row \in RowType /\ log \in Seq(RecordType)
      /\ row.applied <= Len(log) /\ Follows(row, log)
  BY DEF Inv, TypeOK, RowTypeOK, PipeType, RowInv
<1>4. /\ Follows(row', log) /\ row'.applied = row.applied
      /\ row'.doorRaised = row.doorRaised /\ row'.shortfall = Most(row.shortfall, t)
  BY <1>2, <1>3, ShortfallFollows
<1>5. Most(row.shortfall, t) <= shortfall
  BY <1>1 DEF RowInv, Most
<1> QED BY <1>2, <1>4, <1>5 DEF RowInv, RowGood

\* A delivery: a record the row has applied, the next one, or a gap.
LEMMA DeliverGood ==
  ASSUME Inv, TermInv, FollowInv, Auditor
  PROVE  RowGood(row', drain')
<1>1. /\ row \in RowType /\ log \in Seq(RecordType) /\ Len(log) \in Nat
      /\ shortfall \in Nat /\ PipeInv
  BY InvParts DEF Inv, TypeOK, RowTypeOK, PipeType, BooksType
<1>2. PICK i \in Nat : i = row.delivered + 1
  BY <1>1, RowFields
<1>3. PICK n : n = topic[i]
  OBVIOUS
<1>4. PICK w : w = [row EXCEPT !.delivered = i]
  OBVIOUS
<1>5. /\ row' = IF n <= row.applied THEN w
                ELSE IF n = row.applied + 1 THEN ApplyRecord(w, n, log[n])
                ELSE [w EXCEPT !.gap = TRUE]
      /\ drain' = drain
      /\ row.delivered < Len(topic)
  BY <1>2, <1>3, <1>4 DEF Auditor, Deliver
<1>6. w \in RowType /\ SameMoney(w, row)
  BY <1>1, <1>2, <1>4, RowUpdates, SameMoneyWrites
<1>7. RowGood(w, drain)
  <2>1. Follows(w, log)
    BY <1>6, SameFollows DEF FollowInv, RowInv
  <2> QED BY <1>6, <2>1 DEF FollowInv, RowInv, RowGood, SameMoney
<1>8. CASE n <= row.applied
  BY <1>5, <1>7, <1>8
<1>9. CASE ~(n <= row.applied) /\ n /= row.applied + 1
  <2>1. row' = [w EXCEPT !.gap = TRUE]
    BY <1>5, <1>9
  <2>2. SameMoney(row', w)
    BY <1>6, <2>1, SameMoneyWrites
  <2>3. Follows(row', log)
    BY <1>7, <2>2, SameFollows DEF RowGood
  <2> QED BY <1>5, <1>7, <2>2, <2>3 DEF RowGood, SameMoney
<1>10. CASE n = row.applied + 1
  <2>1. PICK k \in Nat : k = row.applied
    BY <1>1, RowFields
  <2>2. row' = ApplyRecord(w, k + 1, log[k + 1])
    <3>1. ~(n <= row.applied)
      BY <1>10, <2>1
    <3> QED BY <1>5, <1>10, <2>1, <3>1
  <2>3. k + 1 \in 1 .. Len(log)
    <3>1. Len(topic) \in Nat /\ topic \in Seq(Numbers)
      BY <1>1 DEF PipeInv, LogTypeOK
    <3>2. i \in 1 .. Len(topic)
      BY <1>1, <1>2, <1>5, <3>1, RowFields
    <3>3. n <= Len(log)
      BY <1>1, <1>3, <3>2 DEF PipeInv, RecordsKnown
    <3> QED BY <1>1, <1>10, <2>1, <3>3
  <2>4. k + 1 <= Len(log) /\ k + 1 \in 0 .. Len(log)
    BY <1>1, <2>3
  <2>5. /\ w.applied = k /\ Follows(w, log) /\ w.shortfall <= shortfall
        /\ w.doorRaised = DoorsOf(drain)
    BY <1>6, <1>7, <2>1 DEF RowGood, SameMoney
  <2>6. Sound(log, k + 1)
    BY <2>3 DEF FollowInv, SoundLog
  <2>7. RaisesOf(log, k + 1) <= w.doorRaised
    BY <2>4, <2>5, RaisesFit DEF FollowInv
  <2>8. log[k + 1].kind \in Terminals => log[k + 1].shortfall <= shortfall
    BY <2>3 DEF FollowInv, TotalsInv
  <2>9. Applied(row', w, log, k) /\ row'.shortfall <= shortfall
    BY <1>1, <1>6, <2>2, <2>4, <2>5, <2>6, <2>7, <2>8, ApplyFollows
  <2> QED BY <1>5, <2>4, <2>5, <2>9 DEF Applied, RowGood
<1> QED BY <1>8, <1>9, <1>10

LEMMA RowStepGood ==
  ASSUME Inv, TermInv, FollowInv, [Next]_vars
  PROVE  RowGood(row', drain')
<1>1. row \in RowType /\ RowInv
  BY DEF Inv, TypeOK, RowTypeOK, FollowInv
<1>2. CASE FinishMarks \/ HandoffMarks \/ RowExpires \/ RowRevoked
  <2>1. drain' = drain
    BY <1>2 DEF FinishMarks, HandoffMarks, RowExpires, RowRevoked, MarkDraining, Revoke
  <2>2. row' = [row EXCEPT !.state = "draining"] \/ row' = [row EXCEPT !.revoked = TRUE]
    BY <1>2 DEF FinishMarks, HandoffMarks, RowExpires, RowRevoked, MarkDraining, Revoke
  <2>3. SameMoney(row', row)
    BY <1>1, <2>2, SameMoneyWrites
  <2>4. Follows(row', log)
    BY <1>1, <2>3, SameFollows DEF RowInv
  <2> QED BY <1>1, <2>1, <2>3, <2>4 DEF RowInv, RowGood, SameMoney
<1>3. CASE row' = row /\ drain' = drain
  BY <1>1, <1>3 DEF RowInv, RowGood
<1> QED
  BY <1>1, <1>2, <1>3, OnlyRowSteps, OnlyDoorsDrain, FrontDoorGood, WriterGood,
     DeliverGood DEF RowSteps

LEMMA NextFollowInv ==
  /\ Inv /\ TermInv /\ BooksInv /\ PrefixInv /\ FollowInv
  /\ Inv' /\ TermInv' /\ BooksInv' /\ PrefixInv'
  /\ [Next]_vars
  => FollowInv'
<1> SUFFICES ASSUME Inv, TermInv, BooksInv, PrefixInv, FollowInv,
                    Inv', TermInv', BooksInv', PrefixInv', [Next]_vars
             PROVE  FollowInv'
  OBVIOUS
<1>1. BooksStep /\ RowStepInv
  BY NextBooks DEF RowStepInv
<1>2. SoundLog(log)'
  BY <1>1, SoundStep DEF FollowInv
<1>3. LogStep /\ DrainExtends
  BY <1>1, NextLog, DrainGrows
<1>4. LinkInv' /\ TotalsInv'
  BY <1>3, LinkStep, TotalsStep DEF FollowInv
<1>5. RowInv'
  <2>1. RowGood(row', drain')
    BY RowStepGood
  <2>2. row' \in RowType
    BY DEF Inv, TypeOK, RowTypeOK
  <2>3. Follows(row', log') /\ row'.applied <= Len(log')
    BY <1>3, <2>1, <2>2, FollowsKept DEF RowGood, LogStep
  <2>4. writer'.total <= shortfall
    BY WriterTotal DEF FollowInv, RowInv
  <2>5. shortfall <= shortfall' /\ shortfall \in Nat /\ shortfall' \in Nat
    BY <1>3 DEF LogStep, Inv, TypeOK, BooksType
  <2>6. writer'.total \in Nat /\ row'.shortfall \in Nat
    BY <2>2, RowFields DEF Inv, TypeOK, WorkType
  <2>7. row'.shortfall <= shortfall' /\ writer'.total <= shortfall'
    <3>1. row'.shortfall <= shortfall
      BY <2>1 DEF RowGood
    <3> QED BY <2>4, <2>5, <2>6, <3>1
  <2>8. row'.doorRaised = DoorsOf(drain')
    BY <2>1 DEF RowGood
  <2> QED BY <2>3, <2>7, <2>8 DEF RowInv
<1> QED BY <1>2, <1>4, <1>5 DEF FollowInv

LEMMA InitFollowInv == Init => FollowInv
<1> SUFFICES ASSUME Init PROVE FollowInv
  OBVIOUS
<1>1. /\ log = <<>> /\ drain = <<>> /\ Len(log) = 0 /\ Len(drain) = 0
      /\ log \in Seq(RecordType) /\ shortfall = 0 /\ writer.total = 0
      /\ consumed = 0 /\ allocation = Granted
  BY DEF Init, RowInit
<1>2. SoundLog(log) /\ LinkInv /\ TotalsInv
  BY <1>1 DEF SoundLog, LinkInv, TotalsInv
<1>3. /\ row.consumed = 0 /\ row.allocation = Granted /\ row.shortfall = 0
      /\ row.doorRaised = 0 /\ row.faultUsage = 0 /\ row.auditFault = 0
      /\ row.osum = 0 /\ row.winners = {} /\ row.applied = 0
  BY DEF Init, RowInit
<1>4. ChargesOf(log, 0) = 0 /\ TotalOf(log, 0) = 0 /\ AllocatedOf(log, 0) = Granted
  <2>1. BooksInv /\ Inv
    BY InitBooksInv, InitInv
  <2>2. /\ consumed = ChargesOf(log, Len(log)) /\ allocation = AllocatedOf(log, Len(log))
        /\ shortfall = TotalOf(log, Len(log))
    BY <2>1, BooksParts DEF RecordsBalance, Balanced
  <2> QED BY <1>1, <2>2
<1>5. RaisesOf(log, 0) = 0 /\ DoorsOf(drain) = 0
  <2>1. 1 .. 0 = {}
    OBVIOUS
  <2>2. [n \in 1 .. 0 |-> log[n].raise] \in [{} -> Nat]
    BY <2>1
  <2>3. [i \in 1 .. 0 |-> drain[i].raise] \in [{} -> Nat]
    BY <2>1
  <2> QED BY <1>1, <2>2, <2>3, SumOfNone DEF RaisesOf, DoorsOf
<1>6. EndedOf(log, 0) = {}
  BY DEF EndedOf
<1>7. Follows(row, log)
  BY <1>3, <1>4, <1>5, <1>6, GrantedAssumption DEF Follows
<1>8. RowInv
  BY <1>1, <1>3, <1>5, <1>7 DEF RowInv
<1> QED BY <1>2, <1>8 DEF FollowInv

\* The lease's row follows the owner's records, and faults no honest owner:
\* every booking fits the row's allocation, every checkpoint's return is there
\* to return, its open holds are covered and its consumed is what the auditor
\* summed, whatever the shortfall writer and the front doors wrote meanwhile
\* (store/money.go applyMoney, auditor/member.go, lease.go ShortfallWrite,
\* drain.go Append).
THEOREM RowIsFaithful == Spec => []RowFollowsRecords
<1>1. FollowInv => RowFollowsRecords
  <2> SUFFICES ASSUME FollowInv PROVE RowFollowsRecords
    OBVIOUS
  <2>1. /\ Follows(row, log) /\ row.shortfall <= shortfall
    BY DEF FollowInv, RowInv
  <2>2. /\ ConsumedAfter(row.applied) = ChargesOf(log, row.applied)
        /\ ShortfallAfter(row.applied) = TotalOf(log, row.applied)
        /\ AllocationAfter(row.applied) = AllocatedOf(log, row.applied)
    BY AfterIs
  <2>3. Sum([n \in 1 .. row.applied |-> log[n].raise]) = RaisesOf(log, row.applied)
    BY DEF RaisesOf
  <2> QED BY <2>1, <2>2, <2>3 DEF Follows, RowFollowsRecords
<1>2. Init => TermInv
  BY DEF Init, TermInv, TerminalsDecide, TerminalsDiffer
<1> QED
  BY <1>1, <1>2, InitInv, NextInv, NextTermInv, InitBooksInv, NextBooksInv,
     InitPrefixInv, NextPrefixInv, InitFollowInv, NextFollowInv, PTL DEF Spec

=============================================================================

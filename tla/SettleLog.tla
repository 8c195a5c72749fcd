----------------------------- MODULE SettleLog -----------------------------
(***************************************************************************)
(* The settle log's publisher for ONE lease's ordering key                 *)
(* (fastpath/internal/settlelog: Log, key, Pending) and the Pub/Sub topic   *)
(* behind it.                                                               *)
(*                                                                          *)
(* A record is known here by its owner sequence number alone: the package   *)
(* carries bytes and keeps their order.  Each record's latest publish has   *)
(* an outcome (the Pending a Waiter waits for), in waiter.  One sender      *)
(* takes a batch of what is queued and makes one Publish call with it.      *)
(* A failed call may or may not have stored what it carried, so the topic   *)
(* can hold a record whose publish "failed" and hold it again after the     *)
(* owner's republish.                                                       *)
(***************************************************************************)
EXTENDS Naturals, Sequences

CONSTANTS
  MaxRecords,      \* bound: the records one lease hands over
  MaxFailures      \* bound: the Publish calls that fail

ASSUME MaxRecordsAssumption == MaxRecords \in Nat

VARIABLES
  queue,           \* the records handed over and not yet in a Publish call
  sending,         \* the batch of the Publish call under way, if any
  paused,          \* a failure paused the key, until Resume
  waiter,          \* the outcome of each record's latest publish
  topic,           \* what Pub/Sub stored for the key, in the order received
  failures         \* the Publish calls that failed so far

logVars == <<queue, sending, paused, waiter, topic, failures>>

Numbers == 1 .. MaxRecords

\* A Pending's states; "notSent" is the owner's stand-in for a record whose
\* publish waits for the flusher's republish.
Outcomes == {"notSent", "pending", "acked", "failed"}

\* Every record of the sequence s ends with the outcome o (Pending.finish).
Finish(w, s, o) ==
  [n \in Numbers |-> IF \E i \in DOMAIN s : s[i] = n THEN o ELSE w[n]]

LogTypeOK ==
  /\ queue \in Seq(Numbers)
  /\ sending \in Seq(Numbers)
  /\ paused \in BOOLEAN
  /\ waiter \in [Numbers -> Outcomes]
  /\ topic \in Seq(Numbers)
  /\ failures \in Nat

LogInit ==
  /\ queue = <<>>
  /\ sending = <<>>
  /\ paused = FALSE
  /\ waiter = [n \in Numbers |-> "notSent"]
  /\ topic = <<>>
  /\ failures = 0

\* Log.Publish, called once for each record of s in turn: a paused key fails
\* the record at once, otherwise it joins the queue.
Publish(s) ==
  /\ IF paused
       THEN /\ waiter' = Finish(waiter, s, "failed")
            /\ UNCHANGED queue
       ELSE /\ waiter' = Finish(waiter, s, "pending")
            /\ queue' = queue \o s
  /\ UNCHANGED <<sending, paused, topic, failures>>

\* Log.Resume: the key takes records again.
Resume ==
  /\ paused' = FALSE
  /\ UNCHANGED <<queue, sending, waiter, topic, failures>>

\* The sender takes a batch from the front of the queue.  Where the limits
\* on a call's messages and bytes cut it is the records' sizes' affair.
TakeBatch ==
  /\ sending = <<>>
  /\ \E k \in 1 .. Len(queue) :
       /\ sending' = SubSeq(queue, 1, k)
       /\ queue' = SubSeq(queue, k + 1, Len(queue))
  /\ UNCHANGED <<paused, waiter, topic, failures>>

\* The Publish call succeeds: Pub/Sub stored the batch, and each record in
\* it is acknowledged.
SendOk ==
  /\ sending /= <<>>
  /\ topic' = topic \o sending
  /\ waiter' = Finish(waiter, sending, "acked")
  /\ sending' = <<>>
  /\ UNCHANGED <<queue, paused, failures>>

\* Bug variant: what is queued behind a failed batch is sent all the same.
SendFailsKeepsQueue ==
  /\ sending /= <<>>
  /\ failures < MaxFailures
  /\ failures' = failures + 1
  /\ \E k \in 0 .. Len(sending) : topic' = topic \o SubSeq(sending, 1, k)
  /\ paused' = TRUE
  /\ waiter' = Finish(waiter, sending, "failed")
  /\ sending' = <<>>
  /\ UNCHANGED queue

\* The Publish call fails, or the batch's deadline passed before it was
\* made.  Pub/Sub stored some prefix of it, all of it (an answer lost) and
\* none of it included.  The key is paused, and every record queued behind
\* the batch fails with it.
SendFails ==
  /\ sending /= <<>>
  /\ failures < MaxFailures
  /\ failures' = failures + 1
  /\ \E k \in 0 .. Len(sending) : topic' = topic \o SubSeq(sending, 1, k)
  /\ paused' = TRUE
  /\ waiter' = Finish(waiter, sending \o queue, "failed")
  /\ queue' = <<>>
  /\ sending' = <<>>

=============================================================================

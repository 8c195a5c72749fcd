----------------------------- MODULE LeaseOwner ----------------------------
(***************************************************************************)
(* A lease's owner in memory (fastpath/internal/owner), composed with the   *)
(* settle log its records go to (SettleLog) and the lease's row in Spanner  *)
(* with the auditor that reads the log (LeaseRow).                          *)
(*                                                                          *)
(* One lease, taken by one process.  Its actors are: the gateways' requests *)
(* (admit, heartbeat, settle, refund, each one step under the lease's       *)
(* lock), the front doors that append to the drain log, the flusher, the    *)
(* renewal round, the reaper's pass, the shortfall writer, the final        *)
(* checkpoint's finish, the forced exit's hand-off, the log's sender, the   *)
(* auditor, and the end of the process.                                     *)
(*                                                                          *)
(* Time is what the code compares it with: past is whether the owner's      *)
(* clock has reached its expiry less the skew, failedLong whether publishes *)
(* have failed for longer than the expiry window, and a hold is due for its *)
(* reap or its release whenever the reaper looks.                           *)
(***************************************************************************)
EXTENDS SettleLog, LeaseRow, FiniteSets

CONSTANTS
  Estimates,       \* the estimates a hold may have
  Charges,         \* the charges a gateway may settle or report
  Overrun,         \* an estimate's part of the lease's buffer
  Ceiling,         \* the bound on an estimate's running charge
  Modes,           \* what a hold may be: a request, a stream, or a stream
                   \* whose boot declares the heartbeat at stream open
  Actors           \* bound: the actors, beside the requests, the flusher and
                   \* the log's sender, that take part in a run

ASSUME EstimatesAssumption == Estimates \subseteq Nat
ASSUME ChargesAssumption == Charges \subseteq Nat
ASSUME OverrunAssumption == Overrun \in [Estimates -> Nat]
ASSUME CeilingAssumption ==
  Ceiling \in [Estimates -> Nat] /\ \A e \in Estimates : Ceiling[e] >= e
ASSUME ModesAssumption == Modes \subseteq {"request", "stream", "declared"}
ASSUME ActorsAssumption ==
  Actors \subseteq {"auditor", "close", "frontdoor", "handoff",
                    "lapse", "reaper", "revoke", "round", "stop", "switch",
                    "writer"}

VARIABLES
  \* The books (Lease.allocation and the fields after it).
  allocation, held, consumed, pending, buffer, shortfall,
  hold,            \* each authorization's hold
  log,             \* every record handed over, by its sequence number
  acked,           \* how many of them the flusher saw acknowledged, in order
  live,            \* of the rest, the first live are published since the
                   \* last failure
  failed,          \* publishes are failing
  failedLong,      \* and have for longer than the expiry window
  flusher,         \* the flusher's place in its loop
  \* The lease's flags.
  past, let, stopped, closing, final, unadopted, handedOff,
  enabled,         \* the fast path's switch, for the lease's workspace
  round,           \* the renewal round's place
  adoption,        \* the round's adoption: cursor, next row, last row read
  reaper,          \* the hold the reaper's pass is ending, if any
  writer,          \* the shortfall writer's place and the total it writes
  stored,          \* the shortfall total Spanner has from the writer
  handoff,         \* the forced exit's place
  owed             \* history: the drain log's length when a renewal last
                   \* found the lease past its cutoff

books == <<allocation, held, consumed, pending, buffer, shortfall>>
pipe == <<log, acked, live>>
failing == <<failed, failedLong, flusher>>
flags == <<past, let, stopped, closing, final, unadopted, handedOff, enabled>>
work == <<round, adoption, reaper, writer, stored, handoff, owed>>
vars == <<books, hold, pipe, failing, flags, work, logVars, rowVars>>

-----------------------------------------------------------------------------
(* State.                                                                   *)

Kinds == Terminals \union {"heartbeat", "checkpoint", "handoff", "manifest"}

NoAuth == "none"

HoldType ==
  [state : {"unused", "open", "decided"}, estimate : Nat,
   mode : {"request", "stream", "declared"}, heartbeat : BOOLEAN,
   running : Nat, snapSeq : Nat]

RecordType ==
  [kind : Kinds, auth : Auths \union {NoAuth}, charge : Nat, freed : Nat,
   shortfall : Nat, drain : Nat, raise : Nat, consumed : Nat,
   openSum : Int, return : Nat, holds : SUBSET Auths]

\* A record that states nothing; each kind states its own fields.
Blank ==
  [kind |-> "checkpoint", auth |-> NoAuth, charge |-> 0, freed |-> 0,
   shortfall |-> 0, drain |-> 0, raise |-> 0, consumed |-> 0, openSum |-> 0,
   return |-> 0, holds |-> {}]

ReaperType ==
  [place : {"idle", "read", "decide"}, auth : Auths \union {NoAuth},
   kind : {"reap", "release"}, charge : Nat, snapSeq : Nat]

IdleReaper ==
  [place |-> "idle", auth |-> NoAuth, kind |-> "release", charge |-> 0,
   snapSeq |-> 0]

UnusedHold ==
  [state |-> "unused", estimate |-> 0, mode |-> "request",
   heartbeat |-> FALSE, running |-> 0, snapSeq |-> 0]

Open == {a \in Auths : hold[a].state = "open"}

Within == ~let /\ ~past

Inflight == Len(log) - acked

\* The room for a new hold (Books.Free).  Bug variant: a record's freed room
\* is given again before the log has the record.
FreeBeforeAck == allocation - consumed - held - buffer
Free == allocation - consumed - held - pending - buffer

\* A hold's part of the lease's buffer: a stream's from its first heartbeat.
\* Bug variant: a stream's from its admission.
CountedFromAdmission(h) == Overrun[h.estimate]
Counted(h) ==
  IF h.mode /= "request" /\ ~h.heartbeat THEN 0 ELSE Overrun[h.estimate]

Init ==
  /\ allocation = Granted
  /\ held = 0 /\ consumed = 0 /\ pending = 0 /\ buffer = 0 /\ shortfall = 0
  /\ hold = [a \in Auths |-> UnusedHold]
  /\ log = <<>> /\ acked = 0 /\ live = 0
  /\ failed = FALSE /\ failedLong = FALSE /\ flusher = "wait"
  /\ past = FALSE /\ let = FALSE /\ stopped = FALSE /\ closing = FALSE
  /\ final = 0 /\ unadopted = FALSE /\ handedOff = FALSE /\ enabled = TRUE
  /\ round = "idle"
  /\ adoption = [cursor |-> 0, next |-> 0, last |-> 0]
  /\ reaper = IdleReaper
  /\ writer = [place |-> "idle", total |-> 0]
  /\ stored = 0
  /\ handoff = "none"
  /\ owed = 0
  /\ LogInit
  /\ RowInit

-----------------------------------------------------------------------------
(* Requests, under the lease's lock.                                        *)

\* The lease can hand over n records more (MaxRecords is the model's bound).
CanHandOver(n) == Within /\ ~handedOff /\ Len(log) + n <= MaxRecords

\* handOver of the records recs in turn: numbered, and published at once if
\* every record before them is published since the last failure; else they
\* wait for the flusher's republish.
HandOver(recs) ==
  /\ CanHandOver(Len(recs))
  /\ log' = log \o recs
  /\ IF live = Inflight
       THEN /\ Publish([i \in 1 .. Len(recs) |-> Len(log) + i])
            /\ live' = live + Len(recs)
       ELSE UNCHANGED <<live, logVars>>
  /\ UNCHANGED acked

\* The lease takes new holds.  Bug variant: a closing lease does too.
AdmittingWhileClosing == Within /\ ~unadopted /\ ~failed /\ enabled
Admitting == Within /\ ~unadopted /\ ~closing /\ ~failed /\ enabled

\* Admit: a hold of e, while the lease admits and has room for it and its
\* buffer.
Admit(a, e, m) ==
  /\ hold[a].state = "unused"
  /\ Admitting
  /\ Free >= e + Overrun[e]
  /\ LET h == [UnusedHold EXCEPT !.state = "open", !.estimate = e, !.mode = m]
     IN /\ hold' = [hold EXCEPT ![a] = h]
        /\ buffer' = buffer + Counted(h)
  /\ held' = held + e
  /\ UNCHANGED <<allocation, consumed, pending, shortfall, pipe, failing,
                 flags, work, logVars, rowVars>>

\* Heartbeat: a stream's next one, its running charge within the bound.
Heartbeat(a, running) ==
  LET h == hold[a] IN
  /\ h.state = "open" /\ h.mode /= "request"
  /\ ~unadopted /\ ~failed
  /\ running <= Ceiling[h.estimate]
  /\ HandOver(<<[Blank EXCEPT !.kind = "heartbeat", !.auth = a]>>)
  /\ buffer' = buffer + (IF h.heartbeat THEN 0 ELSE Overrun[h.estimate])
  /\ hold' = [hold EXCEPT ![a].heartbeat = TRUE, ![a].running = running,
                          ![a].snapSeq = Len(log) + 1]
  /\ UNCHANGED <<allocation, held, consumed, pending, shortfall, failing,
                 flags, work, rowVars>>

\* What a terminal of kind k charges, and frees of an estimate e.
Charged(k, charge) == IF k \in {"settle", "reap"} THEN charge ELSE 0
Freed(k, charge, e) == Pos(e - Charged(k, charge))

\* The first terminal wins: only an open hold is decided.  Bug variant: the
\* reaper's or an adoption's late terminal is decided again.
UndecidedOrNot(a) == hold[a].state /= "unused"
Undecided(a) == hold[a].state = "open"

\* Until the drain log a renewal left is adopted, only an adoption (a
\* terminal from a row) decides.  Bug variant: anything does.
AnyMayDecide(from) == TRUE
MayDecide(from) == unadopted => from /= 0

\* What a charge needs above the allocation, once the hold is gone and the
\* row's raise is counted.
Overdrawn(a, charged, raise) ==
  Pos(consumed + charged + (held - hold[a].estimate) - (allocation + raise))

\* decide, with the room a drain-log row's raise made counted first (adopt):
\* the first terminal wins; any overrun the lease has no room for joins the
\* shortfall total and the allocation; what the hold frees is pending until
\* its record is acknowledged.
Decide(a, k, charge, from, raise) ==
  LET e == hold[a].estimate
      charged == Charged(k, charge)
      freed == Freed(k, charge, e)
      short == Overdrawn(a, charged, raise)
  IN /\ Undecided(a)
     /\ MayDecide(from)
     /\ HandOver(<<[Blank EXCEPT !.kind = k, !.auth = a, !.charge = charged,
                      !.freed = freed, !.shortfall = shortfall + short,
                      !.drain = from, !.raise = raise]>>)
     /\ held' = held - e
     /\ consumed' = consumed + charged
     /\ allocation' = allocation + raise + short
     /\ shortfall' = shortfall + short
     /\ buffer' = buffer - Counted(hold[a])
     /\ pending' = pending + freed
     /\ hold' = [hold EXCEPT ![a] = [UnusedHold EXCEPT !.state = "decided",
                                                        !.estimate = e]]

\* Settle and Refund, for a hold not decided yet; a later one is answered
\* with the winner and changes nothing.
Settle(a, charge) ==
  /\ Decide(a, "settle", charge, 0, 0)
  /\ UNCHANGED <<failing, flags, work, rowVars>>

Refund(a) ==
  /\ Decide(a, "refund", 0, 0, 0)
  /\ UNCHANGED <<failing, flags, work, rowVars>>

\* A front door's append to the drain log: the owner answered past_cutoff,
\* or no owner answered.
DrainAppend(a, k, charge) ==
  /\ hold[a].state /= "unused"
  /\ AppendRow(a, k, charge, hold[a].estimate)
  /\ UNCHANGED <<books, hold, pipe, failing, flags, work, logVars>>

\* Close: the lease went idle or old, the node retires, or the workspace is
\* off; an admission that finds it idle or old closes it too.
Close ==
  /\ ~closing
  /\ closing' = TRUE
  /\ UNCHANGED <<books, hold, pipe, failing, past, let, stopped, final,
                 unadopted, handedOff, enabled, work, logVars, rowVars>>

-----------------------------------------------------------------------------
(* The flusher.                                                             *)

\* The first record not acknowledged is: it frees what it freed.
FlushAck ==
  /\ flusher = "wait" /\ ~stopped
  /\ Inflight > 0 /\ waiter[acked + 1] = "acked"
  /\ acked' = acked + 1
  /\ live' = live - 1
  /\ pending' = pending - log[acked + 1].freed
  /\ failed' = FALSE /\ failedLong' = FALSE
  /\ UNCHANGED <<allocation, held, consumed, buffer, shortfall, hold, log,
                 flusher, flags, work, logVars, rowVars>>

\* It failed, or was never sent: every record not acknowledged awaits its
\* republish, after a backoff, or past the cutoff once a renewal moves it.
FlushFail ==
  /\ flusher = "wait" /\ ~stopped
  /\ Inflight > 0 /\ waiter[acked + 1] \in {"failed", "notSent"}
  /\ failed' = TRUE
  /\ live' = 0
  /\ flusher' = IF Within THEN "backoff" ELSE "wait"
  /\ UNCHANGED <<books, hold, log, acked, failedLong, flags, work, logVars,
                 rowVars>>

\* Bug variant: the key is not resumed.
RepublishPaused ==
  /\ flusher = "backoff" /\ ~stopped
  /\ flusher' = IF Within THEN "republish" ELSE "wait"
  /\ UNCHANGED <<books, hold, pipe, failed, failedLong, flags, work, logVars,
                 rowVars>>

\* The republish begins: within the cutoff, the key is resumed.
RepublishBegin ==
  /\ flusher = "backoff" /\ ~stopped
  /\ IF Within
       THEN Resume /\ flusher' = "republish"
       ELSE flusher' = "wait" /\ UNCHANGED logVars
  /\ UNCHANGED <<books, hold, pipe, failed, failedLong, flags, work, rowVars>>

\* The record republished next: the first not published since the failure.
NextToPublish == acked + live + 1

\* republishSome: the next record, in order.  The lock is let go between
\* batches, which may end at any record.
RepublishNext ==
  /\ flusher = "republish" /\ ~stopped
  /\ IF live < Inflight /\ Within
       THEN /\ Publish(<<NextToPublish>>)
            /\ live' = live + 1
            /\ UNCHANGED flusher
       ELSE /\ flusher' = "wait"
            /\ UNCHANGED <<live, logVars>>
  /\ UNCHANGED <<books, hold, log, acked, failed, failedLong, flags, work,
                 rowVars>>

-----------------------------------------------------------------------------
(* The renewal round, one lease's part of it.                               *)

\* The lease's part in the batch: one whose workspace is off is closed and
\* not renewed, nor is one whose publishes fail too long.
RoundBegin ==
  /\ round = "idle" /\ ~let
  /\ closing' = (closing \/ ~enabled)
  /\ round' = IF enabled /\ ~failedLong THEN "renewing" ELSE "adopt"
  /\ UNCHANGED <<books, hold, pipe, failing, past, let, stopped, final,
                 unadopted, handedOff, enabled, adoption, reaper, writer,
                 stored, handoff, owed, logVars, rowVars>>

\* Renew commits: the row takes the renewal or not.
RenewCommits ==
  /\ round = "renewing"
  /\ round' = IF Renewable THEN "renewed" ELSE "refused"
  /\ UNCHANGED <<books, hold, pipe, failing, flags, adoption, reaper, writer,
                 stored, handoff, owed, logVars, rowVars>>

\* The answer is lost: the round ends.
RenewFails ==
  /\ round \in {"renewing", "renewed", "refused"}
  /\ round' = "idle"
  /\ UNCHANGED <<books, hold, pipe, failing, flags, adoption, reaper, writer,
                 stored, handoff, owed, logVars, rowVars>>

\* Renewed: the new expiry.  A lease past its cutoff has its drain log left
\* to adopt, and an answer long under way may find the new cutoff passed
\* too.  A lease let go ignores it.
Renewed ==
  /\ round = "renewed"
  /\ IF let \/ ~past
       THEN UNCHANGED <<past, unadopted, owed>>
       ELSE /\ past' \in BOOLEAN
            /\ unadopted' = TRUE
            /\ owed' = Len(drain)
  /\ round' = "adopt"
  /\ UNCHANGED <<books, hold, pipe, failing, let, stopped, closing, final,
                 handedOff, enabled, adoption, reaper, writer, stored,
                 handoff, logVars, rowVars>>

\* A lease that takes no renewal is let go.
RenewRefused ==
  /\ round = "refused"
  /\ let' = TRUE
  /\ round' = "adopt"
  /\ UNCHANGED <<books, hold, pipe, failing, past, stopped, closing, final,
                 unadopted, handedOff, enabled, adoption, reaper, writer,
                 stored, handoff, owed, logVars, rowVars>>

\* Where adoptDrain reads on.
FirstUnread == adoption.cursor + 1

\* adoptDrain reads the rows committed since its cursor; not for a lease let
\* go or past its cutoff, nor when the read fails.
AdoptRead ==
  /\ round = "adopt"
  /\ \/ /\ Within
        /\ adoption' = [adoption EXCEPT !.next = FirstUnread,
                                        !.last = Len(drain)]
        /\ round' = "adopting"
     \/ /\ round' = "checkpoint"
        /\ UNCHANGED adoption
  /\ UNCHANGED <<books, hold, pipe, failing, flags, reaper, writer, stored,
                 handoff, owed, logVars, rowVars>>

\* adopt of row i: the owner's own record of the front door's terminal.
Adopt(i) ==
  Decide(drain[i].auth, drain[i].kind, drain[i].charge, i, drain[i].raise)

\* The next row read: adopted, or nothing for a hold not open.
AdoptNext ==
  /\ round = "adopting" /\ adoption.next <= adoption.last
  /\ IF drain[adoption.next].auth \in Open
       THEN Adopt(adoption.next)
       ELSE UNCHANGED <<books, hold, pipe, logVars>>
  /\ adoption' = [adoption EXCEPT !.next = @ + 1]
  /\ UNCHANGED <<failing, flags, round, reaper, writer, stored, handoff, owed,
                 rowVars>>

\* A row that cannot be adopted ends the adoption, its cursor where it was.
AdoptFails ==
  /\ round = "adopting" /\ adoption.next <= adoption.last
  /\ drain[adoption.next].auth \in Open /\ ~CanHandOver(1)
  /\ round' = "checkpoint"
  /\ UNCHANGED <<books, hold, pipe, failing, flags, adoption, reaper, writer,
                 stored, handoff, owed, logVars, rowVars>>

\* Every row read is adopted: the cursor moves on, and the lease decides.
AdoptDone ==
  /\ round = "adopting" /\ adoption.next > adoption.last
  /\ adoption' = [cursor |-> adoption.last, next |-> 0, last |-> 0]
  /\ unadopted' = FALSE
  /\ round' = "checkpoint"
  /\ UNCHANGED <<books, hold, pipe, failing, past, let, stopped, closing,
                 final, handedOff, enabled, reaper, writer, stored, handoff,
                 owed, logVars, rowVars>>

\* A closing lease's checkpoint returns its free room.
ReturnOf == IF closing THEN Pos(Free) ELSE 0

\* checkpoint: the books' state as a record; once closing, the free room is
\* returned, and with no hold open the checkpoint is final.
Checkpoint ==
  /\ round = "checkpoint"
  /\ IF final = 0 /\ CanHandOver(1)
       THEN /\ HandOver(<<[Blank EXCEPT !.consumed = consumed,
                             !.openSum = held, !.return = ReturnOf]>>)
            /\ allocation' = allocation - ReturnOf
            /\ final' = IF closing /\ Open = {} THEN Len(log) + 1 ELSE 0
       ELSE UNCHANGED <<allocation, pipe, final, logVars>>
  /\ round' = "letgo"
  /\ UNCHANGED <<held, consumed, pending, buffer, shortfall, hold, failing,
                 past, let, stopped, closing, unadopted, handedOff, enabled,
                 adoption, reaper, writer, stored, handoff, owed, rowVars>>

\* letIfAbandoned: a lease renewed no more is let go past its cutoff, by the
\* clock as the round read it before its adoption: a cutoff that passed since
\* is left to the next round.
LetIfAbandoned ==
  /\ round = "letgo"
  /\ \/ let' = (let \/ ((~enabled \/ failedLong) /\ past))
     \/ past /\ UNCHANGED let
  /\ round' = "idle"
  /\ UNCHANGED <<books, hold, pipe, failing, past, stopped, closing, final,
                 unadopted, handedOff, enabled, adoption, reaper, writer,
                 stored, handoff, owed, logVars, rowVars>>

-----------------------------------------------------------------------------
(* The reaper's pass, one hold at a time.                                   *)

\* A due hold: a heartbeated one is to be reaped at its snapshot, one with
\* no heartbeat issued to be released at its end of life.
ReapScan(a) ==
  /\ reaper.place = "idle"
  /\ Within /\ ~unadopted
  /\ a \in Open
  /\ reaper' = [place |-> "read", auth |-> a,
                kind |-> IF hold[a].heartbeat THEN "reap" ELSE "release",
                charge |-> hold[a].running, snapSeq |-> hold[a].snapSeq]
  /\ UNCHANGED <<books, hold, pipe, failing, flags, round, adoption, writer,
                 stored, handoff, owed, logVars, rowVars>>

\* undrained finds no row of the hold's: its end goes on.
ReapUndrained ==
  /\ reaper.place = "read"
  /\ RowsOf(reaper.auth) = {}
  /\ reaper' = [reaper EXCEPT !.place = "decide"]
  /\ UNCHANGED <<books, hold, pipe, failing, flags, round, adoption, writer,
                 stored, handoff, owed, logVars, rowVars>>

\* undrained adopts the first row instead.
ReapAdopts ==
  /\ reaper.place = "read"
  /\ RowsOf(reaper.auth) /= {}
  /\ Adopt(FirstRow(reaper.auth))
  /\ reaper' = IdleReaper
  /\ UNCHANGED <<failing, flags, round, adoption, writer, stored, handoff,
                 owed, rowVars>>

\* reap and releaseOne: the hold is ended if it is still open and as the
\* scan saw it.
ReapDecides ==
  LET h == hold[reaper.auth] IN
  /\ reaper.place = "decide"
  /\ reaper.auth \in Open
  /\ h.snapSeq = reaper.snapSeq
  /\ Decide(reaper.auth, reaper.kind, reaper.charge, 0, 0)
  /\ reaper' = IdleReaper
  /\ UNCHANGED <<failing, flags, round, adoption, writer, stored, handoff,
                 owed, rowVars>>

\* The read or the full record's publish failed, or the hold changed or
\* cannot be decided: the next pass looks again.
ReapGivesUp ==
  /\ reaper.place /= "idle"
  /\ reaper' = IdleReaper
  /\ UNCHANGED <<books, hold, pipe, failing, flags, round, adoption, writer,
                 stored, handoff, owed, logVars, rowVars>>

\* releaseDue: a declared stream with no heartbeat issued by the
\* first-heartbeat allowance is released, no drain log read.
ReleaseDue(a) ==
  /\ hold[a].mode = "declared" /\ ~hold[a].heartbeat
  /\ Decide(a, "release", 0, 0, 0)
  /\ UNCHANGED <<failing, flags, work, rowVars>>

-----------------------------------------------------------------------------
(* The lease's ends.                                                        *)

\* The final checkpoint is acknowledged.  Bug variant: it waits for a record
\* after it.
FinalOvertaken == final /= 0 /\ acked > final
FinalStored == final /= 0 /\ acked >= final

\* finish: once the final checkpoint is acknowledged the lease is marked
\* draining, by a write that is tried again when it fails or loses its answer.
FinishMarks ==
  /\ FinalStored /\ ~let
  /\ row.state = "open"
  /\ MarkDraining
  /\ UNCHANGED <<books, hold, pipe, failing, flags, work, logVars>>

\* finish's end: the write is answered, having changed the row or found it
\* draining, and the lease is let go.
FinishLease ==
  /\ FinalStored /\ ~let
  /\ row.state = "draining"
  /\ let' = TRUE
  /\ UNCHANGED <<books, hold, pipe, failing, past, stopped, closing, final,
                 unadopted, handedOff, enabled, work, logVars, rowVars>>

\* handoff: the lease stops admitting, its open holds are handed over in a
\* chunk, and the manifest follows, after which it issues no record.
HandoffChunk == [Blank EXCEPT !.kind = "handoff", !.holds = Open]
HandoffRecords ==
  (IF Open = {} THEN <<>> ELSE <<HandoffChunk>>)
    \o <<[Blank EXCEPT !.kind = "manifest", !.holds = Open]>>

Handoff ==
  /\ handoff = "none" /\ ~let
  /\ HandOver(HandoffRecords)
  /\ closing' = TRUE
  /\ handedOff' = TRUE
  /\ handoff' = "waiting"
  /\ UNCHANGED <<books, hold, failing, past, let, stopped, final, unadopted,
                 enabled, round, adoption, reaper, writer, stored, owed,
                 rowVars>>

\* handoff cut short, by its deadline or the cutoff, with or without its
\* chunk handed over: no manifest.
HandoffCut ==
  /\ handoff = "none" /\ ~let
  /\ \/ Open /= {} /\ HandOver(<<HandoffChunk>>)
     \/ UNCHANGED <<pipe, logVars>>
  /\ closing' = TRUE
  /\ handoff' = "ending"
  /\ UNCHANGED <<books, hold, failing, past, let, stopped, final, unadopted,
                 handedOff, enabled, round, adoption, reaper, writer, stored,
                 owed, rowVars>>

\* The manifest, the last record, is acknowledged: the row drains.
HandoffMarks ==
  /\ handoff = "waiting" /\ acked = Len(log) /\ writer.place /= "ended"
  /\ MarkDraining
  /\ handoff' = "ending"
  /\ UNCHANGED <<books, hold, pipe, failing, flags, round, adoption, reaper,
                 writer, stored, owed, logVars>>

\* The hand-off's end, or its deadline: the lease is let go in any case.
HandoffEnds ==
  /\ handoff \in {"waiting", "ending"} /\ ~let
  /\ let' = TRUE
  /\ UNCHANGED <<books, hold, pipe, failing, past, stopped, closing, final,
                 unadopted, handedOff, enabled, work, logVars, rowVars>>

\* release's second half: the lease's workers stop.
StopWorkers ==
  /\ let /\ ~stopped
  /\ stopped' = TRUE
  /\ UNCHANGED <<books, hold, pipe, failing, past, let, closing, final,
                 unadopted, handedOff, enabled, work, logVars, rowVars>>

\* Stop, or the end of the process: its shortfall writer ends too.
Stop ==
  /\ writer.place /= "ended"
  /\ let' = TRUE /\ stopped' = TRUE
  /\ writer' = [place |-> "ended", total |-> 0]
  /\ UNCHANGED <<books, hold, pipe, failing, past, closing, final, unadopted,
                 handedOff, enabled, round, adoption, reaper, stored, handoff,
                 owed, logVars, rowVars>>

-----------------------------------------------------------------------------
(* The shortfall writer.                                                    *)

\* A total Spanner does not have is written, as it stands.
WriterSends ==
  /\ writer.place = "idle" /\ shortfall > stored
  /\ writer' = [place |-> "writing", total |-> shortfall]
  /\ UNCHANGED <<books, hold, pipe, failing, flags, round, adoption, reaper,
                 stored, handoff, owed, logVars, rowVars>>

\* The write commits.
WriterLands ==
  /\ writer.place = "writing"
  /\ ShortfallWrite(writer.total)
  /\ writer' = [writer EXCEPT !.place = "landed"]
  /\ UNCHANGED <<books, hold, pipe, failing, flags, round, adoption, reaper,
                 stored, handoff, owed, logVars>>

\* Its answer comes.
WriterAnswered ==
  /\ writer.place = "landed"
  /\ stored' = Most(stored, writer.total)
  /\ writer' = [place |-> "idle", total |-> 0]
  /\ UNCHANGED <<books, hold, pipe, failing, flags, round, adoption, reaper,
                 handoff, owed, logVars, rowVars>>

\* Bug variant: a write that failed counts as stored.
WriterForgets ==
  /\ writer.place \in {"writing", "landed"}
  /\ stored' = Most(stored, writer.total)
  /\ writer' = [place |-> "idle", total |-> 0]
  /\ UNCHANGED <<books, hold, pipe, failing, flags, round, adoption, reaper,
                 handoff, owed, logVars, rowVars>>

\* The write failed, or its answer was lost: it is retried.
WriterRetries ==
  /\ writer.place \in {"writing", "landed"}
  /\ writer' = [place |-> "idle", total |-> 0]
  /\ UNCHANGED <<books, hold, pipe, failing, flags, round, adoption, reaper,
                 stored, handoff, owed, logVars, rowVars>>

-----------------------------------------------------------------------------
(* Time, the switch, the store's other writers, the log and the auditor.    *)

\* The owner's clock reaches its cutoff.
PassCutoff ==
  /\ ~past
  /\ past' = TRUE
  /\ UNCHANGED <<books, hold, pipe, failing, let, stopped, closing, final,
                 unadopted, handedOff, enabled, work, logVars, rowVars>>

\* Publishes have failed for longer than the expiry window.
FailLong ==
  /\ failed /\ ~failedLong
  /\ failedLong' = TRUE
  /\ UNCHANGED <<books, hold, pipe, failed, flusher, flags, work, logVars,
                 rowVars>>

\* The workspace's switch turns off, or on again.  A node retired for a
\* hold's life and the grace renews its leases no more, as if it were off.
Switch ==
  /\ enabled' = ~enabled
  /\ UNCHANGED <<books, hold, pipe, failing, past, let, stopped, closing,
                 final, unadopted, handedOff, work, logVars, rowVars>>

\* Another node revokes the lease.
RowRevoked ==
  /\ Revoke
  /\ UNCHANGED <<books, hold, pipe, failing, flags, work, logVars>>

\* The auditor marks an expired lease draining: its expiry is no earlier
\* than the owner's, and one a renewal has just moved has not passed.
RowExpires ==
  /\ row.state = "open"
  /\ past /\ round /= "renewed"
  /\ MarkDraining
  /\ UNCHANGED <<books, hold, pipe, failing, flags, work, logVars>>

Sender ==
  /\ TakeBatch \/ SendOk \/ SendFails
  /\ UNCHANGED <<books, hold, pipe, failing, flags, work, rowVars>>

Auditor ==
  /\ Deliver(topic, log)
  /\ UNCHANGED <<books, hold, pipe, failing, flags, work, logVars>>

-----------------------------------------------------------------------------
Request ==
  \E a \in Auths :
    \/ \E e \in Estimates, m \in Modes : Admit(a, e, m)
    \/ \E c \in Charges : Heartbeat(a, c)
    \/ \E c \in Charges : Settle(a, c)
    \/ Refund(a)

FrontDoor ==
  \E a \in Auths :
    \/ \E c \in Charges : DrainAppend(a, "settle", c)
    \/ DrainAppend(a, "refund", 0)

Flusher == FlushAck \/ FlushFail \/ RepublishBegin \/ RepublishNext

Round ==
  \/ RoundBegin \/ RenewCommits \/ RenewFails \/ Renewed \/ RenewRefused
  \/ AdoptRead \/ AdoptNext \/ AdoptFails \/ AdoptDone
  \/ Checkpoint \/ LetIfAbandoned \/ FinishMarks \/ FinishLease

Reaper ==
  \/ \E a \in Auths : ReapScan(a) \/ ReleaseDue(a)
  \/ ReapUndrained \/ ReapAdopts \/ ReapDecides \/ ReapGivesUp

Handoffs == Handoff \/ HandoffCut \/ HandoffMarks \/ HandoffEnds

Writer == WriterSends \/ WriterLands \/ WriterAnswered \/ WriterRetries

Next ==
  \/ Request \/ Flusher \/ Sender \/ FailLong \/ StopWorkers
  \/ "auditor" \in Actors /\ Auditor
  \/ "close" \in Actors /\ Close
  \/ "frontdoor" \in Actors /\ FrontDoor
  \/ "handoff" \in Actors /\ Handoffs
  \/ "lapse" \in Actors /\ PassCutoff
  \/ "reaper" \in Actors /\ Reaper
  \/ "revoke" \in Actors /\ (RowRevoked \/ RowExpires)
  \/ "round" \in Actors /\ Round
  \/ "stop" \in Actors /\ Stop
  \/ "switch" \in Actors /\ Switch
  \/ "writer" \in Actors /\ Writer

Spec == Init /\ [][Next]_vars

\* What the goroutines and services guarantee.  The flusher, the sender, the
\* round's own steps, finish and the writer's loop run whenever they can.
\* Spanner answers a call that is retried for ever in the end, so a step an
\* error may take the place of is strongly fair; the failures of publishes
\* are bounded by MaxFailures.
Fairness ==
  /\ WF_vars(FlushAck) /\ WF_vars(FlushFail)
  /\ WF_vars(RepublishBegin) /\ WF_vars(RepublishNext)
  /\ WF_vars(Sender)
  /\ WF_vars(RoundBegin) /\ SF_vars(RenewCommits)
  /\ SF_vars(Renewed) /\ SF_vars(RenewRefused)
  /\ WF_vars(AdoptRead) /\ WF_vars(AdoptNext) /\ WF_vars(AdoptFails)
  /\ WF_vars(AdoptDone) /\ WF_vars(Checkpoint) /\ WF_vars(LetIfAbandoned)
  /\ WF_vars(FinishMarks) /\ WF_vars(FinishLease)
  /\ WF_vars(WriterSends) /\ SF_vars(WriterLands) /\ WF_vars(WriterAnswered)

FairSpec == Spec /\ Fairness

-----------------------------------------------------------------------------
(* Properties.                                                              *)

\* The sum of a function's values, each a natural number: one pair for each
\* unit of each value.
Sum(f) == Cardinality(UNION {{x} \X (1 .. f[x]) : x \in DOMAIN f})

\* Records 1 .. m of the log: whose terminal is among them, and whose is not
\* though it was admitted.
Ended(m) == {a \in Auths : \E n \in 1 .. m : log[n].auth = a
                                             /\ log[n].kind \in Terminals}
OpenAfter(m) == {a \in Auths : hold[a].state /= "unused"} \ Ended(m)

\* What records 1 .. m book, free and leave allocated, and the last
\* shortfall total they carry.
ConsumedAfter(m) == Sum([n \in 1 .. m |-> log[n].charge])
HeldAfter(m) == Sum([a \in OpenAfter(m) |-> hold[a].estimate])
ShortfallAfter(m) ==
  LET T == {n \in 1 .. m : log[n].kind \in Terminals}
  IN IF T = {} THEN 0
     ELSE log[CHOOSE n \in T : \A k \in T : k <= n].shortfall
AllocationAfter(m) ==
  Granted + ShortfallAfter(m) + Sum([n \in 1 .. m |-> log[n].raise])
          - Sum([n \in 1 .. m |-> log[n].return])

\* The types of the owner's state, in the parts its actions change together.
BooksType ==
  /\ allocation \in Int /\ held \in Int /\ consumed \in Nat
  /\ pending \in Int /\ buffer \in Int /\ shortfall \in Nat
HoldsType ==
  /\ hold \in [Auths -> HoldType]
  /\ \A a \in Auths : hold[a].state /= "unused" => hold[a].estimate \in Estimates
PipeType ==
  /\ log \in Seq(RecordType) /\ Len(log) <= MaxRecords
  /\ acked \in 0 .. Len(log) /\ live \in 0 .. Inflight
FailingType ==
  /\ failed \in BOOLEAN /\ failedLong \in BOOLEAN
  /\ flusher \in {"wait", "backoff", "republish"}
FlagsType ==
  /\ past \in BOOLEAN /\ let \in BOOLEAN /\ stopped \in BOOLEAN
  /\ closing \in BOOLEAN /\ final \in Nat
  /\ unadopted \in BOOLEAN /\ handedOff \in BOOLEAN /\ enabled \in BOOLEAN
WorkType ==
  /\ round \in {"idle", "renewing", "renewed", "refused", "adopt",
                "adopting", "checkpoint", "letgo"}
  /\ adoption \in [cursor : Nat, next : Nat, last : Nat]
  /\ reaper \in ReaperType
  /\ writer \in [place : {"idle", "writing", "landed", "ended"}, total : Nat]
  /\ stored \in Nat
  /\ handoff \in {"none", "waiting", "ending"}
  /\ owed \in Nat
PlacesType ==
  /\ adoption.last <= Len(drain) /\ owed <= Len(drain)
  /\ round = "adopting" => adoption.next >= 1

\* The state's types, with the flusher's counts within what is in flight
\* (flush.go: live and inflight never go below zero) and every position in
\* the drain log a row of it (adopt.go).
TypeOK ==
  /\ BooksType
  /\ HoldsType
  /\ PipeType
  /\ FailingType
  /\ FlagsType
  /\ WorkType
  /\ PlacesType
  /\ LogTypeOK
  /\ RowTypeOK

\* Of the records in flight, the first are acknowledged, up to p, the next
\* are with the sender or queued behind it, in their order, and the rest
\* failed or wait for a republish; a paused key has none with the sender,
\* and a key not paused none that failed among those published since the
\* last failure.  Every record acknowledged is in the topic.
PublishedUpTo(p) ==
  LET s == p + Len(sending)
      q == s + Len(queue)
  IN /\ q <= acked + live
     /\ \A n \in acked + 1 .. p : waiter[n] = "acked"
     /\ \A n \in p + 1 .. q : waiter[n] = "pending"
     /\ \A n \in q + 1 .. MaxRecords : waiter[n] \in {"failed", "notSent"}
     /\ \A i \in 1 .. Len(sending) : sending[i] = p + i
     /\ \A i \in 1 .. Len(queue) : queue[i] = s + i
     /\ paused => sending = <<>> /\ queue = <<>>
     /\ ~paused => q = acked + live
     /\ \A n \in 1 .. p : \E i \in 1 .. Len(topic) : topic[i] = n

\* The owner's count of the records published since the last failure, the
\* publisher's queue and call, and the topic agree (flush.go live, requests.go
\* handOver, settlelog.go key): what a failure leaves unsent is never
\* overtaken, and a flusher about to republish republishes all of it.
PublishedInOrder ==
  /\ \E p \in acked .. acked + live : PublishedUpTo(p)
  /\ flusher = "backoff" => live = 0 /\ Inflight > 0

\* The books are what the lease's holds and records say: held, the buffer and
\* pending are the open holds' and the unacknowledged records' sums, and the
\* records replayed from the grant leave what the owner has consumed and
\* allocated (owner.go's books; every operation moves them with the record).
BooksBalance ==
  /\ held = Sum([a \in Open |-> hold[a].estimate])
  /\ buffer = Sum([a \in Open |-> Counted(hold[a])])
  /\ pending = Sum([n \in acked + 1 .. Len(log) |-> log[n].freed])
  /\ consumed = ConsumedAfter(Len(log))
  /\ shortfall = ShortfallAfter(Len(log))
  /\ allocation = AllocationAfter(Len(log))

\* Whatever prefix of its records the log keeps, if the owner dies now, the
\* allocation those records leave covers what they book and every hold they
\* leave open: room is never given twice on the word of a record that may be
\* lost (pending, requests.go decide and flush.go).  For the whole log this is
\* consumed + held <= allocation: the lease is never oversold.
StoredPrefixCovers ==
  \A m \in acked .. Len(log) :
    ConsumedAfter(m) + HeldAfter(m) <= AllocationAfter(m)

\* A hold has at most one terminal among the records, and an open hold none:
\* the first wins, among the gateway's, the reaper's and the drain log's.
OneTerminal ==
  /\ \A m, n \in 1 .. Len(log) :
       log[m].kind \in Terminals /\ log[n].kind \in Terminals
         /\ log[m].auth = log[n].auth => m = n
  /\ \A a \in Open : a \notin Ended(Len(log))

\* The auditor meets no gap: whatever publishes fail, are stored though they
\* failed, or are published again, a record is first in the topic only after
\* the record before it (settlelog.go, flush.go, requests.go handOver).
NoGap ==
  \A i \in 1 .. Len(topic) :
    topic[i] = 1 \/ \E j \in 1 .. i - 1 : topic[j] = topic[i] - 1

\* The row, having applied records 1 .. n, has the owner's figures after
\* them, and more only by the raises it heard of otherwise: the shortfall
\* writer's and the front doors' (lease.go ShortfallWrite, drain.go Append).
\* So no honest owner is faulted: every booking fits the row's allocation,
\* every checkpoint's return is there to return, its open holds are covered,
\* and its consumed is what the auditor summed (store/money.go applyMoney,
\* auditor/member.go checkpoint).
RowFollowsRecords ==
  /\ row.consumed = ConsumedAfter(row.applied)
  /\ row.allocation = AllocationAfter(row.applied)
                        + (row.shortfall - ShortfallAfter(row.applied))
                        + (row.doorRaised
                             - Sum([n \in 1 .. row.applied |-> log[n].raise]))
  /\ row.shortfall >= ShortfallAfter(row.applied)
  /\ row.shortfall <= shortfall
  /\ row.faultUsage = 0 /\ row.auditFault = 0

\* A hand-off's manifest names the chunk with every hold the lease leaves
\* open, and a final checkpoint leaves none: no hold is admitted, decided or
\* forgotten after its chunk is cut (handoff.go handoff, spanner.go
\* checkpoint).
LastRecordListsHolds ==
  /\ handedOff => log[Len(log)].kind = "manifest" /\ log[Len(log)].holds = Open
  /\ final /= 0 => Open = {}

\* A drain-log row that was there when a renewal found the lease past its
\* cutoff is not outranked: the terminal the owner then decides for its hold
\* is that row, the hold's first (owner.go Renewed, requests.go decide,
\* adopt.go).
DrainedRowsWin ==
  [][\A a \in Auths :
       hold[a].state = "open" /\ hold'[a].state = "decided"
         /\ FirstRow(a) \in 1 .. owed
         => log'[Len(log')].drain = FirstRow(a)]_vars

\* While the owner keeps its lease, every record handed over is acknowledged
\* in the end, whatever publishes failed: nothing waits for ever behind a
\* paused key (flush.go flush and republish, settlelog.go Resume).
RecordsReachLog ==
  <>[]Within => \A n \in Numbers : Len(log) >= n ~> acked >= n

\* A shortfall total the owner counts on reaches the row, unless the process
\* ends first, whatever writes fail or lose their answers (spanner.go
\* writeShortfalls).
ShortfallStored ==
  row.shortfall < shortfall ~> (row.shortfall >= shortfall
                                  \/ writer.place = "ended")

\* A closed lease with no hold open ends: its final checkpoint is handed
\* over, acknowledged, and the lease let go, unless its cutoff passes again
\* and again (spanner.go checkpoint and finish).
ClosedLeaseEnds ==
  <>[]~past => (closing /\ Open = {} /\ Len(log) < MaxRecords ~> let)

=============================================================================

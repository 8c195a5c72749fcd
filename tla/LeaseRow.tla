----------------------------- MODULE LeaseRow ------------------------------
(***************************************************************************)
(* One lease's row in Spanner (tr_lease) and its drain log                  *)
(* (tr_lease_drain), with the transactions that change them                 *)
(* (fastpath/internal/store: lease.go, drain.go, money.go, commit.go), and  *)
(* the auditor member's step that turns a delivered record into a commit    *)
(* (fastpath/internal/auditor/member.go).                                   *)
(*                                                                          *)
(* Every transaction is one step.  The lease's donors are not told apart:   *)
(* a donor's room is never negative, so what the row's totals have room     *)
(* for, its donors together have room for.                                  *)
(***************************************************************************)
EXTENDS Integers, Sequences

CONSTANTS
  Auths,           \* the authorizations minted under the lease
  Granted,         \* L, the allocation the grant reserved
  MaxDrain         \* bound: the rows appended to the drain log

ASSUME GrantedAssumption == Granted \in Nat

VARIABLES
  row,             \* the lease's row
  drain            \* its drain log, in commit order

rowVars == <<row, drain>>

Terminals == {"settle", "refund", "reap", "release"}

\* max(x, 0)
Pos(x) == IF x > 0 THEN x ELSE 0

\* min(x, y) and max(x, y)
Least(x, y) == IF x < y THEN x ELSE y
Most(x, y) == IF x > y THEN x ELSE y

\* A row's columns: its state and whether its renewals were revoked; its
\* money; the audit's sum of the owner's charges and its first fault; the
\* records applied, whether one was missing, and whose terminals won.
RowType ==
  [state : {"open", "draining"}, revoked : BOOLEAN,
   allocation : Int, consumed : Int, shortfall : Nat, doorRaised : Nat,
   returned : Nat, faultUsage : Int, osum : Nat, auditFault : Nat,
   delivered : Nat, applied : Nat, gap : BOOLEAN, winners : SUBSET Auths]

DrainRowType ==
  [auth : Auths, kind : {"settle", "refund"}, charge : Nat, raise : Nat]

RowTypeOK ==
  /\ row \in RowType
  /\ drain \in Seq(DrainRowType)

\* What Grant inserts.
RowInit ==
  /\ row = [state |-> "open", revoked |-> FALSE,
            allocation |-> Granted, consumed |-> 0, shortfall |-> 0,
            doorRaised |-> 0, returned |-> 0, faultUsage |-> 0, osum |-> 0,
            auditFault |-> 0, delivered |-> 0, applied |-> 0, gap |-> FALSE,
            winners |-> {}]
  /\ drain = <<>>

\* A renewal's condition, for the process that was granted the lease.
Renewable == row.state = "open" /\ ~row.revoked

\* Revoke: the lease is renewed no more.
Revoke ==
  /\ ~row.revoked
  /\ row' = [row EXCEPT !.revoked = TRUE]
  /\ UNCHANGED drain

\* OwnerMarkDraining, or AuditorMarkDraining: an open row drains; on any
\* other row the statement changes nothing.
MarkDraining ==
  /\ row' = [row EXCEPT !.state = "draining"]
  /\ UNCHANGED drain

\* Bug variant: a write retried after a lost answer raises it again.
ShortfallAdds(total) ==
  /\ row' = [row EXCEPT !.shortfall = Most(@, total),
                        !.allocation = @ + total]
  /\ UNCHANGED drain

\* ShortfallWrite: the stored total becomes the larger of the two, and the
\* allocation rises with it.
ShortfallWrite(total) ==
  /\ row' = [row EXCEPT !.shortfall = Most(@, total),
                        !.allocation = @ + Pos(total - row.shortfall)]
  /\ UNCHANGED drain

\* The rows of one authorization, and the first of them, 0 for none.
RowsOf(a) == {i \in 1 .. Len(drain) : drain[i].auth = a}
FirstRow(a) ==
  IF RowsOf(a) = {} THEN 0
  ELSE CHOOSE i \in RowsOf(a) : \A j \in RowsOf(a) : i <= j

\* Append: a front door's terminal, whose row is named by all it states, so
\* a retry finds its row and writes nothing.  A charge above the hold's
\* estimate e raises the row's allocation with the row.
AppendRow(a, kind, charge, e) ==
  LET raise == Pos(charge - e)
      r == [auth |-> a, kind |-> kind, charge |-> charge, raise |-> raise]
  IN /\ Len(drain) < MaxDrain
     /\ \A i \in 1 .. Len(drain) : drain[i] /= r
     /\ drain' = Append(drain, r)
     /\ row' = [row EXCEPT !.allocation = @ + raise,
                           !.doorRaised = @ + raise]

-----------------------------------------------------------------------------
(* The auditor: one delivered record, applied and committed.               *)

\* applyMoney of a booking: the shortfall total rises to the record's, then
\* the charge is booked up to the room; the rest is a fault's usage.
Book(m, charge, total) ==
  LET allocated == m.allocation + Pos(total - m.shortfall)
      booked == Pos(Least(charge, allocated - m.consumed))
  IN [m EXCEPT !.allocation = allocated,
               !.shortfall = Most(@, total),
               !.consumed = @ + booked,
               !.faultUsage = @ + (charge - booked)]

\* The first fault stands; a fault revokes the lease.
Fault(m, n) ==
  [m EXCEPT !.auditFault = IF @ = 0 THEN n ELSE @, !.revoked = TRUE]

\* applyMoney of a checkpoint's return: past what the lease holds it returns
\* nothing and is a fault.
TakeReturn(m, n, amount) ==
  IF amount > m.allocation - m.consumed THEN Fault(m, n)
  ELSE [m EXCEPT !.allocation = @ - amount, !.returned = @ + amount]

\* applyMoney of a checkpoint's audit: the allocation less what is booked
\* covers its open holds.
CheckOpen(m, n, openSum) ==
  IF m.allocation - m.consumed < openSum THEN Fault(m, n) ELSE m

\* A terminal's record: the first for its authorization wins and is booked;
\* a later one stores its shortfall total only.  The audit counts each.
ApplyTerminal(m, r) ==
  [Book(m, IF r.auth \in m.winners THEN 0 ELSE r.charge, r.shortfall)
     EXCEPT !.winners = @ \union {r.auth}, !.osum = @ + r.charge]

\* A checkpoint's record: its consumed must be what the terminals charged.
ApplyCheckpoint(m, n, r) ==
  LET c == CheckOpen(TakeReturn(m, n, r.return), n, r.openSum)
  IN IF r.consumed /= m.osum THEN Fault(c, n) ELSE c

\* Record r, numbered n, the next the lease has not applied.  Heartbeats,
\* chunks and manifests move no money.
ApplyRecord(m, n, r) ==
  LET after == IF r.kind \in Terminals THEN ApplyTerminal(m, r)
               ELSE IF r.kind = "checkpoint" THEN ApplyCheckpoint(m, n, r)
               ELSE m
  IN [after EXCEPT !.applied = n]

\* The next delivery of the topic: a record applied already is skipped, the
\* next one is applied and committed, and one past it is a gap, at which the
\* lease stops (StopForGap).
Deliver(topic, log) ==
  /\ ~row.gap
  /\ row.delivered < Len(topic)
  /\ LET n == topic[row.delivered + 1]
         m == [row EXCEPT !.delivered = @ + 1]
     IN row' = IF n <= row.applied THEN m
               ELSE IF n = row.applied + 1 THEN ApplyRecord(m, n, log[n])
               ELSE [m EXCEPT !.gap = TRUE]
  /\ UNCHANGED drain

=============================================================================

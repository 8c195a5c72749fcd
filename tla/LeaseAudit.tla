----------------------------- MODULE LeaseAudit -----------------------------
(***************************************************************************)
(* The auditor's members on one lease, from its records to its close: each *)
(* member that Pub/Sub delivers the lease's records to keeps the lease in  *)
(* memory and commits what it applied, on the condition of the version it  *)
(* read; then the fence tick and the boundary S, the drain log's rows,     *)
(* reaps and the close.  Several members may have the lease at once.       *)
(***************************************************************************)
EXTENDS Integers, Sequences, FiniteSets, FiniteSetsExt

CONSTANTS
    Members,
    Auths,
    Charge,       \* what a terminal charges, by where it is from
    MaxRecords,   \* bound on the owner's records
    MaxRows,      \* bound on the front doors' rows
    MaxCrashes,   \* bound on members that crash
    MaxLost       \* bound on writes that land and whose answers are lost

ASSUME AuditAssumption ==
    /\ IsFiniteSet(Members) /\ IsFiniteSet(Auths)
    /\ Charge \in [{"owner", "door", "reap"} -> Nat]
    /\ {MaxRecords, MaxRows, MaxCrashes, MaxLost} \subseteq Nat

VARIABLES
    topic,   \* the settle log under the lease's key, in the order stored
    clock,   \* 1 is past the fence F, 2 past the holds' deadlines and the
             \* grace, 3 past the last life a hold may have
    row,     \* tr_lease, with its holds' rows and its packs' winners
    drain,   \* tr_lease_drain, in commit order
    acked,   \* how far Pub/Sub has the topic acknowledged
    mem,     \* the members' lease in memory
    crashes, lost

vars == <<topic, clock, row, drain, acked, mem, crashes, lost>>

None == -1

Winner(a, from, at) == [auth |-> a, from |-> from, at |-> at]

\* A runtime's held lease before it is read.
Unread == [lease |-> FALSE, done |-> FALSE, pend |-> {}, pos |-> 0,
    version |-> 0, draining |-> FALSE, applied |-> 0, sKnown |-> FALSE, sStored |-> FALSE,
    listed |-> FALSE, holds |-> {}, decided |-> {}, loaded |-> FALSE, cursor |-> 0, end |-> FALSE,
    dirty |-> FALSE, won |-> {}, put |-> {}, bound |-> FALSE]

----------------------------------------------------------------------------
(* The owner, the ticker, the front doors and time.                        *)

IsOwners(r) == r.kind # "tick"
Records == {p \in 1 .. Len(topic) : IsOwners(topic[p])}
Terminals == {p \in Records : topic[p].kind = "terminal"}
Published == Cardinality(Records)
Terminated == {topic[p].auth : p \in Terminals}
Ended == \E p \in Records : topic[p].kind = "list"

\* Stored now, as the record after the last; in time while an owner may still
\* be acknowledged.
Stored(kind, a, holds) ==
    /\ Published < MaxRecords
    /\ ~Ended
    /\ topic' = Append(topic, [kind |-> kind, auth |-> a, seq |-> Published + 1,
                               holds |-> holds, intime |-> clock = 0])

OwnerTerminal(a) ==
    /\ a \notin Terminated
    /\ Stored("terminal", a, {})
    /\ UNCHANGED <<clock, row, drain, acked, mem, crashes, lost>>

OwnerHeartbeat(a) ==
    /\ a \notin Terminated
    /\ \A i \in 1 .. Len(topic) : topic[i].kind = "beat" => topic[i].auth # a
    /\ Stored("beat", a, {})
    /\ UNCHANGED <<clock, row, drain, acked, mem, crashes, lost>>

\* The final checkpoint, or a hand-off's manifest with its chunks.
OwnerLists ==
    /\ \E a \in Auths : Stored("list", a, Auths \ Terminated)
    /\ UNCHANGED <<clock, row, drain, acked, mem, crashes, lost>>

\* OwnerMarkDraining, AuditorMarkDraining.
MarkDraining ==
    /\ row.state = "open"
    /\ row' = [row EXCEPT !.state = "draining"]
    /\ UNCHANGED <<topic, clock, drain, acked, mem, crashes, lost>>

\* Of the ticks before the fence one is kept, and of those after it one.
Ticks == {i \in 1 .. Len(topic) : topic[i].kind = "tick"}

Tick ==
    /\ row.state = "draining"
    /\ \A i \in Ticks : topic[i].fence # (clock > 0)
    /\ topic' = Append(topic, [kind |-> "tick", fence |-> clock > 0])
    /\ UNCHANGED <<clock, row, drain, acked, mem, crashes, lost>>

\* Store.Append: refused once the lease is closed.
DoorAppends(a) ==
    /\ row.state # "closed"
    /\ Cardinality({i \in 1 .. Len(drain) : drain[i].from = "door"}) < MaxRows
    /\ drain' = Append(drain, [auth |-> a, from |-> "door"])
    /\ UNCHANGED <<topic, clock, row, acked, mem, crashes, lost>>

TimePasses ==
    /\ row.state # "open"
    /\ clock < 3 /\ clock' = clock + 1
    /\ UNCHANGED <<topic, row, drain, acked, mem, crashes, lost>>

----------------------------------------------------------------------------
(* A member reads the lease.                                               *)

StoredAuths == {w.auth : w \in row.winners}
Over == row.state = "closed" \/ row.gap

\* ack: a record is acknowledged once what it did is durable.
AckAll(m) == acked' = Max(mem[m].pend \cup {acked})
Finished == [Unread EXCEPT !.done = TRUE]
Dropped(l) == [Unread EXCEPT !.pend = l.pend]

\* The lease as Load reads it, its records to be applied again from the first.
\* The winners are read with it once it drains.
Loaded(l) ==
    [Unread EXCEPT !.lease = TRUE, !.pend = l.pend, !.version = row.version,
        !.draining = row.state = "draining", !.applied = row.applied,
        !.sKnown = row.boundary # None, !.sStored = row.boundary # None,
        !.listed = row.listed, !.holds = row.holds,
        !.decided = IF row.state = "draining" THEN StoredAuths ELSE {},
        !.loaded = row.state = "draining"]

\* A draining lease is ticked for ever: a tick after the topic's is as the
\* fence's again, and tells something to a member that does not know S.
LaterTick(l) ==
    {p \in Ticks : /\ topic[p].fence /\ row.state = "draining"
                   /\ acked = Len(topic) /\ l.pend = {} /\ ~l.sKnown}

\* The record Pub/Sub gives a member next: in order, from the first not
\* acknowledged, or on from the last it gave the member.
Delivered(l) ==
    LET next == Max(l.pend \cup {acked}) + 1
    IN  IF next <= Len(topic) THEN {next} ELSE LaterTick(l)

\* Read for a first record, or again for those kept.
LoadLease(m) ==
    LET l == mem[m]
        pend == IF l.pend = {} THEN Delivered(l) ELSE l.pend
    IN  /\ ~l.lease /\ ~l.done /\ pend # {}
        /\ IF Over
           THEN mem' = [mem EXCEPT ![m] = Finished] /\ acked' = Max(pend \cup {acked})
           ELSE mem' = [mem EXCEPT ![m] = [Loaded(l) EXCEPT !.pend = pend]] /\ UNCHANGED acked
    /\ UNCHANGED <<topic, clock, row, drain, crashes, lost>>

----------------------------------------------------------------------------
(* A member applies records.                                               *)

Unapplied(l) == {p \in l.pend : p > l.pos}
Busy(l) == ~l.lease \/ Unapplied(l) # {}
Coming(l) == IF Unapplied(l) # {} THEN Unapplied(l) ELSE Delivered(l)

\* A record of a lease that is done books nothing.
AckDone(m) ==
    /\ mem[m].done
    /\ acked < Len(topic) /\ acked' = acked + 1
    /\ UNCHANGED <<topic, clock, row, drain, mem, crashes, lost>>

\* LoadWinners: the winners as they are stored now.
WithWinners(l) ==
    [l EXCEPT !.decided = @ \cup StoredAuths, !.loaded = TRUE,
              !.draining = @ \/ row.state # "open"]

Heartbeat(l, r) ==
    IF r.auth \in l.decided THEN l
    ELSE [l EXCEPT !.holds = @ \cup {r.auth}, !.put = @ \cup {r.auth}]

Decide(l, w) ==
    IF w.auth \in l.decided THEN l
    ELSE [l EXCEPT !.decided = @ \cup {w.auth}, !.won = @ \cup {w}, !.dirty = TRUE,
                   !.holds = @ \ {w.auth}, !.put = @ \ {w.auth}]

List(l, r) ==
    [l EXCEPT !.holds = @ \cup (r.holds \ l.decided), !.put = @ \cup (r.holds \ l.decided),
              !.listed = TRUE]

Applied(l, r) ==
    LET after == CASE r.kind = "beat" -> Heartbeat(l, r)
                   [] r.kind = "terminal" -> Decide(l, Winner(r.auth, "owner", r.seq))
                   [] r.kind = "list" -> List(l, r)
    IN  [after EXCEPT !.applied = r.seq, !.dirty = TRUE]

\* applyTick: past the fence, S is what the member has applied.
Ticked(l, r) ==
    IF r.fence /\ ~l.sKnown
    THEN [l EXCEPT !.draining = TRUE, !.sKnown = TRUE, !.bound = TRUE, !.dirty = TRUE]
    ELSE [l EXCEPT !.draining = TRUE]

IsGap(l, r) == IsOwners(r) /\ ~l.sKnown /\ r.seq > l.applied + 1
Skips(l, r) == IsOwners(r) /\ (l.sKnown \/ r.seq <= l.applied)

\* Behind: the row is read first, for the fence or for the winners.
Behind(l, r) ==
    IF IsOwners(r)
    THEN ~Skips(l, r) /\ ~l.loaded /\ (l.draining \/ (r.kind = "list" /\ r.holds # {}))
    ELSE ~l.draining

\* Mutant: a record is acknowledged once it is applied.
AckedApplied(p) == Max({p, acked})

\* A record waits for the commit that makes it durable.
Acked(p) == acked

Apply(m) ==
    LET l == mem[m]
        p == Min(Coming(l))
        r == topic[p]
        read == IF Behind(l, r) /\ IsOwners(r) THEN WithWinners(l) ELSE l
        after == IF Skips(l, r) THEN l ELSE IF IsOwners(r) THEN Applied(read, r) ELSE Ticked(l, r)
    IN  /\ l.lease /\ Coming(l) # {}
        /\ ~IsGap(l, r)
        /\ IF Behind(l, r) /\ Over
           THEN /\ mem' = [mem EXCEPT ![m] = Finished]
                /\ acked' = Max(l.pend \cup {p, acked})
           ELSE /\ mem' = [mem EXCEPT ![m] = [after EXCEPT !.pos = p, !.pend = @ \cup {p}]]
                /\ acked' = Acked(p)
        /\ UNCHANGED <<topic, clock, row, drain, crashes, lost>>

----------------------------------------------------------------------------
(* Commits.                                                                *)

\* Mutant: a commit is taken on whatever version.
TakesAny(l) ==
    /\ row.state # "closed" /\ ~row.gap
    /\ row.boundary \in {None, l.applied}
    /\ l.bound => row.state # "open"
    /\ row.boundary = None => \A w \in l.won : w.from = "owner"

\* Store.Commit's conditions.
Takes(l) ==
    /\ row.version = l.version
    /\ row.state # "closed" /\ ~row.gap
    /\ row.boundary \in {None, l.applied}
    /\ l.bound => row.state # "open"
    /\ row.boundary = None => \A w \in l.won : w.from = "owner"

ChargeOf(w) == Charge[IF w.from = "owner" THEN "owner" ELSE drain[w.at].from]

CommitRow(l) ==
    row' = [row EXCEPT !.version = @ + 1, !.applied = l.applied,
                !.boundary = IF @ = None /\ l.bound THEN l.applied ELSE @,
                !.winners = @ \cup l.won, !.consumed = @ + MapThenSumSet(ChargeOf, l.won),
                !.holds = (@ \cup l.put) \ {w.auth : w \in l.won},
                !.listed = @ \/ l.listed]

Committed(l) ==
    [l EXCEPT !.version = row.version + 1, !.draining = @ \/ row.state # "open",
              !.sStored = @ \/ l.bound, !.dirty = FALSE, !.won = {}, !.put = {}, !.bound = FALSE]

Commit(m) ==
    LET l == mem[m]
    IN  /\ ~Busy(l) /\ l.dirty
        /\ IF Takes(l)
           THEN /\ CommitRow(l)
                /\ mem' = [mem EXCEPT ![m] = [Committed(l) EXCEPT !.pend = {}, !.pos = 0]]
                /\ AckAll(m)
           ELSE /\ mem' = [mem EXCEPT ![m] = Dropped(l)]
                /\ UNCHANGED <<row, acked>>
        /\ UNCHANGED <<topic, clock, drain, crashes, lost>>

\* The commit lands and the member does not learn of it.
CommitUnknown(m) ==
    LET l == mem[m]
    IN  /\ ~Busy(l) /\ l.dirty
        /\ Takes(l)
        /\ lost < MaxLost /\ lost' = lost + 1
        /\ CommitRow(l)
        /\ mem' = [mem EXCEPT ![m] = Dropped(l)]
        /\ UNCHANGED <<topic, clock, drain, acked, crashes>>

\* commitAll of a lease with nothing to commit.
AckClean(m) ==
    LET l == mem[m]
    IN  /\ ~Busy(l) /\ ~l.dirty /\ l.pend # {}
        /\ mem' = [mem EXCEPT ![m].pend = {}, ![m].pos = 0]
        /\ AckAll(m)
        /\ UNCHANGED <<topic, clock, row, drain, crashes, lost>>

AtGap(l) == l.lease /\ Coming(l) # {} /\ IsGap(l, topic[Min(Coming(l))])

\* stopAtGap: what was applied before the gap is committed first.
GapCommits(m) ==
    LET l == mem[m]
        before == {p \in l.pend : p <= l.pos}
        kept == Unapplied(l) \cup {Min(Coming(l))}
    IN  /\ AtGap(l) /\ l.dirty
        /\ IF Takes(l)
           THEN /\ CommitRow(l)
                /\ mem' = [mem EXCEPT ![m] = [Committed(l) EXCEPT !.pend = kept]]
                /\ acked' = Max(before \cup {acked})
           ELSE /\ mem' = [mem EXCEPT ![m] = [Dropped(l) EXCEPT !.pend = @ \cup kept]]
                /\ UNCHANGED <<row, acked>>
        /\ UNCHANGED <<topic, clock, drain, crashes, lost>>

\* Mutant: the row is not looked at, only the record.
StopTakesAny(l, seq) == ~row.gap /\ row.boundary = None

\* StopForGap's conditions.
StopTakes(l, seq) ==
    /\ row.version = l.version
    /\ ~row.gap /\ row.boundary = None
    /\ row.applied < seq - 1

StopAtGap(m) ==
    LET l == mem[m]
        p == Min(Coming(l))
    IN  /\ AtGap(l) /\ ~l.dirty
        /\ IF StopTakes(l, topic[p].seq)
           THEN /\ row' = [row EXCEPT !.gap = TRUE]
                /\ mem' = [mem EXCEPT ![m] = Finished]
                /\ acked' = Max(l.pend \cup {p, acked})
           ELSE /\ mem' = [mem EXCEPT ![m] = [Dropped(l) EXCEPT !.pend = @ \cup {p}]]
                /\ UNCHANGED <<row, acked>>
        /\ UNCHANGED <<topic, clock, drain, crashes, lost>>

----------------------------------------------------------------------------
(* A draining lease's work at a tick after the fence's: drain.             *)

Draining(l) == ~Busy(l) /\ l.draining /\ l.sStored

LearnWinners(m) ==
    /\ Draining(mem[m]) /\ ~mem[m].loaded
    /\ mem' = [mem EXCEPT ![m] = WithWinners(mem[m])]
    /\ UNCHANGED <<topic, clock, row, drain, acked, crashes, lost>>

\* ApplyRow, of the rows since the last read.
FirstRow(a, from) == Min({i \in from .. Len(drain) : drain[i].auth = a})

ReadRows(m) ==
    LET l == mem[m]
        since == {drain[i].auth : i \in l.cursor + 1 .. Len(drain)}
        new == since \ l.decided
        won == {Winner(a, "drain", FirstRow(a, l.cursor + 1)) : a \in new}
    IN  /\ Draining(l) /\ l.loaded
        /\ l.cursor < Len(drain)
        /\ mem' = [mem EXCEPT ![m] =
               [l EXCEPT !.cursor = Len(drain), !.won = @ \cup won, !.decided = @ \cup new,
                         !.holds = @ \ new, !.put = @ \ new, !.dirty = @ \/ new # {}]]
        /\ UNCHANGED <<topic, clock, row, drain, acked, crashes, lost>>

\* Store.Reap's conditions beside the version and the gap.
Reaps(l, a) ==
    /\ row.state = "draining" /\ row.boundary # None
    /\ \A i \in 1 .. Len(drain) : drain[i].auth # a
    /\ a \in row.holds

Reap(m, a) ==
    LET l == mem[m]
    IN  /\ Draining(l) /\ l.loaded
        /\ a \in l.holds /\ clock >= 2
        /\ IF row.version # l.version \/ row.gap
           THEN mem' = [mem EXCEPT ![m] = Dropped(l)] /\ UNCHANGED drain
           ELSE /\ Reaps(l, a)
                /\ drain' = Append(drain, [auth |-> a, from |-> "reap"])
                /\ UNCHANGED mem
        /\ UNCHANGED <<topic, clock, row, acked, crashes, lost>>

\* Mutant: a lease whose holds no record listed never ends.
AtEndListed(l) == l.holds = {} /\ ~l.dirty /\ l.listed

\* closeAt: what the member has to see, at two ticks.
AtEnd(l) == l.holds = {} /\ ~l.dirty /\ (l.listed \/ clock = 3)

SeeEnd(m) ==
    LET l == mem[m]
    IN  /\ Draining(l) /\ l.loaded
        /\ l.end # AtEnd(l)
        /\ mem' = [mem EXCEPT ![m].end = AtEnd(l)]
        /\ UNCHANGED <<topic, clock, row, drain, acked, crashes, lost>>

\* Mutant: the rows past the member's read are not looked for, nor the rows
\* without a winner.
ClosesReadOnly(l) == row.boundary # None /\ (row.listed \/ clock = 3) /\ row.holds = {}

\* CloseLease's conditions beside the version, the gap and the state.
Closes(l) ==
    /\ row.boundary # None
    /\ row.listed \/ clock = 3
    /\ row.holds = {}
    /\ Len(drain) = l.cursor
    /\ \A i \in 1 .. Len(drain) : drain[i].auth \in StoredAuths

CloseRow == row' = [row EXCEPT !.state = "closed", !.version = @ + 1]

CloseLease(m) ==
    LET l == mem[m]
    IN  /\ Draining(l) /\ l.loaded /\ l.end /\ AtEnd(l)
        /\ IF row.version # l.version \/ Over
           THEN mem' = [mem EXCEPT ![m] = Dropped(l)] /\ UNCHANGED <<row, acked>>
           ELSE /\ Closes(l)
                /\ CloseRow
                /\ mem' = [mem EXCEPT ![m] = Finished]
                /\ AckAll(m)
        /\ UNCHANGED <<topic, clock, drain, crashes, lost>>

CloseUnknown(m) ==
    LET l == mem[m]
    IN  /\ Draining(l) /\ l.loaded /\ l.end /\ AtEnd(l)
        /\ row.version = l.version /\ ~Over
        /\ Closes(l)
        /\ lost < MaxLost /\ lost' = lost + 1
        /\ CloseRow
        /\ mem' = [mem EXCEPT ![m] = Dropped(l)]
        /\ UNCHANGED <<topic, clock, drain, acked, crashes>>

Crash(m) ==
    /\ crashes < MaxCrashes /\ crashes' = crashes + 1
    /\ mem[m] # Unread
    /\ mem' = [mem EXCEPT ![m] = Unread]
    /\ UNCHANGED <<topic, clock, row, drain, acked, lost>>

----------------------------------------------------------------------------
Init ==
    /\ topic = <<>>
    /\ clock = 0
    /\ row = [state |-> "open", version |-> 0, applied |-> 0, boundary |-> None, gap |-> FALSE,
              winners |-> {}, consumed |-> 0, holds |-> {}, listed |-> FALSE]
    /\ drain = <<>>
    /\ acked = 0
    /\ mem = [m \in Members |-> Unread]
    /\ crashes = 0 /\ lost = 0

Owner == OwnerLists \/ \E a \in Auths : OwnerTerminal(a) \/ OwnerHeartbeat(a)

Drain(m) == LearnWinners(m) \/ ReadRows(m) \/ SeeEnd(m) \/ CloseLease(m) \/ \E a \in Auths : Reap(m, a)

Member(m) ==
    \/ LoadLease(m) \/ AckDone(m) \/ Apply(m) \/ AckClean(m)
    \/ Commit(m) \/ GapCommits(m) \/ StopAtGap(m)
    \/ Drain(m)

Next ==
    \/ Owner \/ MarkDraining \/ Tick \/ TimePasses
    \/ \E a \in Auths : DoorAppends(a)
    \/ \E m \in Members : Member(m) \/ CommitUnknown(m) \/ CloseUnknown(m) \/ Crash(m)

Spec == Init /\ [][Next]_vars

(* The members, the ticker, the clock, and the draining of an expired      *)
(* lease go on; the owner and the front doors need not.  A crash and a     *)
(* lost answer are bounded, so Spanner and the members recover.            *)
Fairness ==
    /\ WF_vars(MarkDraining) /\ WF_vars(Tick) /\ WF_vars(TimePasses)
    /\ \A m \in Members : WF_vars(Member(m))

FairSpec == Spec /\ Fairness

----------------------------------------------------------------------------
(* The types: progress stays within the records there are, S is the stored *)
(* progress, and no member is ahead of the row it read.                    *)
TypeOK ==
    /\ clock \in 0 .. 3
    /\ acked \in 0 .. Len(topic)
    /\ row.state \in {"open", "draining", "closed"}
    /\ row.boundary \in {None, row.applied}
    /\ row.applied \in 0 .. Published
    /\ row.holds \subseteq Auths
    /\ \A m \in Members : /\ mem[m].pend \subseteq 1 .. Len(topic)
                         /\ mem[m].cursor <= Len(drain) /\ mem[m].version <= row.version

(* The owner's terminals of an authorization up to the stored progress.    *)
OwnersAt(a) == {p \in Terminals : topic[p].auth = a /\ topic[p].seq <= row.applied}

(* The winner of an authorization is the first terminal in the lease's     *)
(* order, the owner's records up to the stored progress and then the drain *)
(* log's rows; and the progress leaves none of the owner's terminals       *)
(* behind.                                                                 *)
FirstsWin ==
    /\ \A v, w \in row.winners : v.auth = w.auth => v = w
    /\ \A p \in Terminals : topic[p].seq <= row.applied =>
          Winner(topic[p].auth, "owner", topic[p].seq) \in row.winners
    /\ \A w \in row.winners :
          w.from = "drain" => OwnersAt(w.auth) = {} /\ w.at = FirstRow(w.auth, 1)

(* What is consumed is each authorization's winner, once, whichever        *)
(* members applied it and however often.                                   *)
BookedOnce ==
    /\ FirstsWin
    /\ row.consumed = MapThenSumSet(ChargeOf, row.winners)

(* A record is acknowledged to Pub/Sub only when no member needs it again: *)
(* its effect is stored, or it is past S, or the lease is over.            *)
AckedIsDurable ==
    \A p \in 1 .. acked :
        IsOwners(topic[p]) => topic[p].seq <= row.applied \/ row.boundary # None \/ Over

(* No lease is stopped for a gap, since the log has none: a member that    *)
(* others overtook does not mistake what they applied for one.             *)
NoFalseGap == ~row.gap

(* A closed lease has decided every terminal its owner published in time   *)
(* and every row of its drain log, and has no hold left.                   *)
NothingLeftBehind ==
    row.state = "closed" =>
        /\ \A p \in 1 .. Len(topic) :
              topic[p].kind = "terminal" /\ topic[p].intime =>
                  \E w \in row.winners : w.auth = topic[p].auth /\ w.from = "owner"
        /\ \A i \in 1 .. Len(drain) : drain[i].auth \in StoredAuths
        /\ row.holds = {}

(* Every lease is closed in the end.                                       *)
LeaseCloses == <>(row.state = "closed")

=============================================================================

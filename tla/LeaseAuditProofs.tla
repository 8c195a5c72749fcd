--------------------------- MODULE LeaseAuditProofs ---------------------------
(***************************************************************************)
(* The auditor's members on one lease, for every value of LeaseAudit's      *)
(* CONSTANTS: a record is acknowledged only when it is durable              *)
(* (AckedIsDurable), nothing is mistaken for a gap (NoFalseGap), a lease    *)
(* closes with nothing left behind (NothingLeftBehind), and what it has     *)
(* consumed is the first terminal of each authorization, once (BookedOnce). *)
(*                                                                          *)
(* A member may be stale: others may have committed since it read the row.  *)
(* All that is known of what it applied is known while its version is the   *)
(* row's, which is when its commit is taken; what it has been given, and    *)
(* that it was given it in order, is known always.                          *)
(*                                                                          *)
(* Whether a workspace has leases at all is the switch's to say: what holds *)
(* of WorkspaceSwitch, for every value of its constants, is in the last     *)
(* section.                                                                 *)
(***************************************************************************)
EXTENDS LeaseAudit, WorkspaceSwitch, FiniteSetTheorems, SequenceTheorems, TLAPS

OwnerRecord ==
  [kind : {"terminal", "beat", "list"}, auth : Auths, seq : Nat, holds : SUBSET Auths,
   intime : BOOLEAN]
TickRecord == [kind : {"tick"}, fence : BOOLEAN]
WinnerRow == [auth : Auths, from : {"owner", "drain"}, at : Nat]
DrainRow == [auth : Auths, from : {"door", "reap"}]
MemberLease ==
  [lease : BOOLEAN, done : BOOLEAN, pend : SUBSET Nat, pos : Nat,
   version : Nat, draining : BOOLEAN, applied : Nat, sKnown : BOOLEAN, sStored : BOOLEAN,
   listed : BOOLEAN, holds : SUBSET Auths, decided : SUBSET Auths, loaded : BOOLEAN,
   cursor : Nat, end : BOOLEAN, dirty : BOOLEAN, won : SUBSET WinnerRow, put : SUBSET Auths,
   bound : BOOLEAN]

\* What is consumed is a sum: see Booked, at the end.
IsRow(R) ==
  /\ R = [state |-> R.state, version |-> R.version, applied |-> R.applied,
          boundary |-> R.boundary, gap |-> R.gap, winners |-> R.winners,
          consumed |-> R.consumed, holds |-> R.holds, listed |-> R.listed]
  /\ R.state \in {"open", "draining", "closed"} /\ R.version \in Nat /\ R.applied \in Nat
  /\ R.boundary \in {None, R.applied} /\ R.gap = FALSE
  /\ R.winners \in SUBSET WinnerRow /\ R.holds \in SUBSET Auths /\ R.listed \in BOOLEAN

Types ==
  /\ topic \in Seq(OwnerRecord \cup TickRecord)
  /\ clock \in 0 .. 3
  /\ IsRow(row)
  /\ drain \in Seq(DrainRow)
  /\ acked \in 0 .. Len(topic)
  /\ mem \in [Members -> MemberLease]

-----------------------------------------------------------------------------
(* The topic.                                                               *)

RecordsIn(T) == {p \in 1 .. Len(T) : IsOwners(T[p])}
TerminalsIn(T) == {p \in RecordsIn(T) : T[p].kind = "terminal"}
Number(T) == Cardinality(RecordsIn(T))

\* The owner's records are numbered in their order, without a gap, from 1 to
\* the last.
Numbered(T) ==
  /\ \A p, q \in RecordsIn(T) : p < q => T[p].seq < T[q].seq
  /\ \A p \in RecordsIn(T) : T[p].seq > 1 =>
        \E q \in RecordsIn(T) : q < p /\ T[q].seq = T[p].seq - 1
  /\ \A p \in RecordsIn(T) : T[p].seq \in 1 .. Number(T)
  /\ Number(T) > 0 => \E p \in RecordsIn(T) : T[p].seq = Number(T)

\* One terminal an authorization.
OneTerminal(T) == \A p, q \in TerminalsIn(T) : T[p].auth = T[q].auth => p = q

\* The records published in time are before the fence's tick.
Fenced(T, now) == \A p \in 1 .. Len(T) :
  T[p].kind = "tick" /\ T[p].fence =>
    now > 0 /\ \A q \in RecordsIn(T) : T[q].intime => q < p

TopicRight(T, now) == Numbered(T) /\ OneTerminal(T) /\ Fenced(T, now)

-----------------------------------------------------------------------------
(* The row.                                                                 *)

AuthsOf(W) == {w.auth : w \in W}

\* The first row of an authorization in the drain log.
IsFirst(D, a, i) == i \in 1 .. Len(D) /\ D[i].auth = a /\ \A j \in 1 .. Len(D) : j < i => D[j].auth # a

\* The progress n has the owner's terminals up to it among the winners W.
Reaches(T, W, n) == \A p \in TerminalsIn(T) :
  T[p].seq <= n => Winner(T[p].auth, "owner", T[p].seq) \in W

\* A winner is an owner's terminal up to n, or the first row of an
\* authorization without one.
WinsRight(T, D, w, n) ==
  /\ w.from = "owner" =>
        \E p \in TerminalsIn(T) : T[p].auth = w.auth /\ T[p].seq = w.at /\ T[p].seq <= n
  /\ w.from = "drain" =>
        IsFirst(D, w.auth, w.at) /\ \A p \in TerminalsIn(T) : T[p].auth = w.auth => T[p].seq > n

\* All that was published in time is up to n.
InTime(T, n) == \A p \in RecordsIn(T) : T[p].intime => T[p].seq <= n

RowRight(R, T, D, now) ==
  /\ R.applied <= Number(T)
  /\ R.boundary # None => now > 0 /\ InTime(T, R.applied)
  /\ Reaches(T, R.winners, R.applied)
  /\ \A w \in R.winners :
        WinsRight(T, D, w, R.applied) /\ (w.from = "drain" => R.boundary # None)
  /\ R.state = "closed" =>
        /\ R.boundary # None /\ R.holds = {}
        /\ \A i \in 1 .. Len(D) : D[i].auth \in AuthsOf(R.winners)

\* What was acknowledged up to k.
Durable(R, T, k) == \A p \in RecordsIn(T) :
  p <= k => T[p].seq <= R.applied \/ R.boundary # None \/ R.state = "closed"

-----------------------------------------------------------------------------
(* A member.                                                                *)

\* Records are given in order, from the first not acknowledged.
InOrder(P, T, k) == P \subseteq 1 .. Len(T) /\ \A q \in P : \A p \in 1 .. q : p \in P \/ p <= k

\* What it was given it has applied, up to its position.
GivenInOrder(l, T, k) ==
  /\ InOrder(l.pend, T, k)
  /\ \A q \in l.pend : q \in RecordsIn(T) /\ q <= l.pos => T[q].seq <= l.applied \/ l.sKnown

\* What is known of a member always.
Sane(l, R, T, D, k, now) ==
  /\ GivenInOrder(l, T, k)
  /\ l.version <= R.version /\ l.cursor <= Len(D)
  /\ l.done => R.state = "closed"
  /\ l.sKnown => l.bound \/ R.boundary # None
  /\ l.sStored => l.sKnown /\ R.boundary # None
  /\ l.bound => l.sKnown /\ l.dirty /\ now > 0
  /\ ~l.dirty => l.applied <= R.applied

\* What is known of one whose version is the row's.
Current(l, R, T, D) ==
  /\ R.applied <= l.applied /\ l.applied <= Number(T)
  /\ R.boundary # None => l.sKnown
  /\ l.bound => InTime(T, l.applied)
  /\ AuthsOf(l.won) \subseteq l.decided
  /\ l.decided \subseteq AuthsOf(R.winners \cup l.won)
  /\ l.loaded => AuthsOf(R.winners) \subseteq l.decided
  /\ Reaches(T, R.winners \cup l.won, l.applied)
  /\ \A w \in l.won :
        WinsRight(T, D, w, l.applied) /\ (w.from = "drain" => R.boundary # None)
  /\ \A i \in 1 .. l.cursor : D[i].auth \in l.decided

MemberRight(l, R, T, D, k, now) ==
  /\ Sane(l, R, T, D, k, now)
  /\ l.lease /\ l.version = R.version => Current(l, R, T, D)

Inv ==
  /\ Types
  /\ TopicRight(topic, clock)
  /\ RowRight(row, topic, drain, clock)
  /\ Durable(row, topic, acked)
  /\ \A m \in Members : MemberRight(mem[m], row, topic, drain, acked, clock)

-----------------------------------------------------------------------------
(* The least and the greatest of a set of positions.                        *)

LEMMA LeastOf ==
  ASSUME NEW S \in SUBSET Nat, S # {}
  PROVE  Min(S) \in S /\ \A k \in S : Min(S) <= k
<1> DEFINE R == OpToRel(<, Nat)
<1>1. PICK i \in S : \A k \in S : ~(<<k, i>> \in R)
  <2>1. IsWellFoundedOn(R, Nat)
    BY NatLessThanWellFounded
  <2> HIDE DEF R
  <2> QED BY <2>1, WFMin
<1>2. ASSUME NEW k \in S
      PROVE  i <= k
  <2>1. k < i => <<k, i>> \in R
    BY DEF OpToRel
  <2>2. ~(<<k, i>> \in R)
    BY <1>1
  <2> HIDE DEF R
  <2> QED BY <2>1, <2>2
<1> QED BY <1>2 DEF Min

LEMMA GreatestOf ==
  ASSUME NEW S \in SUBSET Nat, S # {}, NEW n \in Nat, \A k \in S : k <= n
  PROVE  Max(S) \in S /\ Max(S) \in 0 .. n /\ \A k \in S : k <= Max(S)
<1> DEFINE U == {v \in Nat : \A k \in S : k <= v}
           u == Min(U)
<1>1. u \in U /\ \A v \in U : u <= v
  <2>1. n \in U /\ U \in SUBSET Nat
    OBVIOUS
  <2> HIDE DEF U
  <2> QED BY <2>1, LeastOf
<1>2. u \in Nat /\ \A k \in S : k <= u
  BY <1>1
<1>3. u \in S
  <2>1. SUFFICES ASSUME u \notin S PROVE FALSE
    OBVIOUS
  <2>2. \A k \in S : k < u
    BY <1>2, <2>1
  <2>3. PICK k \in S : k < u
    BY <2>2
  <2>4. u - 1 \in Nat /\ \A j \in S : j <= u - 1
    BY <1>2, <2>2, <2>3
  <2>5. u - 1 \in U
    BY <2>4 DEF U
  <2> QED BY <1>1, <1>2, <2>5
<1> HIDE DEF u, U
<1>4. PICK x \in S : x = Max(S) /\ \A y \in S : x >= y
  BY <1>2, <1>3 DEF Max
<1> QED BY <1>4

-----------------------------------------------------------------------------
(* The topic grows.                                                         *)

\* What is stored next: a tick, or the owner's record after the last, in time
\* before the fence.
Follows(r, T, now) ==
  /\ r \in OwnerRecord \cup TickRecord
  /\ IsOwners(r) => r.seq = Number(T) + 1 /\ (r.intime => now = 0)

LEMMA RecordsOf ==
  ASSUME NEW T \in Seq(OwnerRecord \cup TickRecord)
  PROVE  /\ RecordsIn(T) \in SUBSET (1 .. Len(T)) /\ IsFiniteSet(RecordsIn(T)) /\ Number(T) \in Nat
         /\ \A p \in RecordsIn(T) : T[p] \in OwnerRecord /\ T[p].seq \in Nat
         /\ \A p \in 1 .. Len(T) : p \in RecordsIn(T) <=> T[p].kind # "tick"
         /\ \A p \in 1 .. Len(T) : p \notin RecordsIn(T) => T[p] \in TickRecord
<1>1. IsFiniteSet(1 .. Len(T))
  BY FS_Interval
<1>2. RecordsIn(T) \subseteq 1 .. Len(T)
  BY DEF RecordsIn
<1>3. IsFiniteSet(RecordsIn(T))
  BY <1>1, <1>2, FS_Subset
<1>4. \A p \in 1 .. Len(T) : T[p] \in OwnerRecord \cup TickRecord
  OBVIOUS
<1> QED BY <1>2, <1>3, <1>4, FS_CardinalityType DEF RecordsIn, Number, IsOwners, OwnerRecord, TickRecord

LEMMA RecordsAppended ==
  ASSUME NEW T \in Seq(OwnerRecord \cup TickRecord), NEW now, NEW r, Follows(r, T, now)
  PROVE  /\ Append(T, r) \in Seq(OwnerRecord \cup TickRecord)
         /\ Len(Append(T, r)) = Len(T) + 1 /\ Append(T, r)[Len(T) + 1] = r
         /\ \A p \in 1 .. Len(T) : Append(T, r)[p] = T[p]
         /\ RecordsIn(Append(T, r)) =
              IF IsOwners(r) THEN RecordsIn(T) \cup {Len(T) + 1} ELSE RecordsIn(T)
         /\ Number(Append(T, r)) = IF IsOwners(r) THEN Number(T) + 1 ELSE Number(T)
<1> DEFINE U == Append(T, r)
<1>1. /\ U \in Seq(OwnerRecord \cup TickRecord) /\ Len(U) = Len(T) + 1
      /\ U[Len(T) + 1] = r /\ \A p \in 1 .. Len(T) : U[p] = T[p]
  BY DEF Follows
<1>2. Len(T) \in Nat
  OBVIOUS
<1> HIDE DEF U
<1>3. RecordsIn(U) = IF IsOwners(r) THEN RecordsIn(T) \cup {Len(T) + 1} ELSE RecordsIn(T)
  <2>1. \A p : p \in 1 .. Len(U) <=> p \in 1 .. Len(T) \/ p = Len(T) + 1
    BY <1>1, <1>2
  <2> QED BY <1>1, <2>1 DEF RecordsIn
<1>4. Len(T) + 1 \notin RecordsIn(T)
  BY <1>2 DEF RecordsIn
<1>5. Number(U) = IF IsOwners(r) THEN Number(T) + 1 ELSE Number(T)
  BY <1>3, <1>4, RecordsOf, FS_AddElement DEF Number
<1> QED BY <1>1, <1>3, <1>5 DEF U

\* The topic U has what T has and more, stored at now.
Grows(T, U, now) ==
  /\ Len(T) \in Nat /\ Len(U) \in Nat /\ Number(T) \in Nat /\ Number(U) \in Nat
  /\ Len(T) <= Len(U) /\ Number(T) <= Number(U)
  /\ RecordsIn(T) \subseteq RecordsIn(U) /\ RecordsIn(U) \subseteq 1 .. Len(U)
  /\ RecordsIn(T) \subseteq 1 .. Len(T)
  /\ \A p \in 1 .. Len(T) : U[p] = T[p]
  /\ \A p \in RecordsIn(U) : U[p].seq \in Nat
  /\ \A p \in RecordsIn(U) : p \notin RecordsIn(T) =>
        p > Len(T) /\ U[p].seq = Number(T) + 1 /\ (U[p].intime => now = 0)

LEMMA AppendGrows ==
  ASSUME NEW T \in Seq(OwnerRecord \cup TickRecord), NEW now, NEW r, Follows(r, T, now)
  PROVE  Grows(T, Append(T, r), now)
<1> DEFINE U == Append(T, r)
<1>1. /\ U \in Seq(OwnerRecord \cup TickRecord)
      /\ Len(U) = Len(T) + 1 /\ U[Len(T) + 1] = r
      /\ \A p \in 1 .. Len(T) : U[p] = T[p]
      /\ RecordsIn(U) = IF IsOwners(r) THEN RecordsIn(T) \cup {Len(T) + 1} ELSE RecordsIn(T)
      /\ Number(U) = IF IsOwners(r) THEN Number(T) + 1 ELSE Number(T)
  BY RecordsAppended
<1>2. RecordsIn(T) \in SUBSET (1 .. Len(T)) /\ Number(T) \in Nat /\ Len(T) \in Nat
  BY RecordsOf
<1> HIDE DEF U
<1>3. /\ RecordsIn(U) \subseteq 1 .. Len(U)
      /\ \A p \in RecordsIn(U) : U[p].seq \in Nat
  BY <1>1, RecordsOf
<1>4. \A p \in RecordsIn(U) : p \notin RecordsIn(T) => IsOwners(r) /\ p = Len(T) + 1
  BY <1>1
<1>5. \A p \in RecordsIn(U) : p \notin RecordsIn(T) =>
        p > Len(T) /\ U[p].seq = Number(T) + 1 /\ (U[p].intime => now = 0)
  BY <1>1, <1>2, <1>4 DEF Follows
<1>6. /\ Len(U) \in Nat /\ Number(U) \in Nat /\ Len(T) <= Len(U) /\ Number(T) <= Number(U)
      /\ RecordsIn(T) \subseteq RecordsIn(U)
  BY <1>1, <1>2
<1>7. Grows(T, U, now)
  BY <1>1, <1>2, <1>3, <1>5, <1>6 DEF Grows
<1> QED BY <1>7 DEF U

LEMMA TopicAppended ==
  ASSUME NEW T \in Seq(OwnerRecord \cup TickRecord), NEW now \in Nat, NEW r, Follows(r, T, now),
         TopicRight(T, now),
         r.kind = "terminal" => \A p \in TerminalsIn(T) : T[p].auth # r.auth,
         r.kind = "tick" /\ r.fence => now > 0
  PROVE  TopicRight(Append(T, r), now)
<1> DEFINE U == Append(T, r)
<1>1. /\ U \in Seq(OwnerRecord \cup TickRecord)
      /\ Len(U) = Len(T) + 1 /\ U[Len(T) + 1] = r
      /\ \A p \in 1 .. Len(T) : U[p] = T[p]
      /\ RecordsIn(U) = IF IsOwners(r) THEN RecordsIn(T) \cup {Len(T) + 1} ELSE RecordsIn(T)
      /\ Number(U) = IF IsOwners(r) THEN Number(T) + 1 ELSE Number(T)
  BY RecordsAppended
<1>2. RecordsIn(T) \in SUBSET (1 .. Len(T)) /\ Number(T) \in Nat /\ Len(T) \in Nat
  BY RecordsOf
<1>3. \A p \in RecordsIn(T) : T[p].seq \in Nat
  BY RecordsOf
<1> HIDE DEF U
<1>4. Numbered(T) /\ OneTerminal(T) /\ Fenced(T, now)
  BY DEF TopicRight
<1>5. Numbered(U)
  <2>1. CASE ~IsOwners(r)
    <3>1. RecordsIn(U) = RecordsIn(T) /\ Number(U) = Number(T)
      BY <1>1, <2>1
    <3>2. \A p \in RecordsIn(T) : U[p] = T[p]
      BY <1>1, <1>2
    <3> QED BY <3>1, <3>2, <1>4 DEF Numbered
  <2>2. CASE IsOwners(r)
    <3>1. RecordsIn(U) = RecordsIn(T) \cup {Len(T) + 1} /\ Number(U) = Number(T) + 1
      BY <1>1, <2>2
    <3>2. \A p \in RecordsIn(T) : U[p] = T[p] /\ p < Len(T) + 1
      BY <1>1, <1>2
    <3>3. U[Len(T) + 1].seq = Number(T) + 1
      BY <1>1, <2>2 DEF Follows
    <3>4. \A p, q \in RecordsIn(U) : p < q => U[p].seq < U[q].seq
      BY <3>1, <3>2, <3>3, <1>2, <1>3, <1>4 DEF Numbered
    <3>5. \A p \in RecordsIn(U) : U[p].seq > 1 =>
             \E q \in RecordsIn(U) : q < p /\ U[q].seq = U[p].seq - 1
      <4>1. SUFFICES ASSUME NEW p \in RecordsIn(U), U[p].seq > 1
                     PROVE  \E q \in RecordsIn(U) : q < p /\ U[q].seq = U[p].seq - 1
        OBVIOUS
      <4>2. CASE p \in RecordsIn(T)
        <5>1. PICK q \in RecordsIn(T) : q < p /\ T[q].seq = T[p].seq - 1
          BY <4>1, <4>2, <3>2, <1>4 DEF Numbered
        <5> QED BY <5>1, <4>2, <3>1, <3>2
      <4>3. CASE p = Len(T) + 1
        <5>1. Number(T) > 0
          BY <4>1, <4>3, <3>3, <1>2
        <5>2. PICK q \in RecordsIn(T) : T[q].seq = Number(T)
          BY <5>1, <1>4 DEF Numbered
        <5> QED BY <5>2, <4>3, <3>1, <3>2, <3>3, <1>2
      <4> QED BY <4>2, <4>3, <3>1
    <3>6. \A p \in RecordsIn(U) : U[p].seq \in 1 .. Number(U)
      BY <3>1, <3>2, <3>3, <1>2, <1>3, <1>4 DEF Numbered
    <3>7. \E p \in RecordsIn(U) : U[p].seq = Number(U)
      BY <3>1, <3>3
    <3> QED BY <3>4, <3>5, <3>6, <3>7 DEF Numbered
  <2> QED BY <2>1, <2>2
<1>6. OneTerminal(U)
  <2>1. SUFFICES ASSUME NEW p \in TerminalsIn(U), NEW q \in TerminalsIn(U), U[p].auth = U[q].auth
                 PROVE  p = q
    BY DEF OneTerminal
  <2>2. \A x \in TerminalsIn(U) : \/ x \in TerminalsIn(T) /\ U[x] = T[x]
                                  \/ x = Len(T) + 1 /\ U[x] = r /\ r.kind = "terminal"
    BY <1>1, <1>2 DEF TerminalsIn
  <2> QED BY <2>1, <2>2, <1>4 DEF OneTerminal
<1>7. Fenced(U, now)
  <2>1. SUFFICES ASSUME NEW p \in 1 .. Len(U), U[p].kind = "tick", U[p].fence
                 PROVE  now > 0 /\ \A q \in RecordsIn(U) : U[q].intime => q < p
    BY DEF Fenced
  <2>2. CASE p \in 1 .. Len(T)
    <3>1. now > 0 /\ \A q \in RecordsIn(T) : T[q].intime => q < p
      BY <2>1, <2>2, <1>1, <1>4 DEF Fenced
    <3>2. \A q \in RecordsIn(U) : U[q].intime => q \in RecordsIn(T) /\ U[q] = T[q]
      BY <3>1, <1>1, <1>2 DEF Follows
    <3> QED BY <3>1, <3>2
  <2>3. CASE p = Len(T) + 1
    <3>1. r.kind = "tick" /\ r.fence /\ now > 0
      BY <2>1, <2>3, <1>1
    <3>2. RecordsIn(U) = RecordsIn(T)
      BY <3>1, <1>1 DEF IsOwners
    <3> QED BY <3>1, <3>2, <2>3, <1>2
  <2> QED BY <2>2, <2>3, <1>1, <1>2
<1>8. TopicRight(U, now)
  BY <1>5, <1>6, <1>7 DEF TopicRight
<1> QED BY <1>8 DEF U

-----------------------------------------------------------------------------
(* What stays true while the topic grows.                                   *)

LEMMA ReachesGrown ==
  ASSUME NEW T, NEW U, NEW now, Grows(T, U, now), NEW W, NEW n \in Nat, n <= Number(T),
         Reaches(T, W, n)
  PROVE  Reaches(U, W, n)
<1>1. SUFFICES ASSUME NEW p \in TerminalsIn(U), U[p].seq <= n
               PROVE  Winner(U[p].auth, "owner", U[p].seq) \in W
  BY DEF Reaches
<1>2. p \in RecordsIn(T)
  BY <1>1 DEF Grows, TerminalsIn
<1>3. U[p] = T[p]
  BY <1>2 DEF Grows
<1>4. p \in TerminalsIn(T)
  BY <1>1, <1>2, <1>3 DEF TerminalsIn
<1> QED BY <1>1, <1>3, <1>4 DEF Reaches

LEMMA WinsGrown ==
  ASSUME NEW T, NEW U, NEW now, Grows(T, U, now), NEW D, NEW w, NEW n \in Nat, n <= Number(T),
         WinsRight(T, D, w, n)
  PROVE  WinsRight(U, D, w, n)
<1>1. ASSUME w.from = "owner"
      PROVE  \E p \in TerminalsIn(U) : U[p].auth = w.auth /\ U[p].seq = w.at /\ U[p].seq <= n
  <2>1. PICK p \in TerminalsIn(T) : T[p].auth = w.auth /\ T[p].seq = w.at /\ T[p].seq <= n
    BY <1>1 DEF WinsRight
  <2>2. p \in TerminalsIn(U) /\ U[p] = T[p]
    BY <2>1 DEF Grows, TerminalsIn
  <2> QED BY <2>1, <2>2
<1>2. ASSUME w.from = "drain"
      PROVE  \A p \in TerminalsIn(U) : U[p].auth = w.auth => U[p].seq > n
  <2>1. SUFFICES ASSUME NEW p \in TerminalsIn(U), U[p].auth = w.auth
                 PROVE  U[p].seq > n
    OBVIOUS
  <2>2. CASE p \in RecordsIn(T)
    <3>1. p \in TerminalsIn(T) /\ U[p] = T[p]
      BY <2>1, <2>2 DEF Grows, TerminalsIn
    <3> QED BY <1>2, <2>1, <3>1 DEF WinsRight
  <2>3. CASE p \notin RecordsIn(T)
    BY <2>1, <2>3 DEF Grows, TerminalsIn
  <2> QED BY <2>2, <2>3
<1> QED BY <1>1, <1>2 DEF WinsRight

LEMMA InTimeGrown ==
  ASSUME NEW T, NEW U, NEW now \in Nat, Grows(T, U, now), NEW n, now > 0, InTime(T, n)
  PROVE  InTime(U, n)
<1>1. SUFFICES ASSUME NEW p \in RecordsIn(U), U[p].intime
               PROVE  U[p].seq <= n
  BY DEF InTime
<1>2. p \in RecordsIn(T) /\ U[p] = T[p]
  BY <1>1 DEF Grows
<1> QED BY <1>1, <1>2 DEF InTime

LEMMA RowGrown ==
  ASSUME NEW T, NEW U, NEW now \in Nat, Grows(T, U, now), NEW D, NEW R, IsRow(R),
         RowRight(R, T, D, now)
  PROVE  RowRight(R, U, D, now)
<1>1. R.applied \in Nat /\ R.applied <= Number(T)
  BY DEF IsRow, RowRight
<1>2. R.applied <= Number(U)
  BY <1>1 DEF Grows
<1>3. R.boundary # None => now > 0 /\ InTime(U, R.applied)
  BY InTimeGrown DEF RowRight
<1>4. Reaches(U, R.winners, R.applied)
  BY <1>1, ReachesGrown DEF RowRight
<1>5. \A w \in R.winners :
        WinsRight(U, D, w, R.applied) /\ (w.from = "drain" => R.boundary # None)
  BY <1>1, WinsGrown DEF RowRight
<1> QED BY <1>2, <1>3, <1>4, <1>5 DEF RowRight

LEMMA DurableGrown ==
  ASSUME NEW T, NEW U, NEW now, Grows(T, U, now), NEW R, NEW k \in 0 .. Len(T), Durable(R, T, k)
  PROVE  Durable(R, U, k)
<1>1. SUFFICES ASSUME NEW p \in RecordsIn(U), p <= k
               PROVE  U[p].seq <= R.applied \/ R.boundary # None \/ R.state = "closed"
  BY DEF Durable
<1>2. p \in RecordsIn(T) /\ U[p] = T[p]
  BY <1>1 DEF Grows
<1> QED BY <1>1, <1>2 DEF Durable

LEMMA GivenGrown ==
  ASSUME NEW T, NEW U, NEW now, Grows(T, U, now), NEW l, NEW k, GivenInOrder(l, T, k)
  PROVE  GivenInOrder(l, U, k)
<1>1. l.pend \subseteq 1 .. Len(T) /\ l.pend \subseteq 1 .. Len(U)
  BY DEF GivenInOrder, InOrder, Grows
<1>2. \A q \in l.pend : q \in RecordsIn(U) => q \in RecordsIn(T) /\ U[q] = T[q]
  BY <1>1 DEF Grows
<1> QED BY <1>1, <1>2 DEF GivenInOrder, InOrder

LEMMA MemberGrown ==
  ASSUME NEW T, NEW U, NEW now \in Nat, Grows(T, U, now), NEW l \in MemberLease, NEW D, NEW R, NEW k,
         MemberRight(l, R, T, D, k, now)
  PROVE  MemberRight(l, R, U, D, k, now)
<1>1. Sane(l, R, U, D, k, now)
  BY GivenGrown DEF MemberRight, Sane
<1>2. ASSUME l.lease, l.version = R.version
      PROVE  Current(l, R, U, D)
  <2>1. Current(l, R, T, D) /\ (l.bound => now > 0)
    BY <1>2 DEF MemberRight, Sane
  <2>2. l.applied \in Nat /\ l.applied <= Number(T) /\ l.applied <= Number(U)
    BY <2>1 DEF Current, MemberLease, Grows
  <2>3. l.bound => InTime(U, l.applied)
    BY <2>1, InTimeGrown DEF Current
  <2>4. Reaches(U, R.winners \cup l.won, l.applied)
    BY <2>1, <2>2, ReachesGrown DEF Current
  <2>5. \A w \in l.won :
          WinsRight(U, D, w, l.applied) /\ (w.from = "drain" => R.boundary # None)
    BY <2>1, <2>2, WinsGrown DEF Current
  <2> QED BY <2>1, <2>2, <2>3, <2>4, <2>5 DEF Current
<1> QED BY <1>1, <1>2 DEF MemberRight

-----------------------------------------------------------------------------
(* What stays true while time passes, the lease drains, the drain log grows  *)
(* and others commit.                                                       *)

LEMMA RowLater ==
  ASSUME NEW T, NEW D, NEW R, NEW now \in Nat, RowRight(R, T, D, now)
  PROVE  RowRight(R, T, D, now + 1)
BY DEF RowRight

LEMMA TopicLater ==
  ASSUME NEW T, NEW now \in Nat, TopicRight(T, now)
  PROVE  TopicRight(T, now + 1)
BY DEF TopicRight, Fenced

LEMMA MemberLater ==
  ASSUME NEW T, NEW D, NEW R, NEW k, NEW l, NEW now \in Nat, MemberRight(l, R, T, D, k, now)
  PROVE  MemberRight(l, R, T, D, k, now + 1)
BY DEF MemberRight, Sane

\* The drain log has another row.
LEMMA FirstStays ==
  ASSUME NEW D \in Seq(DrainRow), NEW d \in DrainRow, NEW a, NEW i, IsFirst(D, a, i)
  PROVE  IsFirst(Append(D, d), a, i)
BY DEF IsFirst

LEMMA WinsAppended ==
  ASSUME NEW T, NEW D \in Seq(DrainRow), NEW d \in DrainRow, NEW w, NEW n, WinsRight(T, D, w, n)
  PROVE  WinsRight(T, Append(D, d), w, n)
BY FirstStays DEF WinsRight

LEMMA RowAppended ==
  ASSUME NEW T, NEW D \in Seq(DrainRow), NEW d \in DrainRow, NEW R, NEW now,
         RowRight(R, T, D, now), R.state # "closed"
  PROVE  RowRight(R, T, Append(D, d), now)
BY WinsAppended DEF RowRight

LEMMA MemberAppended ==
  ASSUME NEW T, NEW D \in Seq(DrainRow), NEW d \in DrainRow, NEW R, NEW now, NEW k,
         NEW l \in MemberLease, MemberRight(l, R, T, D, k, now)
  PROVE  MemberRight(l, R, T, Append(D, d), k, now)
<1>1. Len(Append(D, d)) = Len(D) + 1 /\ Len(D) \in Nat /\ l.cursor \in Nat
  BY DEF MemberLease
<1>2. Sane(l, R, T, Append(D, d), k, now)
  BY <1>1 DEF MemberRight, Sane
<1>3. ASSUME l.lease, l.version = R.version
      PROVE  Current(l, R, T, Append(D, d))
  <2>1. Current(l, R, T, D) /\ l.cursor <= Len(D)
    BY <1>3 DEF MemberRight, Sane
  <2>2. \A i \in 1 .. l.cursor : Append(D, d)[i] = D[i]
    BY <1>1, <2>1
  <2> QED BY <2>1, <2>2, WinsAppended DEF Current
<1> QED BY <1>2, <1>3 DEF MemberRight

\* Pub/Sub has more acknowledged.
LEMMA MemberAcked ==
  ASSUME NEW T, NEW D, NEW R, NEW now, NEW k \in Nat, NEW k2 \in Nat, k <= k2, NEW l \in MemberLease,
         MemberRight(l, R, T, D, k, now), Len(T) \in Nat
  PROVE  MemberRight(l, R, T, D, k2, now)
<1>1. l.pend \subseteq 1 .. Len(T) /\ l.pos \in Nat
  BY DEF MemberRight, Sane, GivenInOrder, InOrder, MemberLease
<1>2. GivenInOrder(l, T, k)
  BY DEF MemberRight, Sane
<1>3. GivenInOrder(l, T, k2)
  BY <1>1, <1>2 DEF GivenInOrder, InOrder
<1> QED BY <1>3 DEF MemberRight, Sane

\* The row R2 is R after others' commit or close.
Overtakes(R, R2) ==
  /\ R2.version = R.version + 1 /\ R.applied <= R2.applied
  /\ R.boundary # None => R2.boundary # None
  /\ R.state = "closed" => R2.state = "closed"

LEMMA MemberOvertaken ==
  ASSUME NEW T, NEW D, NEW R, NEW R2, NEW now, NEW k, NEW l \in MemberLease,
         MemberRight(l, R, T, D, k, now), IsRow(R), IsRow(R2), Overtakes(R, R2)
  PROVE  MemberRight(l, R2, T, D, k, now)
<1>1. Sane(l, R, T, D, k, now) /\ l.version \in Nat /\ l.applied \in Nat
  BY DEF MemberRight, MemberLease
<1>2. R.version \in Nat /\ R2.version \in Nat /\ R.applied \in Nat /\ R2.applied \in Nat
  BY DEF IsRow
<1>3. l.version <= R2.version /\ l.version # R2.version
  BY <1>1, <1>2 DEF Sane, Overtakes
<1>4. ~l.dirty => l.applied <= R2.applied
  BY <1>1, <1>2 DEF Sane, Overtakes
<1>5. Sane(l, R2, T, D, k, now)
  BY <1>1, <1>3, <1>4 DEF Sane, Overtakes
<1> QED BY <1>3, <1>5 DEF MemberRight

-----------------------------------------------------------------------------
(* The owner, the ticker, the front doors and time keep the invariant.      *)

LEMMA TopicNames == Records = RecordsIn(topic) /\ Terminals = TerminalsIn(topic) /\ Published = Number(topic)
BY DEF Records, RecordsIn, Terminals, TerminalsIn, Published, Number

LEMMA TopicStep ==
  ASSUME Inv, NEW r, Follows(r, topic, clock),
         r.kind = "terminal" => \A p \in TerminalsIn(topic) : topic[p].auth # r.auth,
         r.kind = "tick" /\ r.fence => clock > 0,
         topic' = Append(topic, r), UNCHANGED <<clock, row, drain, acked, mem>>
  PROVE  Inv'
<1>1. /\ topic \in Seq(OwnerRecord \cup TickRecord) /\ clock \in Nat /\ IsRow(row)
      /\ acked \in 0 .. Len(topic) /\ mem \in [Members -> MemberLease]
  BY DEF Inv, Types
<1>2. Grows(topic, topic', clock)
  BY <1>1, AppendGrows
<1>3. topic' \in Seq(OwnerRecord \cup TickRecord) /\ acked \in 0 .. Len(topic')
  BY <1>1, RecordsAppended
<1>4. TopicRight(topic', clock)
  BY <1>1, TopicAppended DEF Inv
<1>5. RowRight(row, topic', drain, clock)
  BY <1>1, <1>2, RowGrown DEF Inv
<1>6. Durable(row, topic', acked)
  BY <1>1, <1>2, DurableGrown DEF Inv
<1>7. \A m \in Members : MemberRight(mem[m], row, topic', drain, acked, clock)
  BY <1>1, <1>2, MemberGrown DEF Inv
<1>8. Types'
  BY <1>1, <1>3 DEF Inv, Types
<1> QED BY <1>4, <1>5, <1>6, <1>7, <1>8 DEF Inv

LEMMA StoredStep ==
  ASSUME Inv, NEW kind \in {"terminal", "beat", "list"}, NEW a \in Auths, NEW holds \in SUBSET Auths,
         Stored(kind, a, holds), kind = "terminal" => a \notin Terminated,
         UNCHANGED <<clock, row, drain, acked, mem>>
  PROVE  Inv'
<1>1. PICK b \in BOOLEAN : b <=> clock = 0
  OBVIOUS
<1> DEFINE r == [kind |-> kind, auth |-> a, seq |-> Published + 1, holds |-> holds, intime |-> b]
<1>2. topic' = Append(topic, r)
  <2>1. b = (clock = 0)
    BY <1>1
  <2> QED BY <2>1 DEF Stored
<1>3. Published \in Nat /\ Published = Number(topic)
  BY TopicNames, RecordsOf DEF Inv, Types
<1>4. /\ r \in OwnerRecord /\ r.kind = kind /\ r.auth = a /\ r.seq = Number(topic) + 1
      /\ r.intime = b /\ IsOwners(r)
  BY <1>3 DEF OwnerRecord, IsOwners
<1> HIDE DEF r
<1>5. Follows(r, topic, clock)
  BY <1>1, <1>4 DEF Follows
<1>6. r.kind = "terminal" => \A p \in TerminalsIn(topic) : topic[p].auth # r.auth
  BY <1>4, TopicNames DEF Terminated
<1>7. ~(r.kind = "tick")
  BY <1>4
<1> QED BY <1>2, <1>5, <1>6, <1>7, TopicStep

LEMMA OwnerStep ==
  ASSUME Inv, Owner
  PROVE  Inv'
<1>1. CASE OwnerLists
  BY <1>1, StoredStep DEF OwnerLists
<1>2. ASSUME NEW a \in Auths, OwnerTerminal(a)
      PROVE  Inv'
  BY <1>2, StoredStep DEF OwnerTerminal
<1>3. ASSUME NEW a \in Auths, OwnerHeartbeat(a)
      PROVE  Inv'
  BY <1>3, StoredStep DEF OwnerHeartbeat
<1> QED BY <1>1, <1>2, <1>3 DEF Owner

LEMMA TickStep ==
  ASSUME Inv, Tick
  PROVE  Inv'
<1>1. PICK b \in BOOLEAN : b <=> clock > 0
  OBVIOUS
<1> DEFINE r == [kind |-> "tick", fence |-> b]
<1>2. topic' = Append(topic, r)
  <2>1. b = (clock > 0)
    BY <1>1
  <2> QED BY <2>1 DEF Tick
<1>3. r \in TickRecord /\ r.kind = "tick" /\ ~IsOwners(r) /\ (r.fence => clock > 0)
  BY <1>1 DEF TickRecord, IsOwners
<1> HIDE DEF r
<1>4. Follows(r, topic, clock)
  BY <1>3 DEF Follows
<1> QED BY <1>2, <1>3, <1>4, TopicStep DEF Tick

LEMMA MarkDrainingStep ==
  ASSUME Inv, MarkDraining
  PROVE  Inv'
<1>1. /\ row' = [row EXCEPT !.state = "draining"] /\ row.state = "open"
      /\ UNCHANGED <<topic, clock, drain, acked, mem>>
  BY DEF MarkDraining
<1>2. /\ row'.state = "draining" /\ row'.version = row.version /\ row'.applied = row.applied
      /\ row'.boundary = row.boundary /\ row'.gap = row.gap /\ row'.winners = row.winners
      /\ row'.holds = row.holds /\ row'.listed = row.listed
      /\ IsRow(row')
  BY <1>1 DEF Inv, Types, IsRow
<1>3. RowRight(row', topic, drain, clock)
  BY <1>1, <1>2 DEF Inv, RowRight
<1>4. Durable(row', topic, acked)
  BY <1>1, <1>2 DEF Inv, Durable
<1>5. ASSUME NEW m \in Members
      PROVE  MemberRight(mem[m], row', topic, drain, acked, clock)
  <2>1. MemberRight(mem[m], row, topic, drain, acked, clock)
    BY DEF Inv
  <2> DEFINE l == mem[m]
  <2>2. Sane(l, row', topic, drain, acked, clock)
    BY <1>1, <1>2, <2>1 DEF MemberRight, Sane
  <2>3. l.lease /\ l.version = row'.version => Current(l, row', topic, drain)
    BY <1>2, <2>1 DEF MemberRight, Current
  <2> QED BY <2>2, <2>3 DEF MemberRight
<1>6. Types'
  BY <1>1, <1>2 DEF Inv, Types
<1> QED BY <1>1, <1>3, <1>4, <1>5, <1>6 DEF Inv

LEMMA TimePassesStep ==
  ASSUME Inv, TimePasses
  PROVE  Inv'
<1>1. /\ clock \in Nat /\ clock' = clock + 1 /\ clock' \in 0 .. 3
      /\ UNCHANGED <<topic, row, drain, acked, mem>>
  BY DEF Inv, Types, TimePasses
<1> QED BY <1>1, TopicLater, RowLater, MemberLater DEF Inv, Types

LEMMA RowAddedStep ==
  ASSUME Inv, NEW d \in DrainRow, drain' = Append(drain, d), row.state # "closed",
         UNCHANGED <<topic, clock, row, acked, mem>>
  PROVE  Inv'
<1>1. drain \in Seq(DrainRow) /\ drain' \in Seq(DrainRow) /\ mem \in [Members -> MemberLease]
  BY DEF Inv, Types
<1>2. RowRight(row, topic, drain', clock)
  BY <1>1, RowAppended DEF Inv
<1>3. \A m \in Members : MemberRight(mem[m], row, topic, drain', acked, clock)
  BY <1>1, MemberAppended DEF Inv
<1>4. Types'
  BY <1>1 DEF Inv, Types
<1> QED BY <1>2, <1>3, <1>4 DEF Inv

LEMMA DoorAppendsStep ==
  ASSUME Inv, NEW a \in Auths, DoorAppends(a)
  PROVE  Inv'
<1>1. [auth |-> a, from |-> "door"] \in DrainRow
  BY DEF DrainRow
<1> QED BY <1>1, RowAddedStep DEF DoorAppends

-----------------------------------------------------------------------------
(* A member's step.                                                         *)

\* One that leaves the row alone.
LEMMA MemberStep ==
  ASSUME Inv, NEW m \in Members, NEW l \in MemberLease, NEW k \in acked .. Len(topic),
         MemberRight(l, row, topic, drain, k, clock), Durable(row, topic, k),
         mem' = [mem EXCEPT ![m] = l], acked' = k, UNCHANGED <<topic, clock, row, drain>>
  PROVE  Inv'
<1>1. /\ acked \in Nat /\ Len(topic) \in Nat /\ k \in Nat /\ acked <= k /\ k \in 0 .. Len(topic)
      /\ mem \in [Members -> MemberLease]
  BY DEF Inv, Types
<1>2. ASSUME NEW n \in Members
      PROVE  MemberRight(mem'[n], row, topic, drain, k, clock)
  <2>1. CASE n = m
    BY <1>1, <2>1
  <2>2. CASE n # m
    <3>1. mem'[n] = mem[n] /\ mem[n] \in MemberLease
      BY <1>1, <2>2
    <3>2. MemberRight(mem[n], row, topic, drain, acked, clock)
      BY DEF Inv
    <3> QED BY <1>1, <3>1, <3>2, MemberAcked
  <2> QED BY <2>1, <2>2
<1>3. Types'
  BY <1>1 DEF Inv, Types
<1> QED BY <1>2, <1>3 DEF Inv

\* One that others' leases are stale after.
LEMMA OvertakingStep ==
  ASSUME Inv, NEW m \in Members, NEW l \in MemberLease, NEW k \in acked .. Len(topic),
         IsRow(row'), Overtakes(row, row'), RowRight(row', topic, drain, clock),
         MemberRight(l, row', topic, drain, k, clock), Durable(row', topic, k),
         mem' = [mem EXCEPT ![m] = l], acked' = k, UNCHANGED <<topic, clock, drain>>
  PROVE  Inv'
<1>1. /\ acked \in Nat /\ Len(topic) \in Nat /\ k \in Nat /\ acked <= k /\ k \in 0 .. Len(topic)
      /\ mem \in [Members -> MemberLease] /\ IsRow(row)
  BY DEF Inv, Types
<1>2. ASSUME NEW n \in Members
      PROVE  MemberRight(mem'[n], row', topic, drain, k, clock)
  <2>1. CASE n = m
    BY <1>1, <2>1
  <2>2. CASE n # m
    <3>1. mem'[n] = mem[n] /\ mem[n] \in MemberLease
      BY <1>1, <2>2
    <3>2. MemberRight(mem[n], row, topic, drain, acked, clock)
      BY DEF Inv
    <3>3. MemberRight(mem[n], row', topic, drain, acked, clock)
      BY <1>1, <3>1, <3>2, MemberOvertaken
    <3> QED BY <1>1, <3>1, <3>3, MemberAcked
  <2> QED BY <2>1, <2>2
<1>3. Types'
  BY <1>1 DEF Inv, Types
<1> QED BY <1>2, <1>3 DEF Inv

\* A lease to be read again, for the records P.
IsFresh(l, P) ==
  /\ l \in MemberLease
  /\ ~l.lease /\ ~l.done /\ ~l.sKnown /\ ~l.sStored /\ ~l.dirty /\ ~l.bound
  /\ l.pend = P /\ l.pos = 0 /\ l.version = 0 /\ l.applied = 0 /\ l.cursor = 0

LEMMA FreshLeases ==
  ASSUME NEW P \in SUBSET Nat, NEW Q \in SUBSET Nat, NEW l \in MemberLease, l.pend = P
  PROVE  /\ IsFresh(Dropped(l), P) /\ IsFresh([Dropped(l) EXCEPT !.pend = @ \cup Q], P \cup Q)
         /\ IsFresh(Unread, {})
BY DEF IsFresh, Dropped, Unread, MemberLease, WinnerRow

LEMMA FreshRight ==
  ASSUME NEW l, NEW P, IsFresh(l, P), NEW R, NEW T \in Seq(OwnerRecord \cup TickRecord),
         NEW D \in Seq(DrainRow), NEW k, NEW now, InOrder(P, T, k), IsRow(R)
  PROVE  MemberRight(l, R, T, D, k, now)
<1>1. R.version \in Nat /\ R.applied \in Nat /\ Len(D) \in Nat
  BY DEF IsRow
<1>2. \A q \in P : ~(q <= 0)
  BY DEF InOrder
<1>3. GivenInOrder(l, T, k)
  BY <1>2 DEF GivenInOrder, IsFresh
<1>4. Sane(l, R, T, D, k, now)
  BY <1>1, <1>3 DEF Sane, IsFresh
<1> QED BY <1>4 DEF MemberRight, IsFresh

\* A lease that is done, of a row that is closed.
LEMMA FinishedRight ==
  ASSUME NEW R, NEW T \in Seq(OwnerRecord \cup TickRecord), NEW D \in Seq(DrainRow), NEW k, NEW now,
         IsRow(R), R.state = "closed"
  PROVE  Finished \in MemberLease /\ MemberRight(Finished, R, T, D, k, now) /\ Durable(R, T, k)
<1>2. Finished \in MemberLease
  BY DEF Finished, Unread, MemberLease, WinnerRow
<1>3. /\ Finished.lease = FALSE /\ Finished.done = TRUE /\ Finished.pend = {} /\ Finished.pos = 0
      /\ Finished.version = 0 /\ Finished.applied = 0 /\ Finished.sKnown = FALSE
      /\ Finished.sStored = FALSE /\ Finished.cursor = 0 /\ Finished.dirty = FALSE
      /\ Finished.bound = FALSE
  BY DEF Finished, Unread
<1>4. R.version \in Nat /\ R.applied \in Nat /\ Len(D) \in Nat
  BY DEF IsRow
<1>5. GivenInOrder(Finished, T, k)
  BY <1>3 DEF GivenInOrder, InOrder
<1>6. Sane(Finished, R, T, D, k, now)
  BY <1>3, <1>4, <1>5 DEF Sane
<1>7. MemberRight(Finished, R, T, D, k, now)
  BY <1>3, <1>6 DEF MemberRight
<1>8. Durable(R, T, k)
  BY DEF Durable
<1> QED BY <1>2, <1>7, <1>8

\* What a member has at hand.
LEMMA AtHand ==
  ASSUME Inv, NEW m \in Members
  PROVE  /\ topic \in Seq(OwnerRecord \cup TickRecord) /\ drain \in Seq(DrainRow) /\ Len(topic) \in Nat
         /\ IsRow(row) /\ clock \in Nat /\ acked \in 0 .. Len(topic) /\ acked \in Nat
         /\ mem \in [Members -> MemberLease] /\ mem[m] \in MemberLease
         /\ MemberRight(mem[m], row, topic, drain, acked, clock)
         /\ InOrder(mem[m].pend, topic, acked)
BY DEF Inv, Types, MemberRight, Sane, GivenInOrder

\* The last record it acknowledges.
LEMMA LastOf ==
  ASSUME NEW n \in Nat, NEW k \in 0 .. n, NEW P \in SUBSET (1 .. n)
  PROVE  /\ Max(P \cup {k}) \in k .. n /\ Max(P \cup {k}) \in P \cup {k}
         /\ \A q \in P : q <= Max(P \cup {k})
BY GreatestOf

\* The record p may be given to a member after those it has.
GivenNext(l, p) ==
  /\ p \in 1 .. Len(topic) /\ InOrder(l.pend \cup {p}, topic, acked)
  /\ \A q \in 1 .. p : q = p \/ q \in l.pend \/ q <= acked
  /\ \A q \in l.pend : q < p => q <= l.pos

LEMMA DeliveredNext ==
  ASSUME Inv, NEW m \in Members, NEW p \in Delivered(mem[m])
  PROVE  /\ p \in 1 .. Len(topic) /\ InOrder(mem[m].pend \cup {p}, topic, acked)
         /\ \A q \in 1 .. p : q = p \/ q \in mem[m].pend \/ q <= acked
<1> DEFINE l == mem[m]
           next == Max(l.pend \cup {acked}) + 1
<1>1. InOrder(l.pend, topic, acked) /\ acked \in 0 .. Len(topic) /\ Len(topic) \in Nat
  BY AtHand
<1>2. /\ Max(l.pend \cup {acked}) \in acked .. Len(topic)
      /\ Max(l.pend \cup {acked}) \in l.pend \cup {acked}
  BY <1>1, LastOf DEF InOrder
<1>3. next \in Nat /\ next > 0 /\ \A q \in 1 .. next - 1 : q \in l.pend \/ q <= acked
  <2>1. PICK z \in Nat : z = Max(l.pend \cup {acked})
    BY <1>1, <1>2
  <2>2. next = z + 1 /\ next - 1 = z
    BY <2>1
  <2>3. \A q \in 1 .. z : q \in l.pend \/ q <= acked
    <3>1. CASE z \in l.pend
      BY <1>1, <3>1 DEF InOrder
    <3>2. CASE z = acked
      BY <3>2
    <3> QED BY <1>2, <2>1, <3>1, <3>2
  <2> HIDE DEF next, l
  <2> QED BY <2>2, <2>3
<1> HIDE DEF l
<1>4. CASE next <= Len(topic)
  <2>1. p = next
    BY <1>4 DEF Delivered, l
  <2> HIDE DEF next
  <2> QED BY <1>1, <1>3, <1>4, <2>1 DEF InOrder, l
<1>5. CASE ~(next <= Len(topic))
  <2>1. p \in LaterTick(l)
    BY <1>5 DEF Delivered, l
  <2>2. p \in 1 .. Len(topic) /\ acked = Len(topic)
    BY <2>1 DEF LaterTick, Ticks
  <2> QED BY <1>1, <2>2 DEF InOrder, l
<1> QED BY <1>4, <1>5

LEMMA ComingNext ==
  ASSUME Inv, NEW m \in Members, Coming(mem[m]) # {}
  PROVE  GivenNext(mem[m], Min(Coming(mem[m])))
<1> DEFINE l == mem[m]
           p == Min(Coming(l))
<1>1. InOrder(l.pend, topic, acked) /\ acked \in 0 .. Len(topic) /\ Len(topic) \in Nat /\ l \in MemberLease
  BY AtHand
<1>2. CASE Unapplied(l) # {}
  <2>1. Coming(l) = Unapplied(l) /\ Unapplied(l) \in SUBSET Nat
    BY <1>1, <1>2 DEF Coming, Unapplied, InOrder
  <2>2. p \in Unapplied(l) /\ \A k \in Unapplied(l) : p <= k
    BY <1>2, <2>1, LeastOf
  <2>3. p \in l.pend /\ p \in 1 .. Len(topic) /\ l.pend \cup {p} = l.pend
    BY <1>1, <2>2 DEF Unapplied, InOrder
  <2>4. \A q \in l.pend : q < p => q <= l.pos
    <3>1. SUFFICES ASSUME NEW q \in l.pend, q < p, q > l.pos PROVE FALSE
      BY <1>1 DEF InOrder, MemberLease
    <3>2. q \in Unapplied(l)
      BY <3>1 DEF Unapplied
    <3>3. p <= q /\ p \in Nat /\ q \in Nat
      BY <1>1, <2>2, <2>3, <3>2 DEF InOrder
    <3> HIDE DEF p
    <3> QED BY <3>1, <3>3
  <2> HIDE DEF p
  <2> QED BY <1>1, <2>3, <2>4 DEF GivenNext, InOrder, p
<1>3. CASE Unapplied(l) = {}
  <2>1. Coming(l) = Delivered(l)
    BY <1>3 DEF Coming
  <2>2. Delivered(l) \in SUBSET Nat
    <3>1. \A d \in Delivered(l) : d \in 1 .. Len(topic)
      BY DeliveredNext
    <3> QED BY <3>1
  <2>3. p \in Delivered(l)
    BY <2>1, <2>2, LeastOf
  <2>4. \A q \in l.pend : q <= l.pos
    BY <1>1, <1>3 DEF Unapplied, InOrder, MemberLease
  <2> HIDE DEF p
  <2> QED BY <2>3, <2>4, DeliveredNext DEF GivenNext, p
<1> QED BY <1>2, <1>3

\* Nothing a member is given before p is left unapplied, if its version is the
\* row's and no S is known.
LEMMA AllBefore ==
  ASSUME Inv, NEW m \in Members, NEW p, GivenNext(mem[m], p), mem[m].lease,
         mem[m].version = row.version, ~mem[m].sKnown
  PROVE  /\ row.boundary = None /\ row.state # "closed"
         /\ \A q \in RecordsIn(topic) : q < p => topic[q].seq <= mem[m].applied
<1> DEFINE l == mem[m]
<1>1. Current(l, row, topic, drain) /\ GivenInOrder(l, topic, acked)
  BY AtHand DEF MemberRight, Sane
<1>2. row.boundary = None /\ row.applied <= l.applied
  BY <1>1 DEF Current
<1>3. row.state # "closed"
  BY <1>2 DEF Inv, RowRight
<1>4. /\ l.applied \in Nat /\ row.applied \in Nat /\ p \in Nat
      /\ \A q \in RecordsIn(topic) : topic[q].seq \in Nat /\ q \in 1 .. Len(topic)
  <2>1. topic \in Seq(OwnerRecord \cup TickRecord) /\ l \in MemberLease /\ IsRow(row)
    BY AtHand
  <2>2. l.applied \in Nat /\ row.applied \in Nat /\ p \in Nat
    BY <2>1 DEF MemberLease, IsRow, GivenNext
  <2> QED BY <2>1, <2>2, RecordsOf
<1>5. ASSUME NEW q \in RecordsIn(topic), q < p
      PROVE  topic[q].seq <= l.applied
  <2>1. q \in 1 .. p
    BY <1>4, <1>5
  <2>2. CASE q \in l.pend
    BY <2>2, <1>1, <1>5 DEF GivenNext, GivenInOrder
  <2>3. CASE q <= acked
    <3>1. topic[q].seq <= row.applied
      BY <1>2, <1>3, <2>3 DEF Inv, Durable
    <3> QED BY <3>1, <1>2, <1>4
  <2> QED BY <2>1, <2>2, <2>3, <1>4, <1>5 DEF GivenNext
<1> QED BY <1>2, <1>3, <1>5

\* So there is no gap before it.
LEMMA NoGapCurrent ==
  ASSUME Inv, NEW m \in Members, AtGap(mem[m])
  PROVE  mem[m].version # row.version
<1> DEFINE l == mem[m]
           p == Min(Coming(l))
<1>1. SUFFICES ASSUME l.version = row.version PROVE FALSE
  OBVIOUS
<1>2. GivenNext(l, p) /\ l.lease /\ IsGap(l, topic[p])
  BY ComingNext DEF AtGap
<1> HIDE DEF p
<1>3. \A q \in RecordsIn(topic) : q < p => topic[q].seq <= l.applied
  BY <1>1, <1>2, AllBefore DEF IsGap
<1>4. p \in RecordsIn(topic) /\ topic[p].seq > l.applied + 1
  BY <1>2 DEF IsGap, GivenNext, RecordsIn
<1>5. l.applied \in Nat /\ \A q \in RecordsIn(topic) : topic[q].seq \in Nat
  BY AtHand, RecordsOf DEF MemberLease
<1>6. PICK q \in RecordsIn(topic) : q < p /\ topic[q].seq = topic[p].seq - 1
  BY <1>4, <1>5 DEF Inv, TopicRight, Numbered
<1> QED BY <1>3, <1>4, <1>5, <1>6

-----------------------------------------------------------------------------
(* Members that read, drop, stop and crash.                                 *)

\* A member that has its lease to read again.
LEMMA FreshStep ==
  ASSUME Inv, NEW m \in Members, NEW l, NEW P, IsFresh(l, P), InOrder(P, topic, acked),
         mem' = [mem EXCEPT ![m] = l], UNCHANGED <<topic, clock, row, drain, acked>>
  PROVE  Inv'
<1>1. l \in MemberLease
  BY DEF IsFresh
<1>2. acked \in acked .. Len(topic) /\ Durable(row, topic, acked)
  BY AtHand DEF Inv
<1>3. MemberRight(l, row, topic, drain, acked, clock)
  BY AtHand, FreshRight
<1> QED BY <1>1, <1>2, <1>3, MemberStep

LEMMA DroppedStep ==
  ASSUME Inv, NEW m \in Members, mem' = [mem EXCEPT ![m] = Dropped(mem[m])],
         UNCHANGED <<topic, clock, row, drain, acked>>
  PROVE  Inv'
<1>1. mem[m] \in MemberLease /\ InOrder(mem[m].pend, topic, acked) /\ mem[m].pend \in SUBSET Nat
  BY AtHand DEF MemberLease
<1>2. IsFresh(Dropped(mem[m]), mem[m].pend)
  BY <1>1, FreshLeases
<1> QED BY <1>1, <1>2, FreshStep

LEMMA CrashStep ==
  ASSUME Inv, NEW m \in Members, Crash(m)
  PROVE  Inv'
<1>1. mem[m] \in MemberLease /\ mem[m].pend \in SUBSET Nat
  BY AtHand DEF MemberLease
<1>2. IsFresh(Unread, {})
  BY <1>1, FreshLeases
<1>3. InOrder({}, topic, acked)
  BY DEF InOrder
<1> QED BY <1>2, <1>3, FreshStep DEF Crash

\* At a gap the member is stale, so it only reads its lease again.
LEMMA AtGapStep ==
  ASSUME Inv, NEW m \in Members, GapCommits(m) \/ StopAtGap(m)
  PROVE  Inv'
<1> DEFINE l == mem[m]
           p == Min(Coming(l))
<1>1. AtGap(l) /\ l.version # row.version
  BY NoGapCurrent DEF GapCommits, StopAtGap
<1>2. GivenNext(l, p)
  BY <1>1, ComingNext DEF AtGap
<1>3. ~Takes(l) /\ ~StopTakes(l, topic[p].seq)
  BY <1>1 DEF Takes, StopTakes
<1>4. PICK Q : /\ l.pend \cup Q = l.pend \cup {p} /\ Q \in SUBSET Nat
               /\ mem' = [mem EXCEPT ![m] = [Dropped(l) EXCEPT !.pend = @ \cup Q]]
               /\ UNCHANGED <<topic, clock, row, drain, acked>>
  <2>1. p \in Nat /\ l.pend \in SUBSET Nat
    BY <1>2, AtHand DEF GivenNext, MemberLease
  <2>2. CASE GapCommits(m)
    <3> DEFINE kept == Unapplied(l) \cup {p}
    <3>1. l.pend \cup kept = l.pend \cup {p} /\ kept \in SUBSET Nat
      BY <2>1 DEF Unapplied
    <3>2. /\ mem' = [mem EXCEPT ![m] = [Dropped(l) EXCEPT !.pend = @ \cup kept]]
          /\ UNCHANGED <<topic, clock, row, drain, acked>>
      BY <1>3, <2>2 DEF GapCommits
    <3> HIDE DEF kept, l, p
    <3> QED BY <3>1, <3>2
  <2>3. CASE StopAtGap(m)
    <3>1. /\ mem' = [mem EXCEPT ![m] = [Dropped(l) EXCEPT !.pend = @ \cup {p}]]
          /\ UNCHANGED <<topic, clock, row, drain, acked>>
      BY <1>3, <2>3 DEF StopAtGap
    <3> HIDE DEF l, p
    <3> QED BY <2>1, <3>1
  <2> QED BY <2>2, <2>3
<1>5. l \in MemberLease /\ l.pend \in SUBSET Nat
  BY AtHand DEF MemberLease
<1>6. IsFresh([Dropped(l) EXCEPT !.pend = @ \cup Q], l.pend \cup Q)
  BY <1>4, <1>5, FreshLeases
<1>7. InOrder(l.pend \cup Q, topic, acked)
  BY <1>2, <1>4 DEF GivenNext
<1> HIDE DEF l, p
<1> QED BY <1>4, <1>6, <1>7, FreshStep

\* A member that finds the lease closed acknowledges what it has.
LEMMA FinishedStep ==
  ASSUME Inv, NEW m \in Members, row.state = "closed", NEW P, P \subseteq 1 .. Len(topic),
         mem' = [mem EXCEPT ![m] = Finished], acked' = Max(P \cup {acked}),
         UNCHANGED <<topic, clock, row, drain>>
  PROVE  Inv'
<1>1. acked' \in acked .. Len(topic)
  BY AtHand, LastOf
<1>2. /\ Finished \in MemberLease
      /\ MemberRight(Finished, row, topic, drain, acked', clock) /\ Durable(row, topic, acked')
  BY AtHand, FinishedRight
<1> QED BY <1>1, <1>2, MemberStep

LEMMA AckDoneStep ==
  ASSUME Inv, NEW m \in Members, AckDone(m)
  PROVE  Inv'
<1>1. acked' \in acked .. Len(topic) /\ acked \in Nat /\ acked' \in 0 .. Len(topic) /\ acked <= acked'
  BY AtHand DEF AckDone
<1>2. row.state = "closed"
  BY AtHand DEF AckDone, MemberRight, Sane
<1>3. Durable(row, topic, acked')
  BY <1>2 DEF Durable
<1>4. \A n \in Members : MemberRight(mem[n], row, topic, drain, acked', clock)
  <2>1. ASSUME NEW n \in Members
        PROVE  MemberRight(mem[n], row, topic, drain, acked', clock)
    BY <1>1, AtHand, MemberAcked
  <2> QED BY <2>1
<1>5. Types'
  BY <1>1 DEF Inv, Types, AckDone
<1> QED BY <1>3, <1>4, <1>5 DEF Inv, AckDone

LEMMA RowOver ==
  ASSUME Inv
  PROVE  Over <=> row.state = "closed"
BY DEF Inv, Types, IsRow, Over

LEMMA LoadedLease ==
  ASSUME IsRow(row), NEW l, NEW P \in SUBSET Nat,
         NEW n, n = [Loaded(l) EXCEPT !.pend = P]
  PROVE  /\ n \in MemberLease /\ n.lease /\ ~n.done /\ n.pend = P /\ n.pos = 0
         /\ n.version = row.version /\ n.applied = row.applied
         /\ (n.sKnown <=> row.boundary # None) /\ (n.sStored <=> row.boundary # None)
         /\ n.decided \in {StoredAuths, {}} /\ (n.loaded => n.decided = StoredAuths)
         /\ n.cursor = 0 /\ n.won = {} /\ ~n.dirty /\ ~n.bound
<1>1. PICK s \in BOOLEAN : s <=> row.boundary # None
  OBVIOUS
<1>2. PICK d \in BOOLEAN : d <=> row.state = "draining"
  OBVIOUS
<1>3. StoredAuths \in SUBSET Auths
  BY DEF StoredAuths, IsRow, WinnerRow
<1>4. PICK c \in SUBSET Auths : c = IF row.state = "draining" THEN StoredAuths ELSE {}
  BY <1>3
<1>5. s = (row.boundary # None) /\ d = (row.state = "draining")
  BY <1>1, <1>2
<1>6. n = [[Unread EXCEPT !.lease = TRUE, !.pend = l.pend, !.version = row.version,
              !.draining = d, !.applied = row.applied, !.sKnown = s, !.sStored = s,
              !.listed = row.listed, !.holds = row.holds, !.decided = c, !.loaded = d]
             EXCEPT !.pend = P]
  BY <1>4, <1>5 DEF Loaded
<1>7. row.version \in Nat /\ row.applied \in Nat /\ row.listed \in BOOLEAN /\ row.holds \in SUBSET Auths
  BY DEF IsRow
<1>8. n \in MemberLease
  <2>1. Unread \in MemberLease
    BY DEF Unread, MemberLease, WinnerRow
  <2>2. PICK u \in MemberLease : u = [Unread EXCEPT !.lease = TRUE, !.version = row.version, !.draining = d,
                                         !.applied = row.applied, !.sKnown = s, !.sStored = s]
    BY <1>7, <2>1 DEF MemberLease
  <2>3. n = [u EXCEPT !.pend = P, !.listed = row.listed, !.holds = row.holds,
                      !.decided = c, !.loaded = d]
    BY <1>6, <2>2
  <2> QED BY <1>7, <2>3 DEF MemberLease
<1>9. /\ n.lease /\ ~n.done /\ n.pend = P /\ n.pos = 0
      /\ n.version = row.version /\ n.applied = row.applied
      /\ n.sKnown = s /\ n.sStored = s /\ n.decided = c /\ n.loaded = d
      /\ n.cursor = 0 /\ n.won = {} /\ ~n.dirty /\ ~n.bound
  BY <1>6 DEF Unread
<1> QED BY <1>1, <1>2, <1>4, <1>8, <1>9

LEMMA LoadLeaseStep ==
  ASSUME Inv, NEW m \in Members, LoadLease(m)
  PROVE  Inv'
<1> DEFINE l == mem[m]
           pend == IF l.pend = {} THEN Delivered(l) ELSE l.pend
<1>1. /\ IsRow(row) /\ topic \in Seq(OwnerRecord \cup TickRecord) /\ drain \in Seq(DrainRow)
      /\ Len(topic) \in Nat /\ acked \in 0 .. Len(topic) /\ InOrder(l.pend, topic, acked)
  BY AtHand
<1>2. InOrder(pend, topic, acked) /\ pend \in SUBSET (1 .. Len(topic))
  <2>1. CASE l.pend # {}
    BY <1>1, <2>1 DEF InOrder
  <2>2. CASE l.pend = {}
    <3>1. pend = Delivered(l)
      BY <2>2
    <3>2. ASSUME NEW q \in Delivered(l)
          PROVE  q \in 1 .. Len(topic) /\ \A p \in 1 .. q : p = q \/ p <= acked
      BY <2>2, DeliveredNext
    <3> HIDE DEF pend, l
    <3> QED BY <3>1, <3>2 DEF InOrder
  <2> QED BY <2>1, <2>2
<1>3. CASE Over
  <2>1. mem' = [mem EXCEPT ![m] = Finished] /\ acked' = Max(pend \cup {acked})
    BY <1>3 DEF LoadLease
  <2> HIDE DEF pend
  <2> QED BY <1>2, <1>3, <2>1, RowOver, FinishedStep DEF LoadLease
<1>4. CASE ~Over
  <2> DEFINE n == [Loaded(l) EXCEPT !.pend = pend]
  <2>1. mem' = [mem EXCEPT ![m] = n] /\ acked' = acked
    BY <1>4 DEF LoadLease
  <2> HIDE DEF pend
  <2>2. pend \in SUBSET Nat
    BY <1>2
  <2>3. /\ n \in MemberLease /\ n.lease /\ ~n.done /\ n.pend = pend /\ n.pos = 0
        /\ n.version = row.version /\ n.applied = row.applied
        /\ (n.sKnown <=> row.boundary # None) /\ (n.sStored <=> row.boundary # None)
        /\ n.decided \in {StoredAuths, {}} /\ (n.loaded => n.decided = StoredAuths)
        /\ n.cursor = 0 /\ n.won = {} /\ ~n.dirty /\ ~n.bound
    BY <1>1, <2>2, LoadedLease
  <2> HIDE DEF n
  <2>4. RowRight(row, topic, drain, clock) /\ row.applied \in Nat /\ row.version \in Nat /\ Len(drain) \in Nat
    BY <1>1 DEF Inv, IsRow
  <2>5. \A q \in n.pend : ~(q <= n.pos)
    <3>1. \A q \in pend : ~(q <= 0)
      BY <1>1, <1>2
    <3>2. n.pend = pend /\ n.pos = 0
      BY <2>3
    <3> QED BY <3>1, <3>2
  <2>6. GivenInOrder(n, topic, acked)
    BY <1>2, <2>3, <2>5 DEF GivenInOrder
  <2>7. Sane(n, row, topic, drain, acked, clock)
    BY <2>3, <2>4, <2>6 DEF Sane
  <2>8. StoredAuths = AuthsOf(row.winners) /\ row.winners \cup n.won = row.winners /\ AuthsOf(n.won) = {}
    BY <2>3 DEF StoredAuths, AuthsOf
  <2>9. Current(n, row, topic, drain)
    BY <2>3, <2>4, <2>8 DEF Current, RowRight
  <2>10. MemberRight(n, row, topic, drain, acked, clock)
    BY <2>7, <2>9 DEF MemberRight
  <2>11. Durable(row, topic, acked) /\ acked \in acked .. Len(topic)
    BY <1>1 DEF Inv
  <2> QED BY <2>1, <2>3, <2>10, <2>11, MemberStep DEF LoadLease
<1> QED BY <1>3, <1>4

-----------------------------------------------------------------------------
(* A member that has all it was given applied.                              *)

\* What it acknowledges then is durable in the row R, which has what the
\* member applied and its S.
LEMMA AllAcked ==
  ASSUME Inv, NEW m \in Members, ~Busy(mem[m]), NEW R, IsRow(R),
         mem[m].applied <= R.applied, mem[m].sKnown => R.boundary # None,
         Durable(R, topic, acked), NEW k, k = Max(mem[m].pend \cup {acked})
  PROVE  k \in acked .. Len(topic) /\ Durable(R, topic, k)
<1> DEFINE l == mem[m]
<1>1. /\ InOrder(l.pend, topic, acked) /\ acked \in 0 .. Len(topic) /\ Len(topic) \in Nat
      /\ l \in MemberLease /\ topic \in Seq(OwnerRecord \cup TickRecord)
      /\ GivenInOrder(l, topic, acked)
  BY AtHand DEF MemberRight, Sane
<1>2. k \in acked .. Len(topic) /\ k \in l.pend \cup {acked}
  BY <1>1, LastOf DEF InOrder
<1>3. l.applied \in Nat /\ l.pos \in Nat /\ R.applied \in Nat
  BY <1>1 DEF MemberLease, IsRow
<1>4. \A q \in l.pend : q <= l.pos
  BY <1>1, <1>3 DEF Busy, Unapplied, InOrder
<1>5. ASSUME NEW p \in RecordsIn(topic), p <= k
      PROVE  topic[p].seq <= R.applied \/ R.boundary # None \/ R.state = "closed"
  <2>1. topic[p].seq \in Nat /\ p \in 1 .. Len(topic)
    BY <1>1, RecordsOf
  <2>2. CASE p <= acked
    BY <2>2 DEF Durable
  <2>3. CASE p \in l.pend
    <3>1. topic[p].seq <= l.applied \/ l.sKnown
      BY <1>1, <1>4, <2>3 DEF GivenInOrder
    <3> QED BY <3>1, <2>1, <1>3
  <2>4. p \in l.pend \/ p <= acked
    <3>1. CASE k = acked
      BY <3>1, <1>5
    <3>2. CASE k \in l.pend
      <4>1. p \in 1 .. k
        BY <1>2, <2>1, <1>5, <1>1
      <4> QED BY <3>2, <4>1, <1>1 DEF InOrder
    <3> QED BY <1>2, <3>1, <3>2
  <2> QED BY <2>2, <2>3, <2>4
<1> QED BY <1>2, <1>5 DEF Durable

LEMMA AckCleanStep ==
  ASSUME Inv, NEW m \in Members, AckClean(m)
  PROVE  Inv'
<1> DEFINE l == mem[m]
           n == [l EXCEPT !.pend = {}, !.pos = 0]
           k == Max(l.pend \cup {acked})
<1>1. /\ ~Busy(l) /\ ~l.dirty /\ mem' = [mem EXCEPT ![m] = n] /\ acked' = k
      /\ UNCHANGED <<topic, clock, row, drain>>
  BY AtHand DEF AckClean, AckAll
<1>2. /\ l \in MemberLease /\ IsRow(row) /\ Sane(l, row, topic, drain, acked, clock)
      /\ (l.lease /\ l.version = row.version => Current(l, row, topic, drain))
  BY AtHand DEF MemberRight
<1>3. k \in acked .. Len(topic) /\ Durable(row, topic, k)
  <2>1. l.applied <= row.applied /\ (l.sKnown => row.boundary # None)
    BY <1>1, <1>2 DEF Sane
  <2> QED BY <1>1, <1>2, <2>1, AllAcked DEF Inv
<1> HIDE DEF k
<1>4. /\ n \in MemberLease /\ n.lease = l.lease /\ n.done = l.done /\ n.pend = {} /\ n.pos = 0
      /\ n.version = l.version /\ n.applied = l.applied /\ n.sKnown = l.sKnown
      /\ n.sStored = l.sStored /\ n.decided = l.decided /\ n.loaded = l.loaded
      /\ n.cursor = l.cursor /\ n.won = l.won /\ n.dirty = l.dirty /\ n.bound = l.bound
  BY <1>2 DEF MemberLease
<1> HIDE DEF n, l
<1>5. GivenInOrder(n, topic, k)
  BY <1>4 DEF GivenInOrder, InOrder
<1>6. Sane(n, row, topic, drain, k, clock)
  BY <1>2, <1>4, <1>5 DEF Sane
<1>7. n.lease /\ n.version = row.version => Current(n, row, topic, drain)
  BY <1>2, <1>4 DEF Current
<1>8. MemberRight(n, row, topic, drain, k, clock)
  BY <1>6, <1>7 DEF MemberRight
<1> QED BY <1>1, <1>3, <1>4, <1>8, MemberStep

LEMMA SeeEndStep ==
  ASSUME Inv, NEW m \in Members, SeeEnd(m)
  PROVE  Inv'
<1> DEFINE l == mem[m]
<1>1. PICK b \in BOOLEAN : b = AtEnd(l)
  BY DEF AtEnd
<1> DEFINE n == [l EXCEPT !.end = b]
<1>2. mem' = [mem EXCEPT ![m] = n] /\ UNCHANGED <<topic, clock, row, drain, acked>>
  BY <1>1, AtHand DEF SeeEnd
<1>3. /\ l \in MemberLease /\ Sane(l, row, topic, drain, acked, clock)
      /\ (l.lease /\ l.version = row.version => Current(l, row, topic, drain))
      /\ acked \in acked .. Len(topic)
  BY AtHand DEF MemberRight
<1>4. /\ n \in MemberLease /\ n.lease = l.lease /\ n.done = l.done /\ n.pend = l.pend
      /\ n.pos = l.pos /\ n.version = l.version /\ n.applied = l.applied /\ n.sKnown = l.sKnown
      /\ n.sStored = l.sStored /\ n.decided = l.decided /\ n.loaded = l.loaded
      /\ n.cursor = l.cursor /\ n.won = l.won /\ n.dirty = l.dirty /\ n.bound = l.bound
  BY <1>3 DEF MemberLease
<1> HIDE DEF n, l
<1>5. Sane(n, row, topic, drain, acked, clock)
  BY <1>3, <1>4 DEF Sane, GivenInOrder
<1>6. n.lease /\ n.version = row.version => Current(n, row, topic, drain)
  BY <1>3, <1>4 DEF Current
<1>7. MemberRight(n, row, topic, drain, acked, clock) /\ Durable(row, topic, acked)
  BY <1>5, <1>6 DEF MemberRight, Inv
<1> QED BY <1>2, <1>3, <1>4, <1>7, MemberStep

\* The winners as they are stored.
LEMMA WithWinnersLease ==
  ASSUME IsRow(row), NEW l \in MemberLease, NEW n, n = WithWinners(l)
  PROVE  /\ n \in MemberLease /\ n.lease = l.lease /\ n.done = l.done /\ n.pend = l.pend
         /\ n.pos = l.pos /\ n.version = l.version /\ n.applied = l.applied /\ n.sKnown = l.sKnown
         /\ n.sStored = l.sStored /\ n.decided = l.decided \cup AuthsOf(row.winners)
         /\ n.loaded /\ n.cursor = l.cursor /\ n.won = l.won /\ n.dirty = l.dirty
         /\ n.bound = l.bound /\ n.holds = l.holds /\ n.put = l.put
<1>1. PICK d \in BOOLEAN : d = (l.draining \/ row.state # "open")
  BY DEF MemberLease
<1>2. StoredAuths = AuthsOf(row.winners) /\ AuthsOf(row.winners) \in SUBSET Auths
  BY DEF StoredAuths, AuthsOf, IsRow, WinnerRow
<1>3. n = [l EXCEPT !.decided = @ \cup AuthsOf(row.winners), !.loaded = TRUE, !.draining = d]
  BY <1>1, <1>2 DEF WithWinners
<1> QED BY <1>2, <1>3 DEF MemberLease

LEMMA WithWinnersRight ==
  ASSUME IsRow(row), NEW l \in MemberLease, NEW T, NEW D, NEW k, NEW now, NEW n, n = WithWinners(l),
         MemberRight(l, row, T, D, k, now)
  PROVE  MemberRight(n, row, T, D, k, now)
<1>1. /\ n.lease = l.lease /\ n.done = l.done /\ n.pend = l.pend
      /\ n.pos = l.pos /\ n.version = l.version /\ n.applied = l.applied /\ n.sKnown = l.sKnown
      /\ n.sStored = l.sStored /\ n.decided = l.decided \cup AuthsOf(row.winners)
      /\ n.loaded /\ n.cursor = l.cursor /\ n.won = l.won /\ n.dirty = l.dirty
      /\ n.bound = l.bound
  BY WithWinnersLease
<1>2. Sane(n, row, T, D, k, now)
  BY <1>1 DEF MemberRight, Sane, GivenInOrder
<1>3. ASSUME n.lease, n.version = row.version
      PROVE  Current(n, row, T, D)
  <2>1. Current(l, row, T, D)
    BY <1>1, <1>3 DEF MemberRight
  <2>2. AuthsOf(row.winners) \subseteq AuthsOf(row.winners \cup n.won)
    BY DEF AuthsOf
  <2> QED BY <1>1, <2>1, <2>2 DEF Current
<1> QED BY <1>2, <1>3 DEF MemberRight

LEMMA LearnWinnersStep ==
  ASSUME Inv, NEW m \in Members, LearnWinners(m)
  PROVE  Inv'
<1> DEFINE n == WithWinners(mem[m])
<1>1. n \in MemberLease
  BY AtHand, WithWinnersLease
<1>2. MemberRight(n, row, topic, drain, acked, clock)
  BY AtHand, WithWinnersRight
<1>3. acked \in acked .. Len(topic) /\ Durable(row, topic, acked)
  BY AtHand DEF Inv
<1>4. mem' = [mem EXCEPT ![m] = n] /\ UNCHANGED <<topic, clock, row, drain, acked>>
  BY DEF LearnWinners
<1> HIDE DEF n
<1> QED BY <1>1, <1>2, <1>3, <1>4, MemberStep

-----------------------------------------------------------------------------
(* A member that applies a record.                                          *)

\* It moves on to p, which it has applied or need not.
LEMMA PositionedStep ==
  ASSUME Inv, NEW m \in Members, NEW p, GivenNext(mem[m], p), NEW e \in MemberLease,
         e.pend = mem[m].pend, e.pos = mem[m].pos,
         MemberRight(e, row, topic, drain, acked, clock),
         p \in RecordsIn(topic) => topic[p].seq <= e.applied \/ e.sKnown,
         mem' = [mem EXCEPT ![m] = [e EXCEPT !.pos = p, !.pend = @ \cup {p}]],
         UNCHANGED <<topic, clock, row, drain, acked>>
  PROVE  Inv'
<1> DEFINE n == [e EXCEPT !.pos = p, !.pend = @ \cup {p}]
<1>1. p \in Nat
  BY DEF GivenNext
<1>2. /\ n \in MemberLease /\ n.lease = e.lease /\ n.done = e.done /\ n.pend = e.pend \cup {p}
      /\ n.pos = p /\ n.version = e.version /\ n.applied = e.applied /\ n.sKnown = e.sKnown
      /\ n.sStored = e.sStored /\ n.decided = e.decided /\ n.loaded = e.loaded
      /\ n.cursor = e.cursor /\ n.won = e.won /\ n.dirty = e.dirty /\ n.bound = e.bound
  BY <1>1 DEF MemberLease
<1>3. mem' = [mem EXCEPT ![m] = n]
  OBVIOUS
<1> HIDE DEF n
<1>4. InOrder(n.pend, topic, acked)
  BY <1>2 DEF GivenNext
<1>5. Sane(e, row, topic, drain, acked, clock) /\ GivenInOrder(e, topic, acked)
  BY DEF MemberRight, Sane
<1>6. ASSUME NEW q \in n.pend, q \in RecordsIn(topic), q <= n.pos
      PROVE  topic[q].seq <= n.applied \/ n.sKnown
  <2>1. CASE q = p
    BY <2>1, <1>2, <1>6
  <2>2. CASE q # p
    <3>1. q \in e.pend /\ q < p
      <4>1. q \in Nat
        BY <1>4 DEF InOrder
      <4> QED BY <4>1, <1>1, <1>2, <1>6, <2>2
    <3>2. q <= e.pos
      BY <3>1 DEF GivenNext
    <3> QED BY <1>2, <1>5, <1>6, <3>1, <3>2 DEF GivenInOrder
  <2> QED BY <2>1, <2>2
<1>7. GivenInOrder(n, topic, acked)
  BY <1>4, <1>6 DEF GivenInOrder
<1>8. Sane(n, row, topic, drain, acked, clock)
  BY <1>2, <1>5, <1>7 DEF Sane
<1>9. n.lease /\ n.version = row.version => Current(n, row, topic, drain)
  BY <1>2 DEF MemberRight, Current
<1>10. MemberRight(n, row, topic, drain, acked, clock) /\ Durable(row, topic, acked)
  BY <1>8, <1>9 DEF MemberRight, Inv
<1>11. acked \in acked .. Len(topic)
  BY AtHand
<1> QED BY <1>2, <1>3, <1>10, <1>11, MemberStep

\* What a record of the owner's changes.
LEMMA AppliedLease ==
  ASSUME NEW e \in MemberLease, NEW r \in OwnerRecord, NEW n, n = Applied(e, r)
  PROVE  /\ n \in MemberLease /\ n.lease = e.lease /\ n.done = e.done /\ n.pend = e.pend
         /\ n.pos = e.pos /\ n.version = e.version /\ n.applied = r.seq /\ n.sKnown = e.sKnown
         /\ n.sStored = e.sStored /\ n.loaded = e.loaded /\ n.cursor = e.cursor /\ n.dirty
         /\ n.bound = e.bound
         /\ IF r.kind = "terminal" /\ r.auth \notin e.decided
            THEN /\ n.decided = e.decided \cup {r.auth}
                 /\ n.won = e.won \cup {Winner(r.auth, "owner", r.seq)}
            ELSE n.decided = e.decided /\ n.won = e.won
<1>1. /\ r.seq \in Nat /\ r.auth \in Auths /\ r.holds \in SUBSET Auths
      /\ r.kind \in {"terminal", "beat", "list"}
  BY DEF OwnerRecord
<1>2. CASE r.kind = "beat"
  <2>1. PICK y \in MemberLease : /\ y = Heartbeat(e, r) /\ y.lease = e.lease /\ y.done = e.done
          /\ y.pend = e.pend /\ y.pos = e.pos /\ y.version = e.version /\ y.sKnown = e.sKnown
          /\ y.sStored = e.sStored /\ y.loaded = e.loaded /\ y.cursor = e.cursor /\ y.bound = e.bound
          /\ y.decided = e.decided /\ y.won = e.won
    <3>1. CASE r.auth \in e.decided
      BY <3>1 DEF Heartbeat
    <3>2. CASE r.auth \notin e.decided
      <4>1. PICK h \in SUBSET Auths : h = e.holds \cup {r.auth}
        BY <1>1 DEF MemberLease
      <4>2. PICK o \in SUBSET Auths : o = e.put \cup {r.auth}
        BY <1>1 DEF MemberLease
      <4>3. Heartbeat(e, r) = [e EXCEPT !.holds = h, !.put = o]
        BY <3>2, <4>1, <4>2 DEF Heartbeat
      <4>4. PICK y \in MemberLease : y = [e EXCEPT !.holds = h, !.put = o]
        BY DEF MemberLease
      <4>5. /\ y.lease = e.lease /\ y.done = e.done
            /\ y.pend = e.pend /\ y.pos = e.pos /\ y.version = e.version /\ y.sKnown = e.sKnown
            /\ y.sStored = e.sStored /\ y.loaded = e.loaded /\ y.cursor = e.cursor /\ y.bound = e.bound
            /\ y.decided = e.decided /\ y.won = e.won
        BY <4>4 DEF MemberLease
      <4> QED BY <4>3, <4>4, <4>5
    <3> QED BY <3>1, <3>2
  <2>2. n = [y EXCEPT !.applied = r.seq, !.dirty = TRUE]
    BY <1>2, <2>1 DEF Applied
  <2>3. n \in MemberLease /\ n.applied = r.seq /\ n.dirty
    BY <1>1, <2>2 DEF MemberLease
  <2>4. /\ n.lease = y.lease /\ n.done = y.done /\ n.pend = y.pend /\ n.pos = y.pos
        /\ n.version = y.version /\ n.sKnown = y.sKnown /\ n.sStored = y.sStored
        /\ n.loaded = y.loaded /\ n.cursor = y.cursor
    BY <2>2 DEF MemberLease
  <2>5. n.bound = y.bound /\ n.decided = y.decided /\ n.won = y.won
    BY <2>2 DEF MemberLease
  <2> QED BY <1>2, <2>1, <2>3, <2>4, <2>5
<1>3. CASE r.kind = "list"
  <2>1. PICK y \in MemberLease : /\ y = List(e, r) /\ y.lease = e.lease /\ y.done = e.done
          /\ y.pend = e.pend /\ y.pos = e.pos /\ y.version = e.version /\ y.sKnown = e.sKnown
          /\ y.sStored = e.sStored /\ y.loaded = e.loaded /\ y.cursor = e.cursor /\ y.bound = e.bound
          /\ y.decided = e.decided /\ y.won = e.won
    <3>1. PICK h \in SUBSET Auths : h = e.holds \cup (r.holds \ e.decided)
      BY <1>1 DEF MemberLease
    <3>2. PICK o \in SUBSET Auths : o = e.put \cup (r.holds \ e.decided)
      BY <1>1 DEF MemberLease
    <3>3. List(e, r) = [e EXCEPT !.holds = h, !.put = o, !.listed = TRUE]
      BY <3>1, <3>2 DEF List
    <3>4. PICK y \in MemberLease : y = [e EXCEPT !.holds = h, !.put = o, !.listed = TRUE]
      BY DEF MemberLease
    <3>5. /\ y.lease = e.lease /\ y.done = e.done
          /\ y.pend = e.pend /\ y.pos = e.pos /\ y.version = e.version /\ y.sKnown = e.sKnown
          /\ y.sStored = e.sStored /\ y.loaded = e.loaded /\ y.cursor = e.cursor /\ y.bound = e.bound
          /\ y.decided = e.decided /\ y.won = e.won
      BY <3>4 DEF MemberLease
    <3> QED BY <3>3, <3>4, <3>5
  <2>2. n = [y EXCEPT !.applied = r.seq, !.dirty = TRUE]
    BY <1>3, <2>1 DEF Applied
  <2>3. n \in MemberLease /\ n.applied = r.seq /\ n.dirty
    BY <1>1, <2>2 DEF MemberLease
  <2>4. /\ n.lease = y.lease /\ n.done = y.done /\ n.pend = y.pend /\ n.pos = y.pos
        /\ n.version = y.version /\ n.sKnown = y.sKnown /\ n.sStored = y.sStored
        /\ n.loaded = y.loaded /\ n.cursor = y.cursor
    BY <2>2 DEF MemberLease
  <2>5. n.bound = y.bound /\ n.decided = y.decided /\ n.won = y.won
    BY <2>2 DEF MemberLease
  <2> QED BY <1>3, <2>1, <2>3, <2>4, <2>5
<1>4. CASE r.kind = "terminal"
  <2> DEFINE w == Winner(r.auth, "owner", r.seq)
  <2>1. w \in WinnerRow /\ w.auth = r.auth
    BY <1>1 DEF Winner, WinnerRow
  <2> HIDE DEF w
  <2>2. PICK y \in MemberLease : /\ y = Decide(e, w) /\ y.lease = e.lease /\ y.done = e.done
          /\ y.pend = e.pend /\ y.pos = e.pos /\ y.version = e.version /\ y.sKnown = e.sKnown
          /\ y.sStored = e.sStored /\ y.loaded = e.loaded /\ y.cursor = e.cursor /\ y.bound = e.bound
          /\ IF r.auth \notin e.decided
             THEN y.decided = e.decided \cup {r.auth} /\ y.won = e.won \cup {w}
             ELSE y.decided = e.decided /\ y.won = e.won
    <3>1. CASE r.auth \in e.decided
      BY <2>1, <3>1 DEF Decide
    <3>2. CASE r.auth \notin e.decided
      <4>1. PICK h \in SUBSET Auths : h = e.holds \ {w.auth}
        BY DEF MemberLease
      <4>2. PICK o \in SUBSET Auths : o = e.put \ {w.auth}
        BY DEF MemberLease
      <4>3. PICK d \in SUBSET Auths : d = e.decided \cup {w.auth}
        BY <1>1, <2>1 DEF MemberLease
      <4>4. PICK v \in SUBSET WinnerRow : v = e.won \cup {w}
        BY <2>1 DEF MemberLease
      <4>5. Decide(e, w) = [e EXCEPT !.decided = d, !.won = v, !.dirty = TRUE, !.holds = h, !.put = o]
        BY <2>1, <3>2, <4>1, <4>2, <4>3, <4>4 DEF Decide
      <4>6. PICK y \in MemberLease : y = [e EXCEPT !.decided = d, !.won = v, !.dirty = TRUE, !.holds = h, !.put = o]
        BY DEF MemberLease
      <4>7. /\ y.lease = e.lease /\ y.done = e.done
            /\ y.pend = e.pend /\ y.pos = e.pos /\ y.version = e.version /\ y.sKnown = e.sKnown
            /\ y.sStored = e.sStored /\ y.loaded = e.loaded /\ y.cursor = e.cursor /\ y.bound = e.bound
            /\ y.decided = d /\ y.won = v
        BY <4>6 DEF MemberLease
      <4> QED BY <2>1, <3>2, <4>3, <4>4, <4>5, <4>6, <4>7
    <3> QED BY <3>1, <3>2
  <2>3. n = [y EXCEPT !.applied = r.seq, !.dirty = TRUE]
    BY <1>4, <2>2 DEF Applied, w
  <2>4. n \in MemberLease /\ n.applied = r.seq /\ n.dirty
    BY <1>1, <2>3 DEF MemberLease
  <2>5. /\ n.lease = y.lease /\ n.done = y.done /\ n.pend = y.pend /\ n.pos = y.pos
        /\ n.version = y.version /\ n.sKnown = y.sKnown /\ n.sStored = y.sStored
        /\ n.loaded = y.loaded /\ n.cursor = y.cursor
    BY <2>3 DEF MemberLease
  <2>6. n.bound = y.bound /\ n.decided = y.decided /\ n.won = y.won
    BY <2>3 DEF MemberLease
  <2> QED BY <1>4, <2>2, <2>4, <2>5, <2>6 DEF w
<1> QED BY <1>1, <1>2, <1>3, <1>4

\* The record after those applied, before any S is known: its authorization
\* has no winner yet, and the progress still reaches every terminal.
LEMMA AppliedRight ==
  ASSUME Inv, NEW e \in MemberLease, MemberRight(e, row, topic, drain, acked, clock), ~e.sKnown,
         NEW p \in RecordsIn(topic), topic[p].seq = e.applied + 1, NEW n, n = Applied(e, topic[p])
  PROVE  n \in MemberLease /\ MemberRight(n, row, topic, drain, acked, clock)
<1> DEFINE r == topic[p]
<1>1. /\ topic \in Seq(OwnerRecord \cup TickRecord) /\ IsRow(row)
      /\ Numbered(topic) /\ OneTerminal(topic)
  BY DEF Inv, Types, TopicRight
<1>2. r \in OwnerRecord /\ r.seq \in Nat /\ \A q \in RecordsIn(topic) : topic[q].seq \in Nat /\ q \in Nat
  BY <1>1, RecordsOf
<1>3. e.applied \in Nat /\ row.applied \in Nat /\ r.seq = e.applied + 1
  BY <1>1 DEF MemberLease, IsRow
<1> HIDE DEF r
<1>4. /\ n \in MemberLease /\ n.lease = e.lease /\ n.done = e.done /\ n.pend = e.pend
      /\ n.pos = e.pos /\ n.version = e.version /\ n.applied = r.seq /\ n.sKnown = e.sKnown
      /\ n.sStored = e.sStored /\ n.loaded = e.loaded /\ n.cursor = e.cursor /\ n.dirty
      /\ n.bound = e.bound
      /\ IF r.kind = "terminal" /\ r.auth \notin e.decided
         THEN /\ n.decided = e.decided \cup {r.auth}
              /\ n.won = e.won \cup {Winner(r.auth, "owner", r.seq)}
         ELSE n.decided = e.decided /\ n.won = e.won
  BY <1>2, AppliedLease DEF r
<1>5. Sane(e, row, topic, drain, acked, clock)
  BY DEF MemberRight
<1>6. GivenInOrder(n, topic, acked)
  <2>1. \A q \in e.pend : q \in RecordsIn(topic) /\ q <= e.pos => topic[q].seq <= r.seq
    BY <1>2, <1>3, <1>5 DEF Sane, GivenInOrder
  <2> QED BY <1>4, <1>5, <2>1 DEF Sane, GivenInOrder
<1>7. Sane(n, row, topic, drain, acked, clock)
  BY <1>4, <1>5, <1>6 DEF Sane
<1>8. ASSUME n.lease, n.version = row.version
      PROVE  Current(n, row, topic, drain)
  <2>1. Current(e, row, topic, drain)
    BY <1>4, <1>8 DEF MemberRight
  <2>2. row.boundary = None /\ ~n.bound
    BY <1>4, <1>5, <2>1 DEF Current, Sane
  <2>3. \A w \in row.winners \cup e.won :
           \E q \in TerminalsIn(topic) : topic[q].auth = w.auth /\ topic[q].seq = w.at /\ topic[q].seq <= e.applied
    <3>1. ASSUME NEW w \in row.winners
          PROVE  /\ w.from = "owner" /\ WinsRight(topic, drain, w, row.applied)
      BY <1>1, <2>2 DEF Inv, RowRight, IsRow, WinnerRow
    <3>2. ASSUME NEW w \in e.won
          PROVE  /\ w.from = "owner" /\ WinsRight(topic, drain, w, e.applied)
      BY <2>1, <2>2 DEF Current, MemberLease, WinnerRow
    <3>3. row.applied <= e.applied
      BY <2>1 DEF Current
    <3>4. \A q \in TerminalsIn(topic) : topic[q].seq <= row.applied => topic[q].seq <= e.applied
      BY <1>2, <1>3, <3>3 DEF TerminalsIn
    <3> QED BY <3>1, <3>2, <3>4 DEF WinsRight
  <2>4. r.kind = "terminal" => r.auth \notin e.decided
    <3>1. SUFFICES ASSUME r.kind = "terminal", r.auth \in e.decided PROVE FALSE
      OBVIOUS
    <3>2. PICK w \in row.winners \cup e.won : w.auth = r.auth
      BY <2>1, <3>1 DEF Current, AuthsOf
    <3>3. PICK q \in TerminalsIn(topic) : topic[q].auth = r.auth /\ topic[q].seq <= e.applied
      BY <2>3, <3>2
    <3>4. p \in TerminalsIn(topic)
      BY <3>1 DEF TerminalsIn, r
    <3>5. q = p
      BY <1>1, <3>3, <3>4 DEF OneTerminal, r
    <3> QED BY <1>3, <3>3, <3>5 DEF r
  <2>5. /\ n.decided = e.decided \cup (IF r.kind = "terminal" THEN {r.auth} ELSE {})
        /\ n.won = e.won \cup (IF r.kind = "terminal" THEN {Winner(r.auth, "owner", r.seq)} ELSE {})
    BY <1>4, <2>4
  <2>6. Reaches(topic, row.winners \cup n.won, r.seq)
    <3>1. SUFFICES ASSUME NEW q \in TerminalsIn(topic), topic[q].seq <= r.seq
                   PROVE  Winner(topic[q].auth, "owner", topic[q].seq) \in row.winners \cup n.won
      BY DEF Reaches
    <3>2. CASE topic[q].seq <= e.applied
      <4>1. Winner(topic[q].auth, "owner", topic[q].seq) \in row.winners \cup e.won
        BY <2>1, <3>2 DEF Current, Reaches
      <4> QED BY <2>5, <4>1
    <3>3. CASE ~(topic[q].seq <= e.applied)
      <4>1. q \in RecordsIn(topic) /\ topic[q].seq = r.seq
        BY <1>2, <1>3, <3>1, <3>3 DEF TerminalsIn
      <4>2. q = p
        BY <1>1, <1>2, <4>1 DEF Numbered, r
      <4>3. r.kind = "terminal" /\ topic[q] = r
        BY <4>2 DEF TerminalsIn, r
      <4> QED BY <2>5, <4>3
    <3> QED BY <3>2, <3>3
  <2>7. \A w \in n.won : WinsRight(topic, drain, w, r.seq) /\ w.from = "owner"
    <3>1. SUFFICES ASSUME NEW w \in n.won PROVE WinsRight(topic, drain, w, r.seq) /\ w.from = "owner"
      OBVIOUS
    <3>2. CASE w \in e.won
      <4>1. w.from = "owner"
        BY <2>1, <2>2, <3>2 DEF Current, MemberLease, WinnerRow
      <4>2. PICK q \in TerminalsIn(topic) : topic[q].auth = w.auth /\ topic[q].seq = w.at /\ topic[q].seq <= e.applied
        BY <2>3, <3>2
      <4>3. topic[q].seq <= r.seq
        BY <1>2, <1>3, <4>2 DEF TerminalsIn
      <4> QED BY <4>1, <4>2, <4>3 DEF WinsRight
    <3>3. CASE r.kind = "terminal" /\ w = Winner(r.auth, "owner", r.seq)
      <4>1. w.from = "owner" /\ w.auth = r.auth /\ w.at = r.seq
        BY <3>3 DEF Winner
      <4>2. p \in TerminalsIn(topic) /\ topic[p] = r
        BY <3>3 DEF TerminalsIn, r
      <4> QED BY <1>2, <4>1, <4>2 DEF WinsRight
    <3> QED BY <2>5, <3>2, <3>3
  <2>8. AuthsOf(n.won) \subseteq n.decided /\ n.decided \subseteq AuthsOf(row.winners \cup n.won)
    <3>1. AuthsOf(e.won) \subseteq e.decided /\ e.decided \subseteq AuthsOf(row.winners \cup e.won)
      BY <2>1 DEF Current
    <3>2. r.kind = "terminal" => AuthsOf({Winner(r.auth, "owner", r.seq)}) = {r.auth}
      BY DEF AuthsOf, Winner
    <3> DEFINE W == IF r.kind = "terminal" THEN {Winner(r.auth, "owner", r.seq)} ELSE {}
               A == IF r.kind = "terminal" THEN {r.auth} ELSE {}
    <3>3. AuthsOf(W) = A
      BY <3>2 DEF AuthsOf
    <3>4. n.decided = e.decided \cup A /\ n.won = e.won \cup W
      BY <2>5
    <3> HIDE DEF A, W
    <3> QED BY <3>1, <3>3, <3>4 DEF AuthsOf
  <2>9. row.applied <= r.seq /\ r.seq <= Number(topic)
    <3>1. row.applied <= e.applied
      BY <2>1 DEF Current
    <3> QED BY <1>1, <1>2, <1>3, <3>1, RecordsOf DEF Numbered, r
  <2>10. \A i \in 1 .. n.cursor : drain[i].auth \in n.decided
    BY <1>4, <2>1, <2>5 DEF Current
  <2>11. n.loaded => AuthsOf(row.winners) \subseteq n.decided
    BY <1>4, <2>1, <2>5 DEF Current
  <2> QED BY <1>4, <2>2, <2>6, <2>7, <2>8, <2>9, <2>10, <2>11 DEF Current
<1> QED BY <1>4, <1>7, <1>8 DEF MemberRight

\* A tick past the fence: all that was published in time is before it, and so
\* applied by a member that is not stale.
LEMMA TickedRight ==
  ASSUME Inv, NEW m \in Members, NEW p, GivenNext(mem[m], p), mem[m].lease, p \notin RecordsIn(topic),
         NEW n, n = Ticked(mem[m], topic[p])
  PROVE  /\ n \in MemberLease /\ MemberRight(n, row, topic, drain, acked, clock)
         /\ n.pend = mem[m].pend /\ n.pos = mem[m].pos
<1> DEFINE l == mem[m]
           r == topic[p]
<1>1. /\ topic \in Seq(OwnerRecord \cup TickRecord) /\ l \in MemberLease
      /\ MemberRight(l, row, topic, drain, acked, clock) /\ Sane(l, row, topic, drain, acked, clock)
  BY AtHand DEF MemberRight
<1>2. p \in 1 .. Len(topic) /\ r.kind = "tick" /\ r \in TickRecord
  BY <1>1, RecordsOf DEF GivenNext, TickRecord
<1>3. CASE r.fence /\ ~l.sKnown
  <2>1. n = [l EXCEPT !.draining = TRUE, !.sKnown = TRUE, !.bound = TRUE, !.dirty = TRUE]
    BY <1>3 DEF Ticked
  <2>2. /\ n \in MemberLease /\ n.lease = l.lease /\ n.done = l.done /\ n.pend = l.pend
        /\ n.pos = l.pos /\ n.version = l.version /\ n.applied = l.applied /\ n.sKnown
        /\ n.sStored = l.sStored /\ n.decided = l.decided /\ n.loaded = l.loaded
        /\ n.cursor = l.cursor /\ n.won = l.won /\ n.dirty /\ n.bound
    BY <1>1, <2>1 DEF MemberLease
  <2>3. clock > 0 /\ \A q \in RecordsIn(topic) : topic[q].intime => q < p
    BY <1>2, <1>3 DEF Inv, TopicRight, Fenced
  <2> HIDE DEF l, r
  <2>4. Sane(n, row, topic, drain, acked, clock)
    BY <1>1, <2>2, <2>3 DEF Sane, GivenInOrder
  <2>5. ASSUME n.lease, n.version = row.version
        PROVE  Current(n, row, topic, drain)
    <3>1. Current(l, row, topic, drain)
      BY <1>1, <2>2, <2>5 DEF MemberRight
    <3>2. \A q \in RecordsIn(topic) : q < p => topic[q].seq <= l.applied
      BY <1>3, <2>2, <2>5, AllBefore DEF l
    <3>3. InTime(topic, l.applied)
      BY <2>3, <3>2 DEF InTime
    <3> QED BY <2>2, <3>1, <3>3 DEF Current
  <2> QED BY <2>2, <2>4, <2>5 DEF MemberRight, l
<1>4. CASE ~(r.fence /\ ~l.sKnown)
  <2>1. n = [l EXCEPT !.draining = TRUE]
    BY <1>4 DEF Ticked
  <2>2. /\ n \in MemberLease /\ n.lease = l.lease /\ n.done = l.done /\ n.pend = l.pend
        /\ n.pos = l.pos /\ n.version = l.version /\ n.applied = l.applied /\ n.sKnown = l.sKnown
        /\ n.sStored = l.sStored /\ n.decided = l.decided /\ n.loaded = l.loaded
        /\ n.cursor = l.cursor /\ n.won = l.won /\ n.dirty = l.dirty /\ n.bound = l.bound
    BY <1>1, <2>1 DEF MemberLease
  <2> HIDE DEF l, r
  <2>3. Sane(n, row, topic, drain, acked, clock)
    BY <1>1, <2>2 DEF Sane, GivenInOrder
  <2>4. n.lease /\ n.version = row.version => Current(n, row, topic, drain)
    BY <1>1, <2>2 DEF MemberRight, Current
  <2> QED BY <2>2, <2>3, <2>4 DEF MemberRight, l
<1> QED BY <1>3, <1>4

LEMMA ApplyStep ==
  ASSUME Inv, NEW m \in Members, Apply(m)
  PROVE  Inv'
<1> DEFINE l == mem[m]
           p == Min(Coming(l))
           r == topic[p]
           read == IF Behind(l, r) /\ IsOwners(r) THEN WithWinners(l) ELSE l
           after == IF Skips(l, r) THEN l ELSE IF IsOwners(r) THEN Applied(read, r) ELSE Ticked(l, r)
<1>1. /\ l.lease /\ Coming(l) # {} /\ ~IsGap(l, r) /\ UNCHANGED <<topic, clock, row, drain>>
      /\ IF Behind(l, r) /\ Over
         THEN mem' = [mem EXCEPT ![m] = Finished] /\ acked' = Max(l.pend \cup {p, acked})
         ELSE mem' = [mem EXCEPT ![m] = [after EXCEPT !.pos = p, !.pend = @ \cup {p}]] /\ acked' = acked
  BY DEF Apply, Acked
<1>2. GivenNext(l, p)
  BY <1>1, ComingNext
<1>3. /\ topic \in Seq(OwnerRecord \cup TickRecord) /\ l \in MemberLease /\ IsRow(row)
      /\ MemberRight(l, row, topic, drain, acked, clock) /\ InOrder(l.pend, topic, acked)
  BY AtHand
<1> HIDE DEF p
<1>4. p \in 1 .. Len(topic) /\ (p \in RecordsIn(topic) <=> IsOwners(r))
  BY <1>2 DEF GivenNext, RecordsIn
<1>5. CASE Behind(l, r) /\ Over
  <2>1. l.pend \cup {p, acked} = (l.pend \cup {p}) \cup {acked} /\ l.pend \cup {p} \subseteq 1 .. Len(topic)
    BY <1>3, <1>4 DEF InOrder
  <2>2. mem' = [mem EXCEPT ![m] = Finished] /\ acked' = Max((l.pend \cup {p}) \cup {acked})
    BY <1>1, <1>5, <2>1
  <2> HIDE DEF l, r
  <2> QED BY <1>1, <1>5, <2>1, <2>2, RowOver, FinishedStep
<1>6. CASE ~(Behind(l, r) /\ Over)
  <2>1. mem' = [mem EXCEPT ![m] = [after EXCEPT !.pos = p, !.pend = @ \cup {p}]] /\ acked' = acked
    BY <1>1, <1>6
  <2> HIDE DEF after
  <2>2. /\ after \in MemberLease /\ after.pend = l.pend /\ after.pos = l.pos
        /\ MemberRight(after, row, topic, drain, acked, clock)
        /\ (p \in RecordsIn(topic) => topic[p].seq <= after.applied \/ after.sKnown)
    <3>1. CASE Skips(l, r)
      <4>1. after = l
        BY <3>1 DEF after
      <4> QED BY <1>3, <3>1, <4>1 DEF Skips
    <3>2. CASE ~Skips(l, r) /\ IsOwners(r)
      <4>1. after = Applied(read, r)
        BY <3>2 DEF after
      <4>2. /\ read \in MemberLease /\ read.applied = l.applied /\ read.sKnown = l.sKnown
            /\ read.pend = l.pend /\ read.pos = l.pos
            /\ MemberRight(read, row, topic, drain, acked, clock)
        <5>1. CASE Behind(l, r) /\ IsOwners(r)
          <6>1. read = WithWinners(l)
            BY <5>1
          <6> HIDE DEF read, l
          <6> QED BY <6>1, <1>3, WithWinnersLease, WithWinnersRight
        <5>2. CASE ~(Behind(l, r) /\ IsOwners(r))
          <6>1. read = l
            BY <5>2
          <6> HIDE DEF read
          <6> QED BY <6>1, <1>3
        <5> QED BY <5>1, <5>2
      <4> HIDE DEF read
      <4>3. p \in RecordsIn(topic) /\ ~l.sKnown /\ r.seq = l.applied + 1
        <5>1. l.applied \in Nat /\ (p \in RecordsIn(topic) => r.seq \in Nat)
          BY <1>3, RecordsOf DEF MemberLease
        <5> QED BY <5>1, <1>1, <1>4, <3>2 DEF IsGap, Skips
      <4>4. after \in MemberLease /\ MemberRight(after, row, topic, drain, acked, clock)
        BY <4>1, <4>2, <4>3, AppliedRight
      <4>5. r \in OwnerRecord /\ r.seq \in Nat
        BY <1>3, <4>3, RecordsOf
      <4>6. after.pend = read.pend /\ after.pos = read.pos /\ after.applied = r.seq
        BY <4>1, <4>2, <4>5, AppliedLease
      <4> QED BY <4>2, <4>4, <4>5, <4>6
    <3>3. CASE ~Skips(l, r) /\ ~IsOwners(r)
      <4>1. after = Ticked(l, r) /\ p \notin RecordsIn(topic)
        BY <3>3, <1>4 DEF after
      <4> QED BY <4>1, <1>1, <1>2, TickedRight
    <3> QED BY <3>1, <3>2, <3>3
  <2> HIDE DEF l, r
  <2> QED BY <1>1, <1>2, <2>1, <2>2, PositionedStep DEF l
<1> QED BY <1>5, <1>6

-----------------------------------------------------------------------------
(* A commit.                                                                *)

\* The row after one.
LEMMA CommittedRow ==
  ASSUME IsRow(row), NEW l \in MemberLease, row.boundary \in {None, l.applied}, CommitRow(l)
  PROVE  /\ IsRow(row') /\ row'.version = row.version + 1 /\ row'.applied = l.applied
         /\ row'.state = row.state /\ row'.winners = row.winners \cup l.won
         /\ row'.consumed = row.consumed + MapThenSumSet(ChargeOf, l.won)
         /\ (row'.boundary # None <=> row.boundary # None \/ l.bound)
<1>1. /\ row = [state |-> row.state, version |-> row.version, applied |-> row.applied,
                boundary |-> row.boundary, gap |-> row.gap, winners |-> row.winners,
                consumed |-> row.consumed, holds |-> row.holds, listed |-> row.listed]
      /\ row.state \in {"open", "draining", "closed"} /\ row.version \in Nat /\ row.applied \in Nat
      /\ row.boundary \in {None, row.applied} /\ row.gap = FALSE
      /\ row.winners \in SUBSET WinnerRow /\ row.holds \in SUBSET Auths /\ row.listed \in BOOLEAN
  BY DEF IsRow
<1>2. l.applied \in Nat /\ l.won \in SUBSET WinnerRow /\ l.put \in SUBSET Auths /\ l.listed \in BOOLEAN
  BY DEF MemberLease
<1>3. PICK b : /\ b = IF row.boundary = None /\ l.bound THEN l.applied ELSE row.boundary
               /\ b \in {None, l.applied} /\ (b # None <=> row.boundary # None \/ l.bound)
  <2>1. l.applied # None
    BY <1>2 DEF None
  <2> QED BY <2>1
<1>4. PICK h \in SUBSET Auths : h = (row.holds \cup l.put) \ {w.auth : w \in l.won}
  BY <1>1, <1>2
<1>5. PICK s \in BOOLEAN : s = (row.listed \/ l.listed)
  BY <1>1, <1>2
<1>6. PICK c : c = row.consumed + MapThenSumSet(ChargeOf, l.won)
  OBVIOUS
<1>7. PICK v \in SUBSET WinnerRow : v = row.winners \cup l.won
  BY <1>1, <1>2
<1>8. row' = [row EXCEPT !.version = row.version + 1, !.applied = l.applied, !.boundary = b,
                         !.winners = v, !.consumed = c, !.holds = h, !.listed = s]
  BY <1>3, <1>4, <1>5, <1>6, <1>7 DEF CommitRow
<1>9. row' = [state |-> row.state, version |-> row.version + 1, applied |-> l.applied,
              boundary |-> b, gap |-> row.gap, winners |-> v,
              consumed |-> c, holds |-> h, listed |-> s]
  BY <1>1, <1>8
<1>10. /\ row'.state = row.state /\ row'.version = row.version + 1 /\ row'.applied = l.applied
       /\ row'.boundary = b /\ row'.gap = row.gap /\ row'.winners = v
       /\ row'.consumed = c /\ row'.holds = h /\ row'.listed = s
  BY <1>9
<1>11. IsRow(row')
  BY <1>1, <1>2, <1>3, <1>9, <1>10 DEF IsRow
<1> QED BY <1>3, <1>6, <1>7, <1>10, <1>11

\* A commit that is taken is of a member that is not stale, so what it applied
\* follows what is stored.
LEMMA CommitTaken ==
  ASSUME Inv, NEW m \in Members, ~Busy(mem[m]), Takes(mem[m]), CommitRow(mem[m])
  PROVE  /\ IsRow(row') /\ Overtakes(row, row') /\ RowRight(row', topic, drain, clock)
         /\ row'.version = row.version + 1 /\ row'.applied = mem[m].applied
         /\ row'.winners = row.winners \cup mem[m].won
         /\ (row'.boundary # None <=> row.boundary # None \/ mem[m].bound)
         /\ Current(mem[m], row, topic, drain) /\ Durable(row', topic, acked)
<1> DEFINE l == mem[m]
<1>1. /\ IsRow(row) /\ l \in MemberLease /\ topic \in Seq(OwnerRecord \cup TickRecord)
      /\ MemberRight(l, row, topic, drain, acked, clock) /\ RowRight(row, topic, drain, clock)
  BY AtHand DEF Inv
<1>2. /\ l.lease /\ l.version = row.version /\ row.state # "closed"
      /\ row.boundary \in {None, l.applied}
  BY DEF Busy, Takes
<1>3. Current(l, row, topic, drain) /\ (l.bound => clock > 0)
  BY <1>1, <1>2 DEF MemberRight, Sane
<1>4. /\ IsRow(row') /\ row'.version = row.version + 1 /\ row'.applied = l.applied
      /\ row'.state = row.state /\ row'.winners = row.winners \cup l.won
      /\ (row'.boundary # None <=> row.boundary # None \/ l.bound)
  BY <1>1, <1>2, CommittedRow
<1>5. /\ row.applied \in Nat /\ l.applied \in Nat /\ row.applied <= l.applied
      /\ (row.boundary # None => row.applied = l.applied)
      /\ \A q \in RecordsIn(topic) : topic[q].seq \in Nat
  <2>1. row.boundary \in {None, row.applied}
    BY <1>1 DEF IsRow
  <2>2. row.applied \in Nat /\ l.applied \in Nat /\ row.applied <= l.applied
    BY <1>1, <1>3 DEF IsRow, MemberLease, Current
  <2> QED BY <1>1, <1>2, <2>1, <2>2, RecordsOf
<1> HIDE DEF l
<1>6. Overtakes(row, row')
  BY <1>2, <1>4, <1>5 DEF Overtakes
<1>7. \A w \in row.winners \cup l.won :
        WinsRight(topic, drain, w, l.applied) /\ (w.from = "drain" => row.boundary # None)
  <2>1. ASSUME NEW w \in row.winners
        PROVE  WinsRight(topic, drain, w, l.applied) /\ (w.from = "drain" => row.boundary # None)
    <3>1. WinsRight(topic, drain, w, row.applied) /\ (w.from = "drain" => row.boundary # None)
      BY <1>1 DEF RowRight
    <3>2. \A q \in TerminalsIn(topic) : topic[q].seq <= row.applied => topic[q].seq <= l.applied
      BY <1>5 DEF TerminalsIn
    <3>3. w.from = "drain" => row.applied = l.applied
      BY <1>5, <3>1
    <3> QED BY <3>1, <3>2, <3>3 DEF WinsRight
  <2>2. ASSUME NEW w \in l.won
        PROVE  WinsRight(topic, drain, w, l.applied) /\ (w.from = "drain" => row.boundary # None)
    BY <1>3 DEF Current
  <2> QED BY <2>1, <2>2
<1>8. row'.boundary # None => clock > 0 /\ InTime(topic, l.applied)
  BY <1>1, <1>3, <1>4, <1>5 DEF RowRight, Current
<1>9. RowRight(row', topic, drain, clock)
  BY <1>2, <1>3, <1>4, <1>7, <1>8 DEF RowRight, Current
<1>10. Durable(row', topic, acked)
  <2>1. Durable(row, topic, acked)
    BY DEF Inv
  <2> QED BY <2>1, <1>2, <1>4, <1>5 DEF Durable
<1> QED BY <1>3, <1>4, <1>6, <1>9, <1>10 DEF l

LEMMA CommitStep ==
  ASSUME Inv, NEW m \in Members, Commit(m)
  PROVE  Inv'
<1> DEFINE l == mem[m]
<1>1. CASE ~Takes(l)
  BY <1>1, DroppedStep DEF Commit
<1>2. CASE Takes(l)
  <2> DEFINE n == [Committed(l) EXCEPT !.pend = {}, !.pos = 0]
             k == Max(l.pend \cup {acked})
  <2>1. /\ ~Busy(l) /\ l.dirty /\ CommitRow(l) /\ mem' = [mem EXCEPT ![m] = n] /\ acked' = k
        /\ UNCHANGED <<topic, clock, drain>>
    BY <1>2 DEF Commit, AckAll
  <2>2. /\ IsRow(row') /\ Overtakes(row, row') /\ RowRight(row', topic, drain, clock)
        /\ row'.version = row.version + 1 /\ row'.applied = l.applied
        /\ row'.winners = row.winners \cup l.won
        /\ (row'.boundary # None <=> row.boundary # None \/ l.bound)
        /\ Current(l, row, topic, drain) /\ Durable(row', topic, acked)
    BY <1>2, <2>1, CommitTaken
  <2>3. l \in MemberLease /\ Sane(l, row, topic, drain, acked, clock) /\ l.lease /\ IsRow(row)
    BY AtHand, <2>1 DEF MemberRight, Busy
  <2>4. /\ n \in MemberLease /\ n.lease /\ n.done = l.done /\ n.pend = {} /\ n.pos = 0
        /\ n.version = row.version + 1 /\ n.applied = l.applied /\ n.sKnown = l.sKnown
        /\ (n.sStored <=> l.sStored \/ l.bound) /\ n.decided = l.decided /\ n.loaded = l.loaded
        /\ n.cursor = l.cursor /\ n.won = {} /\ ~n.dirty /\ ~n.bound
    <3>1. PICK d \in BOOLEAN : d = (l.draining \/ row.state # "open")
      BY <2>3 DEF MemberLease
    <3>2. PICK s \in BOOLEAN : s = (l.sStored \/ l.bound)
      BY <2>3 DEF MemberLease
    <3>3. row.version + 1 \in Nat
      BY <2>3 DEF IsRow
    <3>4. PICK y \in MemberLease :
            y = [l EXCEPT !.version = row.version + 1, !.draining = d, !.sStored = s, !.dirty = FALSE,
                          !.won = {}, !.put = {}, !.bound = FALSE]
      <4>1. PICK x \in MemberLease :
              x = [l EXCEPT !.version = row.version + 1, !.draining = d, !.sStored = s, !.dirty = FALSE]
        BY <2>3, <3>3 DEF MemberLease
      <4>2. PICK z \in MemberLease : z = [x EXCEPT !.won = {}, !.put = {}, !.bound = FALSE]
        BY DEF MemberLease
      <4>3. z = [l EXCEPT !.version = row.version + 1, !.draining = d, !.sStored = s, !.dirty = FALSE,
                          !.won = {}, !.put = {}, !.bound = FALSE]
        BY <4>1, <4>2
      <4> QED BY <4>2, <4>3
    <3>5. n = [y EXCEPT !.pend = {}, !.pos = 0]
      BY <3>1, <3>2, <3>4 DEF Committed
    <3>6. /\ y.lease = l.lease /\ y.done = l.done
          /\ y.version = row.version + 1 /\ y.applied = l.applied /\ y.sKnown = l.sKnown
          /\ y.sStored = s /\ y.decided = l.decided /\ y.loaded = l.loaded
          /\ y.cursor = l.cursor /\ y.won = {} /\ ~y.dirty /\ ~y.bound
      BY <2>3, <3>4 DEF MemberLease
    <3>7. /\ n \in MemberLease /\ n.lease = y.lease /\ n.done = y.done /\ n.pend = {} /\ n.pos = 0
          /\ n.version = y.version /\ n.applied = y.applied /\ n.sKnown = y.sKnown
          /\ n.sStored = y.sStored /\ n.decided = y.decided /\ n.loaded = y.loaded
          /\ n.cursor = y.cursor /\ n.won = y.won /\ n.dirty = y.dirty /\ n.bound = y.bound
      BY <3>5 DEF MemberLease
    <3> HIDE DEF n
    <3> QED BY <2>3, <3>2, <3>6, <3>7
  <2>5. k \in acked .. Len(topic) /\ Durable(row', topic, k)
    <3>1. l.applied <= row'.applied /\ (l.sKnown => row'.boundary # None)
      BY <2>2, <2>3 DEF Sane, MemberLease
    <3> QED BY <2>1, <2>2, <3>1, AllAcked
  <2> HIDE DEF n, k, l
  <2>6. GivenInOrder(n, topic, k)
    BY <2>4 DEF GivenInOrder, InOrder
  <2>7. row.version \in Nat /\ l.applied \in Nat
    BY <2>3 DEF IsRow, MemberLease
  <2>8. Sane(n, row', topic, drain, k, clock)
    BY <2>2, <2>3, <2>4, <2>6, <2>7 DEF Sane, Overtakes
  <2>9. Current(n, row', topic, drain)
    <3>1. row'.winners \cup n.won = row.winners \cup l.won
      BY <2>2, <2>4
    <3>2. AuthsOf(n.won) = {} /\ AuthsOf(row.winners \cup l.won) = AuthsOf(row.winners) \cup AuthsOf(l.won)
      BY <2>4 DEF AuthsOf
    <3>3. row'.boundary # None => l.sKnown
      BY <2>2, <2>3 DEF Current, Sane
    <3>4. /\ l.applied <= Number(topic) /\ AuthsOf(l.won) \subseteq l.decided
          /\ l.decided \subseteq AuthsOf(row.winners \cup l.won)
          /\ (l.loaded => AuthsOf(row.winners) \subseteq l.decided)
          /\ Reaches(topic, row.winners \cup l.won, l.applied)
          /\ \A i \in 1 .. l.cursor : drain[i].auth \in l.decided
      BY <2>2 DEF Current
    <3>5. /\ row'.applied <= n.applied /\ n.applied <= Number(topic) /\ (row'.boundary # None => n.sKnown)
          /\ \A i \in 1 .. n.cursor : drain[i].auth \in n.decided
      BY <2>2, <2>4, <2>7, <3>3, <3>4
    <3>6. n.loaded => AuthsOf(row'.winners) \subseteq n.decided
      BY <2>2, <2>4, <3>2, <3>4
    <3>7. /\ AuthsOf(n.won) \subseteq n.decided /\ n.decided \subseteq AuthsOf(row'.winners \cup n.won)
          /\ Reaches(topic, row'.winners \cup n.won, n.applied)
      BY <2>4, <3>1, <3>2, <3>4
    <3>8. ~n.bound /\ n.won = {}
      BY <2>4
    <3> QED BY <3>5, <3>6, <3>7, <3>8 DEF Current
  <2>10. MemberRight(n, row', topic, drain, k, clock)
    BY <2>8, <2>9 DEF MemberRight
  <2> QED BY <2>1, <2>2, <2>4, <2>5, <2>10, OvertakingStep
<1> QED BY <1>1, <1>2

LEMMA CommitUnknownStep ==
  ASSUME Inv, NEW m \in Members, CommitUnknown(m)
  PROVE  Inv'
<1> DEFINE l == mem[m]
<1>1. /\ IsRow(row') /\ Overtakes(row, row') /\ RowRight(row', topic, drain, clock)
      /\ Durable(row', topic, acked)
  BY CommitTaken DEF CommitUnknown
<1>2. /\ l \in MemberLease /\ InOrder(l.pend, topic, acked) /\ l.pend \in SUBSET Nat
      /\ topic \in Seq(OwnerRecord \cup TickRecord) /\ drain \in Seq(DrainRow)
      /\ acked \in acked .. Len(topic)
  BY AtHand DEF MemberLease
<1>3. IsFresh(Dropped(l), l.pend)
  BY <1>2, FreshLeases
<1>4. MemberRight(Dropped(l), row', topic, drain, acked, clock) /\ Dropped(l) \in MemberLease
  BY <1>1, <1>2, <1>3, FreshRight DEF IsFresh
<1> QED BY <1>1, <1>2, <1>4, OvertakingStep DEF CommitUnknown

-----------------------------------------------------------------------------
(* The drain log and the close.                                             *)

\* The first row of an authorization since position c, and of all if it has
\* none up to c.
LEMMA FirstSince ==
  ASSUME drain \in Seq(DrainRow), NEW c \in Nat, NEW a \in {drain[i].auth : i \in c + 1 .. Len(drain)}
  PROVE  /\ FirstRow(a, c + 1) \in Nat
         /\ (\A i \in 1 .. c : drain[i].auth # a) => IsFirst(drain, a, FirstRow(a, c + 1))
<1> DEFINE S == {i \in c + 1 .. Len(drain) : drain[i].auth = a}
<1>1. S \in SUBSET Nat /\ S # {} /\ Len(drain) \in Nat
  OBVIOUS
<1>2. Min(S) \in S /\ \A k \in S : Min(S) <= k
  BY <1>1, LeastOf
<1>3. FirstRow(a, c + 1) = Min(S)
  BY DEF FirstRow
<1>4. PICK f : f = Min(S)
  OBVIOUS
<1>5. f \in c + 1 .. Len(drain) /\ drain[f].auth = a /\ \A k \in S : f <= k
  BY <1>2, <1>4
<1>6. ASSUME \A i \in 1 .. c : drain[i].auth # a, NEW j \in 1 .. Len(drain), j < f
      PROVE  drain[j].auth # a
  <2>1. CASE j <= c
    BY <1>6, <2>1
  <2>2. CASE ~(j <= c)
    <3>1. j \in c + 1 .. Len(drain)
      BY <1>1, <2>2
    <3>2. drain[j].auth = a => j \in S
      BY <3>1
    <3> HIDE DEF S
    <3> QED BY <1>5, <1>6, <3>2
  <2> QED BY <2>1, <2>2
<1> HIDE DEF S
<1> QED BY <1>1, <1>3, <1>4, <1>5, <1>6 DEF IsFirst

LEMMA ReadRowsStep ==
  ASSUME Inv, NEW m \in Members, ReadRows(m)
  PROVE  Inv'
<1> DEFINE l == mem[m]
           fresh == {drain[i].auth : i \in l.cursor + 1 .. Len(drain)}
           new == fresh \ l.decided
           won == {Winner(a, "drain", FirstRow(a, l.cursor + 1)) : a \in new}
<1>1. /\ Draining(l) /\ l.loaded
      /\ mem' = [mem EXCEPT ![m] =
             [l EXCEPT !.cursor = Len(drain), !.won = @ \cup won, !.decided = @ \cup new,
                       !.holds = @ \ new, !.put = @ \ new, !.dirty = @ \/ new # {}]]
      /\ UNCHANGED <<topic, clock, row, drain, acked>>
  BY DEF ReadRows
<1>2. /\ drain \in Seq(DrainRow) /\ l \in MemberLease /\ IsRow(row)
      /\ Sane(l, row, topic, drain, acked, clock) /\ acked \in acked .. Len(topic)
      /\ topic \in Seq(OwnerRecord \cup TickRecord)
  BY AtHand DEF MemberRight
<1>3. Len(drain) \in Nat /\ l.cursor \in Nat /\ fresh \in SUBSET Auths /\ new \in SUBSET Auths
  <2>1. Len(drain) \in Nat /\ l.cursor \in Nat
    BY <1>2 DEF MemberLease
  <2>2. \A i \in l.cursor + 1 .. Len(drain) : drain[i] \in DrainRow
    BY <1>2, <2>1
  <2> QED BY <2>1, <2>2 DEF DrainRow
<1>4. won \in SUBSET WinnerRow
  <2>1. ASSUME NEW a \in new
        PROVE  Winner(a, "drain", FirstRow(a, l.cursor + 1)) \in WinnerRow
    <3>1. FirstRow(a, l.cursor + 1) \in Nat
      BY <1>2, <1>3, FirstSince
    <3> QED BY <1>3, <3>1 DEF Winner, WinnerRow
  <2> QED BY <2>1
<1>5. \A w \in won : w.from = "drain" /\ w.auth \in new /\ w.at = FirstRow(w.auth, l.cursor + 1)
  BY DEF Winner
<1>6. AuthsOf(won) = new
  <2>1. \A a \in new : Winner(a, "drain", FirstRow(a, l.cursor + 1)) \in won
    OBVIOUS
  <2>2. \A a : Winner(a, "drain", FirstRow(a, l.cursor + 1)).auth = a
    BY DEF Winner
  <2> HIDE DEF won, new
  <2> QED BY <1>5, <2>1, <2>2 DEF AuthsOf
<1>7. PICK n \in MemberLease :
        /\ mem' = [mem EXCEPT ![m] = n]
        /\ n.lease = l.lease /\ n.done = l.done /\ n.pend = l.pend
        /\ n.pos = l.pos /\ n.version = l.version /\ n.applied = l.applied /\ n.sKnown = l.sKnown
        /\ n.sStored = l.sStored /\ n.decided = l.decided \cup new /\ n.loaded = l.loaded
        /\ n.cursor = Len(drain) /\ n.won = l.won \cup won /\ (n.dirty <=> l.dirty \/ new # {})
        /\ n.bound = l.bound
  <2> HIDE DEF fresh, new, won
  <2>1. PICK h \in SUBSET Auths : h = l.holds \ new
    BY <1>2 DEF MemberLease
  <2>2. PICK o \in SUBSET Auths : o = l.put \ new
    BY <1>2 DEF MemberLease
  <2>3. PICK d \in SUBSET Auths : d = l.decided \cup new
    BY <1>2, <1>3 DEF MemberLease
  <2>4. PICK v \in SUBSET WinnerRow : v = l.won \cup won
    BY <1>2, <1>4 DEF MemberLease
  <2>5. PICK b \in BOOLEAN : b = (l.dirty \/ new # {})
    BY <1>2 DEF MemberLease
  <2>6. PICK x \in MemberLease : x = [l EXCEPT !.cursor = Len(drain), !.won = v, !.decided = d]
    BY <1>2, <1>3 DEF MemberLease
  <2>7. PICK n \in MemberLease : n = [x EXCEPT !.holds = h, !.put = o, !.dirty = b]
    BY DEF MemberLease
  <2>8. n = [l EXCEPT !.cursor = Len(drain), !.won = v, !.decided = d, !.holds = h, !.put = o, !.dirty = b]
    BY <2>6, <2>7
  <2>9. mem' = [mem EXCEPT ![m] = n]
    BY <1>1, <2>1, <2>2, <2>3, <2>4, <2>5, <2>8
  <2>10. /\ x.lease = l.lease /\ x.done = l.done /\ x.pend = l.pend
         /\ x.pos = l.pos /\ x.version = l.version /\ x.applied = l.applied /\ x.sKnown = l.sKnown
         /\ x.sStored = l.sStored /\ x.decided = d /\ x.loaded = l.loaded
         /\ x.cursor = Len(drain) /\ x.won = v /\ x.bound = l.bound
    BY <1>2, <2>6 DEF MemberLease
  <2>11. /\ n.lease = x.lease /\ n.done = x.done /\ n.pend = x.pend
         /\ n.pos = x.pos /\ n.version = x.version /\ n.applied = x.applied /\ n.sKnown = x.sKnown
         /\ n.sStored = x.sStored /\ n.decided = x.decided /\ n.loaded = x.loaded
         /\ n.cursor = x.cursor /\ n.won = x.won /\ n.bound = x.bound /\ n.dirty = b
    BY <2>7 DEF MemberLease
  <2> QED BY <2>3, <2>4, <2>5, <2>9, <2>10, <2>11
<1> HIDE DEF fresh, won
<1>8. l.lease /\ l.sKnown /\ row.boundary # None
  BY <1>1, <1>2 DEF Draining, Busy, Sane
<1>9. Sane(n, row, topic, drain, acked, clock)
  <2> HIDE DEF new, l
  <2> QED BY <1>2, <1>3, <1>7 DEF Sane, GivenInOrder
<1>10. ASSUME n.version = row.version
       PROVE  Current(n, row, topic, drain)
  <2>1. Current(l, row, topic, drain)
    BY <1>7, <1>8, <1>10, AtHand DEF MemberRight
  <2>2. AuthsOf(row.winners) \subseteq l.decided /\ AuthsOf(l.won) \subseteq l.decided
    BY <1>1, <2>1 DEF Current
  <2>3. ASSUME NEW w \in won
        PROVE  WinsRight(topic, drain, w, l.applied)
    <3>1. w.from = "drain" /\ w.auth \in fresh /\ w.auth \notin l.decided /\ w.at = FirstRow(w.auth, l.cursor + 1)
      BY <1>5
    <3>2. \A i \in 1 .. l.cursor : drain[i].auth # w.auth
      BY <2>1, <3>1 DEF Current
    <3>3. IsFirst(drain, w.auth, w.at)
      BY <1>2, <1>3, <3>1, <3>2, FirstSince DEF fresh
    <3>4. ASSUME NEW p \in TerminalsIn(topic), topic[p].auth = w.auth
          PROVE  topic[p].seq > l.applied
      <4>1. topic[p].seq \in Nat /\ l.applied \in Nat
        BY <1>2, RecordsOf DEF TerminalsIn, MemberLease
      <4>2. SUFFICES ASSUME topic[p].seq <= l.applied PROVE FALSE
        BY <4>1
      <4>3. Winner(w.auth, "owner", topic[p].seq) \in row.winners \cup l.won
        BY <2>1, <3>4, <4>2 DEF Current, Reaches
      <4>4. w.auth \in AuthsOf(row.winners) \cup AuthsOf(l.won)
        BY <4>3 DEF AuthsOf, Winner
      <4> QED BY <2>2, <3>1, <4>4
    <3> QED BY <3>1, <3>3, <3>4 DEF WinsRight
  <2>4. \A w \in n.won : WinsRight(topic, drain, w, n.applied) /\ (w.from = "drain" => row.boundary # None)
    BY <1>7, <1>8, <2>1, <2>3 DEF Current
  <2>5. \A i \in 1 .. n.cursor : drain[i].auth \in n.decided
    <3>1. SUFFICES ASSUME NEW i \in 1 .. Len(drain) PROVE drain[i].auth \in l.decided \cup fresh
      BY <1>7 DEF new
    <3>2. CASE i <= l.cursor
      <4>1. i \in 1 .. l.cursor
        BY <1>3, <3>2
      <4> QED BY <2>1, <4>1 DEF Current
    <3>3. CASE ~(i <= l.cursor)
      <4>1. i \in l.cursor + 1 .. Len(drain)
        BY <1>3, <3>3
      <4> QED BY <4>1 DEF fresh
    <3> QED BY <3>2, <3>3
  <2>6. Reaches(topic, row.winners \cup n.won, n.applied)
    BY <1>7, <2>1 DEF Current, Reaches
  <2>7. AuthsOf(n.won) = AuthsOf(l.won) \cup new
    <3> HIDE DEF new
    <3>1. AuthsOf(l.won \cup won) = AuthsOf(l.won) \cup AuthsOf(won)
      BY DEF AuthsOf
    <3> QED BY <1>6, <1>7, <3>1
  <2>8. AuthsOf(row.winners \cup n.won) = AuthsOf(row.winners \cup l.won) \cup new
    <3> HIDE DEF new
    <3>1. AuthsOf(row.winners \cup (l.won \cup won)) = AuthsOf(row.winners \cup l.won) \cup AuthsOf(won)
      BY DEF AuthsOf
    <3> QED BY <1>6, <1>7, <3>1
  <2> HIDE DEF new, l
  <2>9. /\ AuthsOf(n.won) \subseteq n.decided /\ n.decided \subseteq AuthsOf(row.winners \cup n.won)
        /\ AuthsOf(row.winners) \subseteq n.decided
    BY <1>7, <2>1, <2>2, <2>7, <2>8 DEF Current
  <2>10. /\ row.applied <= n.applied /\ n.applied <= Number(topic) /\ n.sKnown
         /\ (n.bound => InTime(topic, n.applied))
    BY <1>7, <1>8, <2>1 DEF Current
  <2> QED BY <2>4, <2>5, <2>6, <2>9, <2>10 DEF Current
<1>11. MemberRight(n, row, topic, drain, acked, clock) /\ Durable(row, topic, acked)
  BY <1>9, <1>10 DEF MemberRight, Inv
<1> QED BY <1>1, <1>2, <1>7, <1>11, MemberStep

LEMMA ReapStep ==
  ASSUME Inv, NEW m \in Members, NEW a \in Auths, Reap(m, a)
  PROVE  Inv'
<1>1. CASE row.version # mem[m].version \/ row.gap
  BY <1>1, DroppedStep DEF Reap
<1>2. CASE ~(row.version # mem[m].version \/ row.gap)
  <2>1. row.state = "draining" /\ drain' = Append(drain, [auth |-> a, from |-> "reap"])
    BY <1>2 DEF Reap, Reaps
  <2>2. [auth |-> a, from |-> "reap"] \in DrainRow
    BY DEF DrainRow
  <2> QED BY <1>2, <2>1, <2>2, RowAddedStep DEF Reap
<1> QED BY <1>1, <1>2

\* A lease that closes.
LEMMA ClosedRow ==
  ASSUME Inv, NEW m \in Members, Closes(mem[m]), CloseRow
  PROVE  /\ IsRow(row') /\ Overtakes(row, row') /\ RowRight(row', topic, drain, clock)
         /\ row'.state = "closed" /\ row'.winners = row.winners /\ row'.consumed = row.consumed
<1>1. /\ IsRow(row) /\ RowRight(row, topic, drain, clock)
      /\ row' = [row EXCEPT !.state = "closed", !.version = row.version + 1]
  BY DEF Inv, Types, CloseRow
<1>2. /\ row'.state = "closed" /\ row'.version = row.version + 1 /\ row'.applied = row.applied
      /\ row'.boundary = row.boundary /\ row'.winners = row.winners /\ row'.holds = row.holds
      /\ row'.consumed = row.consumed /\ IsRow(row')
  <2>1. row = [state |-> row.state, version |-> row.version, applied |-> row.applied,
               boundary |-> row.boundary, gap |-> row.gap, winners |-> row.winners,
               consumed |-> row.consumed, holds |-> row.holds, listed |-> row.listed]
    BY <1>1 DEF IsRow
  <2>2. row' = [state |-> "closed", version |-> row.version + 1, applied |-> row.applied,
                boundary |-> row.boundary, gap |-> row.gap, winners |-> row.winners,
                consumed |-> row.consumed, holds |-> row.holds, listed |-> row.listed]
    BY <1>1, <2>1
  <2>3. /\ row'.state = "closed" /\ row'.version = row.version + 1 /\ row'.applied = row.applied
        /\ row'.boundary = row.boundary /\ row'.gap = row.gap /\ row'.winners = row.winners
        /\ row'.consumed = row.consumed /\ row'.holds = row.holds /\ row'.listed = row.listed
    BY <2>2
  <2>4. row.version + 1 \in Nat
    BY <1>1 DEF IsRow
  <2> QED BY <1>1, <2>2, <2>3, <2>4 DEF IsRow
<1>3. row.applied \in Nat
  BY <1>1 DEF IsRow
<1>4. Overtakes(row, row')
  BY <1>2, <1>3 DEF Overtakes
<1>5. /\ row.boundary # None /\ row.holds = {}
      /\ \A i \in 1 .. Len(drain) : drain[i].auth \in AuthsOf(row.winners)
  BY DEF Closes, StoredAuths, AuthsOf
<1>6. RowRight(row', topic, drain, clock)
  BY <1>1, <1>2, <1>5 DEF RowRight
<1> QED BY <1>2, <1>4, <1>6

LEMMA CloseLeaseStep ==
  ASSUME Inv, NEW m \in Members, CloseLease(m)
  PROVE  Inv'
<1>1. CASE row.version # mem[m].version \/ Over
  BY <1>1, DroppedStep DEF CloseLease
<1>2. CASE ~(row.version # mem[m].version \/ Over)
  <2>1. /\ Closes(mem[m]) /\ CloseRow /\ mem' = [mem EXCEPT ![m] = Finished]
        /\ acked' = Max(mem[m].pend \cup {acked}) /\ UNCHANGED <<topic, clock, drain>>
    BY <1>2 DEF CloseLease, AckAll
  <2>2. /\ IsRow(row') /\ Overtakes(row, row') /\ RowRight(row', topic, drain, clock)
        /\ row'.state = "closed"
    BY <2>1, ClosedRow
  <2>3. acked' \in acked .. Len(topic)
    BY <2>1, AtHand, LastOf DEF InOrder
  <2>4. /\ Finished \in MemberLease /\ MemberRight(Finished, row', topic, drain, acked', clock)
        /\ Durable(row', topic, acked')
    BY <2>2, AtHand, FinishedRight
  <2> QED BY <2>1, <2>2, <2>3, <2>4, OvertakingStep
<1> QED BY <1>1, <1>2

LEMMA CloseUnknownStep ==
  ASSUME Inv, NEW m \in Members, CloseUnknown(m)
  PROVE  Inv'
<1> DEFINE l == mem[m]
<1>1. /\ IsRow(row') /\ Overtakes(row, row') /\ RowRight(row', topic, drain, clock)
      /\ row'.state = "closed"
  BY ClosedRow DEF CloseUnknown
<1>2. /\ l \in MemberLease /\ InOrder(l.pend, topic, acked) /\ l.pend \in SUBSET Nat
      /\ topic \in Seq(OwnerRecord \cup TickRecord) /\ drain \in Seq(DrainRow)
      /\ acked \in acked .. Len(topic)
  BY AtHand DEF MemberLease
<1>3. IsFresh(Dropped(l), l.pend)
  BY <1>2, FreshLeases
<1>4. MemberRight(Dropped(l), row', topic, drain, acked, clock) /\ Dropped(l) \in MemberLease
  BY <1>1, <1>2, <1>3, FreshRight DEF IsFresh
<1>5. Durable(row', topic, acked)
  BY <1>1 DEF Durable
<1> QED BY <1>1, <1>2, <1>4, <1>5, OvertakingStep DEF CloseUnknown

-----------------------------------------------------------------------------
(* Every behaviour.                                                         *)

LEMMA InitRight ==
  ASSUME Init
  PROVE  Inv
<1>1. /\ topic = <<>> /\ clock = 0 /\ drain = <<>> /\ acked = 0 /\ mem = [m \in Members |-> Unread]
      /\ Len(topic) = 0 /\ topic \in Seq(OwnerRecord \cup TickRecord) /\ drain \in Seq(DrainRow)
      /\ Len(drain) = 0
  BY DEF Init
<1>2. /\ row.state = "open" /\ row.version = 0 /\ row.applied = 0 /\ row.boundary = None
      /\ row.winners = {} /\ IsRow(row)
  BY DEF Init, IsRow
<1>3. RecordsIn(topic) = {} /\ TerminalsIn(topic) = {} /\ Number(topic) = 0
  <2>1. RecordsIn(topic) = {}
    BY <1>1 DEF RecordsIn
  <2> QED BY <2>1, FS_EmptySet DEF TerminalsIn, Number
<1>4. TopicRight(topic, clock)
  BY <1>1, <1>3 DEF TopicRight, Numbered, OneTerminal, Fenced
<1>5. RowRight(row, topic, drain, clock)
  BY <1>2, <1>3 DEF RowRight, Reaches
<1>6. Durable(row, topic, acked)
  BY <1>3 DEF Durable
<1>7. ASSUME NEW m \in Members
      PROVE  Unread \in MemberLease /\ MemberRight(Unread, row, topic, drain, acked, clock)
  <2>1. Unread \in MemberLease
    BY DEF Unread, MemberLease, WinnerRow
  <2>2. Unread.pend = {} /\ {} \in SUBSET Nat
    BY DEF Unread
  <2>3. IsFresh(Unread, {})
    BY <2>1, <2>2, FreshLeases
  <2>4. InOrder({}, topic, acked)
    BY DEF InOrder
  <2> QED BY <1>1, <1>2, <2>1, <2>3, <2>4, FreshRight
<1>8. mem \in [Members -> MemberLease]
  BY <1>1, <1>7
<1>9. \A m \in Members : MemberRight(mem[m], row, topic, drain, acked, clock)
  BY <1>1, <1>7
<1>10. Types
  BY <1>1, <1>2, <1>8 DEF Types
<1> QED BY <1>4, <1>5, <1>6, <1>9, <1>10 DEF Inv

LEMMA StepRight ==
  ASSUME Inv, [Next]_vars
  PROVE  Inv'
<1>1. CASE Owner \/ MarkDraining \/ Tick \/ TimePasses \/ \E a \in Auths : DoorAppends(a)
  BY <1>1, OwnerStep, MarkDrainingStep, TickStep, TimePassesStep, DoorAppendsStep
<1>2. ASSUME NEW m \in Members, Member(m)
      PROVE  Inv'
  <2>1. CASE LoadLease(m) \/ AckDone(m) \/ Apply(m) \/ AckClean(m)
    BY <2>1, LoadLeaseStep, AckDoneStep, ApplyStep, AckCleanStep
  <2>2. CASE Commit(m) \/ GapCommits(m) \/ StopAtGap(m)
    BY <2>2, CommitStep, AtGapStep
  <2>3. CASE Drain(m)
    BY <2>3, LearnWinnersStep, ReadRowsStep, SeeEndStep, CloseLeaseStep, ReapStep DEF Drain
  <2> QED BY <1>2, <2>1, <2>2, <2>3 DEF Member
<1>3. ASSUME NEW m \in Members, CommitUnknown(m) \/ CloseUnknown(m) \/ Crash(m)
      PROVE  Inv'
  BY <1>3, CommitUnknownStep, CloseUnknownStep, CrashStep
<1>4. CASE UNCHANGED vars
  BY <1>4 DEF vars, Inv, Types
<1> QED BY <1>1, <1>2, <1>3, <1>4 DEF Next

LEMMA InvCorrect == Spec => []Inv
<1>1. Init => Inv
  BY InitRight
<1>2. Inv /\ [Next]_vars => Inv'
  BY StepRight
<1> QED BY <1>1, <1>2, PTL DEF Spec

\* Progress stays within the records there are, S is the stored progress, and
\* no member is ahead of the row it read.
THEOREM TypeCorrect == Spec => []TypeOK
<1>1. Inv => TypeOK
  <2>1. SUFFICES ASSUME Inv PROVE TypeOK
    OBVIOUS
  <2>2. /\ row.applied \in 0 .. Published /\ row.boundary \in {None, row.applied}
        /\ row.state \in {"open", "draining", "closed"} /\ row.holds \subseteq Auths
    BY <2>1, TopicNames, RecordsOf DEF Inv, Types, IsRow, RowRight
  <2>3. \A m \in Members : /\ mem[m].pend \subseteq 1 .. Len(topic)
                          /\ mem[m].cursor <= Len(drain) /\ mem[m].version <= row.version
    BY <2>1 DEF Inv, MemberRight, Sane, GivenInOrder, InOrder
  <2> QED BY <2>1, <2>2, <2>3 DEF TypeOK, Inv, Types
<1> QED BY <1>1, InvCorrect, PTL

\* A record is acknowledged to Pub/Sub only when it is stored, or past S, or
\* the lease is over, whatever others commit between a member's read and its
\* commit.
THEOREM AcksAreDurable == Spec => []AckedIsDurable
<1>1. Inv => AckedIsDurable
  BY DEF Inv, Types, Durable, AckedIsDurable, RecordsIn, Over
<1> QED BY <1>1, InvCorrect, PTL

\* No lease is stopped for a gap.
THEOREM NothingIsTakenForAGap == Spec => []NoFalseGap
<1>1. Inv => NoFalseGap
  BY DEF Inv, Types, IsRow, NoFalseGap
<1> QED BY <1>1, InvCorrect, PTL

\* A lease closes with every terminal its owner published in time decided, and
\* every row of its drain log, and with no hold.
THEOREM ClosesWithNothingLeft == Spec => []NothingLeftBehind
<1>1. Inv => NothingLeftBehind
  <2>1. SUFFICES ASSUME Inv, row.state = "closed"
                 PROVE  /\ \A p \in 1 .. Len(topic) :
                             topic[p].kind = "terminal" /\ topic[p].intime =>
                                 \E w \in row.winners : w.auth = topic[p].auth /\ w.from = "owner"
                        /\ \A i \in 1 .. Len(drain) : drain[i].auth \in StoredAuths
                        /\ row.holds = {}
    BY DEF NothingLeftBehind
  <2>2. /\ row.boundary # None /\ row.holds = {} /\ InTime(topic, row.applied)
        /\ Reaches(topic, row.winners, row.applied)
        /\ \A i \in 1 .. Len(drain) : drain[i].auth \in AuthsOf(row.winners)
    BY <2>1 DEF Inv, RowRight
  <2>3. ASSUME NEW p \in 1 .. Len(topic), topic[p].kind = "terminal", topic[p].intime
        PROVE  \E w \in row.winners : w.auth = topic[p].auth /\ w.from = "owner"
    <3>1. p \in TerminalsIn(topic) /\ p \in RecordsIn(topic)
      BY <2>3 DEF TerminalsIn, RecordsIn, IsOwners
    <3>2. Winner(topic[p].auth, "owner", topic[p].seq) \in row.winners
      BY <2>2, <2>3, <3>1 DEF InTime, Reaches
    <3> QED BY <3>2 DEF Winner
  <2> QED BY <2>2, <2>3 DEF StoredAuths, AuthsOf
<1> QED BY <1>1, InvCorrect, PTL

\* The winner of an authorization is the first of its terminals in the lease's
\* order, whichever members applied them, and the progress leaves none of the
\* owner's behind: all that BookedOnce says beside the sum.
LEMMA FirstTerminalIsBooked == Spec => []FirstsWin
<1>1. Inv => FirstsWin
  <2>1. SUFFICES ASSUME Inv PROVE FirstsWin
    OBVIOUS
  <2>2. /\ drain \in Seq(DrainRow) /\ topic \in Seq(OwnerRecord \cup TickRecord)
        /\ row.winners \in SUBSET WinnerRow /\ OneTerminal(topic) /\ row.applied \in Nat
        /\ Reaches(topic, row.winners, row.applied)
        /\ \A w \in row.winners : WinsRight(topic, drain, w, row.applied)
    BY <2>1 DEF Inv, Types, IsRow, TopicRight, RowRight
  <2>3. \A p \in TerminalsIn(topic) : topic[p].seq \in Nat
    BY <2>2, RecordsOf DEF TerminalsIn
  <2>4. ASSUME NEW v \in row.winners, NEW w \in row.winners, v.auth = w.auth
        PROVE  v = w
    <3>1. v \in WinnerRow /\ w \in WinnerRow /\ WinsRight(topic, drain, v, row.applied)
          /\ WinsRight(topic, drain, w, row.applied)
      BY <2>2
    <3>2. v.from \in {"owner", "drain"} /\ w.from \in {"owner", "drain"}
      BY <3>1 DEF WinnerRow
    <3>3. v.from = w.from /\ v.at = w.at
      <4>1. CASE v.from = "owner" /\ w.from = "owner"
        <5>1. PICK p \in TerminalsIn(topic) : topic[p].auth = v.auth /\ topic[p].seq = v.at
          BY <3>1, <4>1 DEF WinsRight
        <5>2. PICK q \in TerminalsIn(topic) : topic[q].auth = w.auth /\ topic[q].seq = w.at
          BY <3>1, <4>1 DEF WinsRight
        <5>3. p = q
          BY <2>2, <2>4, <5>1, <5>2 DEF OneTerminal
        <5> QED BY <4>1, <5>1, <5>2, <5>3
      <4>2. CASE v.from = "drain" /\ w.from = "drain"
        <5>1. IsFirst(drain, v.auth, v.at) /\ IsFirst(drain, v.auth, w.at)
          BY <2>4, <3>1, <4>2 DEF WinsRight
        <5> QED BY <2>2, <4>2, <5>1 DEF IsFirst
      <4>3. CASE v.from # w.from
        <5>1. \E x, y \in row.winners : x.from = "owner" /\ y.from = "drain" /\ x.auth = y.auth
          BY <2>4, <3>2, <4>3
        <5>2. PICK x \in row.winners, y \in row.winners : x.from = "owner" /\ y.from = "drain" /\ x.auth = y.auth
          BY <5>1
        <5>3. PICK p \in TerminalsIn(topic) : topic[p].auth = x.auth /\ topic[p].seq <= row.applied
          BY <2>2, <5>2 DEF WinsRight
        <5>4. topic[p].seq > row.applied
          BY <2>2, <5>2, <5>3 DEF WinsRight
        <5> QED BY <2>2, <2>3, <5>3, <5>4
      <4> QED BY <3>2, <4>1, <4>2, <4>3
    <3> QED BY <2>4, <3>1, <3>3 DEF WinnerRow
  <2>5. \A p \in Terminals : topic[p].seq <= row.applied =>
           Winner(topic[p].auth, "owner", topic[p].seq) \in row.winners
    BY <2>2, TopicNames DEF Reaches
  <2>6. ASSUME NEW w \in row.winners, w.from = "drain"
        PROVE  OwnersAt(w.auth) = {} /\ w.at = FirstRow(w.auth, 1)
    <3>1. /\ IsFirst(drain, w.auth, w.at)
          /\ \A p \in TerminalsIn(topic) : topic[p].auth = w.auth => topic[p].seq > row.applied
      BY <2>2, <2>6 DEF WinsRight
    <3>2. OwnersAt(w.auth) = {}
      BY <2>2, <2>3, <3>1, TopicNames DEF OwnersAt
    <3> DEFINE S == {i \in 1 .. Len(drain) : drain[i].auth = w.auth}
    <3>3. w.at \in S /\ S \in SUBSET Nat /\ \A i \in S : ~(i < w.at)
      BY <2>2, <3>1 DEF IsFirst
    <3>4. FirstRow(w.auth, 1) = Min(S)
      BY DEF FirstRow
    <3> HIDE DEF S
    <3>5. Min(S) \in S /\ \A i \in S : Min(S) <= i
      BY <3>3, LeastOf
    <3>6. w.at = Min(S)
      <4>1. PICK f \in Nat : f = Min(S)
        BY <3>3, <3>5
      <4>2. PICK g \in Nat : g = w.at
        BY <3>3
      <4>3. f <= g /\ ~(f < g)
        BY <3>3, <3>5, <4>1, <4>2
      <4> QED BY <4>1, <4>2, <4>3
    <3> QED BY <3>2, <3>4, <3>6
  <2> QED BY <2>4, <2>5, <2>6 DEF FirstsWin
<1> QED BY <1>1, InvCorrect, PTL

-----------------------------------------------------------------------------
(* Sums over finite sets.  Nothing here is proved by induction: a set for    *)
(* which a fact did not hold would have a least such subset (FewestOf), and  *)
(* that one without a member (One) is smaller yet.                           *)

\* One of a set, as a sum takes it.
One(s) == CHOOSE x \in s : TRUE

\* h is the sum of f over the subsets of S.
Sums(f, S, h) ==
  h = [s \in SUBSET S |-> IF s = {} THEN 0 ELSE f[One(s)] + h[s \ {One(s)}]]

Total(f, S) == (CHOOSE h : Sums(f, S, h))[S]

\* Of the finite sets C that do not have a property, one has the fewest.
LEMMA FewestOf ==
  ASSUME NEW C, C # {}, \A s \in C : IsFiniteSet(s)
  PROVE  \E s \in C : \A t \in C : t \subseteq s => t = s
<1> DEFINE N == {Cardinality(s) : s \in C}
<1>1. N \in SUBSET Nat /\ N # {}
  BY FS_CardinalityType
<1>2. Min(N) \in N /\ \A k \in N : Min(N) <= k
  <2> HIDE DEF N
  <2> QED BY <1>1, LeastOf
<1>3. PICK s \in C : Cardinality(s) = Min(N)
  BY <1>2
<1>4. ASSUME NEW t \in C, t \subseteq s
      PROVE  t = s
  <2>1. IsFiniteSet(s) /\ Cardinality(s) \in Nat /\ Cardinality(t) \in Nat
    BY FS_CardinalityType
  <2>2. Cardinality(s) <= Cardinality(t)
    BY <1>2, <1>3
  <2>3. t # s => Cardinality(t) < Cardinality(s)
    BY <1>4, <2>1, FS_Subset
  <2> QED BY <2>1, <2>2, <2>3
<1> QED BY <1>3, <1>4

LEMMA OneOf ==
  ASSUME NEW s, s # {}
  PROVE  One(s) \in s /\ s \ {One(s)} \subseteq s /\ s \ {One(s)} # s
BY DEF One

\* Sums agree where both are defined.
LEMMA SumsAgree ==
  ASSUME NEW f, NEW S, IsFiniteSet(S), NEW T \in SUBSET S, NEW h, NEW k, Sums(f, S, h), Sums(f, T, k),
         NEW s \in SUBSET T
  PROVE  h[s] = k[s]
<1> DEFINE C == {t \in SUBSET T : h[t] # k[t]}
<1>1. SUFFICES ASSUME C # {} PROVE FALSE
  OBVIOUS
<1>2. \A t \in C : IsFiniteSet(t)
  BY FS_Subset
<1>3. PICK t \in C : \A u \in C : u \subseteq t => u = t
  <2> HIDE DEF C
  <2> QED BY <1>1, <1>2, FewestOf
<1>4. t \in SUBSET T /\ t \in SUBSET S /\ h[t] # k[t]
  BY <1>3
<1>5. t # {}
  BY <1>4 DEF Sums
<1>6. h[t] = f[One(t)] + h[t \ {One(t)}] /\ k[t] = f[One(t)] + k[t \ {One(t)}]
  BY <1>4, <1>5 DEF Sums
<1>7. t \ {One(t)} \in SUBSET T /\ t \ {One(t)} \subseteq t /\ t \ {One(t)} # t
  BY <1>4, <1>5, OneOf
<1>8. h[t \ {One(t)}] = k[t \ {One(t)}]
  BY <1>3, <1>7
<1> QED BY <1>4, <1>6, <1>8

\* There is one for every finite set.
LEMMA SumsExist ==
  ASSUME NEW f, NEW S, IsFiniteSet(S)
  PROVE  \E h : Sums(f, S, h)
<1> DEFINE C == {t \in SUBSET S : ~\E h : Sums(f, t, h)}
<1>1. SUFFICES ASSUME C # {} PROVE FALSE
  OBVIOUS
<1>2. \A t \in C : IsFiniteSet(t)
  BY FS_Subset
<1>3. PICK t \in C : \A u \in C : u \subseteq t => u = t
  <2> HIDE DEF C
  <2> QED BY <1>1, <1>2, FewestOf
<1>4. t \in SUBSET S /\ IsFiniteSet(t) /\ ~\E h : Sums(f, t, h)
  BY <1>2, <1>3
<1>5. \A u \in SUBSET t : u # t => \E h : Sums(f, u, h)
  BY <1>3, <1>4
<1>6. \A u \in SUBSET t : u # t => Sums(f, u, CHOOSE h : Sums(f, u, h)) /\ IsFiniteSet(u)
  BY <1>4, <1>5, FS_Subset
<1> DEFINE h == [s \in SUBSET t |-> IF s = {} THEN 0 ELSE f[One(s)] + Total(f, s \ {One(s)})]
<1>7. ASSUME NEW s \in SUBSET t, s # {}
      PROVE  Total(f, s \ {One(s)}) = h[s \ {One(s)}]
  <2> DEFINE u == s \ {One(s)}
             k == CHOOSE j : Sums(f, u, j)
  <2>1. u \in SUBSET t /\ u # t
    BY <1>7, OneOf
  <2>2. Sums(f, u, k) /\ Total(f, u) = k[u] /\ IsFiniteSet(u)
    BY <1>6, <2>1 DEF Total
  <2> HIDE DEF k
  <2>3. CASE u = {}
    <3>1. k[u] = 0
      BY <2>2, <2>3 DEF Sums
    <3>2. h[u] = 0
      BY <2>1, <2>3
    <3> HIDE DEF h
    <3> QED BY <2>2, <3>1, <3>2
  <2>4. CASE u # {}
    <3> DEFINE v == u \ {One(u)}
               j == CHOOSE i : Sums(f, v, i)
    <3>1. v \in SUBSET u /\ v \in SUBSET t /\ v # t
      BY <2>1, <2>4, OneOf
    <3>2. Sums(f, v, j) /\ Total(f, v) = j[v]
      BY <1>6, <3>1 DEF Total
    <3> HIDE DEF j
    <3>3. k[v] = j[v]
      BY <2>2, <3>1, <3>2, SumsAgree
    <3>4. k[u] = f[One(u)] + k[v]
      BY <2>2, <2>4 DEF Sums
    <3>5. h[u] = f[One(u)] + Total(f, v)
      BY <2>1, <2>4
    <3> HIDE DEF h, u, v
    <3> QED BY <2>2, <3>2, <3>3, <3>4, <3>5 DEF u
  <2> QED BY <2>3, <2>4
<1>8. h = [s \in SUBSET t |-> IF s = {} THEN 0 ELSE f[One(s)] + h[s \ {One(s)}]]
  BY <1>7
<1>9. Sums(f, t, h)
  <2> HIDE DEF h
  <2> QED BY <1>8 DEF Sums
<1> QED BY <1>4, <1>9

LEMMA TotalIs ==
  ASSUME NEW f, NEW S, IsFiniteSet(S), NEW h, Sums(f, S, h)
  PROVE  Total(f, S) = h[S]
<1> DEFINE k == CHOOSE j : Sums(f, S, j)
<1>1. Sums(f, S, k)
  OBVIOUS
<1>2. Total(f, S) = k[S]
  BY DEF Total
<1> HIDE DEF k
<1> QED BY <1>1, <1>2, SumsAgree

\* A sum is one of its terms and the sum of the others.
LEMMA TotalOfNone ==
  ASSUME NEW f
  PROVE  Total(f, {}) = 0
<1>1. IsFiniteSet({})
  BY FS_EmptySet
<1>2. PICK h : Sums(f, {}, h)
  BY <1>1, SumsExist
<1>3. h[{}] = 0
  BY <1>2 DEF Sums
<1> QED BY <1>1, <1>2, <1>3, TotalIs

LEMMA TotalUnfolds ==
  ASSUME NEW f, NEW S, IsFiniteSet(S), S # {}
  PROVE  Total(f, S) = f[One(S)] + Total(f, S \ {One(S)})
<1> DEFINE T == S \ {One(S)}
<1>1. T \in SUBSET S /\ IsFiniteSet(T)
  BY FS_Subset
<1>2. PICK h : Sums(f, S, h)
  BY SumsExist
<1>3. PICK k : Sums(f, T, k)
  BY <1>1, SumsExist
<1>4. h[S] = f[One(S)] + h[T]
  BY <1>2 DEF Sums
<1>5. h[T] = k[T]
  BY <1>1, <1>2, <1>3, SumsAgree
<1>6. Total(f, S) = h[S] /\ Total(f, T) = k[T]
  BY <1>1, <1>2, <1>3, TotalIs
<1> HIDE DEF T
<1> QED BY <1>4, <1>5, <1>6 DEF T

LEMMA TotalType ==
  ASSUME NEW f, NEW S, IsFiniteSet(S), \A x \in S : f[x] \in Nat
  PROVE  Total(f, S) \in Nat
<1> DEFINE C == {t \in SUBSET S : Total(f, t) \notin Nat}
<1>1. SUFFICES ASSUME C # {} PROVE FALSE
  OBVIOUS
<1>2. \A t \in C : IsFiniteSet(t)
  BY FS_Subset
<1>3. PICK t \in C : \A u \in C : u \subseteq t => u = t
  <2> HIDE DEF C
  <2> QED BY <1>1, <1>2, FewestOf
<1>4. t \in SUBSET S /\ IsFiniteSet(t) /\ Total(f, t) \notin Nat
  BY <1>2, <1>3
<1>5. t # {}
  BY <1>4, TotalOfNone
<1>6. Total(f, t) = f[One(t)] + Total(f, t \ {One(t)})
  BY <1>4, <1>5, TotalUnfolds
<1>7. One(t) \in t /\ t \ {One(t)} \in SUBSET S /\ t \ {One(t)} \subseteq t /\ t \ {One(t)} # t
  BY <1>4, <1>5, OneOf
<1>8. Total(f, t \ {One(t)}) \in Nat /\ f[One(t)] \in Nat
  BY <1>3, <1>4, <1>7
<1> QED BY <1>4, <1>6, <1>8

LEMMA TotalAdds ==
  ASSUME NEW f, NEW S, IsFiniteSet(S), \A x \in S : f[x] \in Nat, NEW x \in S
  PROVE  Total(f, S) = f[x] + Total(f, S \ {x})
<1> DEFINE C == {t \in SUBSET S : \E y \in t : Total(f, t) # f[y] + Total(f, t \ {y})}
<1>1. SUFFICES ASSUME C # {} PROVE FALSE
  OBVIOUS
<1>2. \A t \in C : IsFiniteSet(t)
  BY FS_Subset
<1>3. PICK t \in C : \A u \in C : u \subseteq t => u = t
  <2> HIDE DEF C
  <2> QED BY <1>1, <1>2, FewestOf
<1>4. t \in SUBSET S /\ IsFiniteSet(t)
  BY <1>2, <1>3
<1>5. PICK y \in t : Total(f, t) # f[y] + Total(f, t \ {y})
  BY <1>3
<1>6. \A u \in SUBSET t : u # t => \A z \in u : Total(f, u) = f[z] + Total(f, u \ {z})
  BY <1>3, <1>4
<1> HIDE DEF C
<1> DEFINE z == One(t)
<1>7. z \in t /\ Total(f, t) = f[z] + Total(f, t \ {z})
  BY <1>4, <1>5, OneOf, TotalUnfolds
<1> HIDE DEF z
<1>8. z # y
  BY <1>5, <1>7
<1> DEFINE r == (t \ {z}) \ {y}
<1>9. Total(f, t \ {z}) = f[y] + Total(f, r)
  <2>1. t \ {z} \in SUBSET t /\ t \ {z} # t /\ y \in t \ {z}
    BY <1>7, <1>8
  <2> QED BY <1>6, <2>1
<1>10. Total(f, t \ {y}) = f[z] + Total(f, r)
  <2>1. t \ {y} \in SUBSET t /\ t \ {y} # t /\ z \in t \ {y} /\ (t \ {y}) \ {z} = r
    BY <1>7, <1>8
  <2> HIDE DEF r
  <2> QED BY <1>6, <2>1
<1>11. f[y] \in Nat /\ f[z] \in Nat /\ Total(f, r) \in Nat
  <2>1. r \in SUBSET S /\ IsFiniteSet(r)
    BY <1>4, FS_Subset
  <2>2. Total(f, r) \in Nat
    BY <2>1, TotalType
  <2> QED BY <1>4, <1>7, <2>2
<1> HIDE DEF r
<1> QED BY <1>5, <1>7, <1>9, <1>10, <1>11

\* The sum over two sets that share nothing.
LEMMA TotalOfUnion ==
  ASSUME NEW f, NEW S, NEW T, IsFiniteSet(S), IsFiniteSet(T), S \cap T = {}, \A x \in S \cup T : f[x] \in Nat
  PROVE  Total(f, S \cup T) = Total(f, S) + Total(f, T)
<1> DEFINE C == {t \in SUBSET T : Total(f, S \cup t) # Total(f, S) + Total(f, t)}
<1>1. SUFFICES ASSUME C # {} PROVE FALSE
  OBVIOUS
<1>2. \A t \in C : IsFiniteSet(t)
  BY FS_Subset
<1>3. PICK t \in C : \A u \in C : u \subseteq t => u = t
  <2> HIDE DEF C
  <2> QED BY <1>1, <1>2, FewestOf
<1>4. t \in SUBSET T /\ IsFiniteSet(t) /\ Total(f, S \cup t) # Total(f, S) + Total(f, t)
  BY <1>2, <1>3
<1>5. Total(f, S) \in Nat
  BY TotalType
<1>6. t # {}
  <2>1. S \cup {} = S
    OBVIOUS
  <2> QED BY <1>4, <1>5, <2>1, TotalOfNone
<1>7. PICK y \in t : TRUE
  BY <1>6
<1> DEFINE u == t \ {y}
<1>8. u \in SUBSET T /\ u \subseteq t /\ u # t /\ IsFiniteSet(u)
  BY <1>4, <1>7, FS_Subset
<1>9. Total(f, S \cup u) = Total(f, S) + Total(f, u)
  BY <1>3, <1>8
<1>10. Total(f, t) = f[y] + Total(f, u)
  BY <1>4, <1>7, TotalAdds
<1>11. Total(f, S \cup t) = f[y] + Total(f, S \cup u)
  <2>1. IsFiniteSet(S \cup t) /\ y \in S \cup t /\ (S \cup t) \ {y} = S \cup u
    BY <1>4, <1>7, FS_Union
  <2>2. \A x \in S \cup t : f[x] \in Nat
    BY <1>4
  <2> HIDE DEF u
  <2> QED BY <2>1, <2>2, TotalAdds
<1>12. Total(f, u) \in Nat /\ f[y] \in Nat
  BY <1>4, <1>7, <1>8, TotalType
<1> HIDE DEF u
<1> QED BY <1>4, <1>5, <1>9, <1>10, <1>11, <1>12

\* A sum is of what its terms are.
LEMMA TotalSame ==
  ASSUME NEW f, NEW g, NEW S, IsFiniteSet(S), \A x \in S : f[x] = g[x]
  PROVE  Total(f, S) = Total(g, S)
<1> DEFINE C == {t \in SUBSET S : Total(f, t) # Total(g, t)}
<1>1. SUFFICES ASSUME C # {} PROVE FALSE
  OBVIOUS
<1>2. \A t \in C : IsFiniteSet(t)
  BY FS_Subset
<1>3. PICK t \in C : \A u \in C : u \subseteq t => u = t
  <2> HIDE DEF C
  <2> QED BY <1>1, <1>2, FewestOf
<1>4. t \in SUBSET S /\ IsFiniteSet(t) /\ Total(f, t) # Total(g, t)
  BY <1>2, <1>3
<1>5. t # {}
  BY <1>4, TotalOfNone
<1>6. One(t) \in t /\ t \ {One(t)} \in SUBSET S /\ t \ {One(t)} \subseteq t /\ t \ {One(t)} # t
  BY <1>4, <1>5, OneOf
<1>7. Total(f, t \ {One(t)}) = Total(g, t \ {One(t)}) /\ f[One(t)] = g[One(t)]
  BY <1>3, <1>4, <1>6
<1>8. Total(f, t) = f[One(t)] + Total(f, t \ {One(t)}) /\ Total(g, t) = g[One(t)] + Total(g, t \ {One(t)})
  BY <1>4, <1>5, TotalUnfolds
<1> QED BY <1>4, <1>7, <1>8

-----------------------------------------------------------------------------
(* What is consumed.                                                        *)

\* What each winner charges, with the drain log D.
Charges(D) == [w \in WinnerRow |-> Charge[IF w.from = "owner" THEN "owner" ELSE D[w.at].from]]

LEMMA ChargedIsTotal ==
  ASSUME NEW S \in SUBSET WinnerRow, IsFiniteSet(S)
  PROVE  MapThenSumSet(ChargeOf, S) = Total(Charges(drain), S)
<1> DEFINE f == Charges(drain)
<1>1. PICK g : /\ MapThenSumSet(ChargeOf, S) = g[S]
               /\ g = CHOOSE h : h = [s \in SUBSET S |->
                        IF s = {} THEN 0
                        ELSE ChargeOf(CHOOSE x \in s : TRUE) + h[s \ {CHOOSE x \in s : TRUE}]]
  BY DEF MapThenSumSet, MapThenFoldSet
<1>2. \A s \in SUBSET S : s # {} => ChargeOf(One(s)) = f[One(s)]
  <2>1. \A s \in SUBSET S : s # {} => One(s) \in WinnerRow
    BY OneOf
  <2> QED BY <2>1 DEF ChargeOf, Charges
<1> HIDE DEF f
<1>3. ASSUME NEW h
      PROVE  Sums(f, S, h) <=> h = [s \in SUBSET S |->
                        IF s = {} THEN 0
                        ELSE ChargeOf(CHOOSE x \in s : TRUE) + h[s \ {CHOOSE x \in s : TRUE}]]
  <2>1. [s \in SUBSET S |-> IF s = {} THEN 0 ELSE f[One(s)] + h[s \ {One(s)}]]
          = [s \in SUBSET S |-> IF s = {} THEN 0 ELSE ChargeOf(One(s)) + h[s \ {One(s)}]]
    BY <1>2
  <2> QED BY <2>1 DEF Sums, One
<1>4. PICK k : Sums(f, S, k)
  BY SumsExist
<1>5. \E h : h = [s \in SUBSET S |->
                        IF s = {} THEN 0
                        ELSE ChargeOf(CHOOSE x \in s : TRUE) + h[s \ {CHOOSE x \in s : TRUE}]]
  <2>1. k = [s \in SUBSET S |->
                        IF s = {} THEN 0
                        ELSE ChargeOf(CHOOSE x \in s : TRUE) + k[s \ {CHOOSE x \in s : TRUE}]]
    BY <1>3, <1>4
  <2> QED BY <2>1
<1>6. g = [s \in SUBSET S |->
                        IF s = {} THEN 0
                        ELSE ChargeOf(CHOOSE x \in s : TRUE) + g[s \ {CHOOSE x \in s : TRUE}]]
  BY <1>1, <1>5
<1>7. Sums(f, S, g)
  BY <1>3, <1>6
<1> QED BY <1>1, <1>7, TotalIs DEF f

\* Nothing a member has to commit is committed already, if its version is the
\* row's.
MemberBooks(l, R) ==
  /\ IsFiniteSet(l.won)
  /\ l.lease /\ l.version = R.version => l.won \cap R.winners = {}

RowBooks(R, D) == IsFiniteSet(R.winners) /\ R.consumed = Total(Charges(D), R.winners)

Booked ==
  /\ RowBooks(row, drain)
  /\ \A m \in Members : MemberBooks(mem[m], row)

\* A step of a member that leaves the row and the drain log alone.
LEMMA MemberBooksStep ==
  ASSUME Inv, Booked, NEW m \in Members, NEW l, MemberBooks(l, row),
         mem' = [mem EXCEPT ![m] = l], UNCHANGED <<row, drain>>
  PROVE  Booked'
<1>1. mem \in [Members -> MemberLease]
  BY DEF Inv, Types
<1>2. \A n \in Members : mem'[n] = IF n = m THEN l ELSE mem[n]
  BY <1>1
<1> QED BY <1>2 DEF Booked

LEMMA NothingWon ==
  ASSUME NEW l, NEW R, l.won = {}
  PROVE  MemberBooks(l, R)
BY FS_EmptySet DEF MemberBooks

LEMMA NothingWonFresh ==
  ASSUME NEW l \in MemberLease, NEW Q
  PROVE  /\ Dropped(l).won = {} /\ [Dropped(l) EXCEPT !.pend = @ \cup Q].won = {}
         /\ Unread.won = {} /\ Finished.won = {}
BY DEF Dropped, Unread, Finished

LEMMA DroppedBooks ==
  ASSUME Inv, Booked, NEW m \in Members, mem' = [mem EXCEPT ![m] = Dropped(mem[m])],
         UNCHANGED <<row, drain>>
  PROVE  Booked'
BY AtHand, NothingWon, NothingWonFresh, MemberBooksStep

LEMMA FinishedBooks ==
  ASSUME Inv, Booked, NEW m \in Members, mem' = [mem EXCEPT ![m] = Finished],
         UNCHANGED <<row, drain>>
  PROVE  Booked'
BY AtHand, NothingWon, NothingWonFresh, MemberBooksStep

\* A row of the drain log does not change what the winners charge.
LEMMA ChargesAppended ==
  ASSUME NEW T, NEW D \in Seq(DrainRow), NEW d, NEW W \in SUBSET WinnerRow, NEW n,
         \A w \in W : WinsRight(T, D, w, n)
  PROVE  \A w \in W : Charges(D)[w] = Charges(Append(D, d))[w]
<1>1. SUFFICES ASSUME NEW w \in W PROVE Charges(D)[w] = Charges(Append(D, d))[w]
  OBVIOUS
<1>2. w \in WinnerRow /\ w.from \in {"owner", "drain"} /\ WinsRight(T, D, w, n)
  BY DEF WinnerRow
<1>3. CASE w.from = "owner"
  BY <1>2, <1>3 DEF Charges
<1>4. CASE w.from = "drain"
  <2>1. w.at \in 1 .. Len(D)
    BY <1>2, <1>4 DEF WinsRight, IsFirst
  <2>2. Append(D, d)[w.at] = D[w.at]
    BY <2>1
  <2> QED BY <1>2, <1>4, <2>2 DEF Charges
<1> QED BY <1>2, <1>3, <1>4

LEMMA RowAddedBooks ==
  ASSUME Inv, Booked, NEW d, drain' = Append(drain, d), UNCHANGED <<row, mem>>
  PROVE  Booked'
<1>1. /\ drain \in Seq(DrainRow) /\ row.winners \in SUBSET WinnerRow
      /\ \A w \in row.winners : WinsRight(topic, drain, w, row.applied)
  BY DEF Inv, Types, IsRow, RowRight
<1>2. \A w \in row.winners : Charges(drain)[w] = Charges(drain')[w]
  BY <1>1, ChargesAppended
<1>3. Total(Charges(drain), row.winners) = Total(Charges(drain'), row.winners)
  BY <1>2, TotalSame DEF Booked, RowBooks
<1> QED BY <1>3 DEF Booked, RowBooks

\* What is charged is a natural number.
LEMMA ChargesType ==
  ASSUME NEW T, NEW D \in Seq(DrainRow), NEW w \in WinnerRow, NEW n, WinsRight(T, D, w, n)
  PROVE  Charges(D)[w] \in Nat
<1>1. w.from \in {"owner", "drain"} /\ Charge \in [{"owner", "door", "reap"} -> Nat]
  BY AuditAssumption DEF WinnerRow
<1>2. CASE w.from = "owner"
  BY <1>1, <1>2 DEF Charges
<1>3. CASE w.from = "drain"
  <2>1. w.at \in 1 .. Len(D)
    BY <1>3 DEF WinsRight, IsFirst
  <2>2. D[w.at] \in DrainRow
    BY <2>1
  <2>3. D[w.at].from \in {"door", "reap"}
    BY <2>2 DEF DrainRow
  <2> QED BY <1>1, <1>3, <2>3 DEF Charges
<1> QED BY <1>1, <1>2, <1>3

\* A commit that is taken books what the member has to commit, once.
LEMMA CommitBooks ==
  ASSUME Inv, Booked, NEW m \in Members, ~Busy(mem[m]), Takes(mem[m]), CommitRow(mem[m])
  PROVE  RowBooks(row', drain) /\ row'.version = row.version + 1
<1> DEFINE l == mem[m]
<1>1. /\ IsRow(row) /\ l \in MemberLease /\ drain \in Seq(DrainRow)
      /\ RowRight(row, topic, drain, clock)
  BY AtHand DEF Inv
<1>2. l.lease /\ l.version = row.version /\ row.boundary \in {None, l.applied}
  BY DEF Busy, Takes
<1>3. /\ row'.winners = row.winners \cup l.won /\ row'.version = row.version + 1
      /\ row'.consumed = row.consumed + MapThenSumSet(ChargeOf, l.won)
  BY <1>1, <1>2, CommittedRow
<1>4. /\ IsFiniteSet(l.won) /\ l.won \cap row.winners = {}
      /\ IsFiniteSet(row.winners) /\ row.consumed = Total(Charges(drain), row.winners)
  BY <1>2 DEF Booked, RowBooks, MemberBooks
<1>5. l.won \in SUBSET WinnerRow /\ row.winners \in SUBSET WinnerRow
  BY <1>1 DEF MemberLease, IsRow
<1>6. Current(l, row, topic, drain)
  BY <1>2, AtHand DEF MemberRight
<1> HIDE DEF l
<1>7. \A w \in row.winners \cup l.won : Charges(drain)[w] \in Nat
  <2>1. \A w \in row.winners : WinsRight(topic, drain, w, row.applied)
    BY <1>1 DEF RowRight
  <2>2. \A w \in l.won : WinsRight(topic, drain, w, l.applied)
    BY <1>6 DEF Current
  <2> QED BY <1>1, <1>5, <2>1, <2>2, ChargesType
<1>8. Total(Charges(drain), row.winners \cup l.won)
        = Total(Charges(drain), row.winners) + Total(Charges(drain), l.won)
  BY <1>4, <1>7, TotalOfUnion
<1>9. MapThenSumSet(ChargeOf, l.won) = Total(Charges(drain), l.won)
  BY <1>4, <1>5, ChargedIsTotal
<1>10. IsFiniteSet(row.winners \cup l.won)
  BY <1>4, FS_Union
<1> QED BY <1>3, <1>4, <1>8, <1>9, <1>10 DEF RowBooks

\* The others are stale after one.
LEMMA OvertakingBooks ==
  ASSUME Inv, Booked, NEW m \in Members, NEW l, l.won = {}, row'.version = row.version + 1,
         RowBooks(row', drain), mem' = [mem EXCEPT ![m] = l], UNCHANGED drain
  PROVE  Booked'
<1>1. mem \in [Members -> MemberLease] /\ row.version \in Nat
  BY DEF Inv, Types, IsRow
<1>2. ASSUME NEW n \in Members
      PROVE  MemberBooks(mem'[n], row')
  <2>1. CASE n = m
    <3>1. mem'[n] = l
      BY <1>1, <2>1
    <3> QED BY <3>1, NothingWon
  <2>2. CASE n # m
    <3>1. mem'[n] = mem[n] /\ mem[n] \in MemberLease
      BY <1>1, <2>2
    <3>2. mem[n].version <= row.version /\ mem[n].version \in Nat
      BY <3>1 DEF Inv, MemberRight, Sane, MemberLease
    <3>3. mem[n].version # row'.version
      BY <1>1, <3>2
    <3>4. IsFiniteSet(mem[n].won)
      BY DEF Booked, MemberBooks
    <3> QED BY <3>1, <3>3, <3>4 DEF MemberBooks
  <2> QED BY <2>1, <2>2
<1> QED BY <1>2 DEF Booked

LEMMA CommitStepBooks ==
  ASSUME Inv, Booked, NEW m \in Members, Commit(m) \/ CommitUnknown(m)
  PROVE  Booked'
<1> DEFINE l == mem[m]
<1>1. CASE ~Takes(l)
  BY <1>1, DroppedBooks DEF Commit, CommitUnknown
<1>2. CASE Takes(l)
  <2>1. PICK n : mem' = [mem EXCEPT ![m] = n] /\ n.won = {}
    <3>1. CASE Commit(m)
      <4> DEFINE n == [Committed(l) EXCEPT !.pend = {}, !.pos = 0]
      <4>1. mem' = [mem EXCEPT ![m] = n]
        BY <1>2, <3>1 DEF Commit
      <4>2. n.won = {}
        BY AtHand DEF Committed, MemberLease
      <4> HIDE DEF n
      <4> QED BY <4>1, <4>2
    <3>2. CASE CommitUnknown(m)
      <4>1. mem' = [mem EXCEPT ![m] = Dropped(l)]
        BY <3>2 DEF CommitUnknown
      <4>2. Dropped(l).won = {}
        BY AtHand, NothingWonFresh
      <4> QED BY <4>1, <4>2
    <3> QED BY <3>1, <3>2
  <2>2. ~Busy(l) /\ CommitRow(l) /\ UNCHANGED drain
    BY <1>2 DEF Commit, CommitUnknown
  <2>3. RowBooks(row', drain) /\ row'.version = row.version + 1
    BY <1>2, <2>2, CommitBooks
  <2> HIDE DEF l
  <2> QED BY <2>1, <2>2, <2>3, OvertakingBooks
<1> QED BY <1>1, <1>2

LEMMA CloseStepBooks ==
  ASSUME Inv, Booked, NEW m \in Members, CloseLease(m) \/ CloseUnknown(m)
  PROVE  Booked'
<1>1. CASE CloseLease(m) /\ (row.version # mem[m].version \/ Over)
  BY <1>1, DroppedBooks DEF CloseLease
<1>2. CASE ~(row.version # mem[m].version \/ Over)
  <2>1. PICK n \in {Finished, Dropped(mem[m])} : mem' = [mem EXCEPT ![m] = n]
    BY <1>2 DEF CloseLease, CloseUnknown
  <2>2. n.won = {}
    BY AtHand, NothingWonFresh
  <2>3. Closes(mem[m]) /\ CloseRow /\ UNCHANGED drain
    BY <1>2 DEF CloseLease, CloseUnknown
  <2>4. row'.winners = row.winners /\ row'.consumed = row.consumed
    BY <2>3, ClosedRow
  <2>5. row'.version = row.version + 1
    <3>1. row' = [row EXCEPT !.state = "closed", !.version = row.version + 1]
      BY <2>3 DEF CloseRow
    <3>2. row = [state |-> row.state, version |-> row.version, applied |-> row.applied,
                 boundary |-> row.boundary, gap |-> row.gap, winners |-> row.winners,
                 consumed |-> row.consumed, holds |-> row.holds, listed |-> row.listed]
      BY DEF Inv, Types, IsRow
    <3> QED BY <3>1, <3>2
  <2>6. RowBooks(row', drain)
    BY <2>4 DEF Booked, RowBooks
  <2> QED BY <2>1, <2>2, <2>3, <2>5, <2>6, OvertakingBooks
<1> QED BY <1>1, <1>2 DEF CloseUnknown

\* At a gap the member is stale, so nothing is committed.
LEMMA AtGapBooks ==
  ASSUME Inv, Booked, NEW m \in Members, GapCommits(m) \/ StopAtGap(m)
  PROVE  Booked'
<1> DEFINE l == mem[m]
           p == Min(Coming(l))
<1>1. l.version # row.version
  BY NoGapCurrent DEF GapCommits, StopAtGap
<1>2. ~Takes(l) /\ ~StopTakes(l, topic[p].seq)
  BY <1>1 DEF Takes, StopTakes
<1>3. PICK Q : /\ mem' = [mem EXCEPT ![m] = [Dropped(l) EXCEPT !.pend = @ \cup Q]]
               /\ UNCHANGED <<row, drain>>
  <2>1. CASE GapCommits(m)
    <3> DEFINE kept == Unapplied(l) \cup {p}
    <3>1. /\ mem' = [mem EXCEPT ![m] = [Dropped(l) EXCEPT !.pend = @ \cup kept]]
          /\ UNCHANGED <<row, drain>>
      BY <1>2, <2>1 DEF GapCommits
    <3> HIDE DEF kept, l, p
    <3> QED BY <3>1
  <2>2. CASE StopAtGap(m)
    <3>1. /\ mem' = [mem EXCEPT ![m] = [Dropped(l) EXCEPT !.pend = @ \cup {p}]]
          /\ UNCHANGED <<row, drain>>
      BY <1>2, <2>2 DEF StopAtGap
    <3> HIDE DEF l, p
    <3> QED BY <3>1
  <2> QED BY <2>1, <2>2
<1>4. PICK n : n = [Dropped(l) EXCEPT !.pend = @ \cup Q]
  OBVIOUS
<1>5. n.won = {}
  BY <1>4, AtHand, NothingWonFresh
<1> HIDE DEF l, p
<1> QED BY <1>3, <1>4, <1>5, NothingWon, MemberBooksStep

LEMMA LoadBooks ==
  ASSUME Inv, Booked, NEW m \in Members, LoadLease(m)
  PROVE  Booked'
<1> DEFINE l == mem[m]
           pend == IF l.pend = {} THEN Delivered(l) ELSE l.pend
<1>1. CASE Over
  BY <1>1, FinishedBooks DEF LoadLease
<1>2. CASE ~Over
  <2> DEFINE n == [Loaded(l) EXCEPT !.pend = pend]
  <2>1. mem' = [mem EXCEPT ![m] = n] /\ UNCHANGED <<row, drain>>
    BY <1>2 DEF LoadLease
  <2>2. n.won = {}
    <3> HIDE DEF pend
    <3> QED BY DEF Loaded, Unread
  <2> HIDE DEF n
  <2> QED BY <2>1, <2>2, NothingWon, MemberBooksStep
<1> QED BY <1>1, <1>2

\* A member that commits nothing new.
LEMMA SameWonBooks ==
  ASSUME Inv, Booked, NEW m \in Members, NEW n, n.lease = mem[m].lease, n.version = mem[m].version,
         n.won = mem[m].won, mem' = [mem EXCEPT ![m] = n], UNCHANGED <<row, drain>>
  PROVE  Booked'
<1>1. MemberBooks(n, row)
  BY DEF Booked, MemberBooks
<1> QED BY <1>1, MemberBooksStep

LEMMA IdleBooks ==
  ASSUME Inv, Booked, NEW m \in Members, AckClean(m) \/ SeeEnd(m) \/ LearnWinners(m)
  PROVE  Booked'
<1> DEFINE l == mem[m]
<1>1. l \in MemberLease /\ IsRow(row) /\ mem \in [Members -> MemberLease]
  BY AtHand
<1>2. CASE AckClean(m)
  <2> DEFINE n == [l EXCEPT !.pend = {}, !.pos = 0]
  <2>1. mem' = [mem EXCEPT ![m] = n] /\ UNCHANGED <<row, drain>>
    BY <1>1, <1>2 DEF AckClean
  <2>2. n.lease = l.lease /\ n.version = l.version /\ n.won = l.won
    BY <1>1 DEF MemberLease
  <2> HIDE DEF n
  <2> QED BY <2>1, <2>2, SameWonBooks
<1>3. CASE SeeEnd(m)
  <2> DEFINE n == [l EXCEPT !.end = AtEnd(l)]
  <2>1. mem' = [mem EXCEPT ![m] = n] /\ UNCHANGED <<row, drain>>
    BY <1>1, <1>3 DEF SeeEnd
  <2>2. n.lease = l.lease /\ n.version = l.version /\ n.won = l.won
    BY <1>1 DEF MemberLease
  <2> HIDE DEF n
  <2> QED BY <2>1, <2>2, SameWonBooks
<1>4. CASE LearnWinners(m)
  <2>1. PICK n : n = WithWinners(l)
    OBVIOUS
  <2>2. mem' = [mem EXCEPT ![m] = n] /\ UNCHANGED <<row, drain>>
    BY <1>4, <2>1 DEF LearnWinners
  <2>3. n.lease = l.lease /\ n.version = l.version /\ n.won = l.won
    BY <1>1, <2>1, WithWinnersLease
  <2> QED BY <2>2, <2>3, SameWonBooks
<1> QED BY <1>2, <1>3, <1>4

\* A terminal that is applied is past what is stored.
LEMMA AppliedBooks ==
  ASSUME Inv, NEW e \in MemberLease, MemberRight(e, row, topic, drain, acked, clock), MemberBooks(e, row),
         NEW p \in RecordsIn(topic), topic[p].seq = e.applied + 1, NEW n, n = Applied(e, topic[p])
  PROVE  MemberBooks(n, row)
<1> DEFINE r == topic[p]
           w == Winner(r.auth, "owner", r.seq)
<1>1. topic \in Seq(OwnerRecord \cup TickRecord) /\ IsRow(row) /\ e.applied \in Nat /\ row.applied \in Nat
  BY DEF Inv, Types, IsRow, MemberLease
<1>2. r \in OwnerRecord
  BY <1>1, RecordsOf
<1>3. n.lease = e.lease /\ n.version = e.version /\ n.won \in {e.won, e.won \cup {w}}
  <2> HIDE DEF r
  <2> QED BY <1>2, AppliedLease DEF r
<1>4. IsFiniteSet(n.won)
  BY <1>3, FS_AddElement DEF MemberBooks
<1>5. ASSUME e.lease, e.version = row.version
      PROVE  w \notin row.winners
  <2>1. row.applied <= e.applied
    BY <1>5 DEF MemberRight, Current
  <2>2. SUFFICES ASSUME w \in row.winners PROVE FALSE
    OBVIOUS
  <2>3. WinsRight(topic, drain, w, row.applied)
    BY <2>2 DEF Inv, RowRight
  <2>4. w.from = "owner" /\ w.at = r.seq
    BY DEF Winner
  <2> HIDE DEF w
  <2>5. r.seq <= row.applied
    BY <2>3, <2>4 DEF WinsRight
  <2> QED BY <1>1, <2>1, <2>5
<1> HIDE DEF w
<1> QED BY <1>3, <1>4, <1>5 DEF MemberBooks

LEMMA ApplyBooks ==
  ASSUME Inv, Booked, NEW m \in Members, Apply(m)
  PROVE  Booked'
<1> DEFINE l == mem[m]
           p == Min(Coming(l))
           r == topic[p]
           read == IF Behind(l, r) /\ IsOwners(r) THEN WithWinners(l) ELSE l
           after == IF Skips(l, r) THEN l ELSE IF IsOwners(r) THEN Applied(read, r) ELSE Ticked(l, r)
<1>1. /\ l.lease /\ Coming(l) # {} /\ ~IsGap(l, r) /\ UNCHANGED <<row, drain>>
      /\ IF Behind(l, r) /\ Over
         THEN mem' = [mem EXCEPT ![m] = Finished]
         ELSE mem' = [mem EXCEPT ![m] = [after EXCEPT !.pos = p, !.pend = @ \cup {p}]]
  BY DEF Apply
<1>2. GivenNext(l, p)
  BY <1>1, ComingNext
<1>3. /\ topic \in Seq(OwnerRecord \cup TickRecord) /\ l \in MemberLease /\ IsRow(row)
      /\ MemberRight(l, row, topic, drain, acked, clock) /\ MemberBooks(l, row)
  BY AtHand DEF Booked
<1> HIDE DEF p
<1>4. p \in 1 .. Len(topic) /\ (p \in RecordsIn(topic) <=> IsOwners(r))
  BY <1>2 DEF GivenNext, RecordsIn
<1>5. CASE Behind(l, r) /\ Over
  BY <1>1, <1>5, FinishedBooks
<1>6. CASE ~(Behind(l, r) /\ Over)
  <2>1. mem' = [mem EXCEPT ![m] = [after EXCEPT !.pos = p, !.pend = @ \cup {p}]]
    BY <1>1, <1>6
  <2> HIDE DEF after
  <2>2. after \in MemberLease /\ MemberBooks(after, row)
    <3>1. CASE Skips(l, r)
      BY <1>3, <3>1 DEF after
    <3>2. CASE ~Skips(l, r) /\ IsOwners(r)
      <4>1. after = Applied(read, r)
        BY <3>2 DEF after
      <4>2. /\ read \in MemberLease /\ read.applied = l.applied
            /\ MemberRight(read, row, topic, drain, acked, clock) /\ MemberBooks(read, row)
        <5>1. CASE Behind(l, r) /\ IsOwners(r)
          <6>1. read = WithWinners(l)
            BY <5>1
          <6> HIDE DEF read, l
          <6>2. /\ read \in MemberLease /\ read.applied = l.applied /\ read.lease = l.lease
                /\ read.version = l.version /\ read.won = l.won
            BY <6>1, <1>3, WithWinnersLease
          <6>3. MemberRight(read, row, topic, drain, acked, clock)
            BY <6>1, <1>3, WithWinnersRight
          <6> QED BY <6>2, <6>3, <1>3 DEF MemberBooks
        <5>2. CASE ~(Behind(l, r) /\ IsOwners(r))
          <6>1. read = l
            BY <5>2
          <6> HIDE DEF read
          <6> QED BY <6>1, <1>3
        <5> QED BY <5>1, <5>2
      <4> HIDE DEF read
      <4>3. p \in RecordsIn(topic) /\ r.seq = l.applied + 1
        <5>1. l.applied \in Nat /\ (p \in RecordsIn(topic) => r.seq \in Nat)
          BY <1>3, RecordsOf DEF MemberLease
        <5> QED BY <5>1, <1>1, <1>4, <3>2 DEF IsGap, Skips
      <4>4. MemberBooks(after, row)
        BY <4>1, <4>2, <4>3, AppliedBooks
      <4>5. after \in MemberLease
        <5>1. r \in OwnerRecord
          BY <1>3, <4>3, RecordsOf
        <5> QED BY <4>1, <4>2, <5>1, AppliedLease
      <4> QED BY <4>4, <4>5
    <3>3. CASE ~Skips(l, r) /\ ~IsOwners(r)
      <4>1. after = Ticked(l, r)
        BY <3>3 DEF after
      <4>2. after \in MemberLease /\ after.lease = l.lease /\ after.version = l.version /\ after.won = l.won
        BY <1>3, <4>1 DEF Ticked, MemberLease
      <4> QED BY <1>3, <4>2 DEF MemberBooks
    <3> QED BY <3>1, <3>2, <3>3
  <2> DEFINE n == [after EXCEPT !.pos = p, !.pend = @ \cup {p}]
  <2>3. n.lease = after.lease /\ n.version = after.version /\ n.won = after.won
    BY <2>2 DEF MemberLease
  <2>4. mem' = [mem EXCEPT ![m] = n]
    BY <2>1
  <2> HIDE DEF n
  <2>5. MemberBooks(n, row)
    BY <2>2, <2>3 DEF MemberBooks
  <2> QED BY <1>1, <2>4, <2>5, MemberBooksStep
<1> QED BY <1>5, <1>6

\* The rows read are of authorizations without a stored winner.
LEMMA ReadRowsBooks ==
  ASSUME Inv, Booked, NEW m \in Members, ReadRows(m)
  PROVE  Booked'
<1> DEFINE l == mem[m]
           fresh == {drain[i].auth : i \in l.cursor + 1 .. Len(drain)}
           new == fresh \ l.decided
           won == {Winner(a, "drain", FirstRow(a, l.cursor + 1)) : a \in new}
           n == [l EXCEPT !.cursor = Len(drain), !.won = @ \cup won, !.decided = @ \cup new,
                          !.holds = @ \ new, !.put = @ \ new, !.dirty = @ \/ new # {}]
<1>1. /\ Draining(l) /\ l.loaded /\ mem' = [mem EXCEPT ![m] = n] /\ UNCHANGED <<row, drain>>
  BY DEF ReadRows
<1>2. l \in MemberLease /\ MemberBooks(l, row) /\ drain \in Seq(DrainRow) /\ l.cursor \in Nat
  BY AtHand DEF Booked, MemberLease
<1>3. IsFiniteSet(new)
  <2>1. \A i \in l.cursor + 1 .. Len(drain) : drain[i] \in DrainRow
    BY <1>2
  <2>2. new \in SUBSET Auths
    BY <2>1 DEF DrainRow
  <2> QED BY <2>2, AuditAssumption, FS_Subset
<1>4. \A w \in won : w.auth \in new
  BY DEF Winner
<1> HIDE DEF new
<1>5. IsFiniteSet(won)
  <2> DEFINE f == [a \in new |-> Winner(a, "drain", FirstRow(a, l.cursor + 1))]
  <2>1. f \in Surjection(new, won)
    BY DEF Surjection
  <2> HIDE DEF f, won
  <2> QED BY <1>3, <2>1, FS_Surjection
<1> HIDE DEF won
<1>6. n.lease = l.lease /\ n.version = l.version /\ n.won = l.won \cup won
  BY <1>2 DEF MemberLease
<1> HIDE DEF n
<1>7. IsFiniteSet(n.won)
  BY <1>2, <1>5, <1>6, FS_Union DEF MemberBooks
<1>8. ASSUME l.lease, l.version = row.version
      PROVE  won \cap row.winners = {}
  <2>1. AuthsOf(row.winners) \subseteq l.decided
    BY <1>1, <1>8, AtHand DEF MemberRight, Current
  <2> QED BY <1>4, <2>1 DEF AuthsOf, new
<1>9. MemberBooks(n, row)
  BY <1>2, <1>6, <1>7, <1>8 DEF MemberBooks
<1> QED BY <1>1, <1>9, MemberBooksStep

LEMMA ReapBooks ==
  ASSUME Inv, Booked, NEW m \in Members, NEW a \in Auths, Reap(m, a)
  PROVE  Booked'
<1>1. CASE row.version # mem[m].version \/ row.gap
  BY <1>1, DroppedBooks DEF Reap
<1>2. CASE ~(row.version # mem[m].version \/ row.gap)
  BY <1>2, RowAddedBooks DEF Reap
<1> QED BY <1>1, <1>2

LEMMA CrashBooks ==
  ASSUME Inv, Booked, NEW m \in Members, Crash(m)
  PROVE  Booked'
<1>1. Unread.won = {}
  BY AtHand, NothingWonFresh
<1> QED BY <1>1, NothingWon, MemberBooksStep DEF Crash

\* The row drains: its winners and its version are as before.
LEMMA MarkDrainingBooks ==
  ASSUME Inv, Booked, MarkDraining
  PROVE  Booked'
<1>1. row' = [row EXCEPT !.state = "draining"] /\ UNCHANGED <<drain, mem>>
  BY DEF MarkDraining
<1>2. row = [state |-> row.state, version |-> row.version, applied |-> row.applied,
             boundary |-> row.boundary, gap |-> row.gap, winners |-> row.winners,
             consumed |-> row.consumed, holds |-> row.holds, listed |-> row.listed]
  BY DEF Inv, Types, IsRow
<1>3. row'.winners = row.winners /\ row'.consumed = row.consumed /\ row'.version = row.version
  BY <1>1, <1>2
<1> QED BY <1>1, <1>3 DEF Booked, RowBooks, MemberBooks

LEMMA StepBooks ==
  ASSUME Inv, Booked, [Next]_vars
  PROVE  Booked'
<1>1. CASE Owner \/ Tick \/ TimePasses
  <2>1. UNCHANGED <<row, drain, mem>>
    BY <1>1 DEF Owner, OwnerLists, OwnerTerminal, OwnerHeartbeat, Tick, TimePasses
  <2> QED BY <2>1 DEF Booked
<1>2. CASE MarkDraining \/ \E a \in Auths : DoorAppends(a)
  BY <1>2, MarkDrainingBooks, RowAddedBooks DEF DoorAppends
<1>3. ASSUME NEW m \in Members, Member(m)
      PROVE  Booked'
  <2>1. CASE LoadLease(m) \/ Apply(m) \/ AckClean(m)
    BY <2>1, LoadBooks, ApplyBooks, IdleBooks
  <2>2. CASE AckDone(m)
    BY <2>2 DEF AckDone, Booked
  <2>3. CASE Commit(m) \/ GapCommits(m) \/ StopAtGap(m)
    BY <2>3, CommitStepBooks, AtGapBooks
  <2>4. CASE Drain(m)
    BY <2>4, IdleBooks, ReadRowsBooks, CloseStepBooks, ReapBooks DEF Drain
  <2> QED BY <1>3, <2>1, <2>2, <2>3, <2>4 DEF Member
<1>4. ASSUME NEW m \in Members, CommitUnknown(m) \/ CloseUnknown(m) \/ Crash(m)
      PROVE  Booked'
  BY <1>4, CommitStepBooks, CloseStepBooks, CrashBooks
<1>5. CASE UNCHANGED vars
  BY <1>5 DEF vars, Booked
<1> QED BY <1>1, <1>2, <1>3, <1>4, <1>5 DEF Next

LEMMA InitBooks ==
  ASSUME Init
  PROVE  Booked
<1>1. row.winners = {} /\ row.consumed = 0 /\ mem = [m \in Members |-> Unread]
  BY DEF Init
<1>2. RowBooks(row, drain)
  BY <1>1, FS_EmptySet, TotalOfNone DEF RowBooks
<1>3. Unread.won = {}
  BY DEF Unread
<1> QED BY <1>1, <1>2, <1>3, NothingWon DEF Booked

\* What is consumed is each authorization's first terminal, once, whichever
\* members applied it, however often, and whatever commits were lost or taken
\* between.
THEOREM AuditBooksOnce == Spec => []BookedOnce
<1>1. Init => Booked
  BY InitBooks
<1>2. Inv /\ Booked /\ [Next]_vars => Booked'
  BY StepBooks
<1>3. Inv /\ Booked /\ FirstsWin => BookedOnce
  <2>1. SUFFICES ASSUME Inv, Booked PROVE row.consumed = MapThenSumSet(ChargeOf, row.winners)
    BY DEF BookedOnce
  <2>2. row.winners \in SUBSET WinnerRow
    BY <2>1 DEF Inv, Types, IsRow
  <2> QED BY <2>1, <2>2, ChargedIsTotal DEF Booked, RowBooks
<1> QED BY <1>1, <1>2, <1>3, InvCorrect, FirstTerminalIsBooked, PTL DEF Spec

-----------------------------------------------------------------------------
(* The switch: its tables, and what holds of them, as WorkspaceSwitch says.  *)

\* What a kill stopped is kept off by the fleet's row '*'.
KillsHold == \A w \in Workspaces : intent[w] = "killed" => fleet

\* What was stopped after the arm has a hold, or, turned off by an older tool
\* under the pause, is among the rows that the resume will hold (Backfill).
StopsHold == \A w \in Workspaces :
  armed /\ intent[w] = "stopped" => Held(w) \/ (paused /\ since[w] /\ ~stamped[w])

\* The inductive invariant.
SwitchInv == SwitchTypeOK /\ StopsStand /\ LeasesFollowSwitch /\ KillsHold /\ StopsHold

\* No row is there yet, and no run is going.
LEMMA SwitchTypeInit ==
  ASSUME SwitchInit
  PROVE  SwitchTypeOK
<1>1. MaxDeaths \in Nat
  BY SwitchAssumption
<1>2. deaths \in 0 .. MaxDeaths
  BY <1>1 DEF SwitchInit
<1> QED BY <1>2 DEF SwitchInit, SwitchTypeOK, Intents, NoRun, AllFacts

-----------------------------------------------------------------------------
(* The types, an action at a time.                                         *)

\* TypeOK, a field at a time.
SwitchTypes ==
    /\ on \in [Workspaces -> BOOLEAN]
    /\ since \in [Workspaces -> BOOLEAN]
    /\ stamped \in [Workspaces -> BOOLEAN]
    /\ hold \in [Workspaces -> Reasons \cup {"none"}]
    /\ fleet \in BOOLEAN /\ paused \in BOOLEAN /\ armed \in BOOLEAN
    /\ lease \in [Workspaces -> {"none", "open", "revoked"}]
    /\ fact \in [Workspaces -> AllFacts]
    /\ run \in [going : BOOLEAN, disables : SUBSET Workspaces, enables : SUBSET Workspaces]
    /\ deaths \in 0 .. MaxDeaths
    /\ intent \in [Workspaces -> Intents]

LEMMA SwitchTypeParts == SwitchTypeOK <=> SwitchTypes
BY Zenon DEF SwitchTypeOK, SwitchTypes

\* Every write leaves each field in its type.
LEMMA SwitchTypeStep ==
  ASSUME SwitchTypes, [SwitchNext]_switchVars
  PROVE  SwitchTypes'
<1> USE DEF SwitchTypes, Intents, Wants, KeepsRows, KeepsSwitch,
    KeepsEnabler, tables
<1>1. ASSUME NEW w \in Workspaces, Enable(w)
      PROVE  SwitchTypes'
  BY <1>1 DEF Enable, TurnOn
<1>2. ASSUME NEW w \in Workspaces, Disable(w)
      PROVE  SwitchTypes'
  BY <1>2 DEF Disable, TurnOff, Revoked, Reasons
<1>3. ASSUME NEW w \in Workspaces, Release(w)
      PROVE  SwitchTypes'
  BY <1>3 DEF Release
<1>4. ASSUME DisableAll
      PROVE  SwitchTypes'
  BY <1>4 DEF DisableAll, TurnOff, Revoked
<1>5. ASSUME ReleaseAll
      PROVE  SwitchTypes'
  BY <1>5 DEF ReleaseAll
<1>6. ASSUME ReleaseStamped
      PROVE  SwitchTypes'
  BY <1>6 DEF ReleaseStamped
<1>7. ASSUME Pause
      PROVE  SwitchTypes'
  BY <1>7 DEF Pause
<1>8. ASSUME Resume
      PROVE  SwitchTypes'
  BY <1>8 DEF Resume, HoldReason, Reasons
<1>9. ASSUME Arm
      PROVE  SwitchTypes'
  BY <1>9 DEF Arm
<1>10. ASSUME HoldBackfill
      PROVE  SwitchTypes'
  BY <1>10 DEF HoldBackfill, Reasons
<1>11. ASSUME NEW S \in SUBSET Workspaces, NEW T \in SUBSET Workspaces,
             S \subseteq T, OlderDisable(S, T)
      PROVE  SwitchTypes'
  BY <1>11 DEF OlderDisable, TurnOff, Revoked
<1>12. ASSUME NEW w \in Workspaces, OlderEnable(w)
      PROVE  SwitchTypes'
  BY <1>12 DEF OlderEnable, TurnOn
<1>13. ASSUME Plan
      PROVE  SwitchTypes'
  <2>1. Disables \subseteq Workspaces /\ Enables \subseteq Workspaces
    BY Zenon DEF Disables, Enables, Paced, Clean
  <2> QED BY <1>13, <2>1 DEF Plan
<1>14. ASSUME EndRun
      PROVE  SwitchTypes'
  BY <1>14 DEF EndRun, NoRun
<1>15. ASSUME RunDies
      PROVE  SwitchTypes'
  BY <1>15, SwitchAssumption DEF RunDies, NoRun
<1>16. ASSUME NEW w \in Workspaces, WriteDisable(w)
      PROVE  SwitchTypes'
  <2>1. run' \in [going : BOOLEAN, disables : SUBSET Workspaces, enables : SUBSET Workspaces]
    BY <1>16 DEF WriteDisable, NoRun
  <2>2. CASE ~Stops /\ on[w]
    <3>1. TurnOff({w}, FALSE) /\ Revoked({w}) /\ KeepsRows /\ UNCHANGED <<hold, fact, deaths, intent>>
      BY <1>16, <2>2 DEF WriteDisable
    <3> QED BY <2>1, <3>1 DEF TurnOff, Revoked
  <2>3. CASE ~(~Stops /\ on[w])
    BY <1>16, <2>1, <2>3 DEF WriteDisable
  <2> QED BY <2>2, <2>3
<1>17. ASSUME NEW w \in Workspaces, WriteEnable(w)
      PROVE  SwitchTypes'
  <2>1. run' \in [going : BOOLEAN, disables : SUBSET Workspaces, enables : SUBSET Workspaces]
    BY <1>17 DEF WriteEnable, NoRun
  <2>2. CASE ~Stops /\ StillEnables(w)
    <3>1. TurnOn({w}) /\ KeepsRows /\ UNCHANGED <<hold, lease, fact, deaths, intent>>
      BY <1>17, <2>2 DEF WriteEnable
    <3> QED BY <2>1, <3>1 DEF TurnOn
  <2>3. CASE ~(~Stops /\ StillEnables(w))
    BY <1>17, <2>1, <2>3 DEF WriteEnable
  <2> QED BY <2>2, <2>3
<1>18. ASSUME NEW w \in Workspaces, Grant(w)
      PROVE  SwitchTypes'
  BY <1>18 DEF Grant
<1>19. ASSUME NEW w \in Workspaces, LeaseEnds(w)
      PROVE  SwitchTypes'
  BY <1>19 DEF LeaseEnds
<1>20. ASSUME NEW w \in Workspaces, FactsChange(w)
      PROVE  SwitchTypes'
  BY <1>20, SwitchAssumption DEF FactsChange
<1>21. ASSUME UNCHANGED switchVars
      PROVE  SwitchTypes'
  BY <1>21 DEF switchVars
<1>22. ASSUME OlderDisableAll
      PROVE  SwitchTypes'
  <2>1. {w \in Workspaces : on[w]} \in SUBSET Workspaces
    OBVIOUS
  <2> QED BY <1>11, <1>22, <2>1 DEF OlderDisableAll
<1>23. ASSUME NEW w \in Workspaces, OlderDisable({w}, {w})
      PROVE  SwitchTypes'
  BY <1>11, <1>23
<1> QED
  BY <1>1, <1>2, <1>3, <1>4, <1>5, <1>6, <1>7, <1>8, <1>9, <1>10, <1>11, <1>12, <1>13,
      <1>14, <1>15, <1>16, <1>17, <1>18, <1>19, <1>20, <1>21, <1>22, <1>23
  DEF SwitchNext, Operators, OlderTools, Enabler, Writes,
      Leases, Standing

-----------------------------------------------------------------------------
(* The promises, an action at a time.                                      *)

\* What SwitchInv says of one workspace.
SwitchKept(w) ==
  /\ intent[w] \in {"stopped", "killed"} => ~on[w]
  /\ on[w] /\ Held(w) => paused \/ intent[w] = "early"
  /\ lease[w] = "open" => on[w]
  /\ intent[w] = "killed" => fleet
  /\ armed /\ intent[w] = "stopped" => Held(w) \/ (paused /\ since[w] /\ ~stamped[w])

AllSwitchesKept == \A w \in Workspaces : SwitchKept(w)

LEMMA SwitchInvParts == SwitchInv <=> SwitchTypeOK /\ AllSwitchesKept
BY DEF SwitchInv, AllSwitchesKept, SwitchKept, StopsStand,
    LeasesFollowSwitch, KillsHold, StopsHold

\* No step of an operator, a watch, an older tool, a run or a grant breaks the
\* promises of any workspace.  A run enables only where its transaction reads
\* neither a hold nor the row '*', so nothing an operator stopped; a resume
\* holds what older tools turned off under its pause.
LEMMA SwitchKeptStep ==
  ASSUME SwitchTypes, AllSwitchesKept, [SwitchNext]_switchVars
  PROVE  AllSwitchesKept'
<1> USE DEF SwitchTypes, AllSwitchesKept, SwitchKept, Intents, Held, Wants,
    KeepsRows, KeepsSwitch, KeepsEnabler, tables
<1>1. ASSUME NEW w \in Workspaces, Enable(w)
      PROVE  AllSwitchesKept'
  BY <1>1 DEF Enable, TurnOn
<1>2. ASSUME NEW w \in Workspaces, Disable(w)
      PROVE  AllSwitchesKept'
  BY <1>2 DEF Disable, TurnOff, Revoked
<1>3. ASSUME NEW w \in Workspaces, Release(w)
      PROVE  AllSwitchesKept'
  BY <1>3 DEF Release
<1>4. ASSUME DisableAll
      PROVE  AllSwitchesKept'
  BY <1>4 DEF DisableAll, TurnOff, Revoked
<1>5. ASSUME ReleaseAll
      PROVE  AllSwitchesKept'
  BY <1>5 DEF ReleaseAll
<1>6. ASSUME ReleaseStamped
      PROVE  AllSwitchesKept'
  BY <1>6 DEF ReleaseStamped
<1>7. ASSUME Pause
      PROVE  AllSwitchesKept'
  BY <1>7 DEF Pause
<1>8. ASSUME Resume
      PROVE  AllSwitchesKept'
  BY <1>8 DEF Resume, Backfill, Unheld, HoldReason, Resolved
<1>9. ASSUME Arm
      PROVE  AllSwitchesKept'
  BY <1>9 DEF Arm, Unheld
<1>10. ASSUME HoldBackfill
      PROVE  AllSwitchesKept'
  BY <1>10 DEF HoldBackfill, Unheld
<1>11. ASSUME NEW S \in SUBSET Workspaces, NEW T \in SUBSET Workspaces,
             S \subseteq T, OlderDisable(S, T)
      PROVE  AllSwitchesKept'
  BY <1>11 DEF OlderDisable, Rollback, TurnOff, Revoked
<1>12. ASSUME NEW w \in Workspaces, OlderEnable(w)
      PROVE  AllSwitchesKept'
  BY <1>12 DEF OlderEnable, Rollback, TurnOn
<1>13. ASSUME Plan
      PROVE  AllSwitchesKept'
  BY <1>13 DEF Plan
<1>14. ASSUME EndRun
      PROVE  AllSwitchesKept'
  BY <1>14 DEF EndRun, NoRun
<1>15. ASSUME RunDies
      PROVE  AllSwitchesKept'
  BY <1>15 DEF RunDies, NoRun
<1>16. ASSUME NEW w \in Workspaces, WriteDisable(w)
      PROVE  AllSwitchesKept'
  <2>1. CASE ~Stops /\ on[w]
    BY <1>16, <2>1 DEF WriteDisable, Stops, TurnOff, Revoked
  <2>2. CASE ~(~Stops /\ on[w])
    BY <1>16, <2>2 DEF WriteDisable
  <2> QED BY <2>1, <2>2
<1>17. ASSUME NEW w \in Workspaces, WriteEnable(w)
      PROVE  AllSwitchesKept'
  <2>1. CASE ~Stops /\ StillEnables(w)
    BY <1>17, <2>1 DEF WriteEnable, Stops, StillEnables, TurnOn
  <2>2. CASE ~(~Stops /\ StillEnables(w))
    BY <1>17, <2>2 DEF WriteEnable
  <2> QED BY <2>1, <2>2
<1>18. ASSUME NEW w \in Workspaces, Grant(w)
      PROVE  AllSwitchesKept'
  BY <1>18 DEF Grant
<1>19. ASSUME NEW w \in Workspaces, LeaseEnds(w)
      PROVE  AllSwitchesKept'
  BY <1>19 DEF LeaseEnds
<1>20. ASSUME NEW w \in Workspaces, FactsChange(w)
      PROVE  AllSwitchesKept'
  BY <1>20 DEF FactsChange
<1>21. ASSUME UNCHANGED switchVars
      PROVE  AllSwitchesKept'
  BY <1>21 DEF switchVars
<1>22. ASSUME OlderDisableAll
      PROVE  AllSwitchesKept'
  <2>1. {w \in Workspaces : on[w]} \in SUBSET Workspaces
    OBVIOUS
  <2> QED BY <1>11, <1>22, <2>1 DEF OlderDisableAll
<1>23. ASSUME NEW w \in Workspaces, OlderDisable({w}, {w})
      PROVE  AllSwitchesKept'
  BY <1>11, <1>23
<1> QED
  BY <1>1, <1>2, <1>3, <1>4, <1>5, <1>6, <1>7, <1>8, <1>9, <1>10, <1>11, <1>12, <1>13,
      <1>14, <1>15, <1>16, <1>17, <1>18, <1>19, <1>20, <1>21, <1>22, <1>23
  DEF SwitchNext, Operators, OlderTools, Enabler, Writes,
      Leases, Standing

-----------------------------------------------------------------------------
\* The inductive invariant holds of every behaviour.
LEMMA SwitchInvCorrect ==
  SwitchSpec => []SwitchInv
<1>1. SwitchInit => SwitchInv
  <2>1. SwitchInit => AllSwitchesKept
    BY DEF SwitchInit, AllSwitchesKept, SwitchKept
  <2> QED BY <2>1, SwitchTypeInit, SwitchInvParts
<1>2. SwitchInv /\ [SwitchNext]_switchVars => SwitchInv'
  <2> SUFFICES ASSUME SwitchInv, [SwitchNext]_switchVars PROVE SwitchInv'
    OBVIOUS
  <2>1. SwitchTypes /\ AllSwitchesKept
    BY SwitchInvParts, SwitchTypeParts
  <2>2. SwitchTypes' /\ AllSwitchesKept'
    BY <2>1, SwitchTypeStep, SwitchKeptStep
  <2>3. SwitchTypeOK'
    BY <2>2 DEF SwitchTypeOK, SwitchTypes
  <2> QED
    BY <2>2, <2>3 DEF SwitchInv, AllSwitchesKept, SwitchKept, StopsStand,
        LeasesFollowSwitch, KillsHold, StopsHold
<1> QED BY <1>1, <1>2, PTL DEF SwitchSpec

\* The tables that fastpathctl, the enabler and the grant share keep their
\* types: a hold is always by one of the reasons there are.
THEOREM SwitchTypeCorrect ==
  SwitchSpec => []SwitchTypeOK
<1>1. SwitchInv => SwitchTypeOK
  BY DEF SwitchInv
<1> QED BY <1>1, SwitchInvCorrect, PTL

\* A workspace that an operator, a watch or a kill stopped stays off until an
\* operator lets it go, whatever plan a run of the enabler still carries and
\* whichever release's tools stopped it; and no row that an older tool enabled
\* over its hold in a rollback is left to a run after the resume.
THEOREM StopsAreKept ==
  SwitchSpec => []StopsStand
<1>1. SwitchInv => StopsStand
  BY DEF SwitchInv
<1> QED BY <1>1, SwitchInvCorrect, PTL

\* Grant's read of the switch and a stop's revocation leave no lease open and
\* unrevoked at a workspace that is off.
THEOREM LeasesAreRevoked ==
  SwitchSpec => []LeasesFollowSwitch
<1>1. SwitchInv => LeasesFollowSwitch
  BY DEF SwitchInv
<1> QED BY <1>1, SwitchInvCorrect, PTL

=============================================================================

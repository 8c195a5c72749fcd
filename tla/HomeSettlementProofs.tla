------------------------- MODULE HomeSettlementProofs -------------------------
(***************************************************************************)
(* Deferred settlement keeps its books for every value of HomeSettlement's  *)
(* CONSTANTS: the counters are exact (CountersAreExact), a debt is booked   *)
(* at home once (DebtBookedOnce) and what a workspace owes is capped        *)
(* (ExposureIsCapped).                                                      *)
(***************************************************************************)
EXTENDS HomeSettlement, FiniteSetTheorems, FunctionTheorems, TLAPS

AuthType == [Requests -> {"none", "open", "expired", "final"}]
RowType == [state : {"none", "pending", "forwarded", "dead_letter"},
            cost : Costs \cup {0}, due : BOOLEAN]
OutboxType == [Requests -> RowType]
PassType == {Idle} \cup [at : {"row"}, rows : SUBSET Requests]
                   \cup [at : {"waiting"}, req : Requests, rows : SUBSET Requests]
                   \cup [at : {"answered"}, req : Requests, rows : SUBSET Requests,
                         verdict : Verdicts]
CallType == {Idle} \cup [at : {"held"}, req : Requests]

\* TypeOK, by the names of its types.
Types ==
  /\ auth \in AuthType /\ outbox \in OutboxType
  /\ outstanding \in [Workspaces -> Nat] /\ deadLettered \in [Workspaces -> Nat]
  /\ key \in [reserved : Nat, used : Nat] /\ booked \in Nat
  /\ client \in [Clients -> CallType] /\ fwd \in [Forwarders -> PassType]
  /\ wire \subseteq Requests /\ claim \in [Requests -> Costs \cup {0}]
  /\ usage \in Nat /\ today \in [Workspaces -> 0 .. DailyCap]
  /\ faults \in 0 .. MaxFaults

-----------------------------------------------------------------------------
(* The inductive invariant.  It is stated of any authorizations A, outbox O,  *)
(* claims K and so on, so that its parts can be used before and after a step. *)

\* A request has no row before it is settled, and a row keeps its cost; only
\* what has a row is claimed, for its cost, at a workspace the home plane has.
RowRight(a, o, k, known) ==
  /\ a # "final" => o.state = "none"
  /\ o.state = "none" => k = 0
  /\ o.state # "none" => o.cost \in Costs
  /\ k # 0 => k = o.cost /\ known
  /\ o.state = "forwarded" => k # 0
  /\ o.state = "dead_letter" => k = 0 /\ ~known

RowsRight(A, O, K) ==
  \A r \in Requests : RowRight(A[r], O[r], K[r], WorkspaceOf[r] \in Known)

\* What is sent has a row, and what a pass was answered is still true.
WireRight(O, W) == \A r \in W : O[r].state # "none"

PassRight(p, O, K) ==
  /\ p.at \in {"row", "waiting", "answered"} => \A r \in p.rows : O[r].state # "none"
  /\ p.at \in {"waiting", "answered"} => O[p.req].state # "none"
  /\ p.at = "answered" /\ p.verdict \in Delivered => K[p.req] # 0
  /\ p.at = "answered" /\ p.verdict \in WrittenOff =>
        K[p.req] = 0 /\ WorkspaceOf[p.req] \notin Known

PassesRight(F, O, K) == \A f \in Forwarders : PassRight(F[f], O, K)

\* What one request adds to its workspace's counters and to the excess.
EstimateAt(a) == IF a \in {"open", "expired"} THEN Estimate ELSE 0
PendingAt(o) == IF o.state = "pending" THEN o.cost ELSE 0
OwedAt(a, o) == EstimateAt(a) + PendingAt(o)
LostAt(o) == IF o.state = "dead_letter" THEN o.cost ELSE 0
BeyondAt(o) == AtLeastZero(PendingAt(o) - Estimate)
CallAt(c) == IF c # Idle THEN Estimate ELSE 0

Owing(A, O, w) == [r \in Of(w) |-> OwedAt(A[r], O[r])]
Losing(O, w) == [r \in Of(w) |-> LostAt(O[r])]
Exceeding(O, w) == [r \in Of(w) |-> BeyondAt(O[r])]
Holding(A) == [r \in Requests |-> EstimateAt(A[r])]
Calling(C) == [c \in Clients |-> CallAt(C[c])]

Exact(A, O, out, dead) ==
  \A w \in Workspaces : out[w] = Sum(Owing(A, O, w)) /\ dead[w] = Sum(Losing(O, w))

Capped(O, out) == \A w \in Workspaces : out[w] <= Cap + Sum(Exceeding(O, w))

KeyRight(res, A, C, n) ==
  /\ res >= Sum(Holding(A)) + Sum(Calling(C))
  /\ n = 0 => res = Sum(Holding(A)) + Sum(Calling(C))

CountersInv == Exact(auth, outbox, outstanding, deadLettered) /\ Capped(outbox, outstanding)
KeyInv == KeyRight(key.reserved, auth, client, faults) /\ key.used = booked
ClaimsInv == RowsRight(auth, outbox, claim) /\ WireRight(outbox, wire)
             /\ PassesRight(fwd, outbox, claim)
UsageInv == usage = Sum(claim)

Inv == Types /\ ClaimsInv /\ CountersInv /\ KeyInv /\ UsageInv

-----------------------------------------------------------------------------
(* The properties from the invariant.                                       *)

LEMMA InvCounts == Inv => CountersAreExact
<1> SUFFICES ASSUME Inv PROVE CountersAreExact
  OBVIOUS
<1>1. [r \in Requests |-> EstimateOf(r)] = Holding(auth)
  BY DEF EstimateOf, Open, Holding, EstimateAt
<1>2. [c \in Clients |-> IF client[c] # Idle THEN Estimate ELSE 0] = Calling(client)
  BY DEF Calling, CallAt
<1>3. ASSUME NEW w \in Workspaces
      PROVE  /\ [r \in Of(w) |-> EstimateOf(r) + PendingOf(r)] = Owing(auth, outbox, w)
             /\ [r \in Of(w) |-> LostOf(r)] = Losing(outbox, w)
  BY DEF EstimateOf, PendingOf, LostOf, Open, Owing, Losing, OwedAt, EstimateAt, PendingAt, LostAt
<1> QED BY <1>1, <1>2, <1>3 DEF CountersAreExact, Inv, CountersInv, Exact, KeyInv, KeyRight

LEMMA InvBooks == Inv => DebtBookedOnce
BY DEF DebtBookedOnce, Inv, UsageInv, ClaimsInv, RowsRight, RowRight

LEMMA InvCaps == Inv => ExposureIsCapped
<1> SUFFICES ASSUME Inv PROVE ExposureIsCapped
  OBVIOUS
<1>1. ASSUME NEW w \in Workspaces
      PROVE  [r \in Of(w) |-> BeyondOf(r)] = Exceeding(outbox, w)
  BY DEF BeyondOf, PendingOf, Exceeding, BeyondAt, PendingAt
<1> QED BY <1>1 DEF ExposureIsCapped, Inv, CountersInv, Capped

-----------------------------------------------------------------------------
(* Sums: the sum of a function is the number of its pairs, so what it gains  *)
(* with one argument more is that argument's value.                          *)

\* The pairs counted, one for each unit of each value.
Pairs(f) == UNION {{x} \X (1 .. f[x]) : x \in DOMAIN f}

LEMMA PairsOf ==
  ASSUME NEW f, NEW p
  PROVE  p \in Pairs(f) <=> \E x \in DOMAIN f : p \in {x} \X (1 .. f[x])
BY DEF Pairs

\* The pairs of a function with a finite domain are finitely many.
LEMMA PairsFinite ==
  ASSUME NEW S, IsFiniteSet(S), NEW f \in [S -> Nat]
  PROVE  IsFiniteSet(Pairs(f)) /\ Sum(f) = Cardinality(Pairs(f)) /\ Sum(f) \in Nat
<1> DEFINE T == {{x} \X (1 .. f[x]) : x \in S}
           g == [x \in S |-> {x} \X (1 .. f[x])]
<1>1. g \in [S -> T] /\ \A t \in T : \E x \in S : g[x] = t
  OBVIOUS
<1>2. g \in Surjection(S, T)
  BY <1>1, Fun_IsSurj
<1>3. IsFiniteSet(T)
  BY <1>2, FS_Surjection
<1>4. ASSUME NEW t \in T PROVE IsFiniteSet(t)
  <2>1. PICK x \in S : t = {x} \X (1 .. f[x])
    OBVIOUS
  <2>2. f[x] \in Int /\ 1 \in Int
    OBVIOUS
  <2>3. IsFiniteSet({x})
    BY FS_Singleton
  <2>4. IsFiniteSet(1 .. f[x])
    BY <2>2, FS_Interval
  <2> QED BY <2>1, <2>3, <2>4, FS_Product
<1>5. IsFiniteSet(UNION T)
  BY <1>3, <1>4, FS_UNION
<1>6. Pairs(f) = UNION T
  BY DEF Pairs
<1>7. Sum(f) = Cardinality(Pairs(f))
  BY DEF Sum, Pairs
<1> QED BY <1>5, <1>6, <1>7, FS_CardinalityType

\* One argument more adds its value.
LEMMA SumAdds ==
  ASSUME NEW S, IsFiniteSet(S), NEW z, z \notin S,
         NEW f \in [S -> Nat], NEW g \in [S \union {z} -> Nat],
         \A x \in S : g[x] = f[x]
  PROVE  Sum(g) = Sum(f) + g[z] /\ Sum(f) \in Nat /\ Sum(g) \in Nat
<1> DEFINE A == Pairs(f)
           B == {z} \X (1 .. g[z])
<1>1. g[z] \in Nat /\ DOMAIN f = S /\ DOMAIN g = S \union {z}
  OBVIOUS
<1>2. IsFiniteSet(A) /\ Sum(f) = Cardinality(A) /\ Sum(f) \in Nat
  BY PairsFinite
<1>3. IsFiniteSet(B) /\ Cardinality(B) = g[z]
  <2>1. /\ IsFiniteSet({z}) /\ Cardinality({z}) = 1
    BY FS_Singleton
  <2>2. IsFiniteSet(1 .. g[z]) /\ Cardinality(1 .. g[z]) = g[z]
    BY <1>1, FS_Interval
  <2>3. IsFiniteSet(B) /\ Cardinality(B) = Cardinality({z}) * Cardinality(1 .. g[z])
    BY <2>1, <2>2, FS_Product
  <2> QED BY <1>1, <2>1, <2>2, <2>3
<1>4. A \cap B = {}
  <2> SUFFICES ASSUME NEW p \in A, p \in B PROVE FALSE
    OBVIOUS
  <2>1. PICK x \in S : p \in {x} \X (1 .. f[x])
    BY <1>1, PairsOf
  <2> QED BY <2>1
<1>5. Pairs(g) = A \union B
  <2>1. ASSUME NEW p, p \in Pairs(g) PROVE p \in A \union B
    <3>1. PICK x \in S \union {z} : p \in {x} \X (1 .. g[x])
      BY <1>1, <2>1, PairsOf
    <3>2. CASE x \in S
      BY <1>1, <3>1, <3>2, PairsOf
    <3>3. CASE x = z
      BY <3>1, <3>3
    <3> QED BY <3>2, <3>3
  <2>2. ASSUME NEW p \in A PROVE p \in Pairs(g)
    <3>1. PICK x \in S : p \in {x} \X (1 .. f[x])
      BY <1>1, PairsOf
    <3>2. x \in DOMAIN g /\ p \in {x} \X (1 .. g[x])
      BY <1>1, <3>1
    <3> QED BY <3>2, PairsOf
  <2>3. ASSUME NEW p \in B PROVE p \in Pairs(g)
    BY <1>1, PairsOf
  <2> QED BY <2>1, <2>2, <2>3
<1>6. IsFiniteSet(S \union {z})
  BY FS_AddElement
<1>7. Sum(g) = Cardinality(Pairs(g)) /\ Sum(g) \in Nat
  BY <1>6, PairsFinite
<1>8. Cardinality(A \union B) = Cardinality(A) + Cardinality(B) - Cardinality(A \cap B)
  BY <1>2, <1>3, FS_Union
<1>9. Cardinality(A \cap B) = 0
  BY <1>4, FS_EmptySet
<1> HIDE DEF A, B
<1> QED BY <1>1, <1>2, <1>3, <1>5, <1>7, <1>8, <1>9

\* One value changes, and the sum changes by it.
LEMMA SumChanges ==
  ASSUME NEW S, IsFiniteSet(S), NEW z \in S, NEW f \in [S -> Nat], NEW g \in [S -> Nat],
         \A x \in S \ {z} : g[x] = f[x]
  PROVE  /\ Sum(g) = Sum(f) - f[z] + g[z] /\ f[z] <= Sum(f)
         /\ Sum(f) \in Nat /\ Sum(g) \in Nat
<1> DEFINE T == S \ {z}
           h == [x \in T |-> f[x]]
<1>1. IsFiniteSet(T) /\ z \notin T /\ T \union {z} = S
  BY FS_RemoveElement
<1>2. h \in [T -> Nat] /\ (\A x \in T : f[x] = h[x]) /\ (\A x \in T : g[x] = h[x])
  OBVIOUS
<1>3. f \in [T \union {z} -> Nat] /\ g \in [T \union {z} -> Nat]
  BY <1>1
<1> HIDE DEF T, h
<1>4. Sum(f) = Sum(h) + f[z] /\ Sum(h) \in Nat /\ Sum(f) \in Nat
  BY <1>1, <1>2, <1>3, SumAdds
<1>5. Sum(g) = Sum(h) + g[z] /\ Sum(g) \in Nat
  BY <1>1, <1>2, <1>3, SumAdds
<1>6. f[z] \in Nat /\ g[z] \in Nat
  OBVIOUS
<1> QED BY <1>4, <1>5, <1>6

\* The sum of noughts.
LEMMA SumOfNoughts ==
  ASSUME NEW S, IsFiniteSet(S), NEW f \in [S -> Nat], \A x \in S : f[x] = 0
  PROVE  Sum(f) = 0
<1>1. Pairs(f) = {}
  <2> SUFFICES ASSUME NEW p, p \in Pairs(f) PROVE FALSE
    OBVIOUS
  <2>1. PICK x \in S : p \in {x} \X (1 .. f[x])
    BY PairsOf
  <2>2. f[x] = 0 /\ 1 .. 0 = {}
    OBVIOUS
  <2> QED BY <2>1, <2>2
<1>2. Sum(f) = Cardinality(Pairs(f))
  BY PairsFinite
<1> QED BY <1>1, <1>2, FS_EmptySet

-----------------------------------------------------------------------------
(* One request's part in the counters.                                      *)

LEMMA ConstantTypes ==
  /\ Estimate \in Nat /\ 0 < Estimate /\ Cap \in Nat /\ Costs \subseteq Nat /\ 0 \notin Costs
  /\ KeyLimit \in Nat /\ DailyCap \in Nat /\ MaxFaults \in Nat
  /\ IsFiniteSet(Requests) /\ IsFiniteSet(Clients)
  /\ \A r \in Requests : WorkspaceOf[r] \in Workspaces
  /\ \A c \in Costs \cup {0} : c \in Nat /\ c <= DailyCap
BY HomeAssumption

LEMMA PartTypes ==
  ASSUME NEW a, NEW o \in RowType
  PROVE  /\ OwedAt(a, o) \in Nat /\ LostAt(o) \in Nat /\ BeyondAt(o) \in Nat
         /\ EstimateAt(a) \in Nat /\ PendingAt(o) \in Nat
<1>1. o.cost \in Nat
  BY ConstantTypes DEF RowType
<1>2. EstimateAt(a) \in Nat /\ PendingAt(o) \in Nat /\ LostAt(o) \in Nat
  BY <1>1, ConstantTypes DEF EstimateAt, PendingAt, LostAt
<1> QED BY <1>2, ConstantTypes DEF OwedAt, BeyondAt, AtLeastZero

LEMMA PartsOf ==
  ASSUME NEW A, NEW O \in OutboxType, NEW w
  PROVE  /\ Of(w) \subseteq Requests /\ IsFiniteSet(Of(w))
         /\ Owing(A, O, w) \in [Of(w) -> Nat] /\ Losing(O, w) \in [Of(w) -> Nat]
         /\ Exceeding(O, w) \in [Of(w) -> Nat]
<1>1. Of(w) \subseteq Requests
  BY DEF Of
<1>2. IsFiniteSet(Of(w))
  BY <1>1, ConstantTypes, FS_Subset
<1>3. \A r \in Of(w) : O[r] \in RowType
  BY <1>1 DEF OutboxType
<1>4. \A r \in Of(w) : /\ OwedAt(A[r], O[r]) \in Nat /\ LostAt(O[r]) \in Nat
                       /\ BeyondAt(O[r]) \in Nat
  BY <1>3, PartTypes
<1> QED BY <1>1, <1>2, <1>4 DEF Owing, Losing, Exceeding

\* Two states that differ in one request.
Differ(A, B, O, P, x) == \A r \in Requests \ {x} : B[r] = A[r] /\ P[r] = O[r]

\* What the request's workspace then gains, and the others do not.
LEMMA OneRequest ==
  ASSUME NEW A, NEW B, NEW O \in OutboxType, NEW P \in OutboxType,
         NEW x \in Requests, Differ(A, B, O, P, x), NEW w, w = WorkspaceOf[x]
  PROVE  /\ Sum(Owing(B, P, w)) = Sum(Owing(A, O, w)) - OwedAt(A[x], O[x]) + OwedAt(B[x], P[x])
         /\ Sum(Losing(P, w)) = Sum(Losing(O, w)) - LostAt(O[x]) + LostAt(P[x])
         /\ Sum(Exceeding(P, w)) = Sum(Exceeding(O, w)) - BeyondAt(O[x]) + BeyondAt(P[x])
         /\ OwedAt(A[x], O[x]) <= Sum(Owing(A, O, w))
         /\ Sum(Owing(A, O, w)) \in Nat /\ Sum(Losing(O, w)) \in Nat /\ Sum(Exceeding(O, w)) \in Nat
<1>1. x \in Of(w) /\ IsFiniteSet(Of(w)) /\ Of(w) \subseteq Requests
  BY PartsOf DEF Of
<1>2. \A r \in Of(w) \ {x} : B[r] = A[r] /\ P[r] = O[r]
  BY <1>1 DEF Differ
<1>3. /\ Owing(A, O, w) \in [Of(w) -> Nat] /\ Owing(B, P, w) \in [Of(w) -> Nat]
      /\ \A r \in Of(w) \ {x} : Owing(B, P, w)[r] = Owing(A, O, w)[r]
  <2>1. \A r \in Of(w) \ {x} : Owing(B, P, w)[r] = Owing(A, O, w)[r]
    BY <1>2 DEF Owing
  <2> QED BY <2>1, PartsOf
<1>4. /\ Losing(O, w) \in [Of(w) -> Nat] /\ Losing(P, w) \in [Of(w) -> Nat]
      /\ \A r \in Of(w) \ {x} : Losing(P, w)[r] = Losing(O, w)[r]
  <2>1. \A r \in Of(w) \ {x} : Losing(P, w)[r] = Losing(O, w)[r]
    BY <1>2 DEF Losing
  <2> QED BY <2>1, PartsOf
<1>5. /\ Exceeding(O, w) \in [Of(w) -> Nat] /\ Exceeding(P, w) \in [Of(w) -> Nat]
      /\ \A r \in Of(w) \ {x} : Exceeding(P, w)[r] = Exceeding(O, w)[r]
  <2>1. \A r \in Of(w) \ {x} : Exceeding(P, w)[r] = Exceeding(O, w)[r]
    BY <1>2 DEF Exceeding
  <2> QED BY <2>1, PartsOf
<1>6. /\ Owing(A, O, w)[x] = OwedAt(A[x], O[x]) /\ Owing(B, P, w)[x] = OwedAt(B[x], P[x])
      /\ Losing(O, w)[x] = LostAt(O[x]) /\ Losing(P, w)[x] = LostAt(P[x])
      /\ Exceeding(O, w)[x] = BeyondAt(O[x]) /\ Exceeding(P, w)[x] = BeyondAt(P[x])
  BY <1>1 DEF Owing, Losing, Exceeding
<1>7. /\ Sum(Owing(B, P, w)) = Sum(Owing(A, O, w)) - Owing(A, O, w)[x] + Owing(B, P, w)[x]
      /\ Owing(A, O, w)[x] <= Sum(Owing(A, O, w)) /\ Sum(Owing(A, O, w)) \in Nat
  BY <1>1, <1>3, SumChanges
<1>8. /\ Sum(Losing(P, w)) = Sum(Losing(O, w)) - Losing(O, w)[x] + Losing(P, w)[x]
      /\ Sum(Losing(O, w)) \in Nat
  BY <1>1, <1>4, SumChanges
<1>9. /\ Sum(Exceeding(P, w)) = Sum(Exceeding(O, w)) - Exceeding(O, w)[x] + Exceeding(P, w)[x]
      /\ Sum(Exceeding(O, w)) \in Nat
  BY <1>1, <1>5, SumChanges
<1> QED BY <1>6, <1>7, <1>8, <1>9

LEMMA OtherWorkspaces ==
  ASSUME NEW A, NEW B, NEW O, NEW P, NEW x \in Requests, Differ(A, B, O, P, x),
         NEW w, w # WorkspaceOf[x]
  PROVE  /\ Owing(B, P, w) = Owing(A, O, w) /\ Losing(P, w) = Losing(O, w)
         /\ Exceeding(P, w) = Exceeding(O, w)
<1>1. \A r \in Of(w) : B[r] = A[r] /\ P[r] = O[r]
  BY DEF Of, Differ
<1> QED BY <1>1 DEF Owing, Losing, Exceeding

\* A counter's row moves by what the request's part does.
Moves(n, m, v, p, q) == \A w \in Workspaces : m[w] = IF w = v THEN n[w] - p + q ELSE n[w]

\* A step about one request x: its parts move their counters, and outstanding
\* ends within the cap or grows by no more than the excess does.
PartsMove(A, B, O, P, out, out2, dead, dead2, x) ==
  /\ Differ(A, B, O, P, x)
  /\ Moves(out, out2, WorkspaceOf[x], OwedAt(A[x], O[x]), OwedAt(B[x], P[x]))
  /\ Moves(dead, dead2, WorkspaceOf[x], LostAt(O[x]), LostAt(P[x]))
  /\ \/ out2[WorkspaceOf[x]] <= Cap
     \/ OwedAt(B[x], P[x]) - OwedAt(A[x], O[x]) <= BeyondAt(P[x]) - BeyondAt(O[x])

LEMMA CountersMove ==
  ASSUME NEW A, NEW B, NEW O \in OutboxType, NEW P \in OutboxType,
         NEW out, NEW out2, NEW dead, NEW dead2, NEW x \in Requests,
         Exact(A, O, out, dead), Capped(O, out),
         PartsMove(A, B, O, P, out, out2, dead, dead2, x)
  PROVE  Exact(B, P, out2, dead2) /\ Capped(P, out2)
<1>1. Differ(A, B, O, P, x)
  BY DEF PartsMove
<1>2. ASSUME NEW w \in Workspaces, w # WorkspaceOf[x]
      PROVE  /\ out2[w] = Sum(Owing(B, P, w)) /\ dead2[w] = Sum(Losing(P, w))
             /\ out2[w] <= Cap + Sum(Exceeding(P, w))
  <2>1. /\ Owing(B, P, w) = Owing(A, O, w) /\ Losing(P, w) = Losing(O, w)
        /\ Exceeding(P, w) = Exceeding(O, w)
    BY <1>1, <1>2, OtherWorkspaces
  <2>2. out2[w] = out[w] /\ dead2[w] = dead[w]
    BY <1>2 DEF PartsMove, Moves
  <2> QED BY <2>1, <2>2 DEF Exact, Capped
<1>3. ASSUME NEW w \in Workspaces, w = WorkspaceOf[x]
      PROVE  /\ out2[w] = Sum(Owing(B, P, w)) /\ dead2[w] = Sum(Losing(P, w))
             /\ out2[w] <= Cap + Sum(Exceeding(P, w))
  <2>1. PICK p \in Nat, q \in Nat : p = OwedAt(A[x], O[x]) /\ q = OwedAt(B[x], P[x])
    BY PartTypes DEF OutboxType
  <2>2. PICK l \in Nat, m \in Nat : l = LostAt(O[x]) /\ m = LostAt(P[x])
    BY PartTypes DEF OutboxType
  <2>3. PICK d \in Nat, e \in Nat : d = BeyondAt(O[x]) /\ e = BeyondAt(P[x])
    BY PartTypes DEF OutboxType
  <2>4. /\ Sum(Owing(B, P, w)) = Sum(Owing(A, O, w)) - p + q
        /\ Sum(Losing(P, w)) = Sum(Losing(O, w)) - l + m
        /\ Sum(Exceeding(P, w)) = Sum(Exceeding(O, w)) - d + e
        /\ Sum(Owing(A, O, w)) \in Nat /\ Sum(Losing(O, w)) \in Nat
        /\ Sum(Exceeding(O, w)) \in Nat /\ Sum(Exceeding(P, w)) \in Nat
    <3>1. Sum(Exceeding(P, w)) \in Nat
      BY PartsOf, PairsFinite
    <3> QED BY <1>1, <1>3, <2>1, <2>2, <2>3, <3>1, OneRequest
  <2>5. /\ out[w] = Sum(Owing(A, O, w)) /\ dead[w] = Sum(Losing(O, w))
        /\ out[w] <= Cap + Sum(Exceeding(O, w))
    BY DEF Exact, Capped
  <2>6. /\ out2[w] = out[w] - p + q /\ dead2[w] = dead[w] - l + m
        /\ out2[w] <= Cap \/ q - p <= e - d
    BY <1>3, <2>1, <2>2, <2>3 DEF PartsMove, Moves
  <2> HIDE <1>3
  <2>7. out2[w] <= Cap + Sum(Exceeding(P, w))
    BY <2>4, <2>5, <2>6, ConstantTypes
  <2> QED BY <2>4, <2>5, <2>6, <2>7
<1> QED BY <1>2, <1>3 DEF Exact, Capped

\* A clamp at zero never takes effect: the counter covers each of its parts.
LEMMA CounterCovers ==
  ASSUME NEW A, NEW O \in OutboxType, NEW out, NEW dead, NEW x \in Requests,
         Exact(A, O, out, dead)
  PROVE  /\ out[WorkspaceOf[x]] \in Nat /\ dead[WorkspaceOf[x]] \in Nat
         /\ OwedAt(A[x], O[x]) <= out[WorkspaceOf[x]]
<1>1. PICK w \in Workspaces : w = WorkspaceOf[x]
  BY ConstantTypes
<1>2. Differ(A, A, O, O, x)
  BY DEF Differ
<1>3. /\ OwedAt(A[x], O[x]) <= Sum(Owing(A, O, w))
      /\ Sum(Owing(A, O, w)) \in Nat /\ Sum(Losing(O, w)) \in Nat
  BY <1>1, <1>2, OneRequest
<1>4. out[w] = Sum(Owing(A, O, w)) /\ dead[w] = Sum(Losing(O, w))
  BY DEF Exact
<1> QED BY <1>1, <1>3, <1>4

-----------------------------------------------------------------------------
(* One request's and one call's part in the key's reserved amount.          *)

LEMMA HoldingTypes ==
  ASSUME NEW A, NEW C
  PROVE  /\ Holding(A) \in [Requests -> Nat] /\ Calling(C) \in [Clients -> Nat]
         /\ Sum(Holding(A)) \in Nat /\ Sum(Calling(C)) \in Nat
<1>1. Holding(A) \in [Requests -> Nat] /\ Calling(C) \in [Clients -> Nat]
  BY ConstantTypes DEF Holding, Calling, EstimateAt, CallAt
<1> QED BY <1>1, ConstantTypes, PairsFinite

LEMMA HoldingMoves ==
  ASSUME NEW A, NEW B, NEW x \in Requests, \A r \in Requests \ {x} : B[r] = A[r]
  PROVE  /\ Sum(Holding(B)) = Sum(Holding(A)) - EstimateAt(A[x]) + EstimateAt(B[x])
         /\ EstimateAt(A[x]) <= Sum(Holding(A))
<1>1. Holding(A) \in [Requests -> Nat] /\ Holding(B) \in [Requests -> Nat]
  BY HoldingTypes
<1>2. /\ \A r \in Requests \ {x} : Holding(B)[r] = Holding(A)[r]
      /\ Holding(A)[x] = EstimateAt(A[x]) /\ Holding(B)[x] = EstimateAt(B[x])
  BY DEF Holding
<1>3. /\ Sum(Holding(B)) = Sum(Holding(A)) - Holding(A)[x] + Holding(B)[x]
      /\ Holding(A)[x] <= Sum(Holding(A))
  BY <1>1, <1>2, ConstantTypes, SumChanges
<1> QED BY <1>2, <1>3

LEMMA CallingMoves ==
  ASSUME NEW C, NEW D, NEW c \in Clients, \A d \in Clients \ {c} : D[d] = C[d]
  PROVE  /\ Sum(Calling(D)) = Sum(Calling(C)) - CallAt(C[c]) + CallAt(D[c])
         /\ CallAt(C[c]) <= Sum(Calling(C))
<1>1. Calling(C) \in [Clients -> Nat] /\ Calling(D) \in [Clients -> Nat]
  BY HoldingTypes
<1>2. /\ \A d \in Clients \ {c} : Calling(D)[d] = Calling(C)[d]
      /\ Calling(C)[c] = CallAt(C[c]) /\ Calling(D)[c] = CallAt(D[c])
  BY DEF Calling
<1>3. /\ Sum(Calling(D)) = Sum(Calling(C)) - Calling(C)[c] + Calling(D)[c]
      /\ Calling(C)[c] <= Sum(Calling(C))
  BY <1>1, <1>2, ConstantTypes, SumChanges
<1> QED BY <1>2, <1>3

-----------------------------------------------------------------------------
(* The types.                                                               *)

LEMMA TypeParts == TypeOK <=> Types
BY Zenon DEF TypeOK, Types, AuthType, OutboxType, RowType, CallType, PassType

LEMMA TypePartsAfter == (TypeOK <=> Types)'
BY TypeParts, PTL

LEMMA ClampType ==
  ASSUME NEW n \in Int
  PROVE  AtLeastZero(n) \in Nat /\ (n >= 0 => AtLeastZero(n) = n)
BY DEF AtLeastZero

LEMMA RowFields ==
  ASSUME NEW o \in RowType
  PROVE  /\ o.cost \in Nat /\ o.cost \in Costs \cup {0} /\ o.due \in BOOLEAN
         /\ o.state \in {"none", "pending", "forwarded", "dead_letter"}
BY ConstantTypes DEF RowType

\* Which verdict the home plane comes to.
LEMMA VerdictIs ==
  ASSUME Types, NEW r \in Requests, NEW c \in Costs \cup {0}
  PROVE  /\ Verdict(r, c) \in Verdicts
         /\ Verdict(r, c) = "applied" =>
               claim[r] = 0 /\ today[WorkspaceOf[r]] + c <= DailyCap /\ WorkspaceOf[r] \in Known
         /\ Verdict(r, c) = "already" => claim[r] # 0
         /\ Verdict(r, c) = "conflict" => claim[r] # 0 /\ claim[r] # c
         /\ Verdict(r, c) = "workspace_unknown" => claim[r] = 0 /\ WorkspaceOf[r] \notin Known
<1> USE DEF Types
<1>0. today[WorkspaceOf[r]] \in Int /\ c \in Int /\ claim[r] \in Int
  <2>1. WorkspaceOf[r] \in Workspaces /\ claim[r] \in Costs \cup {0}
    BY ConstantTypes
  <2>2. today[WorkspaceOf[r]] \in 0 .. DailyCap
    BY <2>1
  <2>3. c \in Nat /\ claim[r] \in Nat
    BY <2>1, ConstantTypes
  <2> HIDE DEF Types
  <2> QED BY <2>2, <2>3
<1>1. PICK t \in Int, k \in Int : t = today[WorkspaceOf[r]] + c /\ k = claim[r]
  BY <1>0
<1>2. t > DailyCap <=> ~(t <= DailyCap)
  BY ConstantTypes
<1>3. CASE k # 0 /\ k = c
  <2>1. Verdict(r, c) = "already"
    BY <1>1, <1>3 DEF Verdict
  <2> QED BY <1>1, <1>3, <2>1 DEF Verdicts
<1>4. CASE k # 0 /\ k # c
  <2>1. Verdict(r, c) = "conflict"
    BY <1>1, <1>4 DEF Verdict
  <2> QED BY <1>1, <1>4, <2>1 DEF Verdicts
<1>5. CASE k = 0 /\ t > DailyCap
  <2>1. Verdict(r, c) = "clamped"
    BY <1>1, <1>2, <1>5 DEF Verdict
  <2> QED BY <2>1 DEF Verdicts
<1>6. CASE k = 0 /\ t <= DailyCap /\ WorkspaceOf[r] \notin Known
  <2>1. Verdict(r, c) = "workspace_unknown"
    BY <1>1, <1>2, <1>6 DEF Verdict
  <2> QED BY <1>1, <1>6, <2>1 DEF Verdicts
<1>7. CASE k = 0 /\ t <= DailyCap /\ WorkspaceOf[r] \in Known
  <2>1. Verdict(r, c) = "applied"
    BY <1>1, <1>2, <1>7 DEF Verdict
  <2> QED BY <1>1, <1>7, <2>1 DEF Verdicts
<1> QED BY <1>2, <1>3, <1>4, <1>5, <1>6, <1>7

LEMMA NextRowType ==
  ASSUME NEW f \in Forwarders, NEW stops, fwd \in [Forwarders -> PassType],
         fwd[f].at = "answered", NextRow(f, stops)
  PROVE  fwd' \in [Forwarders -> PassType]
<1>1. fwd[f].rows \in SUBSET Requests
  BY DEF PassType, Idle
<1>2. [at |-> "row", rows |-> fwd[f].rows] \in PassType /\ Idle \in PassType
  BY <1>1 DEF PassType
<1> QED BY <1>2 DEF NextRow

LEMMA CallActionsType ==
  ASSUME Types, NEW c \in Clients,
         (\E r \in Requests : HoldKey(c, r)) \/ Create(c) \/ GiveBack(c) \/ ClientDies(c)
  PROVE  Types'
<1> USE DEF Types, peerVars, homeVars
<1>1. Idle \in CallType /\ \A r \in Requests : [at |-> "held", req |-> r] \in CallType
  BY DEF CallType
<1>2. client[c].at = "held" => client[c].req \in Requests
  BY DEF CallType, Idle
<1>3. Fault => faults' \in 0 .. MaxFaults
  BY ConstantTypes DEF Fault
<1>4. key.reserved \in Nat /\ key.used \in Nat
  OBVIOUS
<1>5. ASSUME NEW r \in Requests, HoldKey(c, r) PROVE Types'
  <2>1. key' \in [reserved : Nat, used : Nat]
    BY <1>4, <1>5, ConstantTypes DEF HoldKey
  <2>2. client' \in [Clients -> CallType]
    BY <1>1, <1>5 DEF HoldKey
  <2> QED BY <1>5, <2>1, <2>2 DEF HoldKey
<1>6. ASSUME Create(c) PROVE Types'
  <2>1. PICK r \in Requests : r = client[c].req
    BY <1>2, <1>6 DEF Create
  <2>2. auth' \in AuthType
    BY <1>6, <2>1 DEF Create, AuthType
  <2>3. outstanding' \in [Workspaces -> Nat]
    BY <1>6, <2>1, ConstantTypes DEF Create
  <2>4. client' \in [Clients -> CallType]
    BY <1>1, <1>6 DEF Create
  <2> QED BY <1>6, <2>2, <2>3, <2>4 DEF Create
<1>7. ASSUME GiveBack(c) PROVE Types'
  <2>1. AtLeastZero(key.reserved - Estimate) \in Nat
    BY <1>4, ConstantTypes, ClampType
  <2>2. key' \in [reserved : Nat, used : Nat]
    BY <1>7, <2>1 DEF GiveBack
  <2>3. client' \in [Clients -> CallType]
    BY <1>1, <1>7 DEF GiveBack
  <2>4. faults' \in 0 .. MaxFaults
    BY <1>3, <1>7 DEF GiveBack
  <2> QED BY <1>7, <2>2, <2>3, <2>4 DEF GiveBack
<1>8. ASSUME ClientDies(c) PROVE Types'
  <2>1. client' \in [Clients -> CallType]
    BY <1>1, <1>8 DEF ClientDies
  <2> QED BY <1>3, <1>8, <2>1 DEF ClientDies
<1> QED BY <1>5, <1>6, <1>7, <1>8

LEMMA RequestActionsType ==
  ASSUME Types, NEW r \in Requests
  PROVE  /\ \A cost \in Costs \cup {0}, byok \in BOOLEAN : Finalize(r, cost, byok) => Types'
         /\ Expire(r) \/ Reap(r) \/ BecomesDue(r) => Types'
<1> USE DEF Types, homeVars
<1>1. PICK w \in Workspaces : w = WorkspaceOf[r]
  BY ConstantTypes
<1>2. key.reserved \in Nat /\ key.used \in Nat /\ outstanding[w] \in Nat
  OBVIOUS
<1>3. AtLeastZero(key.reserved - Estimate) \in Nat /\ AtLeastZero(outstanding[w] - Estimate) \in Nat
  BY <1>2, ConstantTypes, ClampType
<1>4. ASSUME NEW cost \in Costs \cup {0}, NEW byok \in BOOLEAN, Finalize(r, cost, byok)
      PROVE  Types'
  <2>1. PICK owes \in Costs \cup {0} : owes = IF byok THEN 0 ELSE cost
    OBVIOUS
  <2>2. cost \in Nat /\ owes \in Nat
    BY ConstantTypes
  <2>3. AtLeastZero(outstanding[w] + owes - Estimate) \in Nat
    BY <1>2, <2>2, ConstantTypes, ClampType
  <2>4. outstanding' \in [Workspaces -> Nat]
    BY <1>1, <1>4, <2>1, <2>3 DEF Finalize, TruedUp
  <2>5. outbox' \in OutboxType
    <3>1. [state |-> "pending", cost |-> owes, due |-> TRUE] \in RowType
      BY DEF RowType
    <3> QED BY <1>4, <2>1, <3>1 DEF Finalize, OutboxType
  <2>6. key' \in [reserved : Nat, used : Nat] /\ booked' \in Nat
    BY <1>2, <1>3, <1>4, <2>2 DEF Finalize
  <2>7. auth' \in AuthType
    BY <1>4 DEF Finalize, AuthType
  <2> QED BY <1>4, <2>4, <2>5, <2>6, <2>7 DEF Finalize
<1>5. ASSUME Expire(r) PROVE Types'
  <2>1. auth' \in AuthType
    BY <1>5 DEF Expire, AuthType
  <2> QED BY <1>5, <2>1 DEF Expire
<1>6. ASSUME Reap(r) PROVE Types'
  <2>1. auth' \in AuthType
    BY <1>6 DEF Reap, AuthType
  <2>2. outstanding' \in [Workspaces -> Nat]
    BY <1>1, <1>3, <1>6 DEF Reap
  <2>3. key' \in [reserved : Nat, used : Nat]
    BY <1>3, <1>6 DEF Reap
  <2> QED BY <1>6, <2>1, <2>2, <2>3 DEF Reap
<1>7. ASSUME BecomesDue(r) PROVE Types'
  <2>1. outbox' \in OutboxType
    BY <1>7 DEF BecomesDue, OutboxType, RowType
  <2> QED BY <1>7, <2>1 DEF BecomesDue
<1> QED BY <1>4, <1>5, <1>6, <1>7

LEMMA HomeActionsType ==
  ASSUME Types, (\E r \in Requests : HomeApplies(r)) \/ NewDay
  PROVE  Types'
<1> USE DEF Types, peerVars, homeVars
<1>1. ASSUME NEW r \in Requests, HomeApplies(r) PROVE Types'
  <2>1. PICK c \in Costs \cup {0} : c = outbox[r].cost
    BY RowFields DEF OutboxType
  <2>2. PICK v \in Verdicts : v = Verdict(r, c)
    BY VerdictIs
  <2>3. PICK w \in Workspaces : w = WorkspaceOf[r]
    BY ConstantTypes
  <2>4. fwd' \in [Forwarders -> PassType]
    <3>1. ASSUME NEW f \in Forwarders, fwd[f].at = "waiting"
          PROVE  [at |-> "answered", req |-> r, rows |-> fwd[f].rows, verdict |-> v] \in PassType
      <4>1. fwd[f].rows \in SUBSET Requests
        BY <3>1 DEF PassType, Idle
      <4> QED BY <4>1 DEF PassType
    <3>2. fwd' = [f \in Forwarders |->
                         IF fwd[f].at = "waiting" /\ fwd[f].req = r
                         THEN [at |-> "answered", req |-> r, rows |-> fwd[f].rows,
                               verdict |-> v]
                         ELSE fwd[f]]
      BY <1>1, <2>1, <2>2 DEF HomeApplies
    <3> QED BY <3>1, <3>2
  <2>5. CASE v = "applied"
    <3>1. claim' = [claim EXCEPT ![r] = c] /\ usage' = usage + c
          /\ today' = [today EXCEPT ![w] = today[w] + c]
      BY <1>1, <2>1, <2>2, <2>3, <2>5 DEF HomeApplies
    <3>2. today[w] + c \in 0 .. DailyCap /\ c \in Nat
      <4>1. c \in Nat /\ today[w] \in 0 .. DailyCap
        BY ConstantTypes
      <4>2. today[w] + c <= DailyCap
        BY <2>2, <2>3, <2>5, VerdictIs
      <4> QED BY <4>1, <4>2, ConstantTypes
    <3>3. claim' \in [Requests -> Costs \cup {0}] /\ usage' \in Nat
          /\ today' \in [Workspaces -> 0 .. DailyCap]
      BY <3>1, <3>2
    <3> QED BY <1>1, <2>4, <3>3 DEF HomeApplies
  <2>6. CASE v # "applied"
    <3>1. UNCHANGED homeVars
      BY <1>1, <2>1, <2>2, <2>6 DEF HomeApplies
    <3> QED BY <1>1, <2>4, <3>1 DEF HomeApplies
  <2> QED BY <2>5, <2>6
<1>2. ASSUME NewDay PROVE Types'
  <2>1. today' \in [Workspaces -> 0 .. DailyCap]
    BY <1>2, ConstantTypes DEF NewDay
  <2> QED BY <1>2, <2>1 DEF NewDay
<1> QED BY <1>1, <1>2

LEMMA PassActionsType ==
  ASSUME Types, NEW f \in Forwarders,
         StartPass(f) \/ (\E r \in Requests : Post(f, r)) \/ Outage(f) \/ Resolves(f)
           \/ ForwarderDies(f)
  PROVE  Types'
<1> USE DEF Types, peerVars, homeVars
<1>1. fwd \in [Forwarders -> PassType] /\ fwd[f] \in PassType /\ Idle \in PassType
  BY DEF PassType
<1>2. \A g \in Forwarders : /\ fwd[g].at \in {"row", "waiting", "answered"} => fwd[g].rows \in SUBSET Requests
                            /\ fwd[g].at \in {"waiting", "answered"} => fwd[g].req \in Requests
  BY <1>1 DEF PassType, Idle
<1>3. Fault => faults' \in 0 .. MaxFaults
  BY ConstantTypes DEF Fault
<1>4. ASSUME StartPass(f) PROVE Types'
  <2>1. PICK rows \in SUBSET Eligible : fwd' = [fwd EXCEPT ![f] = [at |-> "row", rows |-> rows]]
    BY <1>4 DEF StartPass
  <2>2. [at |-> "row", rows |-> rows] \in PassType
    BY DEF PassType, Eligible
  <2>3. fwd' \in [Forwarders -> PassType]
    BY <1>1, <2>1, <2>2
  <2> QED BY <1>4, <2>3 DEF StartPass
<1>5. ASSUME NEW r \in Requests, Post(f, r) PROVE Types'
  <2>1. [at |-> "waiting", req |-> r, rows |-> fwd[f].rows \ {r}] \in PassType
    BY <1>2, <1>5 DEF Post, PassType
  <2>2. fwd' \in [Forwarders -> PassType] /\ wire' \subseteq Requests
    BY <1>1, <1>5, <2>1 DEF Post
  <2> QED BY <1>5, <2>2 DEF Post
<1>6. ASSUME Outage(f) PROVE Types'
  <2>1. fwd[f].req \in Requests
    BY <1>2, <1>6 DEF Outage
  <2>2. wire' \subseteq Requests
    BY <1>6, <2>1 DEF Outage
  <2>3. ASSUME NEW g \in Forwarders, fwd[g].at = "waiting"
        PROVE  [at |-> "answered", req |-> fwd[g].req, rows |-> fwd[g].rows, verdict |-> "outage"] \in PassType
    BY <1>2, <2>3 DEF PassType, Verdicts
  <2>4. fwd' \in [Forwarders -> PassType]
    BY <1>1, <1>6, <2>3 DEF Outage
  <2> QED BY <1>3, <1>6, <2>2, <2>4 DEF Outage
<1>7. ASSUME fwd[f].at = "answered" PROVE WorkspaceOf[fwd[f].req] \in Workspaces /\ fwd[f].req \in Requests
  BY <1>2, <1>7, ConstantTypes
<1>8. ASSUME NEW r \in Requests, NEW w \in Workspaces
      PROVE  /\ outbox[r].cost \in Nat
             /\ AtLeastZero(outstanding[w] - outbox[r].cost) \in Nat
             /\ deadLettered[w] + outbox[r].cost \in Nat
  <2>1. outbox[r].cost \in Nat /\ outstanding[w] \in Nat /\ deadLettered[w] \in Nat
    BY RowFields DEF OutboxType
  <2> QED BY <2>1, ClampType
<1>9. ASSUME NEW r \in Requests,
             NEW s \in {"forwarded", "dead_letter"}
      PROVE  [outbox EXCEPT ![r].state = s] \in OutboxType
  BY DEF OutboxType, RowType
<1>10. ASSUME MarkForwarded(f) PROVE Types'
  <2>1. fwd[f].at = "answered" /\ NextRow(f, FALSE)
    BY <1>10 DEF MarkForwarded, Answered
  <2>2. fwd' \in [Forwarders -> PassType]
    BY <1>1, <2>1, NextRowType
  <2>3. PICK r \in Requests, w \in Workspaces : r = fwd[f].req /\ w = WorkspaceOf[r]
    BY <1>7, <2>1
  <2>4. outbox' \in OutboxType /\ outstanding' \in [Workspaces -> Nat]
    BY <1>8, <1>9, <1>10, <2>3 DEF MarkForwarded
  <2> QED BY <1>10, <2>2, <2>4 DEF MarkForwarded
<1>11. ASSUME MarkDeadLetter(f) PROVE Types'
  <2>1. fwd[f].at = "answered" /\ NextRow(f, FALSE)
    BY <1>11 DEF MarkDeadLetter, Answered
  <2>2. fwd' \in [Forwarders -> PassType]
    BY <1>1, <2>1, NextRowType
  <2>3. PICK r \in Requests, w \in Workspaces : r = fwd[f].req /\ w = WorkspaceOf[r]
    BY <1>7, <2>1
  <2>4. /\ outbox' \in OutboxType /\ outstanding' \in [Workspaces -> Nat]
        /\ deadLettered' \in [Workspaces -> Nat]
    <3>1. CASE StillPending(r)
      <4>1. /\ outbox' = [outbox EXCEPT ![r].state = "dead_letter"]
            /\ outstanding' = [outstanding EXCEPT ![w] = AtLeastZero(outstanding[w] - outbox[r].cost)]
            /\ deadLettered' = [deadLettered EXCEPT ![w] = deadLettered[w] + outbox[r].cost]
        BY <1>11, <2>3, <3>1 DEF MarkDeadLetter
      <4> QED BY <1>8, <1>9, <4>1
    <3>2. CASE ~StillPending(r)
      BY <1>11, <2>3, <3>2 DEF MarkDeadLetter
    <3> QED BY <3>1, <3>2
  <2> QED BY <1>11, <2>2, <2>4 DEF MarkDeadLetter
<1>12. ASSUME Bump(f) PROVE Types'
  <2>1. fwd[f].at = "answered" /\ NextRow(f, fwd[f].verdict # "clamped")
    BY <1>12 DEF Bump
  <2>2. fwd' \in [Forwarders -> PassType]
    BY <1>1, <2>1, NextRowType
  <2>3. PICK r \in Requests : r = fwd[f].req
    BY <1>7, <2>1
  <2>4. outbox' \in OutboxType
    <3>1. [outbox EXCEPT ![r].due = FALSE] \in OutboxType
      BY DEF OutboxType, RowType
    <3> QED BY <1>12, <2>3, <3>1 DEF Bump
  <2> QED BY <1>12, <2>2, <2>4 DEF Bump
<1>13. ASSUME ForwarderDies(f) PROVE Types'
  <2>1. fwd' \in [Forwarders -> PassType]
    BY <1>1, <1>13 DEF ForwarderDies
  <2> QED BY <1>3, <1>13, <2>1 DEF ForwarderDies
<1> QED BY <1>4, <1>5, <1>6, <1>10, <1>11, <1>12, <1>13 DEF Resolves

LEMMA TypeStep ==
  ASSUME Types, [Next]_vars
  PROVE  Types'
<1>1. CASE UNCHANGED vars
  BY <1>1 DEF Types, vars, peerVars, homeVars
<1>2. 0 \in Costs \cup {0} /\ FALSE \in BOOLEAN /\ Costs \subseteq Costs \cup {0}
  OBVIOUS
<1> QED
  BY <1>1, <1>2, CallActionsType, RequestActionsType, HomeActionsType, PassActionsType DEF Next

-----------------------------------------------------------------------------
(* Rows, claims and what a pass knows of them.                              *)

\* Rows and claims are not undone, and nothing is claimed at a workspace the
\* home plane does not have.
Stand(O, P, K, L) ==
  \A r \in Requests : /\ O[r].state # "none" => P[r].state # "none"
                      /\ K[r] # 0 => L[r] # 0
                      /\ K[r] = 0 /\ WorkspaceOf[r] \notin Known => L[r] = 0

\* What a pass knows stays true.
LEMMA PassStands ==
  ASSUME NEW p \in PassType, NEW O, NEW P, NEW K, NEW L, PassRight(p, O, K), Stand(O, P, K, L)
  PROVE  PassRight(p, P, L)
<1>1. /\ p.at \in {"row", "waiting", "answered"} => p.rows \in SUBSET Requests
      /\ p.at \in {"waiting", "answered"} => p.req \in Requests
  BY DEF PassType, Idle
<1> QED BY <1>1 DEF PassRight, Stand

\* What a pass may become: idle, or on to its other rows.
LEMMA PassGoesOn ==
  ASSUME NEW f \in Forwarders, NEW stops, Types, ClaimsInv, fwd[f].at = "answered",
         NextRow(f, stops), Stand(outbox, outbox', claim, claim')
  PROVE  PassesRight(fwd', outbox', claim')
<1> SUFFICES ASSUME NEW g \in Forwarders PROVE PassRight(fwd'[g], outbox', claim')
  BY DEF PassesRight
<1>1. fwd[g] \in PassType /\ fwd[f] \in PassType /\ PassRight(fwd[g], outbox, claim) /\ PassRight(fwd[f], outbox, claim)
  BY DEF Types, ClaimsInv, PassesRight
<1>2. CASE g # f
  <2>1. fwd'[g] = fwd[g]
    BY <1>2 DEF NextRow, Types
  <2> QED BY <1>1, <2>1, PassStands
<1>3. CASE g = f /\ fwd'[f] = Idle
  BY <1>3 DEF PassRight, Idle
<1>4. CASE g = f /\ fwd'[f] = [at |-> "row", rows |-> fwd[f].rows]
  <2>1. PassRight(fwd[f], outbox', claim')
    BY <1>1, PassStands
  <2> QED BY <1>4, <2>1 DEF PassRight
<1>5. fwd'[f] = Idle \/ fwd'[f] = [at |-> "row", rows |-> fwd[f].rows]
  BY DEF NextRow, Types
<1> QED BY <1>2, <1>3, <1>4, <1>5

LEMMA ClaimsQuiet ==
  ASSUME ClaimsInv, UNCHANGED <<auth, outbox, claim, wire, fwd>>
  PROVE  ClaimsInv'
BY DEF ClaimsInv

\* One request's row is written; nothing is sent or answered.
LEMMA ClaimsRow ==
  ASSUME Types, ClaimsInv, NEW r \in Requests, UNCHANGED <<claim, wire, fwd>>,
         \A q \in Requests \ {r} : auth'[q] = auth[q] /\ outbox'[q] = outbox[q],
         outbox[r].state # "none" => outbox'[r].state # "none",
         RowRight(auth'[r], outbox'[r], claim[r], WorkspaceOf[r] \in Known)
  PROVE  ClaimsInv'
<1>1. RowsRight(auth', outbox', claim')
  BY DEF ClaimsInv, RowsRight
<1>2. Stand(outbox, outbox', claim, claim')
  BY DEF Stand
<1>3. WireRight(outbox', wire')
  BY <1>2 DEF ClaimsInv, WireRight, Stand, Types
<1>4. PassesRight(fwd', outbox', claim')
  <2> SUFFICES ASSUME NEW f \in Forwarders PROVE PassRight(fwd[f], outbox', claim')
    BY DEF PassesRight
  <2> QED BY <1>2, PassStands DEF ClaimsInv, PassesRight, Types
<1> QED BY <1>1, <1>3, <1>4 DEF ClaimsInv

LEMMA CreateClaims ==
  ASSUME Types, ClaimsInv, NEW c \in Clients, Create(c)
  PROVE  ClaimsInv'
<1>1. PICK r \in Requests : r = client[c].req
  BY DEF Create, Types, CallType, Idle
<1>2. auth[r] = "none" /\ auth' = [auth EXCEPT ![r] = "open"] /\ UNCHANGED <<outbox, claim, wire, fwd>>
  BY <1>1 DEF Create, homeVars
<1>3. RowRight(auth[r], outbox[r], claim[r], WorkspaceOf[r] \in Known)
  BY DEF ClaimsInv, RowsRight
<1>4. RowRight(auth'[r], outbox'[r], claim[r], WorkspaceOf[r] \in Known)
  BY <1>2, <1>3 DEF RowRight, Types, AuthType
<1>5. \A q \in Requests \ {r} : auth'[q] = auth[q] /\ outbox'[q] = outbox[q]
  BY <1>2 DEF Types, AuthType
<1> QED BY <1>2, <1>4, <1>5, ClaimsRow

LEMMA FinalizeClaims ==
  ASSUME Types, ClaimsInv, NEW r \in Requests, NEW cost \in Costs \cup {0}, NEW byok \in BOOLEAN,
         Finalize(r, cost, byok)
  PROVE  ClaimsInv'
<1>1. PICK owes \in Costs \cup {0} : owes = IF byok THEN 0 ELSE cost
  OBVIOUS
<1>2. /\ auth' = [auth EXCEPT ![r] = "final"] /\ UNCHANGED <<claim, wire, fwd>>
      /\ outbox' = IF owes = 0 THEN outbox
                   ELSE [outbox EXCEPT ![r] = [state |-> "pending", cost |-> owes, due |-> TRUE]]
      /\ auth[r] \in {"open", "expired"}
  BY <1>1 DEF Finalize, homeVars, Open
<1>3. outbox[r].state = "none" /\ claim[r] = 0
  BY <1>2 DEF ClaimsInv, RowsRight, RowRight
<1>4. RowRight("final", outbox'[r], claim[r], WorkspaceOf[r] \in Known)
  <2>1. CASE owes = 0
    BY <1>2, <1>3, <2>1 DEF RowRight
  <2>2. CASE owes # 0
    <3>1. outbox'[r] = [state |-> "pending", cost |-> owes, due |-> TRUE] /\ owes \in Costs
      BY <1>2, <2>2 DEF Types, OutboxType
    <3> QED BY <1>3, <3>1 DEF RowRight
  <2> QED BY <2>1, <2>2
<1>5. \A q \in Requests \ {r} : auth'[q] = auth[q] /\ outbox'[q] = outbox[q]
  BY <1>2 DEF Types, AuthType, OutboxType
<1>6. auth'[r] = "final"
  BY <1>2 DEF Types, AuthType
<1> QED BY <1>2, <1>3, <1>4, <1>5, <1>6, ClaimsRow

LEMMA ReapClaims ==
  ASSUME Types, ClaimsInv, NEW r \in Requests, Expire(r) \/ Reap(r)
  PROVE  ClaimsInv'
<1>1. PICK a \in {"expired", "final"} : auth' = [auth EXCEPT ![r] = a]
  BY DEF Expire, Reap
<1>2. UNCHANGED <<outbox, claim, wire, fwd>> /\ auth[r] \in {"open", "expired"}
  BY DEF Expire, Reap, Reapable, homeVars
<1>3. RowRight(auth[r], outbox[r], claim[r], WorkspaceOf[r] \in Known)
  BY DEF ClaimsInv, RowsRight
<1>4. RowRight(auth'[r], outbox'[r], claim[r], WorkspaceOf[r] \in Known)
  BY <1>1, <1>2, <1>3 DEF RowRight, Types, AuthType
<1>5. \A q \in Requests \ {r} : auth'[q] = auth[q] /\ outbox'[q] = outbox[q]
  BY <1>1, <1>2 DEF Types, AuthType
<1> QED BY <1>2, <1>4, <1>5, ClaimsRow

LEMMA DueClaims ==
  ASSUME Types, ClaimsInv, NEW r \in Requests, BecomesDue(r)
  PROVE  ClaimsInv'
<1>1. outbox' = [outbox EXCEPT ![r].due = TRUE] /\ UNCHANGED <<auth, claim, wire, fwd>>
  BY DEF BecomesDue, homeVars
<1>2. outbox'[r].state = outbox[r].state /\ outbox'[r].cost = outbox[r].cost
  BY <1>1 DEF Types, OutboxType, RowType
<1>3. RowRight(auth[r], outbox[r], claim[r], WorkspaceOf[r] \in Known)
  BY DEF ClaimsInv, RowsRight
<1>4. RowRight(auth'[r], outbox'[r], claim[r], WorkspaceOf[r] \in Known)
  BY <1>1, <1>2, <1>3 DEF RowRight
<1>5. \A q \in Requests \ {r} : auth'[q] = auth[q] /\ outbox'[q] = outbox[q]
  BY <1>1 DEF Types, OutboxType
<1> QED BY <1>1, <1>2, <1>4, <1>5, ClaimsRow

LEMMA SendClaims ==
  ASSUME Types, ClaimsInv, NEW f \in Forwarders,
         StartPass(f) \/ (\E r \in Requests : Post(f, r)) \/ ForwarderDies(f)
  PROVE  ClaimsInv'
<1>1. UNCHANGED <<auth, outbox, claim>>
  BY DEF StartPass, Post, ForwarderDies, peerVars, homeVars
<1>2. fwd[f] \in PassType /\ PassRight(fwd[f], outbox, claim)
  BY DEF Types, ClaimsInv, PassesRight
<1>3. PassRight(fwd'[f], outbox, claim) /\ WireRight(outbox, wire')
      /\ \A g \in Forwarders \ {f} : fwd'[g] = fwd[g]
  <2>1. CASE StartPass(f)
    <3>1. PICK rows \in SUBSET Eligible : fwd' = [fwd EXCEPT ![f] = [at |-> "row", rows |-> rows]]
      BY <2>1 DEF StartPass
    <3>2. fwd'[f] = [at |-> "row", rows |-> rows] /\ wire' = wire
          /\ \A g \in Forwarders \ {f} : fwd'[g] = fwd[g]
      BY <2>1, <3>1 DEF StartPass, Types
    <3>3. \A r \in rows : outbox[r].state # "none"
      BY DEF Eligible
    <3>4. PassRight([at |-> "row", rows |-> rows], outbox, claim)
      BY <3>3 DEF PassRight
    <3> QED BY <3>2, <3>4 DEF ClaimsInv
  <2>2. ASSUME NEW r \in Requests, Post(f, r)
        PROVE  PassRight(fwd'[f], outbox, claim) /\ WireRight(outbox, wire')
               /\ \A g \in Forwarders \ {f} : fwd'[g] = fwd[g]
    <3>1. /\ fwd'[f] = [at |-> "waiting", req |-> r, rows |-> fwd[f].rows \ {r}]
          /\ wire' = wire \cup {r} /\ \A g \in Forwarders \ {f} : fwd'[g] = fwd[g]
      BY <2>2 DEF Post, Types
    <3>2. outbox[r].state # "none" /\ \A q \in fwd[f].rows : outbox[q].state # "none"
      BY <1>2, <2>2 DEF Post, PassRight
    <3>3. PassRight([at |-> "waiting", req |-> r, rows |-> fwd[f].rows \ {r}], outbox, claim)
      BY <3>2 DEF PassRight
    <3> QED BY <3>1, <3>2, <3>3 DEF ClaimsInv, WireRight
  <2>3. CASE ForwarderDies(f)
    <3>1. fwd'[f] = Idle /\ wire' = wire /\ \A g \in Forwarders \ {f} : fwd'[g] = fwd[g]
      BY <2>3 DEF ForwarderDies, Types
    <3>2. PassRight(Idle, outbox, claim)
      BY DEF PassRight, Idle
    <3> QED BY <3>1, <3>2 DEF ClaimsInv
  <2> QED BY <2>1, <2>2, <2>3
<1>4. PassesRight(fwd', outbox, claim)
  BY <1>3 DEF ClaimsInv, PassesRight
<1> QED BY <1>1, <1>3, <1>4 DEF ClaimsInv

LEMMA OutageClaims ==
  ASSUME Types, ClaimsInv, NEW f \in Forwarders, Outage(f)
  PROVE  ClaimsInv'
<1>1. UNCHANGED <<auth, outbox, claim>> /\ fwd[f].at = "waiting"
  BY DEF Outage, peerVars, homeVars
<1>2. outbox[fwd[f].req].state # "none"
  BY <1>1 DEF ClaimsInv, PassesRight, PassRight
<1>3. WireRight(outbox, wire')
  BY <1>2 DEF Outage, ClaimsInv, WireRight
<1>4. ASSUME NEW g \in Forwarders PROVE PassRight(fwd'[g], outbox, claim)
  <2>1. PassRight(fwd[g], outbox, claim)
    BY DEF ClaimsInv, PassesRight
  <2>2. CASE fwd'[g] = fwd[g]
    BY <2>1, <2>2
  <2>3. CASE /\ fwd[g].at = "waiting"
             /\ fwd'[g] = [at |-> "answered", req |-> fwd[g].req, rows |-> fwd[g].rows, verdict |-> "outage"]
    <3>1. "outage" \notin Delivered /\ "outage" \notin WrittenOff
      BY DEF Delivered, WrittenOff
    <3> QED BY <2>1, <2>3, <3>1 DEF PassRight
  <2> QED BY <1>1, <2>2, <2>3 DEF Outage
<1> QED BY <1>1, <1>3, <1>4 DEF ClaimsInv, PassesRight

LEMMA MarkClaims ==
  ASSUME Types, ClaimsInv, NEW f \in Forwarders, Resolves(f)
  PROVE  ClaimsInv'
<1>1. fwd[f].at = "answered" /\ (\E stops : NextRow(f, stops)) /\ UNCHANGED <<auth, claim, wire>>
  BY DEF Resolves, MarkForwarded, MarkDeadLetter, Bump, Answered, homeVars
<1>2. fwd[f] \in PassType /\ PassRight(fwd[f], outbox, claim)
  BY DEF Types, ClaimsInv, PassesRight
<1>3. PICK r \in Requests : r = fwd[f].req
  BY <1>1, <1>2 DEF PassType, Idle
<1>4. outbox[r] \in RowType /\ RowRight(auth[r], outbox[r], claim[r], WorkspaceOf[r] \in Known)
  BY DEF Types, OutboxType, ClaimsInv, RowsRight
<1>5. /\ RowRight(auth[r], outbox'[r], claim[r], WorkspaceOf[r] \in Known)
      /\ outbox[r].state # "none" => outbox'[r].state # "none"
      /\ \A q \in Requests \ {r} : outbox'[q] = outbox[q]
  <2>1. CASE outbox' = outbox
    BY <1>4, <2>1
  <2>2. CASE MarkForwarded(f) /\ outbox[r].state = "pending"
    <3>1. outbox' = [outbox EXCEPT ![r].state = "forwarded"] /\ fwd[f].verdict \in Delivered
      BY <1>3, <2>2 DEF MarkForwarded, StillPending, Answered
    <3>2. claim[r] # 0
      BY <1>1, <1>2, <1>3, <3>1 DEF PassRight
    <3>3. outbox'[r].state = "forwarded" /\ outbox'[r].cost = outbox[r].cost
          /\ \A q \in Requests \ {r} : outbox'[q] = outbox[q]
      BY <1>4, <3>1 DEF Types, OutboxType, RowType
    <3> QED BY <1>4, <2>2, <3>2, <3>3 DEF RowRight
  <2>3. CASE MarkDeadLetter(f) /\ outbox[r].state = "pending"
    <3>1. outbox' = [outbox EXCEPT ![r].state = "dead_letter"] /\ fwd[f].verdict \in WrittenOff
      BY <1>3, <2>3 DEF MarkDeadLetter, StillPending, Answered
    <3>2. claim[r] = 0 /\ WorkspaceOf[r] \notin Known
      BY <1>1, <1>2, <1>3, <3>1 DEF PassRight
    <3>3. outbox'[r].state = "dead_letter" /\ outbox'[r].cost = outbox[r].cost
          /\ \A q \in Requests \ {r} : outbox'[q] = outbox[q]
      BY <1>4, <3>1 DEF Types, OutboxType, RowType
    <3> QED BY <1>4, <2>3, <3>2, <3>3 DEF RowRight
  <2>4. CASE Bump(f) /\ outbox' = [outbox EXCEPT ![r].due = FALSE]
    <3>1. outbox'[r].state = outbox[r].state /\ outbox'[r].cost = outbox[r].cost
          /\ \A q \in Requests \ {r} : outbox'[q] = outbox[q]
      BY <1>4, <2>4 DEF Types, OutboxType, RowType
    <3> QED BY <1>4, <3>1 DEF RowRight
  <2> QED BY <1>3, <2>1, <2>2, <2>3, <2>4 DEF Resolves, MarkForwarded, MarkDeadLetter, Bump, StillPending
<1>6. RowsRight(auth', outbox', claim')
  BY <1>1, <1>5 DEF ClaimsInv, RowsRight
<1>7. Stand(outbox, outbox', claim, claim')
  BY <1>1, <1>5 DEF Stand
<1>8. WireRight(outbox', wire')
  BY <1>1, <1>7 DEF ClaimsInv, WireRight, Stand, Types
<1>9. PassesRight(fwd', outbox', claim')
  BY <1>1, <1>7, PassGoesOn
<1> QED BY <1>6, <1>8, <1>9 DEF ClaimsInv

\* The home plane books only what has a row, and answers what it then knows.
LEMMA ApplyClaims ==
  ASSUME Types, ClaimsInv, NEW r \in Requests, HomeApplies(r)
  PROVE  ClaimsInv'
<1>1. /\ outbox[r] \in RowType /\ outbox[r].state # "none" /\ outbox[r].cost \in Costs
      /\ RowRight(auth[r], outbox[r], claim[r], WorkspaceOf[r] \in Known)
  BY DEF HomeApplies, Types, OutboxType, ClaimsInv, WireRight, RowsRight, RowRight
<1>2. PICK c \in Costs : c = outbox[r].cost
  BY <1>1
<1>3. PICK v : v = Verdict(r, c)
  OBVIOUS
<1>4. /\ v = "applied" => claim[r] = 0 /\ WorkspaceOf[r] \in Known
      /\ v = "already" => claim[r] # 0 /\ v # "conflict"
      /\ v = "conflict" => claim[r] # 0 /\ claim[r] # c
      /\ v = "workspace_unknown" => claim[r] = 0 /\ WorkspaceOf[r] \notin Known
  BY <1>3, VerdictIs
<1>5. v # "conflict"
  BY <1>1, <1>2, <1>4 DEF RowRight
<1>6. /\ UNCHANGED <<auth, outbox>> /\ wire' \subseteq wire
      /\ fwd' = [f \in Forwarders |->
                         IF fwd[f].at = "waiting" /\ fwd[f].req = r
                         THEN [at |-> "answered", req |-> r, rows |-> fwd[f].rows, verdict |-> v]
                         ELSE fwd[f]]
  BY <1>2, <1>3 DEF HomeApplies, peerVars
<1>7. claim' = IF v = "applied" THEN [claim EXCEPT ![r] = c] ELSE claim
  BY <1>2, <1>3 DEF HomeApplies, homeVars
<1>8. /\ \A q \in Requests \ {r} : claim'[q] = claim[q]
      /\ claim'[r] = IF v = "applied" THEN c ELSE claim[r]
  BY <1>7 DEF Types
<1>9. c # 0
  BY ConstantTypes
<1>10. RowRight(auth[r], outbox[r], claim'[r], WorkspaceOf[r] \in Known)
  BY <1>1, <1>2, <1>4, <1>8, <1>9 DEF RowRight
<1>11. RowsRight(auth', outbox', claim')
  BY <1>6, <1>8, <1>10 DEF ClaimsInv, RowsRight
<1>12. Stand(outbox, outbox', claim, claim')
  BY <1>4, <1>6, <1>8, <1>9 DEF Stand
<1>13. WireRight(outbox', wire')
  BY <1>6 DEF ClaimsInv, WireRight
<1>14. ASSUME NEW f \in Forwarders PROVE PassRight(fwd'[f], outbox', claim')
  <2>1. fwd[f] \in PassType /\ PassRight(fwd[f], outbox, claim)
    BY DEF Types, ClaimsInv, PassesRight
  <2>2. PassRight(fwd[f], outbox', claim')
    BY <1>12, <2>1, PassStands
  <2>3. CASE fwd'[f] = fwd[f]
    BY <2>2, <2>3
  <2>4. CASE /\ fwd[f].at = "waiting" /\ fwd[f].req = r
             /\ fwd'[f] = [at |-> "answered", req |-> r, rows |-> fwd[f].rows, verdict |-> v]
    <3>1. v \in Delivered => claim'[r] # 0
      BY <1>4, <1>8, <1>9 DEF Delivered
    <3>2. v \in WrittenOff => claim'[r] = 0 /\ WorkspaceOf[r] \notin Known
      BY <1>4, <1>5, <1>8 DEF WrittenOff
    <3> QED BY <2>2, <2>4, <3>1, <3>2 DEF PassRight
  <2> QED BY <1>6, <2>3, <2>4
<1> QED BY <1>11, <1>13, <1>14 DEF ClaimsInv, PassesRight

-----------------------------------------------------------------------------
(* The counters.                                                            *)

LEMMA CountersQuiet ==
  ASSUME CountersInv, UNCHANGED <<auth, outbox, outstanding, deadLettered>>
  PROVE  CountersInv'
BY DEF CountersInv

\* A step about one request, by what its parts were and are.
CountersStep(r) ==
  PartsMove(auth, auth', outbox, outbox', outstanding, outstanding', deadLettered, deadLettered', r)

LEMMA CountersKept ==
  ASSUME Types, Types', CountersInv, NEW r \in Requests, CountersStep(r)
  PROVE  CountersInv'
<1>1. outbox \in OutboxType /\ outbox' \in OutboxType
  BY DEF Types
<1>2. /\ Exact(auth, outbox, outstanding, deadLettered) /\ Capped(outbox, outstanding)
      /\ PartsMove(auth, auth', outbox, outbox', outstanding, outstanding', deadLettered, deadLettered', r)
  BY DEF CountersInv, CountersStep
<1> QED BY <1>1, <1>2, CountersMove DEF CountersInv

\* What outstanding is where r belongs: no less than r's part.
LEMMA Covers ==
  ASSUME Types, CountersInv, NEW r \in Requests
  PROVE  /\ outstanding[WorkspaceOf[r]] \in Nat /\ deadLettered[WorkspaceOf[r]] \in Nat
         /\ OwedAt(auth[r], outbox[r]) <= outstanding[WorkspaceOf[r]]
         /\ WorkspaceOf[r] \in Workspaces
<1>1. outbox \in OutboxType /\ Exact(auth, outbox, outstanding, deadLettered)
  BY DEF Types, CountersInv
<1> QED BY <1>1, CounterCovers, ConstantTypes

\* The parts of a request, as it is.
LEMMA Parts ==
  ASSUME NEW o \in RowType, NEW a
  PROVE  /\ a \in {"open", "expired"} => EstimateAt(a) = Estimate
         /\ a \notin {"open", "expired"} => EstimateAt(a) = 0
         /\ o.state = "pending" => PendingAt(o) = o.cost /\ BeyondAt(o) = AtLeastZero(o.cost - Estimate)
         /\ o.state # "pending" => PendingAt(o) = 0 /\ BeyondAt(o) = 0
         /\ o.state = "dead_letter" => LostAt(o) = o.cost
         /\ o.state # "dead_letter" => LostAt(o) = 0
<1>1. AtLeastZero(0 - Estimate) = 0
  BY ConstantTypes DEF AtLeastZero
<1> QED BY <1>1 DEF EstimateAt, PendingAt, BeyondAt, LostAt

LEMMA CreateCounters ==
  ASSUME Types, Types', ClaimsInv, CountersInv, NEW c \in Clients, Create(c)
  PROVE  CountersInv'
<1>1. PICK r \in Requests : r = client[c].req
  BY DEF Create, Types, CallType, Idle
<1>2. PICK w \in Workspaces : w = WorkspaceOf[r]
  BY ConstantTypes
<1>3. /\ auth[r] = "none" /\ auth' = [auth EXCEPT ![r] = "open"] /\ outstanding[w] + Estimate <= Cap
      /\ outstanding' = [outstanding EXCEPT ![w] = outstanding[w] + Estimate]
      /\ UNCHANGED <<outbox, deadLettered>>
  BY <1>1, <1>2 DEF Create, Admits
<1>4. outbox[r] \in RowType /\ outbox[r].state = "none"
  BY <1>3 DEF Types, OutboxType, ClaimsInv, RowsRight, RowRight
<1>5. OwedAt(auth[r], outbox[r]) = 0 /\ OwedAt("open", outbox[r]) = Estimate /\ LostAt(outbox[r]) = 0
  BY <1>3, <1>4, Parts, ConstantTypes DEF OwedAt
<1>6. /\ outstanding \in [Workspaces -> Nat] /\ deadLettered \in [Workspaces -> Nat]
      /\ auth \in AuthType
  BY DEF Types
<1>7. Differ(auth, auth', outbox, outbox', r) /\ auth'[r] = "open"
  BY <1>3, <1>6 DEF Differ, AuthType
<1>8. Moves(outstanding, outstanding', w, 0, Estimate) /\ Moves(deadLettered, deadLettered', w, 0, 0)
  BY <1>3, <1>6, ConstantTypes DEF Moves
<1>9. outstanding'[w] <= Cap
  BY <1>3, <1>6
<1>10. CountersStep(r)
  BY <1>2, <1>3, <1>5, <1>7, <1>8, <1>9 DEF CountersStep, PartsMove
<1> QED BY <1>10, CountersKept

LEMMA FinalizeCounters ==
  ASSUME Types, Types', ClaimsInv, CountersInv,
         NEW r \in Requests, NEW cost \in Costs \cup {0}, NEW byok \in BOOLEAN, Finalize(r, cost, byok)
  PROVE  CountersInv'
<1>1. PICK owes \in Costs \cup {0} : owes = IF byok THEN 0 ELSE cost
  OBVIOUS
<1>2. PICK w \in Workspaces : w = WorkspaceOf[r]
  BY ConstantTypes
<1>3. /\ auth[r] \in {"open", "expired"} /\ auth' = [auth EXCEPT ![r] = "final"]
      /\ outbox' = IF owes = 0 THEN outbox
                   ELSE [outbox EXCEPT ![r] = [state |-> "pending", cost |-> owes, due |-> TRUE]]
      /\ outstanding' = [outstanding EXCEPT ![w] = AtLeastZero(outstanding[w] + owes - Estimate)]
      /\ UNCHANGED deadLettered
  BY <1>1, <1>2 DEF Finalize, Open, TruedUp
<1>4. outbox[r] \in RowType /\ outbox[r].state = "none" /\ outbox'[r] \in RowType
  BY <1>3 DEF Types, OutboxType, ClaimsInv, RowsRight, RowRight
<1>5. owes \in Nat
  BY ConstantTypes
<1>6. OwedAt(auth[r], outbox[r]) = Estimate /\ LostAt(outbox[r]) = 0 /\ BeyondAt(outbox[r]) = 0
  BY <1>3, <1>4, Parts, ConstantTypes DEF OwedAt
<1>7. /\ outstanding \in [Workspaces -> Nat] /\ deadLettered \in [Workspaces -> Nat]
      /\ auth \in AuthType /\ outbox \in OutboxType
  BY DEF Types
<1>8. Differ(auth, auth', outbox, outbox', r) /\ auth'[r] = "final"
  BY <1>3, <1>7 DEF Differ, AuthType, OutboxType
<1>9. /\ OwedAt("final", outbox'[r]) = owes /\ LostAt(outbox'[r]) = 0
      /\ BeyondAt(outbox'[r]) = AtLeastZero(owes - Estimate)
  <2>1. EstimateAt("final") = 0
    BY DEF EstimateAt
  <2>2. CASE owes = 0
    <3>1. outbox'[r] = outbox[r] /\ AtLeastZero(owes - Estimate) = 0
      BY <1>3, <2>2, ConstantTypes DEF AtLeastZero
    <3> QED BY <1>4, <2>1, <2>2, <3>1, Parts DEF OwedAt
  <2>3. CASE owes # 0
    <3>1. outbox'[r].state = "pending" /\ outbox'[r].cost = owes
      BY <1>3, <1>7, <2>3 DEF OutboxType
    <3>2. PendingAt(outbox'[r]) = owes /\ LostAt(outbox'[r]) = 0
          /\ BeyondAt(outbox'[r]) = AtLeastZero(owes - Estimate)
      BY <1>4, <3>1, Parts
    <3> QED BY <1>5, <2>1, <3>2 DEF OwedAt
  <2> QED BY <2>2, <2>3
<1>10. Estimate <= outstanding[w]
  BY <1>2, <1>6, Covers
<1>11. AtLeastZero(outstanding[w] + owes - Estimate) = outstanding[w] - Estimate + owes
  <2>1. outstanding[w] \in Nat
    BY <1>7
  <2> QED BY <1>5, <1>10, <2>1, ConstantTypes DEF AtLeastZero
<1>12. Moves(outstanding, outstanding', w, Estimate, owes) /\ Moves(deadLettered, deadLettered', w, 0, 0)
  BY <1>3, <1>7, <1>11 DEF Moves
<1>13. owes - Estimate <= AtLeastZero(owes - Estimate) - 0
  BY <1>5, ConstantTypes DEF AtLeastZero
<1>14. CountersStep(r)
  BY <1>2, <1>6, <1>8, <1>9, <1>12, <1>13 DEF CountersStep, PartsMove
<1> QED BY <1>14, CountersKept

LEMMA ReapCounters ==
  ASSUME Types, Types', ClaimsInv, CountersInv, NEW r \in Requests, Reap(r)
  PROVE  CountersInv'
<1>1. PICK w \in Workspaces : w = WorkspaceOf[r]
  BY ConstantTypes
<1>2. /\ auth[r] = "expired" /\ auth' = [auth EXCEPT ![r] = "final"]
      /\ outstanding' = [outstanding EXCEPT ![w] = AtLeastZero(outstanding[w] - Estimate)]
      /\ UNCHANGED <<outbox, deadLettered>>
  BY <1>1 DEF Reap, Reapable
<1>3. outbox[r] \in RowType /\ outbox[r].state = "none"
  BY <1>2 DEF Types, OutboxType, ClaimsInv, RowsRight, RowRight
<1>4. OwedAt(auth[r], outbox[r]) = Estimate /\ OwedAt("final", outbox[r]) = 0 /\ LostAt(outbox[r]) = 0
  BY <1>2, <1>3, Parts, ConstantTypes DEF OwedAt
<1>5. /\ outstanding \in [Workspaces -> Nat] /\ deadLettered \in [Workspaces -> Nat]
      /\ auth \in AuthType
  BY DEF Types
<1>6. Differ(auth, auth', outbox, outbox', r) /\ auth'[r] = "final"
  BY <1>2, <1>5 DEF Differ, AuthType
<1>7. Estimate <= outstanding[w]
  BY <1>1, <1>4, Covers
<1>8. AtLeastZero(outstanding[w] - Estimate) = outstanding[w] - Estimate + 0
  <2>1. outstanding[w] \in Nat
    BY <1>5
  <2> QED BY <1>7, <2>1, ConstantTypes DEF AtLeastZero
<1>9. Moves(outstanding, outstanding', w, Estimate, 0) /\ Moves(deadLettered, deadLettered', w, 0, 0)
  BY <1>2, <1>5, <1>8 DEF Moves
<1>10. 0 - Estimate <= BeyondAt(outbox[r]) - BeyondAt(outbox[r])
  BY <1>3, PartTypes, ConstantTypes
<1>11. CountersStep(r)
  BY <1>1, <1>2, <1>4, <1>6, <1>9, <1>10 DEF CountersStep, PartsMove
<1> QED BY <1>11, CountersKept

\* Nothing about the request that a counter counts changes.
LEMMA SamePartCounters ==
  ASSUME Types, Types', CountersInv, NEW r \in Requests, UNCHANGED <<outstanding, deadLettered>>,
         Differ(auth, auth', outbox, outbox', r), EstimateAt(auth'[r]) = EstimateAt(auth[r]),
         outbox'[r].state = outbox[r].state, outbox'[r].cost = outbox[r].cost
  PROVE  CountersInv'
<1>1. /\ outstanding \in [Workspaces -> Nat] /\ deadLettered \in [Workspaces -> Nat]
      /\ outbox[r] \in RowType
  BY DEF Types, OutboxType
<1>2. PICK p \in Nat, l \in Nat, b \in Nat :
        p = OwedAt(auth[r], outbox[r]) /\ l = LostAt(outbox[r]) /\ b = BeyondAt(outbox[r])
  BY <1>1, PartTypes
<1>3. p = OwedAt(auth'[r], outbox'[r]) /\ l = LostAt(outbox'[r]) /\ b = BeyondAt(outbox'[r])
  BY <1>2 DEF OwedAt, PendingAt, LostAt, BeyondAt
<1>4. /\ Moves(outstanding, outstanding', WorkspaceOf[r], p, p)
      /\ Moves(deadLettered, deadLettered', WorkspaceOf[r], l, l)
  BY <1>1 DEF Moves
<1>5. p - p <= b - b
  OBVIOUS
<1>6. CountersStep(r)
  BY <1>2, <1>3, <1>4, <1>5 DEF CountersStep, PartsMove
<1> QED BY <1>6, CountersKept

LEMMA ExpireCounters ==
  ASSUME Types, Types', CountersInv, NEW r \in Requests, Expire(r)
  PROVE  CountersInv'
<1>1. /\ auth[r] = "open" /\ auth' = [auth EXCEPT ![r] = "expired"]
      /\ UNCHANGED <<outbox, outstanding, deadLettered>> /\ auth \in AuthType
  BY DEF Expire, Types
<1>2. Differ(auth, auth', outbox, outbox', r) /\ EstimateAt(auth'[r]) = EstimateAt(auth[r])
  BY <1>1 DEF Differ, AuthType, EstimateAt
<1> QED BY <1>1, <1>2, SamePartCounters

LEMMA DueCounters ==
  ASSUME Types, Types', CountersInv, NEW r \in Requests, NEW d \in BOOLEAN,
         outbox' = [outbox EXCEPT ![r].due = d], UNCHANGED <<auth, outstanding, deadLettered>>
  PROVE  CountersInv'
<1>1. outbox \in OutboxType /\ outbox[r] \in RowType
  BY DEF Types, OutboxType
<1>2. /\ Differ(auth, auth', outbox, outbox', r)
      /\ outbox'[r].state = outbox[r].state /\ outbox'[r].cost = outbox[r].cost
  BY <1>1 DEF Differ, OutboxType, RowType
<1> QED BY <1>2, SamePartCounters

\* The flip and the counters move together, once.
LEMMA MarkCounters ==
  ASSUME Types, Types', ClaimsInv, CountersInv, NEW f \in Forwarders, Resolves(f)
  PROVE  CountersInv'
<1>1. fwd[f].at = "answered" /\ UNCHANGED auth
  BY DEF Resolves, MarkForwarded, MarkDeadLetter, Bump, Answered
<1>2. PICK r \in Requests, w \in Workspaces : r = fwd[f].req /\ w = WorkspaceOf[r]
  <2>1. fwd[f].req \in Requests
    BY <1>1 DEF Types, PassType, Idle
  <2> QED BY <2>1, ConstantTypes
<1>3. /\ outstanding \in [Workspaces -> Nat] /\ deadLettered \in [Workspaces -> Nat]
      /\ outbox \in OutboxType /\ outbox[r] \in RowType /\ outbox'[r] \in RowType
  BY DEF Types, OutboxType
<1>4. PICK c \in Nat : c = outbox[r].cost
  BY <1>3, RowFields
<1>5. CASE /\ outbox' = outbox
           /\ UNCHANGED <<outstanding, deadLettered>>
  BY <1>1, <1>5, CountersQuiet
<1>6. CASE Bump(f) /\ outbox' = [outbox EXCEPT ![r].due = FALSE]
  <2>1. UNCHANGED <<auth, outstanding, deadLettered>>
    BY <1>6 DEF Bump
  <2> QED BY <1>6, <2>1, DueCounters
<1>7. ASSUME outbox[r].state = "pending"
      PROVE  /\ OwedAt(auth[r], outbox[r]) = c /\ LostAt(outbox[r]) = 0
             /\ BeyondAt(outbox[r]) <= c /\ BeyondAt(outbox[r]) \in Nat
             /\ AtLeastZero(outstanding[w] - c) = outstanding[w] - c + 0
             /\ auth[r] = "final"
  <2>1. auth[r] = "final"
    BY <1>7 DEF ClaimsInv, RowsRight, RowRight
  <2>2. EstimateAt("final") = 0
    BY DEF EstimateAt
  <2>3. /\ PendingAt(outbox[r]) = c /\ LostAt(outbox[r]) = 0
        /\ BeyondAt(outbox[r]) = AtLeastZero(c - Estimate)
    BY <1>3, <1>4, <1>7, Parts
  <2>4. OwedAt(auth[r], outbox[r]) = c
    BY <2>1, <2>2, <2>3 DEF OwedAt
  <2>5. c <= outstanding[w] /\ outstanding[w] \in Nat
    BY <1>2, <2>4, Covers
  <2> QED BY <2>1, <2>3, <2>4, <2>5, ConstantTypes DEF AtLeastZero
<1>8. CASE MarkForwarded(f) /\ outbox[r].state = "pending"
  <2>1. /\ outbox' = [outbox EXCEPT ![r].state = "forwarded"]
        /\ outstanding' = [outstanding EXCEPT ![w] = AtLeastZero(outstanding[w] - c)]
        /\ deadLettered' = deadLettered
    BY <1>2, <1>4, <1>8 DEF MarkForwarded, StillPending
  <2>2. Differ(auth, auth', outbox, outbox', r) /\ outbox'[r].state = "forwarded"
    BY <1>1, <1>3, <2>1 DEF Differ, OutboxType, RowType
  <2>3. OwedAt(auth'[r], outbox'[r]) = 0 /\ LostAt(outbox'[r]) = 0 /\ BeyondAt(outbox'[r]) = 0
    <3>1. EstimateAt(auth'[r]) = 0
      BY <1>1, <1>7, <1>8 DEF EstimateAt
    <3>2. PendingAt(outbox'[r]) = 0 /\ LostAt(outbox'[r]) = 0 /\ BeyondAt(outbox'[r]) = 0
      BY <1>3, <2>2, Parts
    <3> QED BY <3>1, <3>2 DEF OwedAt
  <2>4. Moves(outstanding, outstanding', w, c, 0) /\ Moves(deadLettered, deadLettered', w, 0, 0)
    BY <1>3, <1>7, <1>8, <2>1 DEF Moves
  <2>5. 0 - c <= 0 - BeyondAt(outbox[r])
    BY <1>7, <1>8
  <2>6. CountersStep(r)
    BY <1>2, <1>7, <1>8, <2>2, <2>3, <2>4, <2>5 DEF CountersStep, PartsMove
  <2> QED BY <2>6, CountersKept
<1>9. CASE MarkDeadLetter(f) /\ outbox[r].state = "pending"
  <2>1. /\ outbox' = [outbox EXCEPT ![r].state = "dead_letter"]
        /\ outstanding' = [outstanding EXCEPT ![w] = AtLeastZero(outstanding[w] - c)]
        /\ deadLettered' = [deadLettered EXCEPT ![w] = deadLettered[w] + c]
    BY <1>2, <1>4, <1>9 DEF MarkDeadLetter, StillPending
  <2>2. /\ Differ(auth, auth', outbox, outbox', r) /\ outbox'[r].state = "dead_letter"
        /\ outbox'[r].cost = c
    BY <1>1, <1>3, <1>4, <2>1 DEF Differ, OutboxType, RowType
  <2>3. OwedAt(auth'[r], outbox'[r]) = 0 /\ LostAt(outbox'[r]) = c /\ BeyondAt(outbox'[r]) = 0
    <3>1. EstimateAt(auth'[r]) = 0
      BY <1>1, <1>7, <1>9 DEF EstimateAt
    <3>2. PendingAt(outbox'[r]) = 0 /\ LostAt(outbox'[r]) = c /\ BeyondAt(outbox'[r]) = 0
      BY <1>3, <2>2, Parts
    <3> QED BY <3>1, <3>2 DEF OwedAt
  <2>4. Moves(outstanding, outstanding', w, c, 0) /\ Moves(deadLettered, deadLettered', w, 0, c)
    BY <1>3, <1>7, <1>9, <2>1 DEF Moves
  <2>5. 0 - c <= 0 - BeyondAt(outbox[r])
    BY <1>7, <1>9
  <2>6. CountersStep(r)
    BY <1>2, <1>7, <1>9, <2>2, <2>3, <2>4, <2>5 DEF CountersStep, PartsMove
  <2> QED BY <2>6, CountersKept
<1> QED
  BY <1>2, <1>5, <1>6, <1>8, <1>9 DEF Resolves, MarkForwarded, MarkDeadLetter, Bump, StillPending

-----------------------------------------------------------------------------
(* The key's amounts, and the usage booked at home.                         *)

LEMMA KeyQuiet ==
  ASSUME KeyInv, UNCHANGED <<key, auth, client, booked>>, faults' = 0 => faults = 0
  PROVE  KeyInv'
BY DEF KeyInv, KeyRight

LEMMA FaultCounts ==
  ASSUME Types, Fault
  PROVE  faults' # 0
BY ConstantTypes DEF Types, Fault

\* A call takes a hold, hands it to its authorization, gives it back or dies
\* with it; only the last leaves an amount that nothing will give back.
LEMMA CallKey ==
  ASSUME Types, KeyInv, NEW c \in Clients,
         (\E r \in Requests : HoldKey(c, r)) \/ Create(c) \/ GiveBack(c) \/ ClientDies(c)
  PROVE  KeyInv'
<1>1. PICK res \in Nat, h \in Nat, k \in Nat :
        res = key.reserved /\ h = Sum(Holding(auth)) /\ k = Sum(Calling(client))
  BY HoldingTypes DEF Types
<1>2. res >= h + k /\ (faults = 0 => res = h + k) /\ key.used = booked
  BY <1>1 DEF KeyInv, KeyRight
<1>3. /\ client \in [Clients -> CallType] /\ key \in [reserved : Nat, used : Nat]
      /\ auth \in AuthType
  BY DEF Types
<1>4. CallAt(Idle) = 0 /\ \A x : x # Idle => CallAt(x) = Estimate
  BY DEF CallAt
<1>5. \A r : [at |-> "held", req |-> r] # Idle
  BY DEF Idle
<1>6. client[c].at = "held" => client[c] # Idle
  BY DEF Idle
<1>7. ASSUME NEW r \in Requests, HoldKey(c, r) PROVE KeyInv'
  <2>1. /\ client[c] = Idle /\ client' = [client EXCEPT ![c] = [at |-> "held", req |-> r]]
        /\ key' = [key EXCEPT !.reserved = key.reserved + Estimate]
        /\ UNCHANGED <<auth, booked, faults>>
    BY <1>7 DEF HoldKey
  <2>2. client'[c] # Idle /\ \A d \in Clients \ {c} : client'[d] = client[d]
    BY <1>3, <1>5, <2>1
  <2>3. Sum(Calling(client')) = k - 0 + Estimate
    <3>1. Sum(Calling(client')) = Sum(Calling(client)) - CallAt(client[c]) + CallAt(client'[c])
      BY <2>2, CallingMoves
    <3> QED BY <1>1, <1>4, <2>1, <2>2, <3>1
  <2>4. key'.reserved = res + Estimate /\ key'.used = key.used
    BY <1>1, <1>3, <2>1
  <2>5. Sum(Holding(auth')) = h
    BY <1>1, <2>1
  <2> QED BY <1>1, <1>2, <2>1, <2>3, <2>4, <2>5, ConstantTypes DEF KeyInv, KeyRight
<1>8. ASSUME client[c] # Idle, client' = [client EXCEPT ![c] = Idle]
      PROVE  Sum(Calling(client')) = k - Estimate /\ Estimate <= k
  <2>1. client'[c] = Idle /\ \A d \in Clients \ {c} : client'[d] = client[d]
    BY <1>3, <1>8
  <2>2. Sum(Calling(client')) = k - Estimate + 0 /\ Estimate <= k
    <3>1. /\ Sum(Calling(client')) = Sum(Calling(client)) - CallAt(client[c]) + CallAt(client'[c])
          /\ CallAt(client[c]) <= Sum(Calling(client))
      BY <2>1, CallingMoves
    <3> QED BY <1>1, <1>4, <1>8, <2>1, <3>1
  <2> QED BY <2>2, ConstantTypes
<1>9. ASSUME Create(c) PROVE KeyInv'
  <2>1. PICK r \in Requests : r = client[c].req
    BY <1>3, <1>9 DEF Create, CallType, Idle
  <2>2. /\ client[c] # Idle /\ client' = [client EXCEPT ![c] = Idle]
        /\ auth[r] = "none" /\ auth' = [auth EXCEPT ![r] = "open"]
        /\ UNCHANGED <<key, booked, faults>>
    BY <1>6, <1>9, <2>1 DEF Create
  <2>3. /\ EstimateAt(auth[r]) = 0 /\ EstimateAt(auth'[r]) = Estimate
        /\ \A q \in Requests \ {r} : auth'[q] = auth[q]
    BY <1>3, <2>2 DEF EstimateAt, AuthType
  <2>4. Sum(Holding(auth')) = h - 0 + Estimate
    BY <1>1, <2>3, HoldingMoves
  <2>5. Sum(Calling(client')) = k - Estimate /\ Estimate <= k
    BY <1>8, <2>2
  <2> QED BY <1>1, <1>2, <2>2, <2>4, <2>5, ConstantTypes DEF KeyInv, KeyRight
<1>10. ASSUME GiveBack(c) PROVE KeyInv'
  <2>1. /\ client[c] # Idle /\ client' = [client EXCEPT ![c] = Idle]
        /\ key' = [key EXCEPT !.reserved = AtLeastZero(key.reserved - Estimate)]
        /\ UNCHANGED <<auth, booked>>
    BY <1>6, <1>10 DEF GiveBack
  <2>2. faults' = 0 => faults = 0
    BY <1>10, FaultCounts DEF GiveBack
  <2>3. Sum(Calling(client')) = k - Estimate /\ Estimate <= k
    BY <1>8, <2>1
  <2>4. AtLeastZero(res - Estimate) = res - Estimate
    BY <1>2, <2>3, ConstantTypes DEF AtLeastZero
  <2>5. key'.reserved = res - Estimate /\ key'.used = key.used
    BY <1>1, <1>3, <2>1, <2>4
  <2>6. Sum(Holding(auth')) = h
    BY <1>1, <2>1
  <2> QED BY <1>1, <1>2, <2>1, <2>2, <2>3, <2>5, <2>6, ConstantTypes DEF KeyInv, KeyRight
<1>11. ASSUME ClientDies(c) PROVE KeyInv'
  <2>1. /\ client[c] # Idle /\ client' = [client EXCEPT ![c] = Idle]
        /\ UNCHANGED <<key, auth, booked>>
    BY <1>11 DEF ClientDies, peerVars
  <2>2. faults' # 0
    BY <1>11, FaultCounts DEF ClientDies
  <2>3. Sum(Calling(client')) = k - Estimate /\ Estimate <= k
    BY <1>8, <2>1
  <2>4. Sum(Holding(auth')) = h
    BY <1>1, <2>1
  <2> QED BY <1>1, <1>2, <2>1, <2>2, <2>3, <2>4, ConstantTypes DEF KeyInv, KeyRight
<1> QED BY <1>7, <1>9, <1>10, <1>11

\* A settlement or a reap gives back the estimate that its authorization holds.
LEMMA SettleKey ==
  ASSUME Types, KeyInv, NEW r \in Requests
  PROVE  /\ \A cost \in Costs \cup {0}, byok \in BOOLEAN : Finalize(r, cost, byok) => KeyInv'
         /\ Expire(r) \/ Reap(r) => KeyInv'
<1>1. PICK res \in Nat, h \in Nat, k \in Nat :
        res = key.reserved /\ h = Sum(Holding(auth)) /\ k = Sum(Calling(client))
  BY HoldingTypes DEF Types
<1>2. res >= h + k /\ (faults = 0 => res = h + k) /\ key.used = booked
  BY <1>1 DEF KeyInv, KeyRight
<1>3. key \in [reserved : Nat, used : Nat] /\ auth \in AuthType /\ booked \in Nat
  BY DEF Types
<1>4. ASSUME NEW a \in {"expired", "final"}, auth[r] \in {"open", "expired"},
             auth' = [auth EXCEPT ![r] = a]
      PROVE  Sum(Holding(auth')) = h - Estimate + EstimateAt(a) /\ Estimate <= h
  <2>1. /\ EstimateAt(auth[r]) = Estimate /\ auth'[r] = a
        /\ \A q \in Requests \ {r} : auth'[q] = auth[q]
    BY <1>3, <1>4 DEF EstimateAt, AuthType
  <2> QED BY <1>1, <2>1, HoldingMoves
<1>5. EstimateAt("final") = 0 /\ EstimateAt("expired") = Estimate
  BY DEF EstimateAt
<1>6. ASSUME Estimate <= h PROVE AtLeastZero(res - Estimate) = res - Estimate
  BY <1>2, <1>6, ConstantTypes DEF AtLeastZero
<1>7. ASSUME NEW cost \in Costs \cup {0}, NEW byok \in BOOLEAN, Finalize(r, cost, byok)
      PROVE  KeyInv'
  <2>1. /\ auth[r] \in {"open", "expired"} /\ auth' = [auth EXCEPT ![r] = "final"]
        /\ key' = [reserved |-> AtLeastZero(key.reserved - Estimate), used |-> key.used + cost]
        /\ booked' = booked + cost /\ UNCHANGED <<client, faults>>
    BY <1>7 DEF Finalize, Open
  <2>2. Sum(Holding(auth')) = h - Estimate + 0 /\ Estimate <= h
    BY <1>4, <1>5, <2>1
  <2>3. key'.reserved = res - Estimate /\ key'.used = booked'
    BY <1>1, <1>2, <1>6, <2>1, <2>2
  <2>4. Sum(Calling(client')) = k
    BY <1>1, <2>1
  <2> QED BY <1>1, <1>2, <2>1, <2>2, <2>3, <2>4, ConstantTypes DEF KeyInv, KeyRight
<1>8. ASSUME Expire(r) PROVE KeyInv'
  <2>1. /\ auth[r] \in {"open", "expired"} /\ auth' = [auth EXCEPT ![r] = "expired"]
        /\ UNCHANGED <<key, booked, client, faults>>
    BY <1>8 DEF Expire
  <2>2. Sum(Holding(auth')) = h - Estimate + Estimate /\ Estimate <= h
    BY <1>4, <1>5, <2>1
  <2>3. Sum(Calling(client')) = k
    BY <1>1, <2>1
  <2> QED BY <1>1, <1>2, <2>1, <2>2, <2>3, ConstantTypes DEF KeyInv, KeyRight
<1>9. ASSUME Reap(r) PROVE KeyInv'
  <2>1. /\ auth[r] \in {"open", "expired"} /\ auth' = [auth EXCEPT ![r] = "final"]
        /\ key' = [key EXCEPT !.reserved = AtLeastZero(key.reserved - Estimate)]
        /\ UNCHANGED <<booked, client, faults>>
    BY <1>9 DEF Reap, Reapable
  <2>2. Sum(Holding(auth')) = h - Estimate + 0 /\ Estimate <= h
    BY <1>4, <1>5, <2>1
  <2>3. key'.reserved = res - Estimate /\ key'.used = booked'
    BY <1>1, <1>2, <1>3, <1>6, <2>1, <2>2
  <2>4. Sum(Calling(client')) = k
    BY <1>1, <2>1
  <2> QED BY <1>1, <1>2, <2>1, <2>2, <2>3, <2>4, ConstantTypes DEF KeyInv, KeyRight
<1> QED BY <1>7, <1>8, <1>9

\* What the home plane books is what it claims.
LEMMA ApplyUsage ==
  ASSUME Types, UsageInv, NEW r \in Requests, HomeApplies(r)
  PROVE  UsageInv'
<1>1. PICK c \in Costs \cup {0} : c = outbox[r].cost
  BY RowFields DEF Types, OutboxType
<1>2. c \in Nat /\ claim \in [Requests -> Nat]
  <2>1. \A x \in Costs \cup {0} : x \in Nat
    BY ConstantTypes
  <2> QED BY <2>1 DEF Types
<1>3. CASE Verdict(r, c) = "applied"
  <2>1. claim' = [claim EXCEPT ![r] = c] /\ usage' = usage + c
    BY <1>1, <1>3 DEF HomeApplies
  <2>2. claim[r] = 0
    BY <1>3, VerdictIs
  <2>3. claim' \in [Requests -> Nat] /\ claim'[r] = c /\ \A q \in Requests \ {r} : claim'[q] = claim[q]
    BY <1>2, <2>1
  <2>4. Sum(claim') = Sum(claim) - claim[r] + claim'[r] /\ Sum(claim) \in Nat
    BY <1>2, <2>3, ConstantTypes, SumChanges
  <2> QED BY <1>2, <2>1, <2>2, <2>3, <2>4 DEF UsageInv
<1>4. CASE Verdict(r, c) # "applied"
  BY <1>1, <1>4 DEF HomeApplies, homeVars, UsageInv
<1> QED BY <1>3, <1>4

-----------------------------------------------------------------------------
(* The invariant, an action at a time.                                      *)

LEMMA CallStep ==
  ASSUME Inv, Types', NEW c \in Clients,
         (\E r \in Requests : HoldKey(c, r)) \/ Create(c) \/ GiveBack(c) \/ ClientDies(c)
  PROVE  Inv'
<1>1. Types /\ ClaimsInv /\ CountersInv /\ KeyInv /\ UsageInv
  BY DEF Inv
<1>2. KeyInv'
  BY <1>1, CallKey
<1>3. UsageInv'
  BY <1>1 DEF HoldKey, Create, GiveBack, ClientDies, homeVars, UsageInv
<1>4. CASE Create(c)
  <2>1. ClaimsInv' /\ CountersInv'
    BY <1>1, <1>4, CreateClaims, CreateCounters
  <2> QED BY <1>2, <1>3, <2>1 DEF Inv
<1>5. CASE (\E r \in Requests : HoldKey(c, r)) \/ GiveBack(c) \/ ClientDies(c)
  <2>1. UNCHANGED <<auth, outbox, outstanding, deadLettered, claim, wire, fwd>>
    BY <1>5 DEF HoldKey, GiveBack, ClientDies, homeVars, peerVars
  <2>2. ClaimsInv' /\ CountersInv'
    BY <1>1, <2>1, ClaimsQuiet, CountersQuiet
  <2> QED BY <1>2, <1>3, <2>2 DEF Inv
<1> QED BY <1>4, <1>5

LEMMA FinalizeStep ==
  ASSUME Inv, Types', NEW r \in Requests, NEW cost \in Costs \cup {0}, NEW byok \in BOOLEAN,
         Finalize(r, cost, byok)
  PROVE  Inv'
<1>1. Types /\ ClaimsInv /\ CountersInv /\ KeyInv /\ UsageInv
  BY DEF Inv
<1>2. ClaimsInv' /\ CountersInv' /\ KeyInv'
  BY <1>1, FinalizeClaims, FinalizeCounters, SettleKey
<1>3. UsageInv'
  BY <1>1 DEF Finalize, homeVars, UsageInv
<1> QED BY <1>2, <1>3 DEF Inv

LEMMA RequestStep ==
  ASSUME Inv, Types', NEW r \in Requests, Expire(r) \/ Reap(r) \/ BecomesDue(r)
  PROVE  Inv'
<1>1. Types /\ ClaimsInv /\ CountersInv /\ KeyInv /\ UsageInv
  BY DEF Inv
<1>2. UsageInv'
  BY <1>1 DEF Expire, Reap, BecomesDue, homeVars, UsageInv
<1>3. CASE Expire(r)
  <2>1. ClaimsInv' /\ CountersInv' /\ KeyInv'
    BY <1>1, <1>3, ReapClaims, ExpireCounters, SettleKey
  <2> QED BY <1>2, <2>1 DEF Inv
<1>4. CASE Reap(r)
  <2>1. ClaimsInv' /\ CountersInv' /\ KeyInv'
    BY <1>1, <1>4, ReapClaims, ReapCounters, SettleKey
  <2> QED BY <1>2, <2>1 DEF Inv
<1>5. CASE BecomesDue(r)
  <2>1. /\ outbox' = [outbox EXCEPT ![r].due = TRUE]
        /\ UNCHANGED <<auth, outstanding, deadLettered, key, client, booked, faults>>
    BY <1>5 DEF BecomesDue
  <2>2. ClaimsInv' /\ KeyInv'
    BY <1>1, <1>5, <2>1, DueClaims, KeyQuiet
  <2>3. CountersInv'
    BY <1>1, <2>1, DueCounters
  <2> QED BY <1>2, <2>2, <2>3 DEF Inv
<1> QED BY <1>3, <1>4, <1>5

LEMMA HomeStep ==
  ASSUME Inv, Types', (\E r \in Requests : HomeApplies(r)) \/ NewDay
  PROVE  Inv'
<1>1. Types /\ ClaimsInv /\ CountersInv /\ KeyInv /\ UsageInv
  BY DEF Inv
<1>2. UNCHANGED <<auth, outbox, outstanding, deadLettered, key, client, booked, faults>>
  BY DEF HomeApplies, NewDay, peerVars
<1>3. CountersInv' /\ KeyInv'
  BY <1>1, <1>2, CountersQuiet, KeyQuiet
<1>4. ASSUME NEW r \in Requests, HomeApplies(r) PROVE Inv'
  <2>1. ClaimsInv' /\ UsageInv'
    BY <1>1, <1>4, ApplyClaims, ApplyUsage
  <2> QED BY <1>3, <2>1 DEF Inv
<1>5. ASSUME NewDay PROVE Inv'
  <2>1. UNCHANGED <<auth, outbox, claim, wire, fwd, usage>>
    BY <1>5 DEF NewDay, peerVars
  <2>2. ClaimsInv' /\ UsageInv'
    BY <1>1, <2>1, ClaimsQuiet DEF UsageInv
  <2> QED BY <1>3, <2>2 DEF Inv
<1> QED BY <1>4, <1>5

LEMMA PassStep ==
  ASSUME Inv, Types', NEW f \in Forwarders,
         StartPass(f) \/ (\E r \in Requests : Post(f, r)) \/ Outage(f) \/ Resolves(f)
           \/ ForwarderDies(f)
  PROVE  Inv'
<1>1. Types /\ ClaimsInv /\ CountersInv /\ KeyInv /\ UsageInv
  BY DEF Inv
<1>2. UNCHANGED <<auth, key, client, booked, usage, claim>>
  BY DEF StartPass, Post, Outage, Resolves, MarkForwarded, MarkDeadLetter, Bump, ForwarderDies,
         peerVars, homeVars
<1>3. faults' = 0 => faults = 0
  BY <1>1, FaultCounts
     DEF StartPass, Post, Outage, Resolves, MarkForwarded, MarkDeadLetter, Bump, ForwarderDies
<1>4. KeyInv' /\ UsageInv'
  BY <1>1, <1>2, <1>3, KeyQuiet DEF UsageInv
<1>5. CASE Resolves(f)
  <2>1. ClaimsInv' /\ CountersInv'
    BY <1>1, <1>5, MarkClaims, MarkCounters
  <2> QED BY <1>4, <2>1 DEF Inv
<1>6. CASE StartPass(f) \/ (\E r \in Requests : Post(f, r)) \/ Outage(f) \/ ForwarderDies(f)
  <2>1. UNCHANGED <<auth, outbox, outstanding, deadLettered>>
    BY <1>6 DEF StartPass, Post, Outage, ForwarderDies, peerVars
  <2>2. CountersInv'
    BY <1>1, <2>1, CountersQuiet
  <2>3. ClaimsInv'
    BY <1>1, <1>6, SendClaims, OutageClaims
  <2> QED BY <1>4, <2>2, <2>3 DEF Inv
<1> QED BY <1>5, <1>6

LEMMA InitInv == Init => Inv
<1> SUFFICES ASSUME Init PROVE Inv
  OBVIOUS
<1>1. NoRow \in RowType /\ NoRow.state = "none" /\ NoRow.cost = 0
  BY DEF NoRow, RowType
<1>2. Types
  BY <1>1, ConstantTypes DEF Init, Types, AuthType, OutboxType, CallType, PassType
<1>3. ClaimsInv
  <2>1. RowsRight(auth, outbox, claim)
    BY <1>1 DEF Init, RowsRight, RowRight
  <2>2. WireRight(outbox, wire)
    BY DEF Init, WireRight
  <2>3. PassesRight(fwd, outbox, claim)
    BY DEF Init, PassesRight, PassRight, Idle
  <2> QED BY <2>1, <2>2, <2>3 DEF ClaimsInv
<1>4. CountersInv
  <2> SUFFICES ASSUME NEW w \in Workspaces
               PROVE  /\ outstanding[w] = Sum(Owing(auth, outbox, w))
                      /\ deadLettered[w] = Sum(Losing(outbox, w))
                      /\ outstanding[w] <= Cap + Sum(Exceeding(outbox, w))
    BY DEF CountersInv, Exact, Capped
  <2>1. outbox \in OutboxType /\ outstanding[w] = 0 /\ deadLettered[w] = 0
    BY <1>2 DEF Init, Types
  <2>2. /\ Of(w) \subseteq Requests /\ IsFiniteSet(Of(w))
        /\ Owing(auth, outbox, w) \in [Of(w) -> Nat] /\ Losing(outbox, w) \in [Of(w) -> Nat]
        /\ Exceeding(outbox, w) \in [Of(w) -> Nat]
    BY <2>1, PartsOf
  <2>3. EstimateAt("none") = 0
    BY DEF EstimateAt
  <2>4. PendingAt(NoRow) = 0 /\ LostAt(NoRow) = 0
    BY <1>1, Parts
  <2>5. OwedAt("none", NoRow) = 0
    BY <2>3, <2>4 DEF OwedAt
  <2>6. \A r \in Of(w) : Owing(auth, outbox, w)[r] = 0 /\ Losing(outbox, w)[r] = 0
    BY <2>2, <2>4, <2>5 DEF Init, Owing, Losing
  <2>7. Sum(Owing(auth, outbox, w)) = 0 /\ Sum(Losing(outbox, w)) = 0
    BY <2>2, <2>6, SumOfNoughts
  <2>8. Sum(Exceeding(outbox, w)) \in Nat
    BY <2>2, PairsFinite
  <2> QED BY <2>1, <2>7, <2>8, ConstantTypes
<1>5. KeyInv
  <2>1. Holding(auth) \in [Requests -> Nat] /\ Calling(client) \in [Clients -> Nat]
    BY HoldingTypes
  <2>2. (\A r \in Requests : Holding(auth)[r] = 0) /\ (\A c \in Clients : Calling(client)[c] = 0)
    BY DEF Init, Holding, Calling, EstimateAt, CallAt
  <2>3. Sum(Holding(auth)) = 0 /\ Sum(Calling(client)) = 0
    BY <2>1, <2>2, ConstantTypes, SumOfNoughts
  <2> QED BY <2>3 DEF Init, KeyInv, KeyRight
<1>6. UsageInv
  <2>1. claim \in [Requests -> Nat] /\ \A r \in Requests : claim[r] = 0
    BY DEF Init
  <2> QED BY <2>1, ConstantTypes, SumOfNoughts DEF Init, UsageInv
<1> QED BY <1>2, <1>3, <1>4, <1>5, <1>6 DEF Inv

LEMMA InvCorrect == Spec => []Inv
<1>1. Inv /\ [Next]_vars => Inv'
  <2> SUFFICES ASSUME Inv, [Next]_vars PROVE Inv'
    OBVIOUS
  <2>1. Types'
    BY TypeStep DEF Inv
  <2>2. CASE UNCHANGED vars
    <3>1. UNCHANGED <<auth, outbox, outstanding, deadLettered, key, booked, client, fwd, wire,
                      claim, usage, faults>>
      BY <2>2 DEF vars, peerVars, homeVars
    <3>2. ClaimsInv' /\ CountersInv' /\ KeyInv' /\ UsageInv'
      BY <3>1, ClaimsQuiet, CountersQuiet, KeyQuiet DEF Inv, UsageInv
    <3> QED BY <2>1, <3>2 DEF Inv
  <2>3. 0 \in Costs \cup {0} /\ FALSE \in BOOLEAN /\ Costs \subseteq Costs \cup {0}
    OBVIOUS
  <2> QED
    BY <2>1, <2>2, <2>3, CallStep, FinalizeStep, RequestStep, HomeStep, PassStep DEF Next
<1> QED BY <1>1, InitInv, PTL DEF Spec

-----------------------------------------------------------------------------
(* The theorems.                                                            *)

\* The tables of both planes keep their types: no counter is ever negative and
\* a day's bookings never pass the workspace's daily cap.
THEOREM TypeCorrect == Spec => []TypeOK
<1>1. Inv => TypeOK
  BY TypeParts DEF Inv
<1> QED BY <1>1, InvCorrect, PTL

\* tr_deferred_outstanding is exact, through concurrent authorizations,
\* settlements, reaps and forwarding passes that repeat each other's marks: no
\* clamp ever hides an amount.  The key's reserved amount covers what is open.
THEOREM CountersStayExact == Spec => []CountersAreExact
BY InvCorrect, InvCounts, PTL

\* Whatever is lost, delayed or sent twice, the home ledger books a debt once,
\* for its cost, and a row's end tells whether it was booked.
THEOREM BookedAtMostOnce == Spec => []DebtBookedOnce
BY InvCorrect, InvBooks, PTL

\* What a workspace owes on this plane is within the cap, but for what its
\* undelivered requests cost beyond their estimates.
THEOREM ExposureStaysCapped == Spec => []ExposureIsCapped
BY InvCorrect, InvCaps, PTL

=============================================================================

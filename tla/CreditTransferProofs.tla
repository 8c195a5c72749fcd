------------------------ MODULE CreditTransferProofs ------------------------
(***************************************************************************)
(* A move of credit between planes keeps Escrow's promise for every value   *)
(* of CreditTransfer's CONSTANTS: however operators, recovery passes, lost  *)
(* answers, late requests and crashes interleave, every step of the stores  *)
(* is a step of the abstract purse, or none (ValueMovesOnce).               *)
(***************************************************************************)
EXTENDS CreditTransfer, WellFoundedInduction, TLAPS

Drivers == Operators \union Sources

TransferRow ==
  [state : {"escrowed", "delivered", "returned"}, workspace : Workspaces,
   amount : Amounts, to : Destinations]

ClaimRow ==
  [outcome : Outcomes, workspace : Workspaces, amount : Amounts, source : Sources]

-----------------------------------------------------------------------------
(* The inductive invariant.  Its parts take the rows of the sources, tr, and *)
(* the claims of the destinations, cl, as parameters: a driver's state says  *)
(* something of rows that other drivers move on meanwhile.                   *)

Types ==
  /\ balance \in [Planes \X Workspaces -> Nat]
  /\ federated \in [Destinations -> SUBSET Workspaces]
  /\ transfer \in [Sources \X Ids -> {NoTransfer} \union TransferRow]
  /\ open \in [Sources -> SUBSET Ids]
  /\ claim \in [Destinations \X Ids -> {NoClaim} \union ClaimRow]
  /\ peer \in [Sources -> Destinations]
  /\ driver = [x \in Drivers |-> driver[x]]
  /\ faults \in 0 .. MaxFaults /\ moves \in 0 .. MaxMoves

HasRow(s, i, tr) == tr[<<s, i>>].state # None

\* The destination's claim of i, which is of s and has this outcome.
Claimed(s, i, outcome, tr, cl) ==
  LET c == cl[<<tr[<<s, i>>].to, i>>] IN
  c # NoClaim /\ c.source = s /\ c.outcome = outcome

\* A claim stands for a row of its source, in the row's terms.
ClaimsHaveRows(tr, cl) ==
  \A d \in Destinations, i \in Ids :
    LET c == cl[<<d, i>>] IN
    c # NoClaim =>
      HasRow(c.source, i, tr) /\ SameMove(tr[<<c.source, i>>], c.workspace, c.amount, d)

\* A source has recorded what its transfer's destination claimed.
RowsHaveClaims(tr, cl) ==
  \A s \in Sources, i \in Ids :
    /\ tr[<<s, i>>].state = "delivered" => Claimed(s, i, "accepted", tr, cl)
    /\ tr[<<s, i>>].state = "returned" => Claimed(s, i, "rejected", tr, cl)

\* The index holds ids of rows.
IndexHasRows(tr) == \A s \in Sources : \A i \in open[s] : HasRow(s, i, tr)

\* A request is in the terms of its row.
InTerms(q, tr) ==
  /\ q \in Request
  /\ HasRow(q.source, q.id, tr)
  /\ SameMove(tr[<<q.source, q.id>>], q.workspace, q.amount, q.to)

\* Where a driver goes on once its request is done: to its end, or, in a pass
\* of x, to transfers of x.
Resumes(x, v, tr) ==
  \/ v = Idle
  \/ /\ x \in Sources
     /\ v = Walking(v.cursor, v.scanned, v.page, v.to)
     /\ v.page \subseteq Ids /\ v.to \in Destinations
     /\ \A i \in v.page : HasRow(x, i, tr)

\* A driver asks in its row's terms, and is about to record what was claimed.
Drives(x, v, tr, cl) ==
  \/ Resumes(x, v, tr)
  \/ v.pc = "ask" /\ InTerms(v.q, tr) /\ Resumes(x, v.then, tr)
  \/ /\ v.pc = "record" /\ Resumes(x, v.then, tr)
     /\ v.source \in Sources /\ v.id \in Ids /\ v.outcome \in Outcomes
     /\ HasRow(v.source, v.id, tr)
     /\ Claimed(v.source, v.id, v.outcome, tr, cl)

DriversDrive == \A x \in Drivers : Drives(x, driver[x], transfer, claim)
LateInTerms == \A q \in late : InTerms(q, transfer)

Inv ==
  /\ Types
  /\ ClaimsHaveRows(transfer, claim) /\ RowsHaveClaims(transfer, claim)
  /\ IndexHasRows(transfer)
  /\ DriversDrive /\ LateInTerms

-----------------------------------------------------------------------------
(* Rows keep their terms and claims stand: what the invariant says of a      *)
(* driver's state survives the others' steps.                                *)

RowsStay(tr, tr2) ==
  \A s \in Sources, i \in Ids :
    HasRow(s, i, tr) =>
      HasRow(s, i, tr2) /\ SameMove(tr2[<<s, i>>], tr[<<s, i>>].workspace, tr[<<s, i>>].amount, tr[<<s, i>>].to)

ClaimsStay(cl, cl2) ==
  \A d \in Destinations, i \in Ids : cl[<<d, i>>] # NoClaim => cl2[<<d, i>>] = cl[<<d, i>>]

\* The terms of an asked-for move hold for as long as its row is there.
LEMMA InTermsStays ==
  ASSUME NEW q, NEW tr, NEW tr2, InTerms(q, tr), RowsStay(tr, tr2)
  PROVE  InTerms(q, tr2)
BY DEF InTerms, RowsStay, SameMove, Request

\* A pass goes on over ids that keep their rows.
LEMMA ResumesStays ==
  ASSUME NEW x, NEW v, NEW tr, NEW tr2, Resumes(x, v, tr), RowsStay(tr, tr2)
  PROVE  Resumes(x, v, tr2)
BY DEF Resumes, RowsStay

\* A verdict that was heard stays the destination's.
LEMMA ClaimedStays ==
  ASSUME NEW s \in Sources, NEW i \in Ids, NEW outcome,
         NEW tr \in [Sources \X Ids -> {NoTransfer} \union TransferRow], NEW tr2,
         NEW cl, NEW cl2,
         HasRow(s, i, tr), Claimed(s, i, outcome, tr, cl),
         RowsStay(tr, tr2), ClaimsStay(cl, cl2)
  PROVE  Claimed(s, i, outcome, tr2, cl2)
<1>1. tr[<<s, i>>] \in TransferRow
  BY DEF HasRow, NoTransfer
<1>2. tr[<<s, i>>].to \in Destinations /\ tr2[<<s, i>>].to = tr[<<s, i>>].to
  BY <1>1 DEF TransferRow, RowsStay, SameMove
<1> QED BY <1>2 DEF Claimed, ClaimsStay

\* Hence a driver's state, whatever the stores did meanwhile.
LEMMA DrivesStays ==
  ASSUME NEW x, NEW v,
         NEW tr \in [Sources \X Ids -> {NoTransfer} \union TransferRow], NEW tr2,
         NEW cl, NEW cl2,
         Drives(x, v, tr, cl), RowsStay(tr, tr2), ClaimsStay(cl, cl2)
  PROVE  Drives(x, v, tr2, cl2)
<1>1. CASE Resumes(x, v, tr)
  BY <1>1, ResumesStays DEF Drives
<1>2. CASE v.pc = "ask" /\ InTerms(v.q, tr) /\ Resumes(x, v.then, tr)
  BY <1>2, ResumesStays, InTermsStays DEF Drives
<1>3. CASE /\ v.pc = "record" /\ Resumes(x, v.then, tr)
           /\ v.source \in Sources /\ v.id \in Ids /\ v.outcome \in Outcomes
           /\ HasRow(v.source, v.id, tr)
           /\ Claimed(v.source, v.id, v.outcome, tr, cl)
  <2>1. Resumes(x, v.then, tr2)
    BY <1>3, ResumesStays
  <2>2. Claimed(v.source, v.id, v.outcome, tr2, cl2)
    BY <1>3, ClaimedStays
  <2>3. HasRow(v.source, v.id, tr2)
    BY <1>3 DEF RowsStay
  <2> QED BY <1>3, <2>1, <2>2, <2>3 DEF Drives
<1> QED BY <1>1, <1>2, <1>3 DEF Drives

\* What a step that takes one driver on, and keeps rows and claims, leaves to
\* show: the driver's new state, and the requests that became late.
LEMMA DriversStay ==
  ASSUME Inv, NEW x \in Drivers, NEW v, driver' = [driver EXCEPT ![x] = v],
         RowsStay(transfer, transfer'), ClaimsStay(claim, claim'),
         Drives(x, v, transfer', claim')
  PROVE  DriversDrive' /\ driver' = [y \in Drivers |-> driver'[y]]
<1>1. driver' = [y \in Drivers |-> IF y = x THEN v ELSE driver[y]]
  BY DEF Inv, Types
<1>2. ASSUME NEW y \in Drivers
      PROVE  Drives(y, driver'[y], transfer', claim')
  <2>1. CASE y = x
    BY <1>1, <2>1
  <2>2. CASE y # x
    <3>1. Drives(y, driver[y], transfer, claim) /\ driver'[y] = driver[y]
      BY <1>1, <2>2 DEF Inv, DriversDrive
    <3>2. transfer \in [Sources \X Ids -> {NoTransfer} \union TransferRow]
      BY DEF Inv, Types
    <3> QED BY <3>1, <3>2, DrivesStays
  <2> QED BY <2>1, <2>2
<1> QED BY <1>1, <1>2 DEF DriversDrive

\* Late requests keep their terms too.
LEMMA LateStays ==
  ASSUME Inv, RowsStay(transfer, transfer'),
         \A q \in late' : q \in late \/ InTerms(q, transfer)
  PROVE  LateInTerms'
BY InTermsStays DEF Inv, LateInTerms

\* A step that moves no row and no claim on.
LEMMA SameBooksStay ==
  ASSUME transfer' = transfer, claim' = claim
  PROVE  RowsStay(transfer, transfer') /\ ClaimsStay(claim, claim')
BY DEF RowsStay, ClaimsStay, SameMove

\* The request a driver takes from a row is in the row's terms.
LEMMA AskInTerms ==
  ASSUME NEW s \in Sources, NEW i \in Ids, NEW to, NEW asks \in Outcomes,
         transfer' \in [Sources \X Ids -> {NoTransfer} \union TransferRow],
         HasRow(s, i, transfer'), transfer'[<<s, i>>].to = to
  PROVE  InTerms(Ask(s, i, to, asks), transfer')
<1>1. transfer'[<<s, i>>] \in TransferRow
  BY DEF HasRow, NoTransfer
<1> QED BY <1>1 DEF InTerms, Ask, Request, SameMove, TransferRow

LEMMA AskDrives ==
  ASSUME NEW x, NEW q, NEW then, NEW tr, NEW cl, InTerms(q, tr), Resumes(x, then, tr)
  PROVE  Drives(x, [pc |-> "ask", q |-> q, then |-> then], tr, cl)
BY DEF Drives

LEMMA IdleResumes ==
  ASSUME NEW x, NEW tr
  PROVE  Resumes(x, Idle, tr)
BY DEF Resumes

\* A driver with a request in hand, and what follows it.
LEMMA AskerInHand ==
  ASSUME Inv, NEW x \in Drivers, driver[x].pc = "ask"
  PROVE  InTerms(driver[x].q, transfer) /\ Resumes(x, driver[x].then, transfer)
<1>1. Drives(x, driver[x], transfer, claim)
  BY DEF Inv, DriversDrive
<1>2. ~Resumes(x, driver[x], transfer)
  <2>1. Idle.pc # "ask"
    BY DEF Idle
  <2>2. Walking(driver[x].cursor, driver[x].scanned, driver[x].page, driver[x].to).pc # "ask"
    BY DEF Walking
  <2> QED BY <2>1, <2>2 DEF Resumes
<1> QED BY <1>1, <1>2 DEF Drives

\* A driver that has heard a verdict.
LEMMA HearerInHand ==
  ASSUME Inv, NEW x \in Drivers, driver[x].pc = "record"
  PROVE  /\ driver[x].source \in Sources /\ driver[x].id \in Ids
         /\ driver[x].outcome \in Outcomes
         /\ HasRow(driver[x].source, driver[x].id, transfer)
         /\ Claimed(driver[x].source, driver[x].id, driver[x].outcome, transfer, claim)
         /\ Resumes(x, driver[x].then, transfer)
<1>1. Drives(x, driver[x], transfer, claim)
  BY DEF Inv, DriversDrive
<1>2. ~Resumes(x, driver[x], transfer)
  <2>1. Idle.pc # "record"
    BY DEF Idle
  <2>2. Walking(driver[x].cursor, driver[x].scanned, driver[x].page, driver[x].to).pc # "record"
    BY DEF Walking
  <2> QED BY <2>1, <2>2 DEF Resumes
<1> QED BY <1>1, <1>2 DEF Drives

\* A source between two transfers of a pass.
LEMMA WalkerInHand ==
  ASSUME Inv, NEW s \in Sources, driver[s].pc = "walk"
  PROVE  /\ driver[s] = Walking(driver[s].cursor, driver[s].scanned, driver[s].page, driver[s].to)
         /\ driver[s].page \subseteq Ids /\ driver[s].to \in Destinations
         /\ \A i \in driver[s].page : HasRow(s, i, transfer)
<1>1. Drives(s, driver[s], transfer, claim)
  BY DEF Inv, DriversDrive, Drivers
<1>2. Idle.pc # "walk"
  BY DEF Idle
<1> QED BY <1>1, <1>2 DEF Drives, Resumes

\* The steps of the drivers alone: no store is written.
LEMMA DriverStep ==
  ASSUME Inv, NEW x \in Drivers, NEW v, driver' = [driver EXCEPT ![x] = v],
         Drives(x, v, transfer, claim), UNCHANGED <<books, federated, peer, moves>>,
         faults' \in 0 .. MaxFaults,
         \A q \in late' : q \in late \/ InTerms(q, transfer)
  PROVE  Inv'
<1>1. transfer' = transfer /\ claim' = claim /\ open' = open /\ balance' = balance
  BY DEF books
<1>2. RowsStay(transfer, transfer') /\ ClaimsStay(claim, claim')
  BY <1>1, SameBooksStay
<1>3. DriversDrive' /\ driver' = [y \in Drivers |-> driver'[y]]
  BY <1>1, <1>2, DriversStay
<1>4. LateInTerms'
  BY <1>2, LateStays
<1>5. Types'
  BY <1>1, <1>3 DEF Inv, Types
<1> QED BY <1>1, <1>3, <1>4, <1>5 DEF Inv, IndexHasRows

-----------------------------------------------------------------------------
(* The initial states, and the steps that write no store.                    *)

LEMMA InitInv == Init => Inv
<1> SUFFICES ASSUME Init PROVE Inv
  OBVIOUS
<1>1. Types
  <2>1. balance \in [Planes \X Workspaces -> Nat]
    BY AmountsAssumption DEF Init
  <2>2. transfer \in [Sources \X Ids -> {NoTransfer} \union TransferRow]
    BY DEF Init
  <2>3. claim \in [Destinations \X Ids -> {NoClaim} \union ClaimRow]
    BY DEF Init
  <2>4. open \in [Sources -> SUBSET Ids]
    BY DEF Init
  <2>5. faults \in 0 .. MaxFaults /\ moves \in 0 .. MaxMoves
    BY FaultsAssumption DEF Init
  <2>6. driver = [x \in Drivers |-> driver[x]]
    BY DEF Init, Drivers
  <2> QED BY <2>1, <2>2, <2>3, <2>4, <2>5, <2>6 DEF Init, Types
<1>2. \A s \in Sources, i \in Ids : transfer[<<s, i>>] = NoTransfer
  BY DEF Init
<1>3. \A d \in Destinations, i \in Ids : claim[<<d, i>>] = NoClaim
  BY DEF Init
<1>4. ClaimsHaveRows(transfer, claim)
  BY <1>3 DEF ClaimsHaveRows
<1>5. RowsHaveClaims(transfer, claim)
  <2>1. \A s \in Sources, i \in Ids : transfer[<<s, i>>].state = "none"
    <3>1. NoTransfer.state = "none"
      BY DEF NoTransfer, None
    <3> QED BY <1>2, <3>1
  <2> QED BY <2>1 DEF RowsHaveClaims
<1>6. IndexHasRows(transfer)
  BY DEF IndexHasRows, Init
<1>7. DriversDrive
  BY IdleResumes DEF DriversDrive, Drives, Init, Drivers
<1>8. LateInTerms
  BY DEF LateInTerms, Init
<1> QED BY <1>1, <1>4, <1>5, <1>6, <1>7, <1>8 DEF Inv

LEMMA ReopenStep ==
  ASSUME Inv, NEW x \in Drivers, NEW s \in Sources, NEW i \in Ids, NEW w, NEW n,
         Reopen(x, s, i, w, n)
  PROVE  Inv'
<1> DEFINE q == Ask(s, i, peer[s], "accepted")
<1>1. transfer' = transfer
  BY DEF Reopen, books
<1>2. InTerms(q, transfer)
  <2>1. HasRow(s, i, transfer) /\ transfer[<<s, i>>].to = peer[s]
    BY DEF Reopen, SameMove, HasRow, None
  <2> QED BY <1>1, <2>1, AskInTerms DEF Inv, Types, Outcomes
<1>3. Drives(x, [pc |-> "ask", q |-> q, then |-> Idle], transfer, claim)
  BY <1>2, AskDrives, IdleResumes
<1> QED BY <1>3, DriverStep DEF Reopen, Asking, Inv, Types

LEMMA CancelStep ==
  ASSUME Inv, NEW x \in Drivers, NEW s \in Sources, NEW i \in Ids, Cancel(x, s, i)
  PROVE  Inv'
<1> DEFINE q == Ask(s, i, peer[s], "rejected")
<1>1. transfer' = transfer
  BY DEF Cancel, books
<1>2. InTerms(q, transfer)
  <2>1. HasRow(s, i, transfer) /\ transfer[<<s, i>>].to = peer[s]
    BY DEF Cancel, MayCancel, HasRow, None
  <2> QED BY <1>1, <2>1, AskInTerms DEF Inv, Types, Outcomes
<1>3. Drives(x, [pc |-> "ask", q |-> q, then |-> Idle], transfer, claim)
  BY <1>2, AskDrives, IdleResumes
<1> QED BY <1>3, DriverStep DEF Cancel, Asking, Inv, Types

LEMMA StartPassStep ==
  ASSUME Inv, NEW s \in Sources, StartPass(s)
  PROVE  Inv'
<1> DEFINE v == Walking(0, 0, {}, peer[s])
<1>1. Resumes(s, v, transfer)
  <2>1. peer[s] \in Destinations
    BY DEF Inv, Types
  <2>2. v.cursor = 0 /\ v.scanned = 0 /\ v.page = {} /\ v.to = peer[s]
    BY DEF Walking
  <2> QED BY <2>1, <2>2 DEF Resumes
<1>2. Drives(s, v, transfer, claim)
  BY <1>1 DEF Drives
<1>3. s \in Drivers
  BY DEF Drivers
<1> QED BY <1>2, <1>3, DriverStep DEF StartPass, Inv, Types

LEMMA NextPageStep ==
  ASSUME Inv, NEW s \in Sources, NextPage(s)
  PROVE  Inv'
<1> DEFINE page == Page(s, driver[s].cursor)
           count == driver[s].scanned + Cardinality(page)
           v == IF driver[s].scanned >= Budget \/ page = {} THEN Idle
                ELSE Walking(Max(page), count, page, driver[s].to)
<1>1. page \subseteq open[s]
  BY DEF Page
<1>2. page \subseteq Ids /\ \A i \in page : HasRow(s, i, transfer)
  BY <1>1 DEF Inv, Types, IndexHasRows
<1>3. driver[s].to \in Destinations
  BY WalkerInHand DEF NextPage
<1>4. Resumes(s, v, transfer)
  <2>1. CASE driver[s].scanned >= Budget \/ page = {}
    BY <2>1, IdleResumes
  <2>2. CASE ~(driver[s].scanned >= Budget \/ page = {})
    <3> HIDE DEF page, count
    <3>1. v = Walking(Max(page), count, page, driver[s].to)
      BY <2>2
    <3>2. v = Walking(v.cursor, v.scanned, v.page, v.to) /\ v.page = page /\ v.to = driver[s].to
      BY <3>1 DEF Walking
    <3> QED BY <1>2, <1>3, <3>2 DEF Resumes
  <2> QED BY <2>1, <2>2
<1>5. Drives(s, v, transfer, claim)
  BY <1>4 DEF Drives
<1>6. driver' = [driver EXCEPT ![s] = v]
  BY DEF NextPage
<1>7. s \in Drivers
  BY DEF Drivers
<1> HIDE DEF v
<1> QED BY <1>5, <1>6, <1>7, DriverStep DEF NextPage, Inv, Types

\* The next of a page is one of the page.
LEMMA MinOfPage ==
  ASSUME NEW page \in SUBSET Ids, page # {}
  PROVE  Min(page) \in page
<1>1. page \subseteq Nat
  BY IdsAssumption DEF Ids
<1> DEFINE R == OpToRel(<, Nat)
<1>2. PICK i \in page : \A k \in page : ~(<<k, i>> \in R)
  <2>1. IsWellFoundedOn(R, Nat)
    BY NatLessThanWellFounded
  <2> HIDE DEF R
  <2> QED BY <1>1, <2>1, WFMin
<1>3. ASSUME NEW k \in page
      PROVE  i <= k
  <2>1. k \in Nat /\ i \in Nat
    BY <1>1
  <2>2. k < i => <<k, i>> \in R
    BY <2>1 DEF OpToRel
  <2>3. ~(<<k, i>> \in R)
    BY <1>2
  <2> HIDE DEF R
  <2> QED BY <2>1, <2>2, <2>3
<1> QED BY <1>3 DEF Min

LEMMA NextTransferStep ==
  ASSUME Inv, NEW s \in Sources, NextTransfer(s)
  PROVE  Inv'
<1> DEFINE v == driver[s]
           i == Min(v.page)
           rest == [v EXCEPT !.page = @ \ {i}]
           q == Ask(s, i, v.to, "accepted")
<1>1. /\ v = Walking(v.cursor, v.scanned, v.page, v.to)
      /\ v.page \subseteq Ids /\ v.to \in Destinations
      /\ \A k \in v.page : HasRow(s, k, transfer)
  BY WalkerInHand DEF NextTransfer
<1>2. i \in v.page
  BY <1>1, MinOfPage DEF NextTransfer
<1>3. transfer' = transfer /\ s \in Drivers
  BY DEF NextTransfer, books, Drivers
<1>4. Resumes(s, rest, transfer)
  <2> HIDE DEF i
  <2>1. rest = Walking(v.cursor, v.scanned, v.page \ {i}, v.to)
    BY <1>1 DEF Walking
  <2>2. /\ rest = Walking(rest.cursor, rest.scanned, rest.page, rest.to)
        /\ rest.page = v.page \ {i} /\ rest.to = v.to
    BY <2>1 DEF Walking
  <2> QED BY <1>1, <2>2 DEF Resumes
<1>5. CASE transfer[<<s, i>>].to # v.to
  <2>1. driver' = [driver EXCEPT ![s] = rest]
    BY <1>5 DEF NextTransfer
  <2>2. Drives(s, rest, transfer, claim)
    BY <1>4 DEF Drives
  <2> HIDE DEF rest
  <2> QED BY <1>3, <2>1, <2>2, DriverStep DEF NextTransfer, Inv, Types
<1>6. CASE transfer[<<s, i>>].to = v.to
  <2>1. driver' = [driver EXCEPT ![s] = [pc |-> "ask", q |-> q, then |-> rest]]
    BY <1>6 DEF NextTransfer, Asking
  <2>2. InTerms(q, transfer)
    <3> HIDE DEF i
    <3> QED BY <1>1, <1>2, <1>3, <1>6, AskInTerms DEF Inv, Types, Outcomes
  <2>3. Drives(s, [pc |-> "ask", q |-> q, then |-> rest], transfer, claim)
    BY <1>4, <2>2, AskDrives
  <2> HIDE DEF rest, q
  <2> QED BY <1>3, <2>1, <2>3, DriverStep DEF NextTransfer, Inv, Types
<1> QED BY <1>5, <1>6

LEMMA GiveUpStep ==
  ASSUME Inv, NEW x \in Drivers, GiveUp(x)
  PROVE  Inv'
<1>1. InTerms(driver[x].q, transfer) /\ Resumes(x, driver[x].then, transfer)
  BY AskerInHand DEF GiveUp
<1>2. Drives(x, driver[x].then, transfer, claim)
  BY <1>1 DEF Drives
<1>3. faults' \in 0 .. MaxFaults
  BY FaultsAssumption DEF GiveUp, Fault, Inv, Types
<1>4. \A q \in late' : q \in late \/ InTerms(q, transfer)
  BY <1>1 DEF GiveUp
<1> QED BY <1>2, <1>3, <1>4, DriverStep DEF GiveUp, Done

LEMMA CrashStep ==
  ASSUME Inv, NEW x \in Drivers, Crash(x)
  PROVE  Inv'
<1>1. Drives(x, Idle, transfer, claim)
  BY IdleResumes DEF Drives
<1>2. faults' \in 0 .. MaxFaults
  BY FaultsAssumption DEF Crash, Fault, Inv, Types
<1> QED BY <1>1, <1>2, DriverStep DEF Crash

\* Federation, a change of destination and stuttering leave drivers and books.
LEMMA OutsideStep ==
  ASSUME Inv, UNCHANGED <<books, driver, late, faults>>,
         federated' \in [Destinations -> SUBSET Workspaces],
         peer' \in [Sources -> Destinations], moves' \in 0 .. MaxMoves
  PROVE  Inv'
BY DEF Inv, Types, books, IndexHasRows, DriversDrive, LateInTerms

-----------------------------------------------------------------------------
(* The steps that write a store.                                             *)

\* A row that is there is of its type.
LEMMA RowIsTyped ==
  ASSUME Inv, NEW s \in Sources, NEW i \in Ids, HasRow(s, i, transfer)
  PROVE  transfer[<<s, i>>] \in TransferRow
<1>1. transfer[<<s, i>>] \in {NoTransfer} \union TransferRow
  BY DEF Inv, Types
<1>2. NoTransfer.state = None
  BY DEF NoTransfer
<1> QED BY <1>1, <1>2 DEF HasRow

LEMMA OpenStep ==
  ASSUME Inv, NEW x \in Drivers, NEW s \in Sources, NEW i \in Ids,
         NEW w \in Workspaces, NEW n \in Amounts, Open(x, s, i, w, n)
  PROVE  Inv'
<1> DEFINE row == [state |-> "escrowed", workspace |-> w, amount |-> n, to |-> peer[s]]
           q == Ask(s, i, peer[s], "accepted")
<1>1. row \in TransferRow /\ row.state # None
  BY DEF TransferRow, Inv, Types, None
<1>2. /\ transfer' = [transfer EXCEPT ![<<s, i>>] = row]
      /\ claim' = claim /\ ~HasRow(s, i, transfer)
  BY DEF Open, HasRow
<1> HIDE DEF row
<1>3. transfer' \in [Sources \X Ids -> {NoTransfer} \union TransferRow]
  BY <1>1, <1>2 DEF Inv, Types
<1>4. transfer'[<<s, i>>] = row
  BY <1>2 DEF Inv, Types
<1>5. \A s2 \in Sources, i2 \in Ids :
        <<s2, i2>> # <<s, i>> => transfer'[<<s2, i2>>] = transfer[<<s2, i2>>]
  BY <1>2 DEF Inv, Types
<1>6. HasRow(s, i, transfer')
  BY <1>1, <1>4 DEF HasRow
<1>7. RowsStay(transfer, transfer') /\ ClaimsStay(claim, claim')
  <2>1. ASSUME NEW s2 \in Sources, NEW i2 \in Ids, HasRow(s2, i2, transfer)
        PROVE  transfer'[<<s2, i2>>] = transfer[<<s2, i2>>]
    BY <1>2, <1>5, <2>1
  <2> QED BY <1>2, <2>1 DEF RowsStay, ClaimsStay, HasRow, SameMove
<1>8. balance' \in [Planes \X Workspaces -> Nat]
  <2>1. balance[<<s, w>>] - n \in Nat
    BY AmountsAssumption DEF Open, Affords, Inv, Types, Planes
  <2> QED BY <2>1 DEF Open, Inv, Types
<1>9. driver' = [driver EXCEPT ![x] = [pc |-> "ask", q |-> q, then |-> Idle]]
  BY DEF Open, Asking
<1>10. Drives(x, [pc |-> "ask", q |-> q, then |-> Idle], transfer', claim')
  <2>1. transfer'[<<s, i>>].to = peer[s]
    BY <1>4 DEF row
  <2>2. InTerms(q, transfer')
    BY <1>3, <1>6, <2>1, AskInTerms DEF Outcomes
  <2> QED BY <2>2, AskDrives, IdleResumes
<1> HIDE DEF q
<1>11. DriversDrive' /\ driver' = [y \in Drivers |-> driver'[y]]
  BY <1>7, <1>9, <1>10, DriversStay
<1>12. LateInTerms'
  BY <1>7, LateStays DEF Open
<1>13. open' \in [Sources -> SUBSET Ids] /\ IndexHasRows(transfer)'
  <2>1. open' = [open EXCEPT ![s] = @ \union {i}]
    BY DEF Open
  <2>2. \A s2 \in Sources : \A k \in open'[s2] : k \in open[s2] \/ (s2 = s /\ k = i)
    BY <2>1 DEF Inv, Types
  <2>3. open' \in [Sources -> SUBSET Ids]
    BY <2>1 DEF Inv, Types
  <2>4. \A s2 \in Sources : \A k \in open[s2] : k \in Ids /\ HasRow(s2, k, transfer)
    BY DEF Inv, Types, IndexHasRows
  <2> QED BY <1>6, <1>7, <2>2, <2>3, <2>4 DEF IndexHasRows, RowsStay
<1>14. Types'
  BY <1>3, <1>8, <1>11, <1>13 DEF Open, Inv, Types
<1>15. ClaimsHaveRows(transfer', claim')
  <2> SUFFICES ASSUME NEW d \in Destinations, NEW k \in Ids, claim[<<d, k>>] # NoClaim
               PROVE  LET c == claim[<<d, k>>] IN
                      /\ HasRow(c.source, k, transfer')
                      /\ SameMove(transfer'[<<c.source, k>>], c.workspace, c.amount, d)
    BY <1>2 DEF ClaimsHaveRows
  <2> DEFINE c == claim[<<d, k>>]
  <2>1. c \in ClaimRow
    BY DEF Inv, Types
  <2>2. c.source \in Sources
    BY <2>1 DEF ClaimRow
  <2>3. HasRow(c.source, k, transfer) /\ SameMove(transfer[<<c.source, k>>], c.workspace, c.amount, d)
    BY DEF Inv, ClaimsHaveRows
  <2> HIDE DEF c
  <2> QED BY <1>7, <2>2, <2>3 DEF RowsStay, SameMove, c
<1>16. RowsHaveClaims(transfer', claim')
  <2>1. transfer'[<<s, i>>].state = "escrowed"
    BY <1>4 DEF row
  <2>2. \A s2 \in Sources, i2 \in Ids :
          transfer'[<<s2, i2>>].state \in {"delivered", "returned"}
            => transfer'[<<s2, i2>>] = transfer[<<s2, i2>>]
    BY <1>5, <2>1
  <2>3. RowsHaveClaims(transfer, claim)
    BY DEF Inv
  <2>4. ASSUME NEW s2 \in Sources, NEW i2 \in Ids, transfer'[<<s2, i2>>].state = "delivered"
        PROVE  Claimed(s2, i2, "accepted", transfer', claim')
    BY <1>2, <2>2, <2>3, <2>4 DEF RowsHaveClaims, Claimed
  <2>5. ASSUME NEW s2 \in Sources, NEW i2 \in Ids, transfer'[<<s2, i2>>].state = "returned"
        PROVE  Claimed(s2, i2, "rejected", transfer', claim')
    BY <1>2, <2>2, <2>3, <2>5 DEF RowsHaveClaims, Claimed
  <2> QED BY <2>4, <2>5 DEF RowsHaveClaims
<1> QED BY <1>11, <1>12, <1>13, <1>14, <1>15, <1>16 DEF Inv

\* claim_credit_transfer's write: a first claim is in the terms of the row it
\* was asked for, and of no other source's row.
LEMMA WriteClaimKeeps ==
  ASSUME Inv, NEW q, InTerms(q, transfer), WriteClaim(q), transfer' = transfer
  PROVE  /\ balance' \in [Planes \X Workspaces -> Nat]
         /\ claim' \in [Destinations \X Ids -> {NoClaim} \union ClaimRow]
         /\ ClaimsStay(claim, claim')
         /\ ClaimsHaveRows(transfer', claim') /\ RowsHaveClaims(transfer', claim')
<1> DEFINE c == [outcome |-> q.asks, workspace |-> q.workspace,
                 amount |-> q.amount, source |-> q.source]
<1>1. /\ q.to \in Destinations /\ q.id \in Ids /\ q.workspace \in Workspaces
      /\ q.amount \in Amounts /\ q.source \in Sources /\ q.asks \in Outcomes
  BY DEF InTerms, Request
<1>2. CASE UNCHANGED <<balance, claim>>
  BY <1>2 DEF Inv, Types, ClaimsStay
<1>3. CASE ~UNCHANGED <<balance, claim>>
  <2>1. /\ claim[<<q.to, q.id>>] = NoClaim
        /\ claim' = [claim EXCEPT ![<<q.to, q.id>>] = c]
        /\ balance' = IF q.asks = "rejected" THEN balance ELSE
             [balance EXCEPT ![<<q.to, q.workspace>>] = @ + q.amount]
    BY <1>3 DEF WriteClaim
  <2>2. c \in ClaimRow
    BY <1>1 DEF ClaimRow
  <2>3. c.source = q.source /\ c.workspace = q.workspace /\ c.amount = q.amount
    OBVIOUS
  <2> HIDE DEF c
  <2>4. /\ claim'[<<q.to, q.id>>] = c
        /\ \A d \in Destinations, i \in Ids :
             <<d, i>> # <<q.to, q.id>> => claim'[<<d, i>>] = claim[<<d, i>>]
        /\ claim' \in [Destinations \X Ids -> {NoClaim} \union ClaimRow]
    BY <1>1, <2>1, <2>2 DEF Inv, Types
  <2>5. ClaimsStay(claim, claim')
    <3> SUFFICES ASSUME NEW d \in Destinations, NEW i \in Ids, claim[<<d, i>>] # NoClaim
                 PROVE  claim'[<<d, i>>] = claim[<<d, i>>]
      BY DEF ClaimsStay
    <3>1. <<d, i>> # <<q.to, q.id>>
      BY <2>1
    <3> QED BY <2>4, <3>1
  <2>6. balance' \in [Planes \X Workspaces -> Nat]
    <3>1. <<q.to, q.workspace>> \in Planes \X Workspaces
      BY <1>1 DEF Planes
    <3>2. balance[<<q.to, q.workspace>>] + q.amount \in Nat
      BY <1>1, <3>1, AmountsAssumption DEF Inv, Types
    <3> QED BY <2>1, <3>1, <3>2 DEF Inv, Types
  <2>7. ClaimsHaveRows(transfer', claim')
    <3> SUFFICES ASSUME NEW d \in Destinations, NEW i \in Ids, claim'[<<d, i>>] # NoClaim
                 PROVE  LET k == claim'[<<d, i>>] IN
                        /\ HasRow(k.source, i, transfer)
                        /\ SameMove(transfer[<<k.source, i>>], k.workspace, k.amount, d)
      BY DEF ClaimsHaveRows
    <3>1. CASE d = q.to /\ i = q.id
      BY <2>3, <2>4, <3>1 DEF InTerms
    <3>2. CASE ~(d = q.to /\ i = q.id)
      <4>1. claim'[<<d, i>>] = claim[<<d, i>>]
        BY <2>4, <3>2
      <4> QED BY <4>1 DEF Inv, ClaimsHaveRows
    <3> QED BY <3>1, <3>2
  <2>8. RowsHaveClaims(transfer', claim')
    <3>1. ASSUME NEW s \in Sources, NEW i \in Ids, NEW outcome,
                 transfer[<<s, i>>].state \in {"delivered", "returned"},
                 Claimed(s, i, outcome, transfer, claim)
          PROVE  Claimed(s, i, outcome, transfer, claim')
      <4>1. HasRow(s, i, transfer)
        BY <3>1 DEF HasRow, None
      <4>2. RowsStay(transfer, transfer)
        BY DEF RowsStay, SameMove
      <4>3. transfer \in [Sources \X Ids -> {NoTransfer} \union TransferRow]
        BY DEF Inv, Types
      <4> QED BY <2>5, <3>1, <4>1, <4>2, <4>3, ClaimedStays
    <3>2. RowsHaveClaims(transfer, claim)
      BY DEF Inv
    <3>3. ASSUME NEW s \in Sources, NEW i \in Ids, transfer[<<s, i>>].state = "delivered"
          PROVE  Claimed(s, i, "accepted", transfer, claim')
      BY <3>1, <3>2, <3>3 DEF RowsHaveClaims
    <3>4. ASSUME NEW s \in Sources, NEW i \in Ids, transfer[<<s, i>>].state = "returned"
          PROVE  Claimed(s, i, "rejected", transfer, claim')
      BY <3>1, <3>2, <3>4 DEF RowsHaveClaims
    <3> QED BY <3>3, <3>4 DEF RowsHaveClaims
  <2> QED BY <2>4, <2>5, <2>6, <2>7, <2>8
<1> QED BY <1>2, <1>3

\* Serving a request that was in hand or late leaves to show what becomes of
\* its sender.
LEMMA ServedKeeps ==
  ASSUME Inv, NEW q, InTerms(q, transfer), WriteClaim(q),
         UNCHANGED <<transfer, open, federated, peer, moves>>,
         faults' \in 0 .. MaxFaults, late' \subseteq late,
         DriversDrive', driver' = [y \in Drivers |-> driver'[y]]
  PROVE  Inv'
<1>1. /\ balance' \in [Planes \X Workspaces -> Nat]
      /\ claim' \in [Destinations \X Ids -> {NoClaim} \union ClaimRow]
      /\ ClaimsHaveRows(transfer', claim') /\ RowsHaveClaims(transfer', claim')
  BY WriteClaimKeeps
<1>2. Types'
  BY <1>1 DEF Inv, Types
<1>3. LateInTerms'
  BY DEF Inv, LateInTerms
<1>4. IndexHasRows(transfer)'
  BY DEF Inv, IndexHasRows
<1> QED BY <1>1, <1>2, <1>3, <1>4 DEF Inv

\* The verdict a sender hears is the claim that now stands.
LEMMA VerdictIsClaimed ==
  ASSUME Inv, NEW q, InTerms(q, transfer), WriteClaim(q), transfer' = transfer, ~Refused(q)
  PROVE  Verdict(q) \in Outcomes /\ Claimed(q.source, q.id, Verdict(q), transfer', claim')
<1>1. /\ q.to \in Destinations /\ q.id \in Ids /\ q.source \in Sources
      /\ q.asks \in Outcomes /\ transfer[<<q.source, q.id>>].to = q.to
  BY DEF InTerms, Request, SameMove
<1>2. CASE claim[<<q.to, q.id>>] # NoClaim
  <2>1. claim' = claim
    BY <1>2 DEF WriteClaim
  <2>2. claim[<<q.to, q.id>>].source = q.source
    BY <1>2 DEF Refused, SameClaim
  <2>3. Verdict(q) = claim[<<q.to, q.id>>].outcome
    BY <1>2 DEF Verdict
  <2>4. claim[<<q.to, q.id>>] \in ClaimRow
    BY <1>1, <1>2 DEF Inv, Types
  <2>5. Verdict(q) \in Outcomes
    BY <2>3, <2>4 DEF ClaimRow
  <2> QED BY <1>1, <1>2, <2>1, <2>2, <2>3, <2>5 DEF Claimed
<1>3. CASE claim[<<q.to, q.id>>] = NoClaim
  <2> DEFINE c == [outcome |-> q.asks, workspace |-> q.workspace,
                   amount |-> q.amount, source |-> q.source]
  <2>1. claim' = [claim EXCEPT ![<<q.to, q.id>>] = c]
    BY <1>3 DEF WriteClaim
  <2>2. c.outcome = q.asks /\ c.source = q.source
    OBVIOUS
  <2>3. NoClaim.outcome = "none"
    BY DEF NoClaim, None
  <2> HIDE DEF c
  <2>4. claim'[<<q.to, q.id>>] = c
    BY <1>1, <2>1 DEF Inv, Types
  <2>5. Verdict(q) = q.asks
    BY <1>3 DEF Verdict
  <2>6. c # NoClaim
    BY <1>1, <2>2, <2>3 DEF Outcomes
  <2> QED BY <1>1, <2>2, <2>4, <2>5, <2>6 DEF Claimed
<1> QED BY <1>2, <1>3

LEMMA DeliverStep ==
  ASSUME Inv, NEW x \in Drivers, Deliver(x)
  PROVE  Inv'
<1> DEFINE q == driver[x].q
           heard == [pc |-> "record", then |-> driver[x].then,
                     source |-> q.source, id |-> q.id, outcome |-> Verdict(q)]
<1>1. InTerms(q, transfer) /\ Resumes(x, driver[x].then, transfer)
  BY AskerInHand DEF Deliver
<1>2. WriteClaim(q) /\ UNCHANGED <<transfer, open, federated, peer, late, moves>>
  BY DEF Deliver
<1>3. ClaimsStay(claim, claim') /\ RowsStay(transfer, transfer')
  BY <1>1, <1>2, WriteClaimKeeps DEF RowsStay, SameMove
<1>4. faults' \in 0 .. MaxFaults
  BY FaultsAssumption DEF Deliver, Fault, Inv, Types
<1>5. PICK v : driver' = [driver EXCEPT ![x] = v] /\ Drives(x, v, transfer', claim')
  <2>1. CASE Done(x)
    <3>1. Drives(x, driver[x].then, transfer', claim')
      BY <1>1, <1>2 DEF Drives
    <3> QED BY <2>1, <3>1 DEF Done
  <2>2. CASE ~Refused(q) /\ driver' = [driver EXCEPT ![x] = heard]
    <3>1. Verdict(q) \in Outcomes /\ Claimed(q.source, q.id, Verdict(q), transfer', claim')
      BY <1>1, <1>2, <2>2, VerdictIsClaimed
    <3>2. q.source \in Sources /\ q.id \in Ids /\ HasRow(q.source, q.id, transfer')
      BY <1>1, <1>2 DEF InTerms, Request
    <3>3. /\ heard.pc = "record" /\ heard.then = driver[x].then
          /\ heard.source = q.source /\ heard.id = q.id /\ heard.outcome = Verdict(q)
      OBVIOUS
    <3> HIDE DEF q, heard
    <3>4. Drives(x, heard, transfer', claim')
      BY <1>1, <1>2, <3>1, <3>2, <3>3 DEF Drives
    <3> QED BY <2>2, <3>4
  <2> QED BY <2>1, <2>2 DEF Deliver
<1>6. DriversDrive' /\ driver' = [y \in Drivers |-> driver'[y]]
  BY <1>3, <1>5, DriversStay
<1> HIDE DEF q
<1> QED BY <1>1, <1>2, <1>4, <1>6, ServedKeeps

LEMMA DeliverLateStep ==
  ASSUME Inv, NEW q \in late, DeliverLate(q)
  PROVE  Inv'
<1>1. InTerms(q, transfer)
  BY DEF Inv, LateInTerms
<1>2. WriteClaim(q) /\ UNCHANGED <<transfer, open, federated, peer, driver, faults, moves>>
  BY DEF DeliverLate
<1>3. ClaimsStay(claim, claim') /\ RowsStay(transfer, transfer')
  BY <1>1, <1>2, WriteClaimKeeps DEF RowsStay, SameMove
<1>4. DriversDrive'
  <2> SUFFICES ASSUME NEW y \in Drivers
               PROVE  Drives(y, driver[y], transfer', claim')
    BY <1>2 DEF DriversDrive
  <2>1. Drives(y, driver[y], transfer, claim)
    BY DEF Inv, DriversDrive
  <2>2. transfer \in [Sources \X Ids -> {NoTransfer} \union TransferRow]
    BY DEF Inv, Types
  <2> QED BY <1>3, <2>1, <2>2, DrivesStays
<1> QED BY <1>1, <1>2, <1>4, ServedKeeps DEF DeliverLate, Inv, Types

\* What resolve_credit_transfer writes: the row keeps its terms and gets the
\* state of the claim the driver heard of.
LEMMA RecordStep ==
  ASSUME Inv, NEW x \in Drivers, Record(x)
  PROVE  Inv'
<1> DEFINE s == driver[x].source
           i == driver[x].id
           o == driver[x].outcome
           t == transfer[<<s, i>>]
<1>1. /\ s \in Sources /\ i \in Ids /\ o \in Outcomes /\ HasRow(s, i, transfer)
      /\ Claimed(s, i, o, transfer, claim) /\ Resumes(x, driver[x].then, transfer)
  BY HearerInHand DEF Record
<1>2. Drives(x, driver[x].then, transfer, claim)
  BY <1>1 DEF Drives
<1>3. /\ driver' = [driver EXCEPT ![x] = driver[x].then]
      /\ UNCHANGED <<claim, federated, peer, late, faults, moves>>
  BY DEF Record, Done
<1>4. CASE t.state # "escrowed"
  <2>1. UNCHANGED <<balance, transfer, open>>
    BY <1>4 DEF Record
  <2> HIDE DEF t
  <2> QED BY <1>2, <1>3, <2>1, DriverStep DEF books, Inv, Types
<1>5. CASE t.state = "escrowed"
  <2> DEFINE t2 == [t EXCEPT !.state = StateFor(o)]
  <2>1. /\ transfer' = [transfer EXCEPT ![<<s, i>>].state = StateFor(o)]
        /\ open' = [open EXCEPT ![s] = Unresolved(s, i)]
        /\ balance' = IF o = "accepted" THEN balance ELSE
             [balance EXCEPT ![<<s, t.workspace>>] = @ + t.amount]
    BY <1>5 DEF Record
  <2>2. t \in TransferRow
    BY <1>1, RowIsTyped
  <2> HIDE DEF s, i, o
  <2>3. transfer' = [transfer EXCEPT ![<<s, i>>] = t2]
    BY <2>1 DEF Inv, Types
  <2>4. /\ t2 \in TransferRow /\ t2.state = StateFor(o)
        /\ t2.workspace = t.workspace /\ t2.amount = t.amount /\ t2.to = t.to
    BY <2>2 DEF TransferRow, StateFor
  <2> HIDE DEF t, t2
  <2>5. /\ transfer'[<<s, i>>] = t2
        /\ \A r \in Sources, k \in Ids :
             <<r, k>> # <<s, i>> => transfer'[<<r, k>>] = transfer[<<r, k>>]
        /\ transfer' \in [Sources \X Ids -> {NoTransfer} \union TransferRow]
    BY <1>1, <2>3, <2>4 DEF Inv, Types
  <2>6. HasRow(s, i, transfer')
    BY <2>4, <2>5 DEF HasRow, TransferRow, None
  <2>7. RowsStay(transfer, transfer') /\ ClaimsStay(claim, claim')
    <3>1. ASSUME NEW r \in Sources, NEW k \in Ids, HasRow(r, k, transfer)
          PROVE  /\ HasRow(r, k, transfer')
                 /\ SameMove(transfer'[<<r, k>>], transfer[<<r, k>>].workspace,
                             transfer[<<r, k>>].amount, transfer[<<r, k>>].to)
      <4>1. CASE r = s /\ k = i
        BY <2>4, <2>5, <2>6, <4>1 DEF SameMove, t
      <4>2. CASE ~(r = s /\ k = i)
        <5>1. transfer'[<<r, k>>] = transfer[<<r, k>>]
          BY <2>5, <4>2
        <5> QED BY <3>1, <5>1 DEF HasRow, SameMove
      <4> QED BY <4>1, <4>2
    <3> QED BY <1>3, <3>1 DEF RowsStay, ClaimsStay
  <2>8. Drives(x, driver[x].then, transfer', claim')
    <3>1. transfer \in [Sources \X Ids -> {NoTransfer} \union TransferRow]
      BY DEF Inv, Types
    <3> QED BY <1>2, <2>7, <3>1, DrivesStays
  <2>9. DriversDrive' /\ driver' = [y \in Drivers |-> driver'[y]]
    BY <1>3, <2>7, <2>8, DriversStay
  <2>10. LateInTerms'
    BY <1>3, <2>7, LateStays
  <2>11. open' \in [Sources -> SUBSET Ids] /\ IndexHasRows(transfer)'
    <3>1. \A r \in Sources : open'[r] \subseteq open[r]
      BY <2>1 DEF Inv, Types, Unresolved
    <3>2. open' \in [Sources -> SUBSET Ids]
      BY <1>1, <2>1 DEF Inv, Types, Unresolved
    <3>3. \A r \in Sources : \A k \in open[r] : k \in Ids /\ HasRow(r, k, transfer)
      BY DEF Inv, Types, IndexHasRows
    <3> QED BY <2>7, <3>1, <3>2, <3>3 DEF IndexHasRows, RowsStay
  <2>12. balance' \in [Planes \X Workspaces -> Nat]
    <3>1. <<s, t.workspace>> \in Planes \X Workspaces
      BY <1>1, <2>2 DEF Planes, TransferRow
    <3>2. balance[<<s, t.workspace>>] + t.amount \in Nat
      BY <2>2, <3>1, AmountsAssumption DEF Inv, Types, TransferRow
    <3> QED BY <2>1, <3>1, <3>2 DEF Inv, Types
  <2>13. Types'
    BY <1>3, <2>5, <2>9, <2>11, <2>12 DEF Inv, Types
  <2>14. ClaimsHaveRows(transfer', claim')
    <3> SUFFICES ASSUME NEW d \in Destinations, NEW k \in Ids, claim[<<d, k>>] # NoClaim
                 PROVE  LET c == claim[<<d, k>>] IN
                        /\ HasRow(c.source, k, transfer')
                        /\ SameMove(transfer'[<<c.source, k>>], c.workspace, c.amount, d)
      BY <1>3 DEF ClaimsHaveRows
    <3> DEFINE c == claim[<<d, k>>]
    <3>1. c \in ClaimRow
      BY DEF Inv, Types
    <3>2. c.source \in Sources
      BY <3>1 DEF ClaimRow
    <3>3. HasRow(c.source, k, transfer) /\ SameMove(transfer[<<c.source, k>>], c.workspace, c.amount, d)
      BY DEF Inv, ClaimsHaveRows
    <3> HIDE DEF c
    <3> QED BY <2>7, <3>2, <3>3 DEF RowsStay, SameMove, c
  <2>15. Claimed(s, i, o, transfer', claim')
    <3>1. transfer \in [Sources \X Ids -> {NoTransfer} \union TransferRow]
      BY DEF Inv, Types
    <3> QED BY <1>1, <2>7, <3>1, ClaimedStays
  <2>16. RowsHaveClaims(transfer', claim')
    <3>1. ASSUME NEW r \in Sources, NEW k \in Ids, ~(r = s /\ k = i)
          PROVE  transfer'[<<r, k>>] = transfer[<<r, k>>]
      BY <2>5, <3>1
    <3>2. RowsHaveClaims(transfer, claim)
      BY DEF Inv
    <3>3. ASSUME NEW r \in Sources, NEW k \in Ids, transfer'[<<r, k>>].state = "delivered"
          PROVE  Claimed(r, k, "accepted", transfer', claim')
      <4>1. CASE r = s /\ k = i
        <5>1. o = "accepted"
          BY <1>1, <2>4, <2>5, <3>3, <4>1 DEF StateFor, Outcomes
        <5> QED BY <2>15, <4>1, <5>1
      <4>2. CASE ~(r = s /\ k = i)
        BY <1>3, <3>1, <3>2, <3>3, <4>2 DEF RowsHaveClaims, Claimed
      <4> QED BY <4>1, <4>2
    <3>4. ASSUME NEW r \in Sources, NEW k \in Ids, transfer'[<<r, k>>].state = "returned"
          PROVE  Claimed(r, k, "rejected", transfer', claim')
      <4>1. CASE r = s /\ k = i
        <5>1. o = "rejected"
          BY <1>1, <2>4, <2>5, <3>4, <4>1 DEF StateFor, Outcomes
        <5> QED BY <2>15, <4>1, <5>1
      <4>2. CASE ~(r = s /\ k = i)
        BY <1>3, <3>1, <3>2, <3>4, <4>2 DEF RowsHaveClaims, Claimed
      <4> QED BY <4>1, <4>2
    <3> QED BY <3>3, <3>4 DEF RowsHaveClaims
  <2> QED BY <2>9, <2>10, <2>11, <2>13, <2>14, <2>16 DEF Inv
<1> QED BY <1>4, <1>5

-----------------------------------------------------------------------------
LEMMA NextKeepsInv == Inv /\ [Next]_vars => Inv'
<1> SUFFICES ASSUME Inv, [Next]_vars PROVE Inv'
  OBVIOUS
<1>1. Operators \subseteq Drivers /\ Sources \subseteq Drivers
  BY DEF Drivers
<1>2. ASSUME NEW x \in Operators, Operating(x)
      PROVE  Inv'
  BY <1>1, <1>2, CancelStep, OpenStep, ReopenStep DEF Operating
<1>3. ASSUME NEW x \in Drivers, Deliver(x) \/ Record(x) \/ GiveUp(x) \/ Crash(x)
      PROVE  Inv'
  BY <1>3, DeliverStep, RecordStep, GiveUpStep, CrashStep
<1>4. ASSUME NEW s \in Sources, Recovering(s)
      PROVE  Inv'
  BY <1>1, <1>3, <1>4, StartPassStep, NextPageStep, NextTransferStep DEF Recovering
<1>5. ASSUME NEW q \in late, DeliverLate(q)
      PROVE  Inv'
  BY <1>5, DeliverLateStep
<1>6. ASSUME NEW d \in Destinations, NEW w \in Workspaces, Federate(d, w)
      PROVE  Inv'
  <2>1. federated' \in [Destinations -> SUBSET Workspaces]
    BY <1>6 DEF Federate, Inv, Types
  <2> QED BY <1>6, <2>1, OutsideStep DEF Federate, Inv, Types
<1>7. ASSUME NEW s \in Sources, NEW d \in Destinations, Reconfigure(s, d)
      PROVE  Inv'
  <2>1. peer' \in [Sources -> Destinations] /\ moves' \in 0 .. MaxMoves
    BY <1>7, FaultsAssumption DEF Reconfigure, Inv, Types
  <2> QED BY <1>7, <2>1, OutsideStep DEF Reconfigure, Inv, Types
<1>8. ASSUME UNCHANGED vars
      PROVE  Inv'
  BY <1>8, OutsideStep DEF vars, Inv, Types
<1> QED BY <1>1, <1>2, <1>3, <1>4, <1>5, <1>6, <1>7, <1>8 DEF Next, Drivers

LEMMA InvCorrect == Spec => []Inv
BY InitInv, NextKeepsInv, PTL DEF Spec

\* Credit rows and transfers keep their types; open_credit_transfer's
\* conditional debit leaves no balance below zero.
THEOREM TypeCorrect == Spec => []TypeOK
<1>1. Inv => TypeOK
  <2> SUFFICES ASSUME Inv PROVE TypeOK
    OBVIOUS
  <2>1. \A x \in Drivers : driver[x].pc \in {"idle", "walk", "ask", "record"}
    <3> SUFFICES ASSUME NEW x \in Drivers
                 PROVE  driver[x].pc \in {"idle", "walk", "ask", "record"}
      OBVIOUS
    <3>1. Drives(x, driver[x], transfer, claim)
      BY DEF Inv, DriversDrive
    <3>2. Resumes(x, driver[x], transfer) => driver[x].pc \in {"idle", "walk"}
      <4>1. Idle.pc = "idle"
        BY DEF Idle
      <4>2. Walking(driver[x].cursor, driver[x].scanned, driver[x].page, driver[x].to).pc = "walk"
        BY DEF Walking
      <4> QED BY <4>1, <4>2 DEF Resumes
    <3> QED BY <3>1, <3>2 DEF Drives
  <2>2. late \subseteq Request
    BY DEF Inv, LateInTerms, InTerms
  <2> QED BY <2>1, <2>2 DEF Inv, Types, TypeOK, Drivers, TransferRow, ClaimRow
<1> QED BY <1>1, InvCorrect, PTL

-----------------------------------------------------------------------------
(* The refinement.  A transfer's parcel, from the rows alone.                *)

ParcelOf(s, i, tr, cl) ==
  IF ~HasRow(s, i, tr) THEN [place |-> None]
  ELSE [place |-> IF Claimed(s, i, "accepted", tr, cl) THEN "there"
                  ELSE IF tr[<<s, i>>].state = "returned" THEN "back" ELSE "escrow",
        from |-> s, to |-> tr[<<s, i>>].to,
        workspace |-> tr[<<s, i>>].workspace, amount |-> tr[<<s, i>>].amount]

\* No parcel is nowhere: a source records an acceptance only where there is one.
LEMMA ParcelIs ==
  Inv => \A s \in Sources, i \in Ids : Parcel(s, i) = ParcelOf(s, i, transfer, claim)
<1> SUFFICES ASSUME Inv, NEW s \in Sources, NEW i \in Ids
             PROVE  Parcel(s, i) = ParcelOf(s, i, transfer, claim)
  OBVIOUS
<1>1. Accepted(s, i) <=> Claimed(s, i, "accepted", transfer, claim)
  BY DEF Accepted, Claimed
<1>2. CASE ~HasRow(s, i, transfer)
  BY <1>2 DEF Parcel, ParcelOf, HasRow
<1>3. CASE HasRow(s, i, transfer)
  <2> DEFINE t == transfer[<<s, i>>]
  <2>1. t.state \in {"escrowed", "delivered", "returned"} /\ t.state # None
    BY <1>3, RowIsTyped DEF TransferRow, HasRow
  <2>2. t.state = "delivered" => Accepted(s, i)
    BY <1>1 DEF Inv, RowsHaveClaims
  <2>3. CASE Accepted(s, i)
    BY <1>1, <1>3, <2>1, <2>3 DEF Parcel, ParcelOf
  <2>4. CASE ~Accepted(s, i) /\ t.state = "returned"
    BY <1>1, <1>3, <2>1, <2>4 DEF Parcel, ParcelOf
  <2>5. CASE ~Accepted(s, i) /\ t.state = "escrowed"
    BY <1>1, <1>3, <2>1, <2>5 DEF Parcel, ParcelOf
  <2> QED BY <2>1, <2>2, <2>3, <2>4, <2>5
<1> QED BY <1>2, <1>3

Parcels == [si \in Sources \X Ids |-> Parcel(si[1], si[2])]
Mapped(tr, cl) == [si \in Sources \X Ids |-> ParcelOf(si[1], si[2], tr, cl)]

LEMMA ParcelsAre == Inv => Parcels = Mapped(transfer, claim)
BY ParcelIs DEF Parcels, Mapped

LEMMA ParcelsAreNext == Inv' => Parcels' = Mapped(transfer', claim')
<1>1. (Inv => Parcels = Mapped(transfer, claim))'
  BY ParcelsAre, PTL
<1> QED BY <1>1

\* Steps of the stores that are no step of the purse.
LEMMA PurseKeeps ==
  ASSUME Inv, Inv', balance' = balance,
         \A s \in Sources, i \in Ids :
           ParcelOf(s, i, transfer', claim') = ParcelOf(s, i, transfer, claim)
  PROVE  UNCHANGED Purse!vars
<1>1. Mapped(transfer', claim') = Mapped(transfer, claim)
  BY DEF Mapped
<1>2. Parcels' = Parcels
  BY <1>1, ParcelsAre, ParcelsAreNext
<1> QED BY <1>2 DEF Purse!vars, Parcels

\* A step that changes one parcel.
LEMMA ParcelChanges ==
  ASSUME Inv, Inv', NEW s \in Sources, NEW i \in Ids,
         \A r \in Sources, k \in Ids : <<r, k>> # <<s, i>> =>
           ParcelOf(r, k, transfer', claim') = ParcelOf(r, k, transfer, claim)
  PROVE  /\ Parcels[<<s, i>>] = ParcelOf(s, i, transfer, claim)
         /\ Parcels' = [Parcels EXCEPT ![<<s, i>>] = ParcelOf(s, i, transfer', claim')]
<1>1. Parcels = Mapped(transfer, claim) /\ Parcels' = Mapped(transfer', claim')
  BY ParcelsAre, ParcelsAreNext
<1>2. Mapped(transfer, claim)[<<s, i>>] = ParcelOf(s, i, transfer, claim)
  BY DEF Mapped
<1>3. Mapped(transfer', claim')
        = [Mapped(transfer, claim) EXCEPT ![<<s, i>>] = ParcelOf(s, i, transfer', claim')]
  <2> DEFINE P == Mapped(transfer, claim)
             Q == Mapped(transfer', claim')
             R == [P EXCEPT ![<<s, i>>] = ParcelOf(s, i, transfer', claim')]
  <2>1. DOMAIN P = Sources \X Ids /\ DOMAIN Q = Sources \X Ids
    BY DEF Mapped
  <2>2. ASSUME NEW si \in Sources \X Ids
        PROVE  Q[si] = R[si]
    <3>1. PICK r \in Sources, k \in Ids : si = <<r, k>>
      OBVIOUS
    <3>2. P[si] = ParcelOf(r, k, transfer, claim) /\ Q[si] = ParcelOf(r, k, transfer', claim')
      BY <3>1 DEF Mapped
    <3> HIDE DEF P, Q
    <3>3. CASE si = <<s, i>>
      BY <2>1, <3>1, <3>2, <3>3
    <3>4. CASE si # <<s, i>>
      BY <2>1, <3>1, <3>2, <3>4
    <3> QED BY <3>3, <3>4
  <2> QED BY <2>1, <2>2 DEF Mapped
<1> QED BY <1>1, <1>2, <1>3

\* open_credit_transfer parks the value: no claim of this id and source can be
\* there before the row is.
LEMMA OpenParks ==
  ASSUME Inv, Inv', NEW x \in Drivers, NEW s \in Sources, NEW i \in Ids,
         NEW w \in Workspaces, NEW n \in Amounts, Open(x, s, i, w, n)
  PROVE  Purse!Next
<1> DEFINE row == [state |-> "escrowed", workspace |-> w, amount |-> n, to |-> peer[s]]
           parked == [place |-> "escrow", from |-> s, to |-> peer[s],
                      workspace |-> w, amount |-> n]
<1>1. /\ transfer' = [transfer EXCEPT ![<<s, i>>] = row]
      /\ claim' = claim /\ ~HasRow(s, i, transfer)
  BY DEF Open, HasRow
<1>2. /\ row.state = "escrowed" /\ row.workspace = w /\ row.amount = n
      /\ row.to = peer[s] /\ peer[s] \in Destinations
  BY DEF Inv, Types
<1> HIDE DEF row
<1>3. /\ transfer'[<<s, i>>] = row
      /\ \A r \in Sources, k \in Ids :
           <<r, k>> # <<s, i>> => transfer'[<<r, k>>] = transfer[<<r, k>>]
  BY <1>1 DEF Inv, Types
<1>4. \A r \in Sources, k \in Ids : <<r, k>> # <<s, i>> =>
        ParcelOf(r, k, transfer', claim') = ParcelOf(r, k, transfer, claim)
  BY <1>1, <1>3 DEF ParcelOf, HasRow, Claimed
<1>5. ~Claimed(s, i, "accepted", transfer', claim')
  <2>1. claim[<<peer[s], i>>] # NoClaim => claim[<<peer[s], i>>].source # s
    BY <1>1, <1>2 DEF Inv, ClaimsHaveRows
  <2> QED BY <1>1, <1>2, <1>3, <2>1 DEF Claimed
<1>6. ParcelOf(s, i, transfer', claim') = parked
  BY <1>2, <1>3, <1>5 DEF ParcelOf, HasRow, None
<1>7. ParcelOf(s, i, transfer, claim) = [place |-> None]
  BY <1>1 DEF ParcelOf
<1>8. [place |-> None].place = None
  OBVIOUS
<1> HIDE DEF parked
<1>9. Parcels[<<s, i>>].place = None /\ Parcels' = [Parcels EXCEPT ![<<s, i>>] = parked]
  BY <1>4, <1>6, <1>7, <1>8, ParcelChanges
<1>10. balance[<<s, w>>] >= n /\ balance' = [balance EXCEPT ![<<s, w>>] = @ - n]
  BY DEF Open, Affords
<1>11. Purse!Park(<<s, i>>, s, w, n, peer[s])
  BY <1>9, <1>10 DEF Purse!Park, Parcels, parked
<1>12. s \in Planes /\ peer[s] \in Planes
  BY <1>2 DEF Planes
<1> QED BY <1>11, <1>12 DEF Purse!Next

\* A claim written as accepted moves its parcel there; one written as rejected,
\* or not written, moves none.  Another source's transfer of the same id is not
\* taken for this one.
LEMMA ServingMoves ==
  ASSUME Inv, Inv', NEW q, InTerms(q, transfer), WriteClaim(q), transfer' = transfer
  PROVE  Purse!Next \/ UNCHANGED Purse!vars
<1> DEFINE c == [outcome |-> q.asks, workspace |-> q.workspace,
                 amount |-> q.amount, source |-> q.source]
           t == transfer[<<q.source, q.id>>]
           before == ParcelOf(q.source, q.id, transfer, claim)
           after == ParcelOf(q.source, q.id, transfer', claim')
<1>1. /\ q.to \in Destinations /\ q.id \in Ids /\ q.workspace \in Workspaces
      /\ q.amount \in Amounts /\ q.source \in Sources /\ q.asks \in Outcomes
      /\ HasRow(q.source, q.id, transfer)
      /\ t.to = q.to /\ t.workspace = q.workspace /\ t.amount = q.amount
  BY DEF InTerms, Request, SameMove
<1>2. CASE UNCHANGED <<balance, claim>>
  BY <1>2, PurseKeeps
<1>3. CASE ~UNCHANGED <<balance, claim>>
  <2>1. /\ claim[<<q.to, q.id>>] = NoClaim
        /\ claim' = [claim EXCEPT ![<<q.to, q.id>>] = c]
        /\ balance' = IF q.asks = "rejected" THEN balance ELSE
             [balance EXCEPT ![<<q.to, q.workspace>>] = @ + q.amount]
    BY <1>3 DEF WriteClaim
  <2>2. c.source = q.source /\ c.outcome = q.asks /\ c # NoClaim
    <3>1. NoClaim.outcome = "none"
      BY DEF NoClaim, None
    <3>2. c.outcome = q.asks /\ c.source = q.source
      OBVIOUS
    <3> HIDE DEF c
    <3> QED BY <1>1, <3>1, <3>2 DEF Outcomes
  <2> HIDE DEF c
  <2>3. /\ claim'[<<q.to, q.id>>] = c
        /\ \A d \in Destinations, i \in Ids :
             <<d, i>> # <<q.to, q.id>> => claim'[<<d, i>>] = claim[<<d, i>>]
    BY <1>1, <2>1 DEF Inv, Types
  <2>4. ASSUME NEW r \in Sources, NEW k \in Ids, <<r, k>> # <<q.source, q.id>>
        PROVE  ParcelOf(r, k, transfer', claim') = ParcelOf(r, k, transfer, claim)
    <3>1. CASE ~HasRow(r, k, transfer)
      BY <3>1 DEF ParcelOf
    <3>2. CASE HasRow(r, k, transfer)
      <4>1. transfer[<<r, k>>].to \in Destinations
        BY <3>2, RowIsTyped DEF TransferRow
      <4>2. Claimed(r, k, "accepted", transfer, claim') <=> Claimed(r, k, "accepted", transfer, claim)
        <5>1. CASE transfer[<<r, k>>].to = q.to /\ k = q.id
          BY <2>1, <2>2, <2>3, <2>4, <5>1 DEF Claimed
        <5>2. CASE ~(transfer[<<r, k>>].to = q.to /\ k = q.id)
          BY <2>3, <4>1, <5>2 DEF Claimed
        <5> QED BY <5>1, <5>2
      <4> QED BY <4>2 DEF ParcelOf
    <3> QED BY <3>1, <3>2
  <2>5. ~Claimed(q.source, q.id, "accepted", transfer, claim)
    BY <1>1, <2>1 DEF Claimed
  <2>6. Claimed(q.source, q.id, "accepted", transfer, claim') <=> q.asks = "accepted"
    BY <1>1, <2>2, <2>3 DEF Claimed
  <2>7. t.state = "escrowed"
    <3>1. t.state \in {"escrowed", "delivered", "returned"}
      BY <1>1, RowIsTyped DEF TransferRow
    <3>2. claim[<<t.to, q.id>>] = NoClaim
      BY <1>1, <2>1
    <3>3. t.state # "delivered"
      BY <1>1, <3>2 DEF Inv, RowsHaveClaims, Claimed
    <3>4. t.state # "returned"
      BY <1>1, <3>2 DEF Inv, RowsHaveClaims, Claimed
    <3> QED BY <3>1, <3>3, <3>4
  <2>8. CASE q.asks = "rejected"
    <3>1. after = before
      BY <2>5, <2>6, <2>8 DEF ParcelOf
    <3>2. \A r \in Sources, k \in Ids :
            ParcelOf(r, k, transfer', claim') = ParcelOf(r, k, transfer, claim)
      <4> HIDE DEF t
      <4> QED BY <2>4, <3>1
    <3>3. balance' = balance
      BY <2>1, <2>8
    <3> QED BY <3>2, <3>3, PurseKeeps
  <2>9. CASE q.asks = "accepted"
    <3>1. /\ before = [place |-> "escrow", from |-> q.source, to |-> q.to,
                       workspace |-> q.workspace, amount |-> q.amount]
          /\ after = [place |-> "there", from |-> q.source, to |-> q.to,
                      workspace |-> q.workspace, amount |-> q.amount]
      BY <1>1, <2>5, <2>6, <2>7, <2>9 DEF ParcelOf
    <3>2. /\ after = [before EXCEPT !.place = "there"]
          /\ before.place = "escrow" /\ before.to = q.to
          /\ before.workspace = q.workspace /\ before.amount = q.amount
      <4> HIDE DEF before, after
      <4> QED BY <3>1
    <3>3. /\ Parcels[<<q.source, q.id>>] = before
          /\ Parcels' = [Parcels EXCEPT ![<<q.source, q.id>>] = after]
      BY <1>1, <2>4, ParcelChanges
    <3> HIDE DEF before, after
    <3>4. Parcels' = [Parcels EXCEPT ![<<q.source, q.id>>].place = "there"]
      BY <3>2, <3>3
    <3>5. balance' = [balance EXCEPT ![<<q.to, q.workspace>>] = @ + q.amount]
      BY <2>1, <2>9
    <3>6. /\ Purse!Parked(<<q.source, q.id>>)
          /\ Purse!Release(<<q.source, q.id>>, Parcels[<<q.source, q.id>>].to, "there")
      BY <3>2, <3>3, <3>4, <3>5 DEF Purse!Parked, Purse!Release, Parcels
    <3> QED BY <1>1, <3>6 DEF Purse!Next, Parcels
  <2> QED BY <1>1, <2>8, <2>9 DEF Outcomes
<1> QED BY <1>2, <1>3

\* resolve_credit_transfer moves a parcel back once its rejection is recorded,
\* and none when it records an acceptance: that parcel is there already.
LEMMA RecordMoves ==
  ASSUME Inv, Inv', NEW x \in Drivers, Record(x)
  PROVE  Purse!Next \/ UNCHANGED Purse!vars
<1> DEFINE s == driver[x].source
           i == driver[x].id
           o == driver[x].outcome
           t == transfer[<<s, i>>]
           before == ParcelOf(s, i, transfer, claim)
           after == ParcelOf(s, i, transfer', claim')
<1>1. /\ s \in Sources /\ i \in Ids /\ o \in Outcomes /\ HasRow(s, i, transfer)
      /\ Claimed(s, i, o, transfer, claim) /\ claim' = claim
  BY HearerInHand DEF Record
<1>2. CASE t.state # "escrowed"
  <2>1. balance' = balance /\ transfer' = transfer
    BY <1>2 DEF Record
  <2> QED BY <1>1, <2>1, PurseKeeps
<1>3. CASE t.state = "escrowed"
  <2> DEFINE t2 == [t EXCEPT !.state = StateFor(o)]
  <2>1. /\ transfer' = [transfer EXCEPT ![<<s, i>>].state = StateFor(o)]
        /\ balance' = IF o = "accepted" THEN balance ELSE
             [balance EXCEPT ![<<s, t.workspace>>] = @ + t.amount]
    BY <1>3 DEF Record
  <2>2. t \in TransferRow
    BY <1>1, RowIsTyped
  <2> HIDE DEF s, i, o
  <2>3. transfer' = [transfer EXCEPT ![<<s, i>>] = t2]
    BY <2>1 DEF Inv, Types
  <2>4. /\ t2 \in TransferRow /\ t2.state = StateFor(o)
        /\ t2.workspace = t.workspace /\ t2.amount = t.amount /\ t2.to = t.to
    BY <2>2 DEF TransferRow, StateFor
  <2> HIDE DEF t2
  <2>5. /\ transfer'[<<s, i>>] = t2
        /\ \A r \in Sources, k \in Ids :
             <<r, k>> # <<s, i>> => transfer'[<<r, k>>] = transfer[<<r, k>>]
    BY <1>1, <2>3 DEF Inv, Types
  <2>6. \A r \in Sources, k \in Ids : <<r, k>> # <<s, i>> =>
          ParcelOf(r, k, transfer', claim') = ParcelOf(r, k, transfer, claim)
    BY <1>1, <2>5 DEF ParcelOf, HasRow, Claimed
  <2>7. HasRow(s, i, transfer')
    BY <2>4, <2>5 DEF HasRow, TransferRow, None
  <2>8. \A outcome : Claimed(s, i, outcome, transfer', claim') <=> Claimed(s, i, outcome, transfer, claim)
    BY <1>1, <2>4, <2>5 DEF Claimed
  <2>9. CASE o = "accepted"
    <3>1. Claimed(s, i, "accepted", transfer, claim) /\ Claimed(s, i, "accepted", transfer', claim')
      BY <1>1, <2>8, <2>9
    <3>2. after = before
      BY <1>1, <2>4, <2>5, <2>7, <3>1 DEF ParcelOf
    <3>3. \A r \in Sources, k \in Ids :
            ParcelOf(r, k, transfer', claim') = ParcelOf(r, k, transfer, claim)
      <4> HIDE DEF t
      <4> QED BY <2>6, <3>2
    <3>4. balance' = balance
      BY <2>1, <2>9
    <3> QED BY <3>3, <3>4, PurseKeeps
  <2>10. CASE o = "rejected"
    <3>1. ~Claimed(s, i, "accepted", transfer, claim) /\ ~Claimed(s, i, "accepted", transfer', claim')
      <4>1. ~Claimed(s, i, "accepted", transfer, claim)
        BY <1>1, <2>10 DEF Claimed
      <4> QED BY <2>8, <4>1
    <3>2. t2.state = "returned"
      BY <2>4, <2>10 DEF StateFor
    <3>3. /\ before = [place |-> "escrow", from |-> s, to |-> t.to,
                       workspace |-> t.workspace, amount |-> t.amount]
          /\ after = [place |-> "back", from |-> s, to |-> t.to,
                      workspace |-> t.workspace, amount |-> t.amount]
      BY <1>1, <1>3, <2>4, <2>5, <2>7, <3>1, <3>2 DEF ParcelOf
    <3>4. /\ after = [before EXCEPT !.place = "back"]
          /\ before.place = "escrow" /\ before.from = s
          /\ before.workspace = t.workspace /\ before.amount = t.amount
      <4> HIDE DEF before, after, t
      <4> QED BY <3>3
    <3>5. /\ Parcels[<<s, i>>] = before
          /\ Parcels' = [Parcels EXCEPT ![<<s, i>>] = after]
      BY <1>1, <2>6, ParcelChanges
    <3> HIDE DEF before, after, t
    <3>6. Parcels' = [Parcels EXCEPT ![<<s, i>>].place = "back"]
      BY <3>4, <3>5
    <3>7. balance' = [balance EXCEPT ![<<s, t.workspace>>] = @ + t.amount]
      BY <2>1, <2>10
    <3>8. /\ Purse!Parked(<<s, i>>)
          /\ Purse!Release(<<s, i>>, Parcels[<<s, i>>].from, "back")
      BY <3>4, <3>5, <3>6, <3>7 DEF Purse!Parked, Purse!Release, Parcels
    <3> QED BY <1>1, <3>8 DEF Purse!Next, Parcels
  <2> QED BY <1>1, <2>9, <2>10 DEF Outcomes
<1> QED BY <1>2, <1>3

\* Every step of the planes is a step of the purse, or none.
LEMMA NextRefines == Inv /\ Inv' /\ [Next]_vars => [Purse!Next]_Purse!vars
<1> SUFFICES ASSUME Inv, Inv', [Next]_vars PROVE Purse!Next \/ UNCHANGED Purse!vars
  BY DEF Purse!Next, Purse!vars
<1>1. Operators \subseteq Drivers /\ Sources \subseteq Drivers
  BY DEF Drivers
<1>2. ASSUME UNCHANGED books
      PROVE  UNCHANGED Purse!vars
  BY <1>2, PurseKeeps DEF books
<1>3. ASSUME NEW x \in Operators, Operating(x)
      PROVE  Purse!Next \/ UNCHANGED Purse!vars
  BY <1>1, <1>2, <1>3, OpenParks DEF Operating, Cancel, Reopen
<1>4. ASSUME NEW x \in Drivers, Deliver(x)
      PROVE  Purse!Next \/ UNCHANGED Purse!vars
  <2>1. InTerms(driver[x].q, transfer) /\ WriteClaim(driver[x].q) /\ transfer' = transfer
    BY <1>4, AskerInHand DEF Deliver
  <2> QED BY <2>1, ServingMoves
<1>5. ASSUME NEW q \in late, DeliverLate(q)
      PROVE  Purse!Next \/ UNCHANGED Purse!vars
  <2>1. InTerms(q, transfer) /\ WriteClaim(q) /\ transfer' = transfer
    BY <1>5 DEF DeliverLate, Inv, LateInTerms
  <2> QED BY <2>1, ServingMoves
<1>6. ASSUME NEW x \in Drivers, Record(x)
      PROVE  Purse!Next \/ UNCHANGED Purse!vars
  BY <1>6, RecordMoves
<1>7. ASSUME NEW s \in Sources, Recovering(s)
      PROVE  Purse!Next \/ UNCHANGED Purse!vars
  BY <1>1, <1>2, <1>4, <1>6, <1>7 DEF Recovering, StartPass, NextPage, NextTransfer
<1>8. ASSUME NEW x \in Drivers, GiveUp(x) \/ Crash(x)
      PROVE  Purse!Next \/ UNCHANGED Purse!vars
  BY <1>2, <1>8 DEF GiveUp, Crash
<1>9. ASSUME NEW d \in Destinations, NEW w \in Workspaces, Federate(d, w)
      PROVE  Purse!Next \/ UNCHANGED Purse!vars
  BY <1>2, <1>9 DEF Federate
<1>10. ASSUME NEW s \in Sources, NEW d \in Destinations, Reconfigure(s, d)
       PROVE  Purse!Next \/ UNCHANGED Purse!vars
  BY <1>2, <1>10 DEF Reconfigure
<1>11. ASSUME UNCHANGED vars
       PROVE  Purse!Next \/ UNCHANGED Purse!vars
  BY <1>2, <1>11 DEF vars
<1> QED
  BY <1>1, <1>3, <1>4, <1>5, <1>6, <1>7, <1>8, <1>9, <1>10, <1>11 DEF Next, Drivers

\* Every microdollar is in one place and moves once per transfer: the stores
\* of push, cancel and recovery implement the abstract purse, whatever is
\* retried, lost, late or crashes.
THEOREM PlanesMoveValueOnce == Spec => ValueMovesOnce
<1>1. Init => Parcels = [t \in Sources \X Ids |-> [place |-> None]]
  <2> SUFFICES ASSUME Init PROVE Parcels = [t \in Sources \X Ids |-> [place |-> None]]
    OBVIOUS
  <2>1. \A s \in Sources, i \in Ids : transfer[<<s, i>>].state = None
    <3>1. NoTransfer.state = None
      BY DEF NoTransfer
    <3>2. \A s \in Sources, i \in Ids : transfer[<<s, i>>] = NoTransfer
      BY DEF Init
    <3> QED BY <3>1, <3>2
  <2>2. \A s \in Sources, i \in Ids : Parcel(s, i) = [place |-> None]
    BY <2>1 DEF Parcel
  <2> QED BY <2>2 DEF Parcels
<1>2. Init => [si \in Sources \X Ids |-> Parcel(si[1], si[2])]
                = [t \in Sources \X Ids |-> [place |-> None]]
  BY <1>1 DEF Parcels
<1> QED BY <1>2, InvCorrect, NextRefines, PTL DEF Spec, ValueMovesOnce, Purse!Spec

=============================================================================

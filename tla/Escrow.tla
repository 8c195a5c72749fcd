------------------------------- MODULE Escrow -------------------------------
(***************************************************************************)
(* What a move of credit between planes promises: a microdollar is in one   *)
(* place.  It is spendable on one plane, or parked in one escrow of it; it  *)
(* is parked once for a transfer, and leaves its escrow once, either for    *)
(* the destination it was parked for or for the plane it came from.         *)
(***************************************************************************)
EXTENDS Integers

CONSTANTS Planes, Workspaces, Transfers, Amounts, None

VARIABLES
  spendable,       \* by plane and workspace
  parcel           \* a transfer: None, parked in its terms, or gone

vars == <<spendable, parcel>>

Parked(t) == parcel[t].place = "escrow"

Park(t, from, w, n, to) ==
  /\ parcel[t].place = None
  /\ spendable[<<from, w>>] >= n
  /\ spendable' = [spendable EXCEPT ![<<from, w>>] = @ - n]
  /\ parcel' = [parcel EXCEPT ![t] =
       [place |-> "escrow", from |-> from, to |-> to, workspace |-> w, amount |-> n]]

\* The parcel is spendable at p, and parked no more.
Release(t, p, place) ==
  /\ Parked(t)
  /\ spendable' = [spendable EXCEPT ![<<p, parcel[t].workspace>>] = @ + parcel[t].amount]
  /\ parcel' = [parcel EXCEPT ![t].place = place]

Next ==
  \E t \in Transfers :
    \/ \E from, to \in Planes, w \in Workspaces, n \in Amounts : Park(t, from, w, n, to)
    \/ Parked(t) /\ Release(t, parcel[t].to, "there")
    \/ Parked(t) /\ Release(t, parcel[t].from, "back")

Spec == parcel = [t \in Transfers |-> [place |-> None]] /\ [][Next]_vars

=============================================================================

----------------------------- MODULE ChargeOnce -----------------------------
(***************************************************************************)
(* What settlement promises of an authorization, whoever settles it.        *)
(*                                                                          *)
(* A hold is taken once and decided once: by a charge that was asked for,   *)
(* or free.  It is decided free only if a refund was asked for, or if it    *)
(* lapsed while no intent to settle it was outstanding or only ones a       *)
(* person has waived.  The books move with the decision, in one step.       *)
(* An intent recorded for an undecided hold stays outstanding until the     *)
(* hold is decided, unless a person waives it.                              *)
(***************************************************************************)
EXTENDS Integers

CONSTANTS
  Auths,
  Amounts          \* what may be held or asked for

VARIABLES
  account,         \* each authorization's hold and its decision
  asked,           \* the charges asked for, of each authorization
  refunds,         \* the authorizations a refund was asked for
  promise,         \* whether an intent is outstanding for each authorization
  spent, reserved  \* the workspace's books

vars == <<account, asked, refunds, promise, spent, reserved>>

NoAccount == [state |-> "none", hold |-> 0, charge |-> 0]

Init ==
  /\ account = [a \in Auths |-> NoAccount]
  /\ asked = [a \in Auths |-> {}]
  /\ refunds = {}
  /\ promise = [a \in Auths |-> "none"]
  /\ spent = 0 /\ reserved = 0

Hold(a, h) ==
  /\ account[a].state = "none"
  /\ account' = [account EXCEPT ![a] = [state |-> "held", hold |-> h, charge |-> 0]]
  /\ reserved' = reserved + h
  /\ UNCHANGED <<asked, refunds, promise, spent>>

\* A charge is asked for, with the ones it overtakes.
Ask(a, xs) ==
  /\ account[a].state # "none"
  /\ asked' = [asked EXCEPT ![a] = @ \union xs]
  /\ UNCHANGED <<account, refunds, promise, spent, reserved>>

AskRefund(a) ==
  /\ account[a].state # "none"
  /\ refunds' = refunds \union {a}
  /\ UNCHANGED <<account, asked, promise, spent, reserved>>

\* An outstanding intent ends while its hold is undecided only by freezing,
\* and a frozen one only by a person's waiver.
MayBecome(p, decided) ==
  CASE p = "open" -> {"frozen"} \union (IF decided THEN {"none", "waived"} ELSE {})
    [] p = "frozen" -> {"open", "waived"} \union (IF decided THEN {"none"} ELSE {})
    [] OTHER -> {"open"}

Move(a) ==
  /\ account[a].state # "none"
  /\ \E p \in MayBecome(promise[a], account[a].state = "decided") :
       promise' = [promise EXCEPT ![a] = p]
  /\ UNCHANGED <<account, asked, refunds, spent, reserved>>

\* The decision, which may resolve the intent it came from.
Decide(a, x) ==
  /\ account[a].state = "held"
  /\ \/ x \in asked[a]
     \/ x = 0 /\ (a \in refunds \/ promise[a] \in {"none", "waived"})
  /\ account' = [account EXCEPT ![a] =
       [state |-> "decided", hold |-> @.hold, charge |-> x]]
  /\ spent' = spent + x
  /\ reserved' = reserved - account[a].hold
  /\ \E p \in {promise[a]} \union MayBecome(promise[a], TRUE) :
       promise' = [promise EXCEPT ![a] = p]
  /\ UNCHANGED <<asked, refunds>>

\* The records of a decided hold are deleted; the decision stands.
Next ==
  \E a \in Auths :
    \/ AskRefund(a) \/ Move(a)
    \/ \E x \in Amounts : Hold(a, x) \/ Decide(a, x)
    \/ \E xs \in SUBSET Amounts : Ask(a, xs)

Spec == Init /\ [][Next]_vars

=============================================================================

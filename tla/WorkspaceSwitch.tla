--------------------------- MODULE WorkspaceSwitch ---------------------------
(***************************************************************************)
(* The switch that lets workspaces onto the fast path, and who moves it:   *)
(* operators and watches by fastpathctl, the enabler's runs, and, before   *)
(* the arm or under a pause, tools of an older release that know no holds. *)
(* A run reads one snapshot and then writes row by row.  Each write is one *)
(* transaction on the tables tr_fastpath_workspace, _workspace_hold and    *)
(* _kill.  A workspace without a row in the first is as one that is off    *)
(* and was released after the arm.                                         *)
(***************************************************************************)
EXTENDS Integers, FiniteSets

CONSTANTS
    Workspaces,
    Usage,       \* lifetime usage, as a place in its order: 1 is the largest
    MaxRank,     \* fastpath_enabler_max_rank
    Margin,      \* how far past it an enabled workspace may rank
    Cap,         \* the guard's and the pace's limit on a run's disables
    MaxEnables,  \* how many a run may enable
    Facts,       \* what may become of a workspace, of AllFacts
    MaxDeaths    \* bound on runs that die midway

AllFacts == {"good", "mid", "low", "latched", "deleted"}

ASSUME SwitchAssumption ==
    /\ IsFiniteSet(Workspaces)
    /\ Usage \in [Workspaces -> Nat]
    /\ \A v, w \in Workspaces : Usage[v] = Usage[w] => v = w
    /\ {MaxRank, Margin, Cap, MaxEnables, MaxDeaths} \subseteq Nat
    /\ Facts \subseteq AllFacts

VARIABLES
    on,       \* tr_fastpath_workspace: enabled
    since,    \* its changed_at is not before the pause that stands
    stamped,  \* its changed_at is a row of tr_fastpath_kill
    hold,     \* a workspace's own hold, by its reason
    fleet, paused, armed,   \* the hold table's rows '*', '#pause' and '#armed'
    lease,    \* a workspace's newest lease
    fact,     \* what the credit rows and the entity say of a workspace
    run,      \* the enabler's run: what it has still to write
    deaths,
    intent    \* history: what an operator last wanted of a workspace; early is
              \* on, by an older enable before the arm and outside a pause

tables == <<on, since, stamped, hold, fleet, paused, armed>>
switchVars == <<tables, lease, fact, run, deaths, intent>>

Reasons == {"operator", "backfill", "paused"}
Intents == {"free", "early", "stopped", "killed"}
Held(w) == hold[w] # "none"
NoRun == [going |-> FALSE, disables |-> {}, enables |-> {}]
Unheld == {w \in Workspaces : ~on[w] /\ ~Held(w)}

----------------------------------------------------------------------------
(* The switch's writes.                                                    *)

TurnOn(S) ==
    /\ on' = [w \in Workspaces |-> on[w] \/ w \in S]
    /\ since' = [w \in Workspaces |-> since[w] \/ w \in S]
    /\ stamped' = [w \in Workspaces |-> stamped[w] /\ w \notin S]

\* Mutant: the leases are left to run out.
RevokedLater(S) == UNCHANGED lease

Revoked(S) ==
    lease' = [w \in Workspaces |-> IF w \in S /\ lease[w] = "open" THEN "revoked" ELSE lease[w]]

\* Off, stamped with the commit's time: kill says that the time is a row of
\* tr_fastpath_kill.
TurnOff(S, kill) ==
    /\ on' = [w \in Workspaces |-> on[w] /\ w \notin S]
    /\ since' = [w \in Workspaces |-> since[w] \/ w \in S]
    /\ stamped' = [w \in Workspaces |-> IF w \in S THEN kill ELSE stamped[w]]

Wants(S, what) == intent' = [w \in Workspaces |-> IF w \in S THEN what ELSE intent[w]]
KeepsRows == UNCHANGED <<fleet, paused, armed>>
KeepsSwitch == UNCHANGED <<on, since, stamped, lease>>
KeepsEnabler == UNCHANGED <<fact, run, deaths>>

----------------------------------------------------------------------------
(* Operators and watches.                                                  *)

Enable(w) ==
    /\ TurnOn({w})
    /\ hold' = [hold EXCEPT ![w] = "none"]
    /\ Wants({w}, "free")
    /\ KeepsRows /\ UNCHANGED lease /\ KeepsEnabler

Disable(w) ==
    /\ TurnOff({w}, FALSE) /\ Revoked({w})
    /\ hold' = [hold EXCEPT ![w] = "operator"]
    /\ Wants({w}, "stopped")
    /\ KeepsRows /\ KeepsEnabler

\* Only rows still on are turned off, and keep the kill's time.
DisableAll ==
    LET off == {w \in Workspaces : on[w]}
    IN  /\ TurnOff(off, TRUE) /\ Revoked(Workspaces)
        /\ fleet' = TRUE
        /\ Wants(off, "killed")
        /\ UNCHANGED <<hold, paused, armed>> /\ KeepsEnabler

Release(w) ==
    /\ ~paused
    /\ Held(w)
    /\ hold' = [hold EXCEPT ![w] = "none"]
    /\ Wants({v \in {w} : intent[v] = "stopped"}, "free")
    /\ KeepsRows /\ KeepsSwitch /\ KeepsEnabler

ReleaseAll ==
    /\ ~paused
    /\ fleet' = FALSE
    /\ stamped' = [w \in Workspaces |-> FALSE]
    /\ Wants({w \in Workspaces : intent[w] = "killed"}, "free")
    /\ UNCHANGED <<on, since, hold, paused, armed, lease>> /\ KeepsEnabler

\* One stamp's holds of reason paused; rows of one disable-all share theirs, so
\* any of them may be meant.
ReleaseStamped ==
    /\ ~paused
    /\ \E S \in SUBSET {w \in Workspaces : hold[w] = "paused"} :
          /\ hold' = [w \in Workspaces |-> IF w \in S THEN "none" ELSE hold[w]]
          /\ Wants({w \in S : intent[w] = "stopped"}, "free")
    /\ KeepsRows /\ KeepsSwitch /\ KeepsEnabler

\* Pausing again keeps the first pause.
Pause ==
    /\ ~paused
    /\ paused' = TRUE
    /\ since' = [w \in Workspaces |-> FALSE]
    /\ UNCHANGED <<on, stamped, hold, fleet, armed, lease, intent>> /\ KeepsEnabler

\* The rows turned off since the pause by something that wrote no hold.
Backfill == {w \in Unheld : since[w] /\ ~stamped[w]}

\* The reason of the holds a resume writes, and the stamped release looks for.
HoldReason == "paused"

\* No row is on with a hold of its own.
Resolved == \A w \in Workspaces : ~(on[w] /\ Held(w))

Resume ==
    /\ paused
    /\ Resolved
    /\ paused' = FALSE
    /\ hold' = [w \in Workspaces |-> IF w \in Backfill THEN HoldReason ELSE hold[w]]
    /\ UNCHANGED <<fleet, armed, intent>> /\ KeepsSwitch /\ KeepsEnabler

Arm ==
    /\ ~armed
    /\ Unheld = {}
    /\ armed' = TRUE
    /\ UNCHANGED <<hold, fleet, paused, intent>> /\ KeepsSwitch /\ KeepsEnabler

HoldBackfill ==
    /\ ~armed
    /\ hold' = [w \in Workspaces |-> IF w \in Unheld THEN "backfill" ELSE hold[w]]
    /\ UNCHANGED intent /\ KeepsRows /\ KeepsSwitch /\ KeepsEnabler

----------------------------------------------------------------------------
(* Tools of an older release: no holds, no kill rows.  They are used before *)
(* the arm, and after it only in a rollback, under a pause.                *)

Rollback == paused \/ ~armed

OlderDisable(S, leases) ==
    /\ Rollback
    /\ TurnOff(S, FALSE) /\ Revoked(leases)
    /\ Wants(S, "stopped")
    /\ UNCHANGED hold /\ KeepsRows /\ KeepsEnabler

OlderDisableAll == OlderDisable({w \in Workspaces : on[w]}, Workspaces)

\* The hold, if there is one, stays.
OlderEnable(w) ==
    /\ Rollback
    /\ TurnOn({w})
    /\ Wants({w}, IF paused THEN "free" ELSE "early")
    /\ UNCHANGED <<hold, lease>> /\ KeepsRows /\ KeepsEnabler

----------------------------------------------------------------------------
(* The enabler.                                                            *)

\* credit_causes: the balance has to be higher to come on than to stay on.
CreditCause(w, enabled) ==
    fact[w] \in {"latched", "low"} \/ (fact[w] = "mid" /\ ~enabled)

Uncapped(w) == fact[w] = "latched" \/ Held(w)
Guarded(w) == ~Uncapped(w) /\ (CreditCause(w, on[w]) \/ fact[w] = "deleted")
Clean == {w \in Workspaces : ~Uncapped(w) /\ ~Guarded(w)}
Rank(w) == Cardinality({v \in Clean : Usage[v] <= Usage[w]})

\* The lowest ranked of the enabled that rank too low, at most Cap of them.
Paced ==
    LET low == {w \in Clean : on[w] /\ Rank(w) > MaxRank + Margin}
    IN  {w \in low : Cardinality({v \in low : Usage[v] > Usage[w]}) < Cap}

\* Mutant: what the grant refuses anyway is guarded like any change of facts.
DisablesGuarded ==
    LET all == {w \in Workspaces : on[w] /\ (Uncapped(w) \/ Guarded(w))}
    IN  (IF Cardinality(all) > Cap THEN {} ELSE all) \cup Paced

\* plan: what is latched or held goes, a mass change of facts does not.
Disables ==
    LET guarded == {w \in Workspaces : on[w] /\ Guarded(w)}
    IN  {w \in Workspaces : on[w] /\ Uncapped(w)}
        \cup (IF Cardinality(guarded) > Cap THEN {} ELSE guarded) \cup Paced

\* The highest ranked first.
Enables ==
    LET wanted == {w \in Clean : ~on[w] /\ Rank(w) <= MaxRank}
    IN  {w \in wanted : Cardinality({v \in wanted : Usage[v] < Usage[w]}) < MaxEnables}

\* A run in apply mode reads its snapshot and decides.
Plan ==
    /\ ~run.going
    /\ run' = [going |-> TRUE, disables |-> Disables, enables |-> Enables]
    /\ UNCHANGED <<tables, lease, fact, deaths, intent>>

\* _guard_stop, read in every write's own transaction.
Stops == fleet \/ paused \/ ~armed

WriteDisable(w) ==
    /\ run.going /\ w \in run.disables
    /\ run' = IF Stops THEN NoRun ELSE [run EXCEPT !.disables = @ \ {w}]
    /\ IF ~Stops /\ on[w] THEN TurnOff({w}, FALSE) /\ Revoked({w}) ELSE KeepsSwitch
    /\ UNCHANGED <<hold, fact, deaths, intent>> /\ KeepsRows

\* Mutant: the hold is read with the plan only.
EnablesStale(w) == ~on[w] /\ ~CreditCause(w, FALSE)

\* What an enable reads again in its transaction.
StillEnables(w) == ~Held(w) /\ ~on[w] /\ ~CreditCause(w, FALSE)

WriteEnable(w) ==
    /\ run.going /\ run.disables = {} /\ w \in run.enables
    /\ run' = IF Stops THEN NoRun ELSE [run EXCEPT !.enables = @ \ {w}]
    /\ IF ~Stops /\ StillEnables(w) THEN TurnOn({w}) /\ UNCHANGED lease ELSE KeepsSwitch
    /\ UNCHANGED <<hold, fact, deaths, intent>> /\ KeepsRows

EndRun ==
    /\ run.going /\ run.disables = {} /\ run.enables = {}
    /\ run' = NoRun
    /\ UNCHANGED <<tables, lease, fact, deaths, intent>>

RunDies ==
    /\ run.going
    /\ deaths < MaxDeaths /\ deaths' = deaths + 1
    /\ run' = NoRun
    /\ UNCHANGED <<tables, lease, fact, intent>>

----------------------------------------------------------------------------
(* Leases and facts.                                                       *)

\* Grant reads the switch in its transaction.
Grant(w) ==
    /\ on[w] /\ lease[w] # "open"
    /\ lease' = [lease EXCEPT ![w] = "open"]
    /\ UNCHANGED <<tables, intent>> /\ KeepsEnabler

LeaseEnds(w) ==
    /\ lease[w] # "none"
    /\ lease' = [lease EXCEPT ![w] = "none"]
    /\ UNCHANGED <<tables, intent>> /\ KeepsEnabler

FactsChange(w) ==
    /\ \E f \in Facts \ {fact[w]} : fact' = [fact EXCEPT ![w] = f]
    /\ UNCHANGED <<tables, lease, run, deaths, intent>>

----------------------------------------------------------------------------
SwitchInit ==
    /\ on = [w \in Workspaces |-> FALSE]
    /\ since = [w \in Workspaces |-> FALSE]
    /\ stamped = [w \in Workspaces |-> FALSE]
    /\ hold = [w \in Workspaces |-> "none"]
    /\ fleet = FALSE /\ paused = FALSE /\ armed = FALSE
    /\ lease = [w \in Workspaces |-> "none"]
    /\ fact = [w \in Workspaces |-> "good"]
    /\ run = NoRun
    /\ deaths = 0
    /\ intent = [w \in Workspaces |-> "free"]

Operators ==
    \/ \E w \in Workspaces : Enable(w) \/ Disable(w) \/ Release(w)
    \/ DisableAll \/ ReleaseAll \/ ReleaseStamped
    \/ Pause \/ Resume \/ Arm \/ HoldBackfill

OlderTools ==
    \/ \E w \in Workspaces : OlderDisable({w}, {w}) \/ OlderEnable(w)
    \/ OlderDisableAll

Writes(w) == WriteDisable(w) \/ WriteEnable(w)

Enabler == Plan \/ EndRun \/ RunDies \/ \E w \in Workspaces : Writes(w)

Leases == \E w \in Workspaces : Grant(w) \/ LeaseEnds(w)

Standing == \E w \in Workspaces : FactsChange(w)

SwitchNext == Operators \/ OlderTools \/ Enabler \/ Leases \/ Standing

SwitchSpec == SwitchInit /\ [][SwitchNext]_switchVars

(* The job runs every 15 minutes, and a run goes through its lists.        *)
(* Operators and what becomes of workspaces are not fair.                  *)
SwitchFairness ==
    /\ WF_switchVars(Plan) /\ WF_switchVars(EndRun)
    /\ \A w \in Workspaces : WF_switchVars(Writes(w))

SwitchFairSpec == SwitchSpec /\ SwitchFairness

----------------------------------------------------------------------------
(* The types: a hold is always by one of the reasons there are.            *)
SwitchTypeOK ==
    /\ {on, since, stamped} \subseteq [Workspaces -> BOOLEAN]
    /\ hold \in [Workspaces -> Reasons \cup {"none"}]
    /\ {fleet, paused, armed} \subseteq BOOLEAN
    /\ lease \in [Workspaces -> {"none", "open", "revoked"}]
    /\ fact \in [Workspaces -> AllFacts]
    /\ run \in [going : BOOLEAN, disables : SUBSET Workspaces, enables : SUBSET Workspaces]
    /\ deaths \in 0 .. MaxDeaths
    /\ intent \in [Workspaces -> Intents]

(* A workspace that an operator, a watch or a kill stopped, by whichever   *)
(* release's tools, stays off until an operator lets it go: no run undoes  *)
(* it, however old its plan.  And "An enabled and held row from a rollback *)
(* therefore never reaches the enabler" (fast-admission-widening.md:589): a *)
(* workspace that is on with a hold of its own, which a run would turn off *)
(* again, is there only while the pause stands, or since an older enable   *)
(* made before the arm, for which the arm does not look.                   *)
StopsStand == \A w \in Workspaces :
    /\ intent[w] \in {"stopped", "killed"} => ~on[w]
    /\ on[w] /\ Held(w) => paused \/ intent[w] = "early"

(* A lease is open without being revoked only while its workspace is on: a *)
(* grant is before a stop, and revoked by it, or after it, and refused.    *)
LeasesFollowSwitch == \A w \in Workspaces : lease[w] = "open" => on[w]

(* Nothing holds the enabler back.                                         *)
Unhindered == armed /\ ~fleet /\ ~paused

(* Where nothing holds it back, the enabler has every workspace that ranks *)
(* and is in good standing on in the end, and every latched one off.       *)
EnablerSettles == \A w \in Workspaces :
    /\ <>[](Unhindered /\ ~Held(w) /\ fact[w] = "good" /\ Rank(w) <= MaxRank) => <>[]on[w]
    /\ <>[](Unhindered /\ fact[w] = "latched") => []<>(~on[w])

=============================================================================

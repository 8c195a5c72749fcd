--------------------------- MODULE VideoJobsProofs ---------------------------
(***************************************************************************)
(* Video jobs, for every value of VideoJobs' CONSTANTS: a job with work     *)
(* left stays in the queue of due pointers, at the time it says, whatever   *)
(* order claims, updates and late queue calls come in (NothingForgotten),   *)
(* and an authorization is submitted once (SubmittedOnce).                  *)
(***************************************************************************)
EXTENDS VideoJobs, FiniteSetTheorems, TLAPS

JobRow ==
  [status : Pollable \cup Terminal \cup {"none"}, next : 0 .. Horizon,
   owner : Pollers \cup {None}, until : 0 .. Horizon, queued : BOOLEAN,
   generation : BOOLEAN, cleaned : BOOLEAN, expires : 0 .. Horizon]

Types ==
  /\ clock \in 0 .. MaxTime
  /\ job \in [Jobs -> JobRow]
  /\ byAuth \in [Auths -> Jobs \cup {None}]
  /\ due \subseteq (0 .. Horizon) \X Jobs
  /\ settled \subseteq Auths
  /\ gateway \in [Jobs -> {"idle", "created", "refused", "submitted", "queued"}]
  /\ provider \in [Jobs -> {"none", "running", "done", "broken"}]
  /\ poller = [p \in Pollers |-> poller[p]]
  /\ faults \in 0 .. MaxFaults

\* A job with work left.
Active(j) == job[j].status \in Pollable \/ (job[j].status = "completed" /\ ~job[j].cleaned)

\* A job's only pointer is the one at its next time, and is there while the
\* job has work left; only completed jobs are cleaned.
QueuedRight(j) ==
  /\ \A t \in 0 .. Horizon : <<t, j>> \in due => t = job[j].next /\ job[j].status # "none"
  /\ Active(j) => <<job[j].next, j>> \in due
  /\ job[j].cleaned => job[j].status = "completed"

\* What a poller carries from one of its steps to the next: a job that is
\* there, and one to clean that is completed.
PollsRight(v, rows) ==
  \/ v = Idle
  \/ /\ v.at = "polling" /\ v.job \in Jobs /\ rows[v.job].status # "none"
     /\ v.status = "completed" => rows[v.job].status = "completed"
  \/ /\ v.at = "update" /\ v.job \in Jobs /\ rows[v.job].status # "none"
     /\ v.status \in {"in_progress", "failed", "completed"} /\ v.gen \in BOOLEAN
  \/ v.at = "clean" /\ v.job \in Jobs /\ rows[v.job].status = "completed"

\* An attempt that may submit, or did, is its authorization's job.
OwnsAuth(j) ==
  gateway[j] \in {"created", "submitted", "queued"} \/ provider[j] # "none"
    => byAuth[AuthOf[j]] = j

JobsQueued == \A j \in Jobs : QueuedRight(j)
PollersRight == \A p \in Pollers : PollsRight(poller[p], job)
AuthsOwned == \A j \in Jobs : OwnsAuth(j)
Submitters == \A j \in Jobs :
  gateway[j] \in {"created", "submitted", "queued"} => job[j].status # "none"

Inv == Types /\ JobsQueued /\ PollersRight /\ AuthsOwned /\ Submitters

\* The queue's times are within the horizon.
LEMMA Times ==
  ASSUME clock \in 0 .. MaxTime
  PROVE  /\ Horizon \in Nat
         /\ After(SubmitWait) \in 0 .. Horizon /\ After(PollWait) \in 0 .. Horizon
         /\ After(Retention) \in 0 .. Horizon /\ After(Lease) \in 0 .. Horizon
BY VideoAssumption DEF Horizon, After

LEMMA InitInv == Init => Inv
<1> SUFFICES ASSUME Init PROVE Inv
  OBVIOUS
<1>1. Horizon \in Nat /\ MaxTime \in Nat /\ MaxFaults \in Nat
  BY VideoAssumption DEF Horizon
<1>2. NoJob \in JobRow /\ NoJob.status = "none" /\ NoJob.cleaned = FALSE
  BY <1>1 DEF NoJob, JobRow
<1>3. Types
  BY <1>1, <1>2 DEF Init, Types
<1>4. \A j \in Jobs : job[j] = NoJob
  BY DEF Init
<1>5. JobsQueued
  BY <1>2, <1>4 DEF Init, JobsQueued, QueuedRight, Active, Pollable
<1> QED BY <1>3, <1>5 DEF Init, Inv, PollersRight, PollsRight, AuthsOwned, OwnsAuth, Submitters

-----------------------------------------------------------------------------
(* A step that changes one job.                                             *)

\* The other jobs, and what the pollers know of them, stay as they were; this
\* one's row stays there, and stays completed once it is.
Rewrites(j, row) ==
  /\ job' = [job EXCEPT ![j] = row]
  /\ row.status # "none"
  /\ job[j].status = "completed" => row.status = "completed"

\* Only this job's pointers change.
Points(j) ==
  \A t \in 0 .. Horizon, k \in Jobs : k # j => (<<t, k>> \in due' <=> <<t, k>> \in due)

LEMMA OthersQueued ==
  ASSUME Inv, NEW j \in Jobs, NEW row \in JobRow, Rewrites(j, row), Points(j),
         due' \subseteq (0 .. Horizon) \X Jobs, QueuedRight(j)'
  PROVE  JobsQueued'
<1> SUFFICES ASSUME NEW k \in Jobs, k # j PROVE QueuedRight(k)'
  BY DEF JobsQueued
<1>1. job'[k] = job[k]
  BY DEF Rewrites, Inv, Types
<1>2. job[k].next \in 0 .. Horizon
  BY DEF Inv, Types, JobRow
<1>3. QueuedRight(k)
  BY DEF Inv, JobsQueued
<1> QED BY <1>1, <1>2, <1>3 DEF QueuedRight, Active, Points

LEMMA KnownStays ==
  ASSUME Inv, NEW j \in Jobs, NEW row \in JobRow, Rewrites(j, row), NEW p \in Pollers
  PROVE  PollsRight(poller[p], job')
<1>1. \A k \in Jobs : /\ job[k].status # "none" => job'[k].status # "none"
                      /\ job[k].status = "completed" => job'[k].status = "completed"
  BY DEF Rewrites, Inv, Types
<1>2. PollsRight(poller[p], job)
  BY DEF Inv, PollersRight
<1> QED BY <1>1, <1>2 DEF PollsRight

\* The other pollers go on as they were when one takes a step.
LEMMA PollersStay ==
  ASSUME Inv, NEW p \in Pollers, NEW v, poller' = [poller EXCEPT ![p] = v],
         PollsRight(v, job'),
         job' = job \/ \E j \in Jobs, row \in JobRow : Rewrites(j, row)
  PROVE  PollersRight' /\ poller' = [r \in Pollers |-> poller'[r]]
<1>1. poller' = [r \in Pollers |-> IF r = p THEN v ELSE poller[r]]
  BY DEF Inv, Types
<1>2. \A r \in Pollers : PollsRight(poller[r], job')
  BY KnownStays DEF Inv, PollersRight
<1> QED BY <1>1, <1>2 DEF PollersRight

\* Submitters and owners when no gateway moves on and no job goes away.
LEMMA OwnersStay ==
  ASSUME Inv, UNCHANGED <<byAuth, gateway, provider>>,
         \A k \in Jobs : job[k].status # "none" => job'[k].status # "none"
  PROVE  AuthsOwned' /\ Submitters'
BY DEF Inv, AuthsOwned, OwnsAuth, Submitters

-----------------------------------------------------------------------------
(* The steps of the gateways.                                               *)

LEMMA PrepareStep ==
  ASSUME Inv, NEW j \in Jobs, Prepare(j)
  PROVE  Inv'
<1> DEFINE new == After(SubmitWait)
           row == [NoJob EXCEPT !.status = "submitting", !.next = new]
<1>1. CASE AuthOf[j] \in settled \/ Existing(j) # None
  <2>1. gateway' = [gateway EXCEPT ![j] = "refused"] /\ UNCHANGED <<job, byAuth, due, faults>>
    BY <1>1 DEF Prepare
  <2>2. UNCHANGED <<clock, settled, provider, poller>>
    BY DEF Prepare
  <2>3. Types'
    BY <2>1, <2>2 DEF Inv, Types
  <2>4. \A k \in Jobs : gateway'[k] = gateway[k] \/ gateway'[k] = "refused"
    BY <2>1 DEF Inv, Types
  <2>5. AuthsOwned' /\ Submitters'
    BY <2>1, <2>2, <2>4 DEF Inv, AuthsOwned, OwnsAuth, Submitters
  <2> QED
    BY <2>1, <2>2, <2>3, <2>5
    DEF Inv, JobsQueued, QueuedRight, Active, PollersRight, PollsRight
<1>2. CASE ~(AuthOf[j] \in settled \/ Existing(j) # None)
  <2>1. /\ job' = [job EXCEPT ![j] = row]
        /\ byAuth' = [byAuth EXCEPT ![AuthOf[j]] = j]
        /\ due' = due \cup {<<new, j>>}
        /\ gateway' = [gateway EXCEPT ![j] = "created"] \/ gateway' = gateway
        /\ UNCHANGED <<clock, settled, provider, poller>>
    BY <1>2 DEF Prepare
  <2>2. faults' \in 0 .. MaxFaults
    BY <1>2, VideoAssumption DEF Prepare, Fault, Inv, Types
  <2>3. AuthOf[j] \in Auths /\ None \notin Jobs
    BY VideoAssumption
  <2>4. byAuth[AuthOf[j]] = None /\ job[j].status = "none"
    BY <1>2, <2>3 DEF Existing, Inv, Types
  <2>5. /\ row \in JobRow /\ row.status = "submitting" /\ row.next = new
        /\ row.cleaned = FALSE /\ new \in 0 .. Horizon
    <3>1. new \in 0 .. Horizon /\ 0 \in 0 .. Horizon
      BY Times DEF Inv, Types
    <3> HIDE DEF new
    <3>2. NoJob \in JobRow /\ NoJob.cleaned = FALSE
      BY <3>1 DEF NoJob, JobRow
    <3> QED BY <3>1, <3>2 DEF JobRow, Pollable
  <2> HIDE DEF row, new
  <2>6. job'[j] = row
    BY <2>1 DEF Inv, Types
  <2>7. Rewrites(j, row) /\ Points(j)
    BY <2>1, <2>4, <2>5 DEF Rewrites, Points
  <2>8. due' \subseteq (0 .. Horizon) \X Jobs
    BY <2>1, <2>5 DEF Inv, Types
  <2>9. QueuedRight(j)'
    <3>1. \A t \in 0 .. Horizon : <<t, j>> \notin due
      BY <2>4 DEF Inv, JobsQueued, QueuedRight
    <3>2. \A t \in 0 .. Horizon : <<t, j>> \in due' => t = new
      BY <2>1, <3>1
    <3> QED BY <2>1, <2>5, <2>6, <3>2 DEF QueuedRight, Active
  <2>10. JobsQueued'
    BY <2>5, <2>7, <2>8, <2>9, OthersQueued
  <2>11. PollersRight'
    BY <2>1, <2>5, <2>7, KnownStays DEF PollersRight
  <2>12. Types'
    <3>1. job' \in [Jobs -> JobRow] /\ byAuth' \in [Auths -> Jobs \cup {None}]
      BY <2>1, <2>5 DEF Inv, Types
    <3>2. gateway' \in [Jobs -> {"idle", "created", "refused", "submitted", "queued"}]
      BY <2>1 DEF Inv, Types
    <3> QED BY <2>1, <2>2, <2>8, <3>1, <3>2 DEF Inv, Types
  <2>13. AuthsOwned'
    <3> SUFFICES ASSUME NEW k \in Jobs,
                        gateway'[k] \in {"created", "submitted", "queued"} \/ provider'[k] # "none"
                 PROVE  byAuth'[AuthOf[k]] = k
      BY DEF AuthsOwned, OwnsAuth
    <3>1. CASE k = j
      BY <2>1, <2>3, <3>1 DEF Inv, Types
    <3>2. CASE k # j
      <4>1. gateway'[k] = gateway[k] /\ provider'[k] = provider[k]
        BY <2>1, <3>2 DEF Inv, Types
      <4>2. byAuth[AuthOf[k]] = k
        BY <4>1 DEF Inv, AuthsOwned, OwnsAuth
      <4>3. AuthOf[k] # AuthOf[j]
        BY <2>3, <2>4, <4>2
      <4>4. AuthOf[k] \in Auths
        BY VideoAssumption
      <4> QED BY <2>1, <4>2, <4>3, <4>4 DEF Inv, Types
    <3> QED BY <3>1, <3>2
  <2>14. Submitters'
    <3> SUFFICES ASSUME NEW k \in Jobs, gateway'[k] \in {"created", "submitted", "queued"}
                 PROVE  job'[k].status # "none"
      BY DEF Submitters
    <3>1. CASE k = j
      BY <2>5, <2>6, <3>1
    <3>2. CASE k # j
      <4>1. gateway'[k] = gateway[k] /\ job'[k] = job[k]
        BY <2>1, <3>2 DEF Inv, Types
      <4> QED BY <4>1 DEF Inv, Submitters
    <3> QED BY <3>1, <3>2
  <2> QED BY <2>10, <2>11, <2>12, <2>13, <2>14 DEF Inv
<1> QED BY <1>1, <1>2

LEMMA SubmitStep ==
  ASSUME Inv, NEW j \in Jobs, Submit(j)
  PROVE  Inv'
<1>1. /\ gateway[j] = "created"
      /\ gateway' = [gateway EXCEPT ![j] = "submitted"]
      /\ provider' = [provider EXCEPT ![j] = "running"]
      /\ UNCHANGED <<clock, job, byAuth, due, settled, poller, faults>>
  BY DEF Submit
<1>2. Types'
  BY <1>1 DEF Inv, Types
<1>3. \A k \in Jobs : k # j => gateway'[k] = gateway[k] /\ provider'[k] = provider[k]
  BY <1>1 DEF Inv, Types
<1>4. AuthsOwned' /\ Submitters'
  BY <1>1, <1>3 DEF Inv, AuthsOwned, OwnsAuth, Submitters
<1> QED
  BY <1>1, <1>2, <1>4 DEF Inv, JobsQueued, QueuedRight, Active, PollersRight, PollsRight

\* A queue call that comes late, after a poller's update or a second time,
\* moves the pointer it finds and adds none beside it.
LEMMA QueuedStep ==
  ASSUME Inv, NEW j \in Jobs, Queued(j)
  PROVE  Inv'
<1> DEFINE was == job[j]
           new == After(PollWait)
           status == IF was.status = "submitting" THEN "pending" ELSE was.status
           row == [was EXCEPT !.status = status, !.queued = TRUE, !.next = new]
<1>1. /\ gateway[j] = "submitted"
      /\ job' = [job EXCEPT ![j] = row]
      /\ due' = (due \ {<<was.next, j>>}) \cup {<<new, j>>}
      /\ gateway' = [gateway EXCEPT ![j] = "queued"] \/ gateway' = gateway
      /\ UNCHANGED <<clock, byAuth, settled, provider, poller>>
  BY DEF Queued, Requeue
<1>2. faults' \in 0 .. MaxFaults
  BY VideoAssumption DEF Queued, Fault, Inv, Types
<1>3. was \in JobRow /\ was.status # "none" /\ new \in 0 .. Horizon
  BY <1>1, Times DEF Inv, Types, Submitters
<1>4. /\ row \in JobRow /\ row.status = status /\ row.next = new
      /\ row.cleaned = was.cleaned
  BY <1>3 DEF JobRow, Pollable
<1>5. /\ status # "none"
      /\ was.status = "completed" => status = "completed"
      /\ was.cleaned => was.status = "completed"
  BY <1>3 DEF Inv, JobsQueued, QueuedRight
<1> HIDE DEF row, new, status
<1>6. job'[j] = row
  BY <1>1 DEF Inv, Types
<1>7. Rewrites(j, row) /\ Points(j)
  BY <1>1, <1>4, <1>5 DEF Rewrites, Points
<1>8. due' \subseteq (0 .. Horizon) \X Jobs
  BY <1>1, <1>3 DEF Inv, Types
<1>9. QueuedRight(j)'
  <2>1. \A t \in 0 .. Horizon : <<t, j>> \in due => t = was.next
    BY DEF Inv, JobsQueued, QueuedRight
  <2>2. \A t \in 0 .. Horizon : <<t, j>> \in due' => t = new
    BY <1>1, <2>1
  <2>3. <<new, j>> \in due'
    BY <1>1
  <2> QED BY <1>4, <1>5, <1>6, <2>2, <2>3 DEF QueuedRight, Active
<1>10. JobsQueued'
  BY <1>4, <1>7, <1>8, <1>9, OthersQueued
<1>11. PollersRight'
  BY <1>1, <1>4, <1>7, KnownStays DEF PollersRight
<1>12. Types'
  BY <1>1, <1>2, <1>4, <1>8 DEF Inv, Types
<1>13. AuthsOwned'
  BY <1>1 DEF Inv, Types, AuthsOwned, OwnsAuth
<1>14. Submitters'
  <2>1. \A k \in Jobs : job[k].status # "none" => job'[k].status # "none"
    BY <1>1, <1>4, <1>5 DEF Inv, Types
  <2>2. \A k \in Jobs : gateway'[k] \in {"created", "submitted", "queued"}
                        => gateway[k] \in {"created", "submitted", "queued"}
    BY <1>1 DEF Inv, Types
  <2> QED BY <2>1, <2>2 DEF Inv, Submitters
<1> QED BY <1>10, <1>11, <1>12, <1>13, <1>14 DEF Inv

-----------------------------------------------------------------------------
(* The steps of the pollers.                                                *)

LEMMA ClaimStep ==
  ASSUME Inv, NEW p \in Pollers, NEW j \in Jobs, Claim(p, j)
  PROVE  Inv'
<1> DEFINE row == [job[j] EXCEPT !.owner = p, !.until = After(Lease)]
           v == [at |-> "polling", job |-> j, status |-> job[j].status, id |-> job[j].queued]
<1>1. /\ job' = [job EXCEPT ![j].owner = p, ![j].until = After(Lease)]
      /\ poller' = [poller EXCEPT ![p] = v]
      /\ UNCHANGED <<clock, byAuth, due, settled, gateway, provider, faults>>
  BY DEF Claim
<1>2. job[j] \in JobRow /\ After(Lease) \in 0 .. Horizon
  BY Times DEF Inv, Types
<1>3. job' = [job EXCEPT ![j] = row]
  BY <1>1 DEF Inv, Types
<1>4. /\ row \in JobRow /\ row.status = job[j].status /\ row.next = job[j].next
      /\ row.cleaned = job[j].cleaned /\ job[j].status # "none"
  BY <1>2 DEF JobRow, Claim, IsDue, Pollable
<1> HIDE DEF row
<1>5. job'[j] = row
  BY <1>3 DEF Inv, Types
<1>6. Rewrites(j, row) /\ Points(j)
  BY <1>1, <1>3, <1>4 DEF Rewrites, Points
<1>7. QueuedRight(j)'
  <2>1. QueuedRight(j)
    BY DEF Inv, JobsQueued
  <2>2. /\ job'[j].status = job[j].status /\ job'[j].next = job[j].next
        /\ job'[j].cleaned = job[j].cleaned /\ due' = due
    BY <1>1, <1>4, <1>5
  <2> HIDE DEF v
  <2> QED BY <2>1, <2>2 DEF QueuedRight, Active
<1>8. JobsQueued'
  BY <1>1, <1>4, <1>6, <1>7, OthersQueued DEF Inv, Types
<1>9. PollsRight(v, job')
  BY <1>4, <1>5 DEF PollsRight
<1> HIDE DEF v
<1>10. PollersRight' /\ poller' = [r \in Pollers |-> poller'[r]]
  BY <1>1, <1>4, <1>6, <1>9, PollersStay
<1>11. Types'
  <2>1. job' \in [Jobs -> JobRow]
    BY <1>3, <1>4 DEF Inv, Types
  <2> QED BY <1>1, <1>10, <2>1 DEF Inv, Types
<1>12. AuthsOwned' /\ Submitters'
  BY <1>1, <1>3, <1>4, OwnersStay DEF Inv, Types
<1> QED BY <1>8, <1>10, <1>11, <1>12 DEF Inv

\* Steps that leave the jobs and the queue.
LEMMA BesidesStep ==
  ASSUME Inv, UNCHANGED <<job, due, byAuth, gateway>>, Types', PollersRight',
         \A k \in Jobs : provider'[k] # "none" => provider[k] # "none"
  PROVE  Inv'
BY DEF Inv, JobsQueued, QueuedRight, Active, AuthsOwned, OwnsAuth, Submitters

LEMMA PollStep ==
  ASSUME Inv, NEW p \in Pollers, Poll(p)
  PROVE  Inv'
<1> DEFINE t == poller[p]
           j == t.job
           Says(status, gen) == [at |-> "update", job |-> j, status |-> status, gen |-> gen]
<1>1. t.at = "polling" /\ UNCHANGED <<clock, job, byAuth, due, gateway, provider, faults>>
  BY DEF Poll
<1>2. /\ j \in Jobs /\ job[j].status # "none"
      /\ t.status = "completed" => job[j].status = "completed"
  <2>1. PollsRight(t, job)
    BY DEF Inv, PollersRight
  <2>2. Idle.at # "polling"
    BY DEF Idle
  <2> QED BY <1>1, <2>1, <2>2 DEF PollsRight
<1>3. settled' \subseteq Auths
  BY <1>2, VideoAssumption DEF Poll, Inv, Types
<1>4. PICK v : poller' = [poller EXCEPT ![p] = v] /\ PollsRight(v, job')
  <2>1. CASE t.status = "completed" /\ poller' = [poller EXCEPT ![p] = [at |-> "clean", job |-> j]]
    <3>1. PollsRight([at |-> "clean", job |-> j], job')
      BY <1>1, <1>2, <2>1 DEF PollsRight
    <3> QED BY <2>1, <3>1
  <2>2. ASSUME NEW status \in {"in_progress", "failed", "completed"}, NEW gen \in BOOLEAN,
               poller' = [poller EXCEPT ![p] = Says(status, gen)]
        PROVE  \E v : poller' = [poller EXCEPT ![p] = v] /\ PollsRight(v, job')
    <3>1. PollsRight(Says(status, gen), job')
      BY <1>1, <1>2 DEF PollsRight
    <3> HIDE DEF Says
    <3> QED BY <2>2, <3>1
  <2>3. (AuthOf[j] \notin settled) \in BOOLEAN
    OBVIOUS
  <2>4. \/ t.status = "completed" /\ poller' = [poller EXCEPT ![p] = [at |-> "clean", job |-> j]]
        \/ poller' = [poller EXCEPT ![p] = Says("in_progress", FALSE)]
        \/ poller' = [poller EXCEPT ![p] = Says("failed", FALSE)]
        \/ poller' = [poller EXCEPT ![p] = Says("completed", AuthOf[j] \notin settled)]
    BY DEF Poll
  <2> HIDE DEF Says, t, j
  <2> QED BY <2>1, <2>2, <2>3, <2>4
<1>5. PollersRight' /\ poller' = [r \in Pollers |-> poller'[r]]
  BY <1>1, <1>4, PollersStay
<1>6. Types'
  BY <1>1, <1>3, <1>5 DEF Inv, Types
<1> QED BY <1>1, <1>5, <1>6, BesidesStep

LEMMA PollerDiesStep ==
  ASSUME Inv, NEW p \in Pollers, PollerDies(p)
  PROVE  Inv'
<1>1. /\ poller' = [poller EXCEPT ![p] = Idle]
      /\ UNCHANGED <<clock, job, byAuth, due, settled, gateway, provider>>
  BY DEF PollerDies
<1>2. PollsRight(Idle, job')
  BY DEF PollsRight
<1>3. PollersRight' /\ poller' = [r \in Pollers |-> poller'[r]]
  BY <1>1, <1>2, PollersStay
<1>4. faults' \in 0 .. MaxFaults
  BY VideoAssumption DEF PollerDies, Fault, Inv, Types
<1>5. Types'
  BY <1>1, <1>3, <1>4 DEF Inv, Types
<1> QED BY <1>1, <1>3, <1>5, BesidesStep

LEMMA ProviderEndsStep ==
  ASSUME Inv, NEW j \in Jobs, ProviderEnds(j)
  PROVE  Inv'
<1>1. UNCHANGED <<clock, job, byAuth, due, settled, gateway, poller, faults>>
  BY DEF ProviderEnds
<1>2. Types' /\ PollersRight'
  BY <1>1 DEF ProviderEnds, Inv, Types, PollersRight
<1>3. \A k \in Jobs : provider'[k] # "none" => provider[k] # "none"
  BY DEF ProviderEnds, Inv, Types
<1> QED BY <1>1, <1>2, <1>3, BesidesStep

LEMMA TickStep ==
  ASSUME Inv, Tick \/ UNCHANGED vars
  PROVE  Inv'
<1>1. UNCHANGED <<job, byAuth, due, settled, gateway, provider, poller, faults>>
  BY DEF Tick, vars
<1>2. clock' \in 0 .. MaxTime
  BY VideoAssumption DEF Tick, vars, Inv, Types
<1>3. Types' /\ PollersRight'
  BY <1>1, <1>2 DEF Inv, Types, PollersRight
<1> QED BY <1>1, <1>3, BesidesStep

\* A poller's update of a job that is still open: the pointer moves with the
\* row's next time, or goes with a failure.
LEMMA OpenUpdate ==
  ASSUME Inv, NEW p \in Pollers, NEW j \in Jobs, NEW row \in JobRow, NEW new,
         job[j].status \notin Terminal, job[j].status # "none",
         job' = [job EXCEPT ![j] = row],
         row.status \in {"in_progress", "failed", "completed"}, row.next = new,
         row.cleaned = job[j].cleaned,
         due' = IF row.status = "failed" THEN due \ {<<job[j].next, j>>}
                ELSE Requeue(j, job[j].next, new)
  PROVE  Rewrites(j, row) /\ JobsQueued' /\ due' \subseteq (0 .. Horizon) \X Jobs
<1>1. Rewrites(j, row)
  BY DEF Rewrites, Terminal
<1>2. job'[j] = row /\ new \in 0 .. Horizon
  BY DEF Inv, Types, JobRow
<1>3. Points(j)
  BY DEF Points, Requeue
<1>4. due' \subseteq (0 .. Horizon) \X Jobs
  BY <1>2 DEF Requeue, Inv, Types
<1>5. QueuedRight(j)'
  <2>1. /\ \A t \in 0 .. Horizon : <<t, j>> \in due => t = job[j].next
        /\ ~job[j].cleaned
    BY DEF Inv, JobsQueued, QueuedRight, Terminal
  <2>2. CASE row.status = "failed"
    BY <1>2, <2>1, <2>2 DEF QueuedRight, Active, Pollable
  <2>3. CASE row.status # "failed"
    <3>1. due' = (due \ {<<job[j].next, j>>}) \cup {<<new, j>>}
      BY <2>3 DEF Requeue
    <3>2. \A t \in 0 .. Horizon : <<t, j>> \in due' => t = new
      BY <2>1, <3>1
    <3>3. <<new, j>> \in due'
      BY <3>1
    <3> QED BY <1>2, <2>1, <3>2, <3>3 DEF QueuedRight
  <2> QED BY <2>2, <2>3
<1> QED BY <1>1, <1>3, <1>4, <1>5, OthersQueued

\* A write that leaves the job's status and time, and its pointer with them
\* unless the job is now cleaned.
LEMMA SameTimeUpdate ==
  ASSUME Inv, NEW j \in Jobs, NEW row \in JobRow, job' = [job EXCEPT ![j] = row],
         row.status = job[j].status, row.status # "none", row.next = job[j].next,
         \/ row.cleaned = job[j].cleaned /\ due' = due
         \/ /\ row.cleaned = TRUE /\ row.status = "completed"
            /\ due' = due \ {<<job[j].next, j>>}
  PROVE  Rewrites(j, row) /\ JobsQueued' /\ due' \subseteq (0 .. Horizon) \X Jobs
<1>1. Rewrites(j, row) /\ Points(j)
  BY DEF Rewrites, Points
<1>2. job'[j] = row
  BY DEF Inv, Types
<1>3. QueuedRight(j)
  BY DEF Inv, JobsQueued
<1>4. QueuedRight(j)'
  BY <1>2, <1>3 DEF QueuedRight, Active, Pollable
<1>5. due' \subseteq (0 .. Horizon) \X Jobs
  BY DEF Inv, Types
<1> QED BY <1>1, <1>4, <1>5, OthersQueued

\* The steps of a poller that ends its work on a job.
LEMMA PollerEnds ==
  ASSUME Inv, NEW p \in Pollers, poller' = [poller EXCEPT ![p] = Idle],
         UNCHANGED <<clock, byAuth, settled, gateway, provider, faults>>,
         \/ UNCHANGED <<job, due>>
         \/ \E j \in Jobs, row \in JobRow :
              Rewrites(j, row) /\ JobsQueued' /\ due' \subseteq (0 .. Horizon) \X Jobs
  PROVE  Inv'
<1>1. PollsRight(Idle, job')
  BY DEF PollsRight
<1>2. PollersRight' /\ poller' = [r \in Pollers |-> poller'[r]]
  BY <1>1, PollersStay
<1>3. CASE UNCHANGED <<job, due>>
  <2>1. Types'
    BY <1>2, <1>3 DEF Inv, Types
  <2> QED BY <1>2, <1>3, <2>1, BesidesStep
<1>4. ASSUME NEW j \in Jobs, NEW row \in JobRow, Rewrites(j, row), JobsQueued',
             due' \subseteq (0 .. Horizon) \X Jobs
      PROVE  Inv'
  <2>1. job' \in [Jobs -> JobRow]
    BY <1>4 DEF Rewrites, Inv, Types
  <2>2. Types'
    BY <1>2, <1>4, <2>1 DEF Inv, Types
  <2>3. \A k \in Jobs : job[k].status # "none" => job'[k].status # "none"
    BY <1>4 DEF Rewrites, Inv, Types
  <2>4. AuthsOwned' /\ Submitters'
    BY <2>3, OwnersStay
  <2> QED BY <1>2, <1>4, <2>2, <2>4 DEF Inv
<1> QED BY <1>3, <1>4

LEMMA UpdateStep ==
  ASSUME Inv, NEW p \in Pollers, Update(p)
  PROVE  Inv'
<1> DEFINE t == poller[p]
           j == t.job
           was == job[j]
           refused == was.owner \notin {None, p}
           repairs == was.status = "completed" /\ t.status = "completed" /\ t.gen
           expires == IF was.expires = 0 THEN After(Retention) ELSE was.expires
           next == CASE t.status = "in_progress" -> After(PollWait)
                     [] t.status = "completed" /\ ~was.cleaned -> expires
                     [] OTHER -> was.next
           now == [was EXCEPT !.status = t.status, !.generation = @ \/ t.gen,
                              !.owner = None, !.until = 0, !.next = next,
                              !.expires = IF t.status = "completed" THEN expires ELSE @]
<1>1. /\ t.at = "update" /\ poller' = [poller EXCEPT ![p] = Idle]
      /\ UNCHANGED <<clock, byAuth, settled, gateway, provider, faults>>
  BY DEF Update
<1>2. /\ j \in Jobs /\ was.status # "none" /\ t.gen \in BOOLEAN
      /\ t.status \in {"in_progress", "failed", "completed"}
  <2>1. PollsRight(t, job)
    BY DEF Inv, PollersRight
  <2>2. Idle.at # "update"
    BY DEF Idle
  <2> QED BY <1>1, <2>1, <2>2 DEF PollsRight
<1>3. was \in JobRow
  BY <1>2 DEF Inv, Types
<1>4. CASE refused
  <2>1. UNCHANGED <<job, due>>
    BY <1>4 DEF Update
  <2> HIDE DEF refused, repairs, next, now
  <2> QED BY <1>1, <2>1, PollerEnds
<1>5. CASE ~refused /\ Closed(j)
  <2> DEFINE row == [was EXCEPT !.generation = TRUE]
  <2>1. /\ job' = IF repairs THEN [job EXCEPT ![j].generation = TRUE] ELSE job
        /\ due' = due
    BY <1>5 DEF Update
  <2>2. CASE ~repairs
    <3>1. UNCHANGED <<job, due>>
      BY <2>1, <2>2
    <3> HIDE DEF refused, repairs, next, now
    <3> QED BY <1>1, <3>1, PollerEnds
  <2>3. CASE repairs
    <3>1. /\ row \in JobRow /\ row.status = was.status /\ row.next = was.next
          /\ row.cleaned = was.cleaned
      BY <1>3 DEF JobRow
    <3>2. job' = [job EXCEPT ![j] = row]
      BY <2>1, <2>3 DEF Inv, Types
    <3> HIDE DEF row, refused, repairs, next, now
    <3>3. Rewrites(j, row) /\ JobsQueued' /\ due' \subseteq (0 .. Horizon) \X Jobs
      BY <1>2, <2>1, <3>1, <3>2, SameTimeUpdate
    <3> QED BY <1>1, <1>2, <3>1, <3>3, PollerEnds
  <2> QED BY <2>2, <2>3
<1>6. CASE ~refused /\ ~Closed(j)
  <2>1. ~was.cleaned
    BY <1>2, <1>6 DEF Closed, Terminal, Inv, JobsQueued, QueuedRight
  <2>2. /\ job' = [job EXCEPT ![j] = now]
        /\ due' = IF t.status = "failed" THEN due \ {<<was.next, j>>}
                  ELSE Requeue(j, was.next, next)
    BY <1>6, <2>1 DEF Update
  <2>3. expires \in 0 .. Horizon /\ After(PollWait) \in 0 .. Horizon /\ 0 \in 0 .. Horizon
    BY <1>3, Times DEF Inv, Types, JobRow
  <2>4. next \in 0 .. Horizon
    <3> HIDE DEF expires
    <3> QED BY <1>2, <1>3, <2>1, <2>3 DEF JobRow
  <2> HIDE DEF next, expires
  <2>5. /\ now \in JobRow /\ now.status = t.status /\ now.next = next
        /\ now.cleaned = was.cleaned
    BY <1>2, <1>3, <2>3, <2>4 DEF JobRow, Pollable, Terminal
  <2> HIDE DEF now, refused, repairs
  <2>6. Rewrites(j, now) /\ JobsQueued' /\ due' \subseteq (0 .. Horizon) \X Jobs
    BY <1>2, <1>6, <2>2, <2>5, OpenUpdate DEF Closed
  <2> QED BY <1>1, <1>2, <2>5, <2>6, PollerEnds
<1> QED BY <1>4, <1>5, <1>6

LEMMA MarkCleanedStep ==
  ASSUME Inv, NEW p \in Pollers, MarkCleaned(p)
  PROVE  Inv'
<1> DEFINE j == poller[p].job
           row == [job[j] EXCEPT !.cleaned = TRUE, !.owner = None, !.until = 0]
<1>1. /\ poller[p].at = "clean" /\ poller' = [poller EXCEPT ![p] = Idle]
      /\ UNCHANGED <<clock, byAuth, settled, gateway, provider, faults>>
  BY DEF MarkCleaned
<1>2. j \in Jobs /\ job[j].status = "completed"
  <2>1. PollsRight(poller[p], job)
    BY DEF Inv, PollersRight
  <2>2. Idle.at # "clean"
    BY DEF Idle
  <2> QED BY <1>1, <2>1, <2>2 DEF PollsRight
<1>3. CASE job[j].cleaned
  <2>1. UNCHANGED <<job, due>>
    BY <1>3 DEF MarkCleaned
  <2> QED BY <1>1, <2>1, PollerEnds
<1>4. CASE ~job[j].cleaned
  <2>1. /\ job' = [job EXCEPT ![j].cleaned = TRUE, ![j].owner = None, ![j].until = 0]
        /\ due' = due \ {<<job[j].next, j>>}
    BY <1>4 DEF MarkCleaned
  <2>2. job[j] \in JobRow /\ 0 \in 0 .. Horizon
    BY <1>2, Times DEF Inv, Types
  <2>3. job' = [job EXCEPT ![j] = row]
    BY <2>1 DEF Inv, Types
  <2>4. /\ row \in JobRow /\ row.status = job[j].status /\ row.next = job[j].next
        /\ row.cleaned = TRUE
    BY <2>2 DEF JobRow
  <2> HIDE DEF row
  <2>5. Rewrites(j, row) /\ JobsQueued' /\ due' \subseteq (0 .. Horizon) \X Jobs
    BY <1>2, <2>1, <2>3, <2>4, SameTimeUpdate
  <2> QED BY <1>1, <1>2, <2>4, <2>5, PollerEnds
<1> QED BY <1>3, <1>4

-----------------------------------------------------------------------------
LEMMA InvCorrect == Spec => []Inv
<1>1. Inv /\ [Next]_vars => Inv'
  BY PrepareStep, SubmitStep, QueuedStep, ProviderEndsStep, ClaimStep, PollStep,
     UpdateStep, MarkCleanedStep, PollerDiesStep, TickStep DEF Next
<1> QED BY <1>1, InitInv, PTL DEF Spec

\* The entity, its pointers and the queue keep their types.
THEOREM TypeCorrect == Spec => []TypeOK
<1>1. Inv => TypeOK
  BY DEF Inv, Types, TypeOK, JobRow
<1> QED BY <1>1, InvCorrect, PTL

\* prepare, mark_video_job_queued, claim, update and mark_video_job_cleaned
\* keep the queue and the job together: whichever comes late, a job with work
\* left is due at its next time, and once.
THEOREM QueueForgetsNothing == Spec => []NothingForgotten
<1>1. Inv => NothingForgotten
  <2> SUFFICES ASSUME Inv, NEW j \in Jobs, Active(j)
               PROVE  {t \in 0 .. Horizon : <<t, j>> \in due} = {job[j].next}
    BY DEF NothingForgotten, Active
  <2>1. job[j].next \in 0 .. Horizon
    BY DEF Inv, Types, JobRow
  <2>2. QueuedRight(j)
    BY DEF Inv, JobsQueued
  <2> QED BY <2>1, <2>2 DEF QueuedRight
<1> QED BY <1>1, InvCorrect, PTL

\* Only the attempt that the authorization's pointer names is ever submitted,
\* so a gateway's retry after a lost answer submits nothing.
THEOREM AuthSubmitsOnce == Spec => []SubmittedOnce
<1>1. Inv => SubmittedOnce
  <2> SUFFICES ASSUME Inv, NEW a \in Auths
               PROVE  Cardinality({j \in Jobs : AuthOf[j] = a /\ provider[j] # "none"}) <= 1
    BY DEF SubmittedOnce
  <2> DEFINE S == {j \in Jobs : AuthOf[j] = a /\ provider[j] # "none"}
  <2>1. S \subseteq {byAuth[a]}
    BY DEF Inv, AuthsOwned, OwnsAuth
  <2>2. IsFiniteSet({byAuth[a]}) /\ Cardinality({byAuth[a]}) = 1
    BY FS_Singleton
  <2> HIDE DEF S
  <2>3. Cardinality(S) <= Cardinality({byAuth[a]})
    BY <2>1, <2>2, FS_Subset
  <2> QED BY <2>2, <2>3 DEF S
<1> QED BY <1>1, InvCorrect, PTL

=============================================================================

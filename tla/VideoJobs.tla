------------------------------- MODULE VideoJobs -------------------------------
(***************************************************************************)
(* Asynchronous video jobs: the job entity, the pointer by authorization,  *)
(* and the queue of due pointers, written together and read apart.         *)
(* Gateways prepare and submit jobs; pollers in several regions lease due  *)
(* jobs, ask the provider, settle, and later clean the content up.  The    *)
(* gateways, the pollers and the provider are outside this repository.     *)
(***************************************************************************)
EXTENDS Integers, FiniteSets

CONSTANTS
    Jobs,        \* job ids; each is one gateway's attempt
    Auths,
    AuthOf,      \* the authorization an attempt runs under
    Pollers,
    None,
    SubmitWait,  \* VIDEO_SUBMISSION_TIMEOUT_SECONDS
    PollWait,    \* poll_after_seconds
    Retention,   \* VIDEO_CONTENT_RETENTION_SECONDS
    Lease,       \* lease_seconds
    MaxTime,     \* bound on the clock
    MaxFaults    \* bound on lost answers and dead pollers

ASSUME VideoAssumption ==
    /\ AuthOf \in [Jobs -> Auths] /\ None \notin Pollers \cup Jobs
    /\ {SubmitWait, PollWait, Retention, Lease} \subseteq Nat
    /\ MaxTime \in Nat /\ MaxFaults \in Nat

VARIABLES
    clock,
    job,       \* the video_job entities
    byAuth,    \* video_job_by_authorization
    due,       \* video_job_due: pairs of a time and a job
    settled,   \* authorizations already finalized
    gateway,   \* how far each attempt is
    provider,  \* external: the provider's job
    poller,    \* what each poller is doing
    faults

vars == <<clock, job, byAuth, due, settled, gateway, provider, poller, faults>>

NoJob == [status |-> "none", next |-> 0, owner |-> None, until |-> 0, queued |-> FALSE,
          generation |-> FALSE, cleaned |-> FALSE, expires |-> 0]
Idle == [at |-> "idle"]
Pollable == {"submitting", "pending", "in_progress"}
Terminal == {"completed", "failed"}
After(n) == clock + n
Fault == faults < MaxFaults /\ faults' = faults + 1

----------------------------------------------------------------------------
(* Gateways.                                                               *)

\* Mutant: only the job's own id is looked up.
ExistingById(j) == IF job[j].status # "none" THEN j ELSE None

\* The job an attempt finds: its authorization's, or its own.
Existing(j) ==
    CASE byAuth[AuthOf[j]] # None -> byAuth[AuthOf[j]]
      [] byAuth[AuthOf[j]] = None /\ job[j].status # "none" -> j
      [] OTHER -> None

\* _prepare and SpannerVideoJobs.prepare; only a created job is submitted.
Prepare(j) ==
    /\ gateway[j] = "idle"
    /\ IF AuthOf[j] \in settled \/ Existing(j) # None
       THEN /\ gateway' = [gateway EXCEPT ![j] = "refused"]
            /\ UNCHANGED <<job, byAuth, due, faults>>
       ELSE /\ job' = [job EXCEPT ![j] = [NoJob EXCEPT !.status = "submitting",
                                                        !.next = After(SubmitWait)]]
            /\ byAuth' = [byAuth EXCEPT ![AuthOf[j]] = j]
            /\ due' = due \cup {<<After(SubmitWait), j>>}
            /\ \/ gateway' = [gateway EXCEPT ![j] = "created"] /\ UNCHANGED faults
               \/ Fault /\ UNCHANGED gateway
    /\ UNCHANGED <<clock, settled, provider, poller>>

\* External: the provider takes the job; the gateway may stop before this.
Submit(j) ==
    /\ gateway[j] = "created"
    /\ gateway' = [gateway EXCEPT ![j] = "submitted"]
    /\ provider' = [provider EXCEPT ![j] = "running"]
    /\ UNCHANGED <<clock, job, byAuth, due, settled, poller, faults>>

\* Mutant: the new pointer is written before the old one is deleted.
RequeueWriteFirst(j, old, new) == (due \cup {<<new, j>>}) \ {<<old, j>>}

\* Delete the old pointer, then write the new one.
Requeue(j, old, new) == (due \ {<<old, j>>}) \cup {<<new, j>>}

\* mark_video_job_queued, again after a lost answer.
Queued(j) ==
    /\ gateway[j] = "submitted"
    /\ LET was == job[j]
           status == IF was.status = "submitting" THEN "pending" ELSE was.status
       IN  /\ job' = [job EXCEPT ![j] = [was EXCEPT !.status = status, !.queued = TRUE,
                                                    !.next = After(PollWait)]]
           /\ due' = Requeue(j, was.next, After(PollWait))
    /\ \/ gateway' = [gateway EXCEPT ![j] = "queued"] /\ UNCHANGED faults
       \/ Fault /\ UNCHANGED gateway
    /\ UNCHANGED <<clock, byAuth, settled, provider, poller>>

----------------------------------------------------------------------------
(* Pollers.                                                                *)

\* _is_due.
IsDue(j) ==
    /\ job[j].status \in Pollable \/ (job[j].status = "completed" /\ ~job[j].cleaned)
    /\ job[j].next <= clock
    /\ job[j].until <= clock

\* claim_video_jobs: the pointer is read first, the job again in a
\* transaction.
Claim(p, j) ==
    /\ poller[p] = Idle
    /\ \E t \in 0 .. clock : <<t, j>> \in due
    /\ IsDue(j)
    /\ job' = [job EXCEPT ![j].owner = p, ![j].until = After(Lease)]
    /\ poller' = [poller EXCEPT ![p] = [at |-> "polling", job |-> j,
                                        status |-> job[j].status,
                                        id |-> job[j].queued]]
    /\ UNCHANGED <<clock, byAuth, due, settled, gateway, provider, faults>>

\* External: what the poller decides from the job it claimed.  A submission
\* that never came fails; a finished job is settled, and the winner of that
\* settlement has its generation.
Poll(p) ==
    /\ poller[p].at = "polling"
    /\ LET t == poller[p]
           j == t.job
           Says(status, gen) == [at |-> "update", job |-> j, status |-> status, gen |-> gen]
       IN  \/ /\ t.status = "completed"
              /\ poller' = [poller EXCEPT ![p] = [at |-> "clean", job |-> j]]
              /\ UNCHANGED settled
           \/ /\ t.status # "completed" /\ t.id /\ provider[j] = "running"
              /\ poller' = [poller EXCEPT ![p] = Says("in_progress", FALSE)]
              /\ UNCHANGED settled
           \/ /\ t.status # "completed"
              /\ ~t.id \/ provider[j] = "broken"
              /\ poller' = [poller EXCEPT ![p] = Says("failed", FALSE)]
              /\ settled' = settled \cup {AuthOf[j]}
           \/ /\ t.status # "completed" /\ t.id /\ provider[j] = "done"
              /\ poller' = [poller EXCEPT ![p] =
                               Says("completed", AuthOf[j] \notin settled)]
              /\ settled' = settled \cup {AuthOf[j]}
    /\ UNCHANGED <<clock, job, byAuth, due, gateway, provider, faults>>

\* Terminal jobs take no update.
Closed(j) == job[j].status \in Terminal

\* update_video_job.
Update(p) ==
    /\ poller[p].at = "update"
    /\ LET t == poller[p]
           j == t.job
           was == job[j]
           refused == was.owner \notin {None, p}
           repairs == was.status = "completed" /\ t.status = "completed" /\ t.gen
           expires == IF was.expires = 0 THEN After(Retention) ELSE was.expires
           next == CASE t.status = "in_progress" -> After(PollWait)
                     [] t.status = "completed" /\ ~was.cleaned -> expires
                     [] OTHER -> was.next
           now == [was EXCEPT !.status = t.status, !.generation = @ \/ t.gen,
                              !.owner = None, !.until = 0, !.next = next,
                              !.expires = IF t.status = "completed" THEN expires ELSE @]
       IN  CASE refused -> UNCHANGED <<job, due>>
             [] ~refused /\ Closed(j) ->
                    /\ job' = IF repairs THEN [job EXCEPT ![j].generation = TRUE] ELSE job
                    /\ UNCHANGED due
             [] OTHER ->
                    /\ job' = [job EXCEPT ![j] = now]
                    /\ due' = IF t.status = "failed" \/ was.cleaned
                              THEN due \ {<<was.next, j>>}
                              ELSE Requeue(j, was.next, next)
    /\ poller' = [poller EXCEPT ![p] = Idle]
    /\ UNCHANGED <<clock, byAuth, settled, gateway, provider, faults>>

\* mark_video_job_cleaned.
MarkCleaned(p) ==
    /\ poller[p].at = "clean"
    /\ LET j == poller[p].job IN
         IF job[j].cleaned THEN UNCHANGED <<job, due>>
         ELSE /\ job' = [job EXCEPT ![j].cleaned = TRUE, ![j].owner = None, ![j].until = 0]
              /\ due' = due \ {<<job[j].next, j>>}
    /\ poller' = [poller EXCEPT ![p] = Idle]
    /\ UNCHANGED <<clock, byAuth, settled, gateway, provider, faults>>

PollerDies(p) ==
    /\ poller[p] # Idle
    /\ Fault
    /\ poller' = [poller EXCEPT ![p] = Idle]
    /\ UNCHANGED <<clock, job, byAuth, due, settled, gateway, provider>>

ProviderEnds(j) ==
    /\ provider[j] = "running"
    /\ \E end \in {"done", "broken"} : provider' = [provider EXCEPT ![j] = end]
    /\ UNCHANGED <<clock, job, byAuth, due, settled, gateway, poller, faults>>

Tick ==
    /\ clock < MaxTime
    /\ clock' = clock + 1
    /\ UNCHANGED <<job, byAuth, due, settled, gateway, provider, poller, faults>>

----------------------------------------------------------------------------
Init ==
    /\ clock = 0
    /\ job = [j \in Jobs |-> NoJob]
    /\ byAuth = [a \in Auths |-> None]
    /\ due = {}
    /\ settled = {}
    /\ gateway = [j \in Jobs |-> "idle"]
    /\ provider = [j \in Jobs |-> "none"]
    /\ poller = [p \in Pollers |-> Idle]
    /\ faults = 0

Next ==
    \/ \E j \in Jobs : Prepare(j) \/ Submit(j) \/ Queued(j) \/ ProviderEnds(j)
    \/ \E p \in Pollers :
          \/ \E j \in Jobs : Claim(p, j)
          \/ Poll(p) \/ Update(p) \/ MarkCleaned(p) \/ PollerDies(p)
    \/ Tick

Spec == Init /\ [][Next]_vars

----------------------------------------------------------------------------
Horizon == MaxTime + SubmitWait + PollWait + Retention + Lease

(* The types: every status with the fields it may have.                    *)
TypeOK ==
    /\ clock \in 0 .. MaxTime
    /\ job \in [Jobs -> [status : Pollable \cup Terminal \cup {"none"},
                         next : 0 .. Horizon, owner : Pollers \cup {None},
                         until : 0 .. Horizon, queued : BOOLEAN, generation : BOOLEAN,
                         cleaned : BOOLEAN, expires : 0 .. Horizon]]
    /\ byAuth \in [Auths -> Jobs \cup {None}]
    /\ due \subseteq (0 .. Horizon) \X Jobs
    /\ settled \subseteq Auths
    /\ \A j \in Jobs : gateway[j] \in {"idle", "created", "refused", "submitted", "queued"}
    /\ faults \in 0 .. MaxFaults

(* A job that has still to be polled or cleaned up is in the queue at the  *)
(* time it says, and once: no order of claims, updates and late queue      *)
(* calls drops it out of the queue.                                        *)
NothingForgotten == \A j \in Jobs :
    job[j].status \in Pollable \/ (job[j].status = "completed" /\ ~job[j].cleaned) =>
        {t \in 0 .. Horizon : <<t, j>> \in due} = {job[j].next}

(* One authorization is submitted to a provider once, whatever the         *)
(* gateways' retries.                                                      *)
SubmittedOnce == \A a \in Auths :
    Cardinality({j \in Jobs : AuthOf[j] = a /\ provider[j] # "none"}) <= 1

=============================================================================

------------------------------ MODULE PrintQueue ------------------------------
(***************************************************************************)
(* The print queue (app/routers/peripherals.py): staff submit print jobs   *)
(* and correct their status, device agents claim a job under a lease,      *)
(* report on it with the token of the lease, and lose it when the lease    *)
(* expires.                                                                *)
(*                                                                         *)
(* Every handler here runs in the thread pool, reads, decides and commits  *)
(* once, without locks: a report is a Begin and an End step, a claim reads *)
(* twice before its End step, with anything in between when Overlap.  The  *)
(* handlers of staff decide on nothing they read and are one step.  A      *)
(* request that is refused at its start is no step.                        *)
(*                                                                         *)
(* Time passes in ticks.  An expiry date is kept as the ticks left until   *)
(* then, a heartbeat as the ticks since, so that time is unbounded.        *)
(***************************************************************************)
EXTENDS Integers, SequencesExt

CONSTANTS
    Devices,            \* peripheral devices
    Agents, DeviceOf,   \* device agents (external programs), and the device of each one's token
    Tokens,             \* lease tokens; one that nobody refers to any more may be drawn again
    None,               \* no lease, no job
    LeaseTime,          \* lease_seconds of every claim, in ticks
    MaxJobs,            \* bound: jobs ever submitted
    MaxRetries,         \* bound: retry_count of a job
    StaffStatuses,      \* statuses that staff give to a job by hand
    Switchable,         \* the devices that staff switch off and on
    AgentStatuses,      \* statuses that agents report
    Overlap             \* may agents' requests be in flight at the same time?

ASSUME QueueConstants ==
    /\ DeviceOf \in [Agents -> Devices]
    /\ None \notin Tokens \cup Nat
    /\ LeaseTime \in Nat \ {0}
    /\ {MaxJobs, MaxRetries} \subseteq Nat
    /\ Overlap \in BOOLEAN

VARIABLES
    jobs,       \* print_jobs, oldest first; a job's id is its position
    leases,     \* print_job_leases by job (job_id is unique)
    active,     \* the devices with is_active
    holding,    \* the job and lease that each agent works with
    request     \* what each agent's running request has read and is about to write

vars == <<jobs, leases, active, holding, request>>

-----------------------------------------------------------------------------
JobIds == 1 .. MaxJobs
Statuses == {"queued", "processing", "completed", "failed"}
ASSUME RequestedStatuses == StaffStatuses \cup AgentStatuses \subseteq Statuses

Ticks == 0 .. LeaseTime

Job == [device : Devices, status : Statuses, retries : 0 .. MaxRetries]

\* left: ticks until expires_at; silent: ticks since heartbeat_at.
Lease == [token : Tokens, left : Ticks, silent : Ticks]

\* What the answer to a claim tells the agent (AgentJobLeaseRead).
Held == [job : JobIds, token : Tokens, left : Ticks]

ASSUME NoneIsNoRow == None \notin Lease \cup Held

Idle == [op |-> "idle"]

\* A claim that has read the leases that are over, and one that has also read
\* the queue and drawn a token.
Sweep ==
    [op : {"sweep"}, left : Ticks, expired : SUBSET (JobIds \X Tokens), requeued : SUBSET JobIds]

Claim ==
    [op : {"claim"}, left : Ticks, expired : SUBSET (JobIds \X Tokens), requeued : SUBSET JobIds,
     job : JobIds \cup {None}, token : Tokens]

Report ==
    [op : {"report"}, from : Statuses, to : AgentStatuses, retries : 0 .. MaxRetries]

-----------------------------------------------------------------------------
\* The rows of the leases that are over, as pairs of job and token.
Expired ==
    {x \in JobIds \X Tokens :
        leases[x[1]] # None /\ leases[x[1]].token = x[2] /\ leases[x[1]].left = 0}

Queued(d) == {j \in DOMAIN jobs : jobs[j].device = d /\ jobs[j].status = "queued"}

Oldest(S) == {j \in S : \A i \in S : j <= i}

NextJobsAtHead(d) ==
    {IF j \in Queued(d) THEN j ELSE None : j \in Oldest({i \in DOMAIN jobs : jobs[i].device = d})}

\* The job a claim goes for: the oldest that is queued in the database.  A job
\* that the same request is about to requeue is not flushed yet (autoflush is
\* off), and found only when another request has queued it.
NextJobs(d) == IF Queued(d) = {} THEN {None} ELSE Oldest(Queued(d))

InUse ==
    {leases[j].token : j \in {i \in JobIds : leases[i] # None}}
    \cup {holding[a].token : a \in {b \in Agents : holding[b] # None}}
    \cup {request[a].token : a \in {b \in Agents : request[b].op = "claim"}}
    \cup UNION {{x[2] : x \in request[a].expired} :
                    a \in {b \in Agents : request[b].op \in {"sweep", "claim"}}}

FreshToken == CHOOSE t \in Tokens : t \notin InUse

WithStatus(S, s) ==
    [j \in DOMAIN jobs |-> IF j \in S THEN [jobs[j] EXCEPT !.status = s] ELSE jobs[j]]

SweptByJob(gone) ==
    [j \in JobIds |-> IF j \in {x[1] : x \in gone} THEN None ELSE leases[j]]

\* Rows are deleted by their own id: what replaced them stays.
Swept(gone) ==
    [j \in JobIds |->
        IF leases[j] # None /\ <<j, leases[j].token>> \in gone THEN None ELSE leases[j]]

Ends(a) == request' = [request EXCEPT ![a] = Idle]

\* An agent has one request at a time.
Starts(a, read) ==
    /\ request[a] = Idle
    /\ Overlap \/ \A b \in Agents : request[b] = Idle
    /\ request' = [request EXCEPT ![a] = read]

-----------------------------------------------------------------------------
(* Agents.                                                                 *)

\* POST /agent/jobs/claim, the first read: the leases that are over, and which
\* of their jobs are in process.
BeginClaim(a) ==
    /\ holding[a] = None
    /\ DeviceOf[a] \in active
    /\ Starts(a, [op |-> "sweep", left |-> LeaseTime, expired |-> Expired,
                  requeued |-> {x[1] : x \in {y \in Expired : jobs[y[1]].status = "processing"}}])
    /\ UNCHANGED <<jobs, leases, active, holding>>

\* The second read: the job to claim.
FindJob(a) ==
    /\ request[a].op = "sweep"
    /\ \E t \in Tokens : t \notin InUse
    /\ \E j \in NextJobs(DeviceOf[a]) :
          request' = [request EXCEPT ![a] =
              [op |-> "claim", left |-> request[a].left, expired |-> request[a].expired,
               requeued |-> request[a].requeued, job |-> j, token |-> FreshToken]]
    /\ UNCHANGED <<jobs, leases, active, holding>>

CommitSweepForgotten(a) ==
    /\ request[a].op = "claim"
    /\ request[a].job = None
    /\ Ends(a)
    /\ UNCHANGED <<jobs, leases, active, holding>>

\* The commit of a claim that found no job: the expired leases go (those that
\* are still there), their jobs are queued again, the agent gets a 404.
CommitSweep(a) ==
    /\ request[a].op = "claim"
    /\ request[a].job = None
    /\ jobs' = WithStatus(request[a].requeued, "queued")
    /\ leases' = Swept(request[a].expired)
    /\ Ends(a)
    /\ UNCHANGED <<active, holding>>

\* What a claim of q.job writes.  Of a job that this request has itself queued
\* again, in memory, the status is back to what was read, and is not written.
Claimed(q) ==
    [j \in DOMAIN jobs |->
        IF j \in q.requeued \ {q.job} THEN [jobs[j] EXCEPT !.status = "queued"]
        ELSE IF j = q.job /\ j \notin q.requeued THEN [jobs[j] EXCEPT !.status = "processing"]
        ELSE jobs[j]]

CommitClaimTwice(a) ==
    /\ request[a].op = "claim"
    /\ request[a].job # None
    /\ LET q == request[a]
           j == q.job
       IN  /\ jobs' = Claimed(q)
           /\ leases' = [Swept(q.expired) EXCEPT
                            ![j] = [token |-> q.token, left |-> q.left, silent |-> LeaseTime - q.left]]
           /\ holding' = [holding EXCEPT ![a] = [job |-> j, token |-> q.token, left |-> q.left]]
    /\ Ends(a)
    /\ UNCHANGED active

\* The commit of a claim that found job j.  A flush inserts before it deletes,
\* so the new lease meets the unique index on job_id when any lease of j is
\* stored, even an expired one that this request is about to delete.
CommitClaim(a) ==
    /\ request[a].op = "claim"
    /\ request[a].job # None
    /\ LET q == request[a]
           j == q.job
       IN  /\ leases[j] = None
           /\ jobs' = Claimed(q)
           /\ leases' = [Swept(q.expired) EXCEPT
                            ![j] = [token |-> q.token, left |-> q.left, silent |-> LeaseTime - q.left]]
           /\ holding' = [holding EXCEPT ![a] = [job |-> j, token |-> q.token, left |-> q.left]]
    /\ Ends(a)
    /\ UNCHANGED active

\* The unique index refuses the lease: nothing is written, the expired leases
\* stay, the agent gets a 500.
RefuseClaim(a) ==
    /\ request[a].op = "claim"
    /\ request[a].job # None
    /\ leases[request[a].job] # None
    /\ Ends(a)
    /\ UNCHANGED <<jobs, leases, active, holding>>

\* PATCH /agent/jobs/{id} with status s, until the commit: the lease must be
\* there with the agent's token, and not be over.
BeginReport(a, s) ==
    /\ holding[a] # None
    /\ DeviceOf[a] \in active
    /\ LET j == holding[a].job
       IN  /\ leases[j] # None
           /\ leases[j].token = holding[a].token
           /\ leases[j].left > 0
           /\ s = "failed" => jobs[j].retries < MaxRetries
           /\ Starts(a, [op |-> "report", from |-> jobs[j].status, to |-> s,
                         retries |-> jobs[j].retries + (IF s = "failed" THEN 1 ELSE 0)])
    /\ UNCHANGED <<jobs, leases, active, holding>>

\* The status column is written when it differs from the one read; a failure
\* counts on from the retry count read.
Reported(j, q) ==
    [jobs EXCEPT ![j] =
        [device |-> jobs[j].device,
         status |-> IF q.to # q.from THEN q.to ELSE jobs[j].status,
         retries |-> IF q.to = "failed" THEN q.retries ELSE jobs[j].retries]]

CommitFinalKeepsLease(a) ==
    /\ request[a].op = "report"
    /\ request[a].to \in {"completed", "failed"}
    /\ jobs' = Reported(holding[a].job, request[a])
    /\ holding' = [holding EXCEPT ![a] = None]
    /\ Ends(a)
    /\ UNCHANGED <<leases, active>>

\* The commit of a final report deletes the lease, if it is still there.
CommitFinal(a) ==
    /\ request[a].op = "report"
    /\ request[a].to \in {"completed", "failed"}
    /\ jobs' = Reported(holding[a].job, request[a])
    /\ leases' = Swept({<<holding[a].job, holding[a].token>>})
    /\ holding' = [holding EXCEPT ![a] = None]
    /\ Ends(a)
    /\ UNCHANGED active

CommitHeartbeatStacks(a) ==
    /\ request[a].op = "report"
    /\ request[a].to \notin {"completed", "failed"}
    /\ LET j == holding[a].job
       IN  IF leases[j] # None /\ leases[j].token = holding[a].token
           THEN /\ jobs' = Reported(j, request[a])
                /\ leases' = [leases EXCEPT ![j].silent = 0, ![j].left = leases[j].left + LeaseTime]
           ELSE UNCHANGED <<jobs, leases>>
    /\ Ends(a)
    /\ UNCHANGED <<active, holding>>

\* The commit of a heartbeat (any other status) sets heartbeat_at, never
\* expires_at.  The update of a lease that is gone fails, and nothing is written.
CommitHeartbeat(a) ==
    /\ request[a].op = "report"
    /\ request[a].to \notin {"completed", "failed"}
    /\ LET j == holding[a].job
       IN  IF leases[j] # None /\ leases[j].token = holding[a].token
           THEN /\ jobs' = Reported(j, request[a])
                /\ leases' = [leases EXCEPT ![j].silent = 0]
           ELSE UNCHANGED <<jobs, leases>>
    /\ Ends(a)
    /\ UNCHANGED <<active, holding>>

\* The agent gives up: it crashed, it was refused, or it never got the answer.
Abandon(a) ==
    /\ holding[a] # None
    /\ request[a] = Idle
    /\ holding' = [holding EXCEPT ![a] = None]
    /\ UNCHANGED <<jobs, leases, active, request>>

\* The API process dies, or the database does: the request has no effect.
FailRequest(a) ==
    /\ request[a] # Idle
    /\ Ends(a)
    /\ UNCHANGED <<jobs, leases, active, holding>>

-----------------------------------------------------------------------------
(* Staff, and time.                                                        *)

\* POST /jobs, and POST /orders/{id}/receipt.
CreateJob(d) ==
    /\ Len(jobs) < MaxJobs
    /\ d \in active
    /\ jobs' = Append(jobs, [device |-> d, status |-> "queued", retries |-> 0])
    /\ UNCHANGED <<leases, active, holding, request>>

\* PATCH /jobs/{id}: any status, whatever the job and its lease say.
UpdateJob(j, s) ==
    /\ s \in StaffStatuses
    /\ jobs' = [jobs EXCEPT ![j].status = s]
    /\ UNCHANGED <<leases, active, holding, request>>

\* PATCH /devices/{id} with is_active.
UpdateDevice(d) ==
    /\ d \in Switchable
    /\ active' = IF d \in active THEN active \ {d} ELSE active \cup {d}
    /\ UNCHANGED <<jobs, leases, holding, request>>

Less(n) == IF n > 0 THEN n - 1 ELSE 0
More(n) == IF n < LeaseTime THEN n + 1 ELSE LeaseTime

Tick ==
    /\ leases' = [j \in JobIds |->
          IF leases[j] = None THEN None
          ELSE [token |-> leases[j].token, left |-> Less(leases[j].left), silent |-> More(leases[j].silent)]]
    /\ holding' = [a \in Agents |->
          IF holding[a] = None THEN None
          ELSE [job |-> holding[a].job, token |-> holding[a].token, left |-> Less(holding[a].left)]]
    /\ request' = [a \in Agents |->
          IF request[a].op \in {"sweep", "claim"} THEN [request[a] EXCEPT !.left = Less(request[a].left)] ELSE request[a]]
    /\ UNCHANGED <<jobs, active>>

-----------------------------------------------------------------------------
Init ==
    /\ jobs = <<>>
    /\ leases = [j \in JobIds |-> None]
    /\ active = Devices
    /\ holding = [a \in Agents |-> None]
    /\ request = [a \in Agents |-> Idle]

EndClaim(a) == CommitSweep(a) \/ CommitClaim(a) \/ RefuseClaim(a)
EndReport(a) == CommitFinal(a) \/ CommitHeartbeat(a)

Next ==
    \/ \E a \in Agents :
          \/ BeginClaim(a) \/ FindJob(a) \/ CommitSweep(a) \/ CommitClaim(a) \/ RefuseClaim(a)
          \/ \E s \in AgentStatuses : BeginReport(a, s)
          \/ CommitFinal(a) \/ CommitHeartbeat(a)
          \/ Abandon(a) \/ FailRequest(a)
    \/ \E d \in Devices : CreateJob(d) \/ UpdateDevice(d)
    \/ \E j \in DOMAIN jobs, s \in StaffStatuses : UpdateJob(j, s)
    \/ Tick

\* Time passes.  Agents poll again and again and do not work on a job forever;
\* a request that is repeated again and again gets through in the end.
Fairness ==
    /\ WF_vars(Tick)
    /\ \A a \in Agents :
          /\ SF_vars(BeginClaim(a))
          /\ SF_vars(FindJob(a))
          /\ SF_vars(EndClaim(a))
          /\ SF_vars(EndReport(a))
          /\ WF_vars(Abandon(a))

Spec == Init /\ [][Next]_vars
FairSpec == Spec /\ Fairness

-----------------------------------------------------------------------------
(* Properties.                                                             *)

\* Type invariant.
TypeOK ==
    /\ jobs \in Seq(Job) /\ Len(jobs) <= MaxJobs
    /\ leases \in [JobIds -> Lease \cup {None}]
    /\ active \subseteq Devices
    /\ holding \in [Agents -> Held \cup {None}]
    /\ request \in [Agents -> Sweep \cup Claim \cup Report \cup {Idle}]

Working(a) == holding[a] # None /\ holding[a].left > 0

\* A lease that is not over stays the agent's: no claim, sweep or report of
\* another agent, however old what it has read, takes the row away or replaces it.
LeaseIsHonoured ==
    \A a \in Agents : Working(a) =>
        LET lease == leases[holding[a].job]
        IN  lease # None /\ lease.token = holding[a].token /\ lease.left = holding[a].left

\* While their leases run, two agents never work on the same job.
OneAgentPerJob ==
    \A a, b \in Agents : a # b /\ Working(a) /\ Working(b) => holding[a].job # holding[b].job

\* The abstract view of each job: its status, and the lease it is processed under.
State == [j \in JobIds |-> IF j \in DOMAIN jobs THEN jobs[j].status ELSE "absent"]
Ticket == [j \in JobIds |-> IF leases[j] = None THEN None ELSE leases[j].token]

Promise == INSTANCE PrintJobs WITH Tickets <- Tokens, state <- State, ticket <- Ticket

\* The queue keeps the promise of PrintJobs: a job is in process exactly while
\* it is leased, is given back or finished only from there, and stays finished.
\* It holds while requests do not overlap and staff leave the statuses alone.
KeepsPromise == Promise!Spec

InProcess(d) == {j \in DOMAIN jobs : jobs[j].device = d /\ jobs[j].status = "processing"}

\* A device with waiting jobs does not stay idle: some job gets into process.
\* It holds while staff do not requeue jobs by hand.
NoIdleDevice ==
    \A d \in Devices :
        (Queued(d) # {} /\ d \in active) ~> (InProcess(d) # {} \/ Queued(d) = {} \/ d \notin active)

\* No job is stuck in process: whatever becomes of its agent, the job is
\* finished or back in the queue in the end, unless no agent is let in any more.
NothingStuck ==
    \A j \in JobIds : State[j] = "processing" ~> State[j] # "processing" \/ active = {}

-----------------------------------------------------------------------------
(* What the documentation says, and the code does not do.                  *)

\* POS_PRODUCTION_BACKLOG.md:61, "Print jobs use a lease/heartbeat so two agents
\* cannot process the same job": no job is queued again under an agent whose
\* last heartbeat is younger than the lease.
HeartbeatKeepsJob ==
    [][\A a \in Agents :
         LET j == holding[a].job
         IN  holding[a] # None /\ leases[j] # None /\ leases[j].token = holding[a].token
               /\ leases[j].silent < LeaseTime
             => leases'[j] # None \/ jobs'[j].status # "queued"]_vars

=============================================================================

--------------------------- MODULE PrintQueueProofs ---------------------------
(***************************************************************************)
(* Theorems about the print queue, for any devices, agents, lease time and *)
(* bounds, with or without overlapping requests and staff's corrections:   *)
(* the types of its rows, and that leases are honoured whatever the        *)
(* requests in flight have read.                                           *)
(***************************************************************************)
EXTENDS PrintQueue, SequenceTheorems, TLAPS

-----------------------------------------------------------------------------
(* Types.                                                                  *)

LEMMA TicksCount ==
    /\ LeaseTime \in Ticks
    /\ \A n \in Ticks : Less(n) \in Ticks /\ More(n) \in Ticks /\ LeaseTime - n \in Ticks
  BY QueueConstants DEF Ticks, Less, More

LEMMA NextJobsAreJobs ==
    ASSUME TypeOK, NEW d, NEW j \in NextJobs(d)
    PROVE  j # None => j \in JobIds /\ j \in DOMAIN jobs /\ jobs[j].status = "queued"
<1>1. \A i \in DOMAIN jobs : i \in JobIds
  BY QueueConstants DEF TypeOK, JobIds
<1>2. j # None => j \in Queued(d)
  BY DEF NextJobs, Oldest
<1>3. QED
  BY <1>1, <1>2 DEF Queued

\* A drawn token is new to every row, agent and request.
LEMMA TokensAreFresh ==
    ASSUME \E t \in Tokens : t \notin InUse
    PROVE  FreshToken \in Tokens /\ FreshToken \notin InUse
  BY DEF FreshToken

LEMMA JobsAreFunctions ==
    \A js : js \in Seq(Job) <=> Len(js) \in Nat /\ js \in [1 .. Len(js) -> Job]
<1>1. ASSUME NEW js \in Seq(Job) PROVE Len(js) \in Nat /\ js \in [1 .. Len(js) -> Job]
  OBVIOUS
<1>2. ASSUME NEW js, Len(js) \in Nat, js \in [1 .. Len(js) -> Job] PROVE js \in Seq(Job)
  BY <1>2, SeqDef
<1>3. QED
  BY <1>1, <1>2

\* A function on the job ids in use is a sequence of the same length.
LEMMA SameLength ==
    ASSUME jobs \in Seq(Job), NEW js \in [1 .. Len(jobs) -> Job]
    PROVE  js \in Seq(Job) /\ Len(js) = Len(jobs) /\ DOMAIN js = DOMAIN jobs
<1>1. Len(jobs) \in Nat
  OBVIOUS
<1>2. js \in Seq(Job)
  BY <1>1, SeqDef
<1>3. QED
  BY <1>1, <1>2

LEMMA JobsTakeStatuses ==
    ASSUME NEW r \in Job, NEW s \in Statuses
    PROVE  [r EXCEPT !.status = s] \in Job
  BY DEF Job

LEMMA StatusesKeepJobs ==
    ASSUME jobs \in Seq(Job), NEW S, NEW s \in Statuses
    PROVE  WithStatus(S, s) \in [1 .. Len(jobs) -> Job]
<1>1. Len(jobs) \in Nat /\ jobs \in [1 .. Len(jobs) -> Job]
  BY JobsAreFunctions
<1>2. ASSUME NEW j \in 1 .. Len(jobs)
      PROVE  (IF j \in S THEN [jobs[j] EXCEPT !.status = s] ELSE jobs[j]) \in Job
  BY <1>1, JobsTakeStatuses
<1>3. QED
  BY <1>1, <1>2 DEF WithStatus

LEMMA SweepsKeepLeases ==
    ASSUME leases \in [JobIds -> Lease \cup {None}], NEW gone
    PROVE  Swept(gone) \in [JobIds -> Lease \cup {None}]
  BY DEF Swept

LEMMA ClaimsKeepJobs ==
    ASSUME jobs \in Seq(Job), NEW q
    PROVE  Claimed(q) \in [1 .. Len(jobs) -> Job]
<1>1. Len(jobs) \in Nat /\ jobs \in [1 .. Len(jobs) -> Job]
  BY JobsAreFunctions
<1>2. ASSUME NEW j \in 1 .. Len(jobs)
      PROVE  /\ jobs[j] \in Job
             /\ [jobs[j] EXCEPT !.status = "queued"] \in Job
             /\ [jobs[j] EXCEPT !.status = "processing"] \in Job
  BY <1>1, JobsTakeStatuses DEF Statuses
<1>3. QED
  BY <1>1, <1>2 DEF Claimed

LEMMA ReportsKeepJobs ==
    ASSUME jobs \in Seq(Job), NEW j, NEW q \in Report
    PROVE  Reported(j, q) \in [1 .. Len(jobs) -> Job]
<1>1. q.to \in Statuses /\ q.retries \in 0 .. MaxRetries
  BY RequestedStatuses DEF Report
<1>2. Len(jobs) \in Nat /\ jobs \in [1 .. Len(jobs) -> Job]
  BY JobsAreFunctions
<1>3. CASE j \notin 1 .. Len(jobs)
  BY <1>2, <1>3 DEF Reported
<1>4. CASE j \in 1 .. Len(jobs)
  <2> DEFINE s == IF q.to # q.from THEN q.to ELSE jobs[j].status
             n == IF q.to = "failed" THEN q.retries ELSE jobs[j].retries
             r == [device |-> jobs[j].device, status |-> s, retries |-> n]
  <2>1. jobs[j] \in Job
    BY <1>2, <1>4
  <2>2. r \in Job
    BY <1>1, <2>1 DEF Job
  <2>3. Reported(j, q) = [jobs EXCEPT ![j] = r]
    BY <1>2, <1>4, <2>1 DEF Reported, Job
  <2> HIDE DEF r
  <2>4. QED
    BY <1>2, <2>2, <2>3
<1>5. QED
  BY <1>3, <1>4

LEMMA RequestKinds ==
    ASSUME TypeOK, NEW a \in Agents
    PROVE  /\ request[a].op = "sweep" => request[a] \in Sweep
           /\ request[a].op = "claim" => request[a] \in Claim
           /\ request[a].op = "report" => request[a] \in Report
           /\ request[a] = Idle => request[a].op = "idle"
  BY DEF TypeOK, Sweep, Claim, Report, Idle

\* Leases are for jobs that exist, and so are claims: types alone are not
\* inductive, since a report reads the row of its lease's job.
JobsExist ==
    /\ \A j \in JobIds : leases[j] # None => j \in DOMAIN jobs
    /\ \A a \in Agents :
          request[a].op = "claim" /\ request[a].job # None => request[a].job \in DOMAIN jobs

Typed == TypeOK /\ JobsExist

LEMMA TypedSteps == Typed /\ [Next]_vars => Typed'
<1> SUFFICES ASSUME Typed, [Next]_vars PROVE Typed'
  OBVIOUS
<1> USE QueueConstants
<1>0. TypeOK /\ JobsExist /\ Len(jobs) \in Nat /\ jobs \in [1 .. Len(jobs) -> Job]
  BY JobsAreFunctions DEF Typed, TypeOK
<1>1. ASSUME NEW a \in Agents, BeginClaim(a) PROVE Typed'
  <2> DEFINE q == [op |-> "sweep", left |-> LeaseTime, expired |-> Expired,
                   requeued |-> {x[1] : x \in {y \in Expired : jobs[y[1]].status = "processing"}}]
  <2>1. request' = [request EXCEPT ![a] = q] /\ UNCHANGED <<jobs, leases, active, holding>>
    BY <1>1 DEF BeginClaim, Starts
  <2>2. /\ Expired \in SUBSET (JobIds \X Tokens)
        /\ {x[1] : x \in {y \in Expired : jobs[y[1]].status = "processing"}} \in SUBSET JobIds
    BY DEF Expired
  <2>3. q \in Sweep /\ q.op # "claim"
    BY <2>2, TicksCount DEF Sweep
  <2> HIDE DEF q
  <2>4. TypeOK'
    BY <1>0, <2>1, <2>3 DEF TypeOK
  <2>5. JobsExist'
    BY <1>0, <2>1, <2>3 DEF JobsExist, TypeOK
  <2>6. QED
    BY <2>4, <2>5 DEF Typed
<1>1a. ASSUME NEW a \in Agents, FindJob(a) PROVE Typed'
  <2>1. PICK j \in NextJobs(DeviceOf[a]) :
           request' = [request EXCEPT ![a] =
               [op |-> "claim", left |-> request[a].left, expired |-> request[a].expired,
                requeued |-> request[a].requeued, job |-> j, token |-> FreshToken]]
    BY <1>1a DEF FindJob
  <2>2. j # None => j \in JobIds /\ j \in DOMAIN jobs
    BY <1>0, NextJobsAreJobs
  <2>3. FreshToken \in Tokens
    BY <1>1a, TokensAreFresh DEF FindJob
  <2>4. request[a] \in Sweep
    BY <1>0, <1>1a, RequestKinds DEF FindJob
  <2>5. request'[a] \in Claim /\ request'[a].job = j
    BY <1>0, <2>1, <2>2, <2>3, <2>4 DEF Claim, Sweep, TypeOK
  <2>6. request' \in [Agents -> Sweep \cup Claim \cup Report \cup {Idle}]
    BY <1>0, <2>1, <2>5 DEF TypeOK
  <2>7. UNCHANGED <<jobs, leases, active, holding>>
    BY <1>1a DEF FindJob
  <2>8. TypeOK'
    BY <1>0, <2>6, <2>7 DEF TypeOK
  <2>9. JobsExist'
    BY <1>0, <2>1, <2>2, <2>5, <2>7 DEF JobsExist, TypeOK
  <2>10. QED
    BY <2>8, <2>9 DEF Typed
<1>2. ASSUME NEW a \in Agents, CommitSweep(a) PROVE Typed'
  <2>1. jobs' \in Seq(Job) /\ Len(jobs') = Len(jobs) /\ DOMAIN jobs' = DOMAIN jobs
    BY <1>0, <1>2, StatusesKeepJobs, SameLength DEF CommitSweep, TypeOK, Statuses
  <2>2. leases' \in [JobIds -> Lease \cup {None}]
    BY <1>0, <1>2, SweepsKeepLeases DEF CommitSweep, TypeOK
  <2>3. TypeOK'
    BY <1>0, <1>2, <2>1, <2>2 DEF CommitSweep, Ends, TypeOK
  <2>4. JobsExist'
    BY <1>0, <1>2, <2>1 DEF CommitSweep, Ends, Swept, JobsExist, TypeOK, Idle
  <2>5. QED
    BY <2>3, <2>4 DEF Typed
<1>3. ASSUME NEW a \in Agents, CommitClaim(a) PROVE Typed'
  <2> DEFINE q == request[a]
  <2>1. q \in Claim
    BY <1>0, <1>3, RequestKinds DEF CommitClaim
  <2>2. /\ q.job \in JobIds /\ q.token \in Tokens /\ q.left \in Ticks /\ LeaseTime - q.left \in Ticks
        /\ q.job \in DOMAIN jobs
    BY <1>0, <1>3, <2>1, TicksCount DEF Claim, CommitClaim, JobsExist
  <2>3. jobs' \in [1 .. Len(jobs) -> Job]
    BY <1>0, <1>3, ClaimsKeepJobs DEF CommitClaim, TypeOK
  <2>7. jobs' \in Seq(Job) /\ Len(jobs') = Len(jobs) /\ DOMAIN jobs' = DOMAIN jobs
    BY <1>0, <2>3, SameLength DEF TypeOK
  <2>8. leases' \in [JobIds -> Lease \cup {None}]
    BY <1>0, <1>3, <2>2, SweepsKeepLeases DEF CommitClaim, TypeOK, Lease
  <2>9. holding' \in [Agents -> Held \cup {None}]
    BY <1>0, <1>3, <2>2 DEF CommitClaim, TypeOK, Held
  <2>10. TypeOK'
    BY <1>0, <1>3, <2>7, <2>8, <2>9 DEF CommitClaim, Ends, TypeOK
  <2>11. JobsExist'
    BY <1>0, <1>3, <2>2, <2>7 DEF CommitClaim, Ends, Swept, JobsExist, TypeOK, Idle
  <2>12. QED
    BY <2>10, <2>11 DEF Typed
<1>4. ASSUME NEW a \in Agents, RefuseClaim(a) PROVE Typed'
  BY <1>0, <1>4 DEF RefuseClaim, Ends, Typed, TypeOK, JobsExist, Idle
<1>5. ASSUME NEW a \in Agents, NEW s \in AgentStatuses, BeginReport(a, s) PROVE Typed'
  <2> DEFINE j == holding[a].job
             n == jobs[j].retries + (IF s = "failed" THEN 1 ELSE 0)
             q == [op |-> "report", from |-> jobs[j].status, to |-> s, retries |-> n]
  <2>1. holding[a] \in Held
    BY <1>0, <1>5 DEF BeginReport, TypeOK
  <2>2. jobs[j] \in Job
    BY <1>0, <1>5, <2>1 DEF BeginReport, JobsExist, Held
  <2>3. n \in 0 .. MaxRetries
    BY <1>5, <2>2 DEF BeginReport, Job
  <2>4. q \in Report
    BY <2>2, <2>3 DEF Report, Job
  <2>5. request' = [request EXCEPT ![a] = q] /\ UNCHANGED <<jobs, leases, active, holding>>
    BY <1>5 DEF BeginReport, Starts
  <2>6. q.op # "claim"
    OBVIOUS
  <2> HIDE DEF q
  <2>7. TypeOK'
    BY <1>0, <2>4, <2>5 DEF TypeOK
  <2>8. JobsExist'
    BY <1>0, <2>5, <2>6 DEF JobsExist, TypeOK
  <2>9. QED
    BY <2>7, <2>8 DEF Typed
<1>6. ASSUME NEW a \in Agents, CommitFinal(a) PROVE Typed'
  <2>1. jobs' \in Seq(Job) /\ Len(jobs') = Len(jobs) /\ DOMAIN jobs' = DOMAIN jobs
    BY <1>0, <1>6, RequestKinds, ReportsKeepJobs, SameLength DEF CommitFinal, TypeOK
  <2>2. leases' \in [JobIds -> Lease \cup {None}]
    BY <1>0, <1>6, SweepsKeepLeases DEF CommitFinal, TypeOK
  <2>3. TypeOK'
    BY <1>0, <1>6, <2>1, <2>2 DEF CommitFinal, Ends, TypeOK
  <2>4. JobsExist'
    BY <1>0, <1>6, <2>1 DEF CommitFinal, Ends, Swept, JobsExist, TypeOK, Idle
  <2>5. QED
    BY <2>3, <2>4 DEF Typed
<1>7. ASSUME NEW a \in Agents, CommitHeartbeat(a) PROVE Typed'
  <2>1. jobs' \in Seq(Job) /\ Len(jobs') = Len(jobs) /\ DOMAIN jobs' = DOMAIN jobs
    BY <1>0, <1>7, RequestKinds, ReportsKeepJobs, SameLength DEF CommitHeartbeat, TypeOK
  <2>2. leases' \in [JobIds -> Lease \cup {None}]
    <3> DEFINE j == holding[a].job
    <3>1. leases \in [JobIds -> Lease \cup {None}] /\ 0 \in Ticks
      BY <1>0, QueueConstants DEF TypeOK, Ticks
    <3>2. CASE UNCHANGED leases
      BY <3>1, <3>2
    <3>3. CASE leases[j] # None /\ leases' = [leases EXCEPT ![j].silent = 0]
      <4>1. ASSUME NEW l \in Lease PROVE [l EXCEPT !.silent = 0] \in Lease
        BY <3>1 DEF Lease
      <4> HIDE DEF j
      <4>2. QED
        BY <3>1, <3>3, <4>1
    <3>4. QED
      BY <1>7, <3>2, <3>3 DEF CommitHeartbeat
  <2>3. \A j \in JobIds : leases'[j] # None => leases[j] # None
    BY <1>0, <1>7 DEF CommitHeartbeat, TypeOK
  <2>4. TypeOK'
    BY <1>0, <1>7, <2>1, <2>2 DEF CommitHeartbeat, Ends, TypeOK
  <2>5. JobsExist'
    BY <1>0, <1>7, <2>1, <2>3 DEF CommitHeartbeat, Ends, JobsExist, TypeOK, Idle
  <2>6. QED
    BY <2>4, <2>5 DEF Typed
<1>8. ASSUME NEW a \in Agents, Abandon(a) \/ FailRequest(a) PROVE Typed'
  <2>1. CASE Abandon(a)
    BY <1>0, <2>1 DEF Abandon, Typed, TypeOK, JobsExist, Idle
  <2>2. CASE FailRequest(a)
    BY <1>0, <2>2 DEF FailRequest, Ends, Typed, TypeOK, JobsExist, Idle
  <2>3. QED
    BY <1>8, <2>1, <2>2
<1>9. ASSUME NEW d \in Devices, CreateJob(d) PROVE Typed'
  <2> DEFINE r == [device |-> d, status |-> "queued", retries |-> 0]
  <2>1. r \in Job
    BY DEF Job, Statuses
  <2>2. jobs' = Append(jobs, r) /\ Len(jobs) < MaxJobs /\ UNCHANGED <<leases, active, holding, request>>
    BY <1>9 DEF CreateJob
  <2> HIDE DEF r
  <2>3. jobs' \in Seq(Job) /\ Len(jobs') = Len(jobs) + 1
    BY <1>0, <2>1, <2>2 DEF TypeOK
  <2>4. DOMAIN jobs \subseteq DOMAIN jobs'
    BY <1>0, <2>1, <2>2 DEF TypeOK
  <2>5. TypeOK'
    BY <1>0, <2>2, <2>3 DEF TypeOK
  <2>6. JobsExist'
    BY <1>0, <2>2, <2>4 DEF JobsExist
  <2>7. QED
    BY <2>5, <2>6 DEF Typed
<1>10. ASSUME NEW d \in Devices, UpdateDevice(d) PROVE Typed'
  BY <1>0, <1>10 DEF UpdateDevice, Typed, TypeOK, JobsExist
<1>11. ASSUME NEW j \in DOMAIN jobs, NEW s \in StaffStatuses, UpdateJob(j, s) PROVE Typed'
  <2>1. [jobs[j] EXCEPT !.status = s] \in Job
    BY <1>0, RequestedStatuses, JobsTakeStatuses
  <2>2. jobs' \in [1 .. Len(jobs) -> Job]
    BY <1>0, <1>11, <2>1 DEF UpdateJob
  <2>3. jobs' \in Seq(Job) /\ Len(jobs') = Len(jobs) /\ DOMAIN jobs' = DOMAIN jobs
    BY <1>0, <2>2, SameLength DEF TypeOK
  <2>4. QED
    BY <1>0, <1>11, <2>3 DEF UpdateJob, Typed, TypeOK, JobsExist
<1>12. ASSUME Tick PROVE Typed'
  <2>1. leases' \in [JobIds -> Lease \cup {None}]
    BY <1>0, <1>12, TicksCount DEF Tick, TypeOK, Lease
  <2>2. holding' \in [Agents -> Held \cup {None}]
    BY <1>0, <1>12, TicksCount DEF Tick, TypeOK, Held
  <2>3. ASSUME NEW a \in Agents PROVE request'[a] \in Sweep \cup Claim \cup Report \cup {Idle}
    <3>1. CASE request[a].op = "sweep"
      BY <1>0, <1>12, <3>1, RequestKinds, TicksCount DEF Tick, Sweep
    <3>2. CASE request[a].op = "claim"
      BY <1>0, <1>12, <3>2, RequestKinds, TicksCount DEF Tick, Claim
    <3>3. CASE request[a].op \notin {"sweep", "claim"}
      BY <1>0, <1>12, <3>3 DEF Tick, TypeOK
    <3>4. QED
      BY <3>1, <3>2, <3>3
  <2>4. TypeOK'
    BY <1>0, <1>12, <2>1, <2>2, <2>3 DEF Tick, TypeOK
  <2>5. ASSUME NEW a \in Agents, request'[a].op = "claim"
        PROVE  request[a].op = "claim" /\ request'[a].job = request[a].job
    <3>1. request[a].op \in {"sweep", "claim"} => request'[a] = [request[a] EXCEPT !.left = Less(request[a].left)]
      BY <1>12 DEF Tick
    <3>2. request[a].op \notin {"sweep", "claim"} => request'[a] = request[a]
      BY <1>12 DEF Tick
    <3>3. request[a].op = "sweep" => request'[a].op = "sweep"
      BY <1>0, <3>1, RequestKinds DEF Sweep
    <3>4. request[a].op = "claim" => request'[a].job = request[a].job
      BY <1>0, <3>1, RequestKinds DEF Claim
    <3>5. QED
      BY <2>5, <3>2, <3>3, <3>4
  <2>6. JobsExist'
    BY <1>0, <1>12, <2>5 DEF Tick, JobsExist
  <2>7. QED
    BY <2>4, <2>6 DEF Typed
<1>13. CASE UNCHANGED vars
  BY <1>0, <1>13 DEF vars, Typed, TypeOK, JobsExist
<1>14. QED
  BY <1>1, <1>1a, <1>2, <1>3, <1>4, <1>5, <1>6, <1>7, <1>8, <1>9, <1>10, <1>11, <1>12, <1>13 DEF Next

LEMMA TypedAlways == Spec => []Typed
<1>1. Init => Typed
  BY QueueConstants DEF Init, Typed, TypeOK, JobsExist, JobIds, Idle
<1>2. QED
  BY <1>1, TypedSteps, PTL DEF Spec

\* Type correctness of rows, leases, agents and requests, under every step.
THEOREM TypesHold == Spec => []TypeOK
<1>1. Typed => TypeOK
  BY DEF Typed
<1>2. QED
  BY <1>1, TypedAlways, PTL

-----------------------------------------------------------------------------
(* Leases are honoured.  What a claim has read grows stale while it runs:  *)
(* other claims commit, agents report, leases run out.  The proof is that  *)
(* tokens tell the rows apart: the token a claim is about to store is      *)
(* nowhere else, so a row that a claim deletes is still the row it read,   *)
(* and that one is over for good.                                          *)

Claiming(a) == request[a].op = "claim"
Sweeping(a) == request[a].op \in {"sweep", "claim"}

HoldersDiffer ==
    \A a, b \in Agents :
        a # b /\ holding[a] # None /\ holding[b] # None => holding[a].token # holding[b].token

FreshClaims ==
    \A a \in Agents : Claiming(a) =>
        /\ \A j \in JobIds : leases[j] # None => leases[j].token # request[a].token
        /\ \A b \in Agents : holding[b] # None => holding[b].token # request[a].token
        /\ \A b \in Agents : Claiming(b) /\ b # a => request[b].token # request[a].token
        /\ \A b \in Agents : Sweeping(b) => \A x \in request[b].expired : x[2] # request[a].token

ExpiredIsOver ==
    \A a \in Agents : Sweeping(a) =>
        \A x \in request[a].expired :
            leases[x[1]] # None /\ leases[x[1]].token = x[2] => leases[x[1]].left = 0

ReportersHold == \A a \in Agents : request[a].op = "report" => holding[a] # None

Honest == LeaseIsHonoured /\ HoldersDiffer /\ FreshClaims /\ ExpiredIsOver /\ ReportersHold

LEMMA EndsOneRequest ==
    ASSUME TypeOK, NEW a \in Agents, Ends(a)
    PROVE  /\ request'[a].op = "idle"
           /\ \A b \in Agents : b # a => request'[b] = request[b]
  BY DEF TypeOK, Ends, Idle

LEMMA ExpiredAreJobs ==
    ASSUME TypeOK, NEW a \in Agents, Sweeping(a), NEW x \in request[a].expired
    PROVE  x[1] \in JobIds
  BY RequestKinds DEF Sweeping, Sweep, Claim

\* Ending a request, while rows only disappear and those that stay keep token
\* and time, leaves what claims know true.
LEMMA ClaimsStayTrue ==
    ASSUME TypeOK, FreshClaims, ExpiredIsOver, NEW a \in Agents, Ends(a),
           \A j \in JobIds : leases'[j] # None =>
               leases[j] # None /\ leases'[j].token = leases[j].token /\ leases'[j].left = leases[j].left,
           \A b \in Agents : holding'[b] # None => holding[b] = holding'[b]
    PROVE  FreshClaims' /\ ExpiredIsOver'
<1>1. \A b \in Agents :
          /\ Claiming(b)' => Claiming(b) /\ request'[b] = request[b]
          /\ Sweeping(b)' => Sweeping(b) /\ request'[b] = request[b]
  BY EndsOneRequest DEF Claiming, Sweeping
<1>2. FreshClaims'
  BY <1>1 DEF FreshClaims
<1>3. \A b \in Agents : Sweeping(b) => \A x \in request[b].expired : x[1] \in JobIds
  BY ExpiredAreJobs
<1>4. ExpiredIsOver'
  BY <1>1, <1>3 DEF ExpiredIsOver
<1>5. QED
  BY <1>2, <1>4

LEMMA HonestSteps == Typed /\ Honest /\ [Next]_vars => Honest'
<1> SUFFICES ASSUME Typed, Honest, [Next]_vars PROVE Honest'
  OBVIOUS
<1> USE QueueConstants
<1>0. TypeOK /\ LeaseIsHonoured /\ HoldersDiffer /\ FreshClaims /\ ExpiredIsOver /\ ReportersHold
  BY DEF Typed, Honest
<1>1. ASSUME NEW a \in Agents, BeginClaim(a) PROVE Honest'
  <2> DEFINE q == [op |-> "sweep", left |-> LeaseTime, expired |-> Expired,
                   requeued |-> {x[1] : x \in {y \in Expired : jobs[y[1]].status = "processing"}}]
  <2>1. request' = [request EXCEPT ![a] = q] /\ UNCHANGED <<jobs, leases, active, holding>>
    BY <1>1 DEF BeginClaim, Starts
  <2>2. q.op = "sweep" /\ q.expired = Expired
    OBVIOUS
  <2> HIDE DEF q
  <2>3. /\ request'[a].op = "sweep" /\ request'[a].expired = Expired
        /\ \A b \in Agents : b # a => request'[b] = request[b]
    BY <1>0, <2>1, <2>2 DEF TypeOK
  <2>4. \A x \in Expired :
            x[1] \in JobIds /\ leases[x[1]] # None /\ leases[x[1]].token = x[2] /\ leases[x[1]].left = 0
    BY DEF Expired
  <2>5. \A x \in Expired : \A b \in Agents : Claiming(b) => x[2] # request[b].token
    BY <1>0, <2>4 DEF FreshClaims
  <2>6. \A b \in Agents :
            /\ Claiming(b)' => b # a /\ Claiming(b) /\ request'[b] = request[b]
            /\ Sweeping(b)' /\ b # a => Sweeping(b) /\ request'[b] = request[b]
    BY <2>3 DEF Claiming, Sweeping
  <2>7. FreshClaims'
    BY <1>0, <2>1, <2>3, <2>5, <2>6 DEF FreshClaims
  <2>8. ExpiredIsOver'
    BY <1>0, <2>1, <2>3, <2>4, <2>6 DEF ExpiredIsOver
  <2>9. ReportersHold'
    BY <1>0, <2>1, <2>3 DEF ReportersHold
  <2>10. LeaseIsHonoured' /\ HoldersDiffer'
    BY <1>0, <2>1 DEF LeaseIsHonoured, Working, HoldersDiffer
  <2>11. QED
    BY <2>7, <2>8, <2>9, <2>10 DEF Honest
<1>1a. ASSUME NEW a \in Agents, FindJob(a) PROVE Honest'
  <2>1. PICK j \in NextJobs(DeviceOf[a]) :
           request' = [request EXCEPT ![a] =
               [op |-> "claim", left |-> request[a].left, expired |-> request[a].expired,
                requeued |-> request[a].requeued, job |-> j, token |-> FreshToken]]
    BY <1>1a DEF FindJob
  <2>2. FreshToken \in Tokens /\ FreshToken \notin InUse
    BY <1>1a, TokensAreFresh DEF FindJob
  <2>3. UNCHANGED <<jobs, leases, active, holding>> /\ Sweeping(a)
    BY <1>1a DEF FindJob, Sweeping
  <2>4. /\ request'[a].op = "claim" /\ request'[a].token = FreshToken
        /\ request'[a].expired = request[a].expired
        /\ \A b \in Agents : b # a => request'[b] = request[b]
    BY <1>0, <2>1 DEF TypeOK
  <2>5. /\ \A i \in JobIds : leases[i] # None => leases[i].token # FreshToken
        /\ \A b \in Agents : holding[b] # None => holding[b].token # FreshToken
        /\ \A b \in Agents : Claiming(b) => request[b].token # FreshToken
        /\ \A b \in Agents : Sweeping(b) => \A x \in request[b].expired : x[2] # FreshToken
    <3>1. \A i \in JobIds : leases[i] # None => leases[i].token \in InUse
      BY DEF InUse
    <3>2. \A b \in Agents : holding[b] # None => holding[b].token \in InUse
      BY DEF InUse
    <3>3. \A b \in Agents : Claiming(b) => request[b].token \in InUse
      BY DEF InUse, Claiming
    <3>4. \A b \in Agents : Sweeping(b) => \A x \in request[b].expired : x[2] \in InUse
      BY DEF InUse, Sweeping
    <3>5. QED
      BY <2>2, <3>1, <3>2, <3>3, <3>4
  <2>6. \A b \in Agents :
            /\ Claiming(b)' /\ b # a => Claiming(b) /\ request'[b] = request[b]
            /\ Sweeping(b)' => Sweeping(b) /\ request'[b].expired = request[b].expired
    BY <2>3, <2>4 DEF Claiming, Sweeping
  <2>8. FreshClaims'
    <3> SUFFICES ASSUME NEW c \in Agents, Claiming(c)'
                 PROVE  /\ \A i \in JobIds : leases'[i] # None => leases'[i].token # request'[c].token
                        /\ \A b \in Agents : holding'[b] # None => holding'[b].token # request'[c].token
                        /\ \A b \in Agents : Claiming(b)' /\ b # c => request'[b].token # request'[c].token
                        /\ \A b \in Agents : Sweeping(b)' =>
                              \A x \in request'[b].expired : x[2] # request'[c].token
      BY DEF FreshClaims
    <3>1. CASE c = a
      BY <2>3, <2>4, <2>5, <2>6, <3>1
    <3>2. CASE c # a
      BY <1>0, <2>3, <2>4, <2>5, <2>6, <3>2 DEF FreshClaims
    <3>3. QED
      BY <3>1, <3>2
  <2>9. ExpiredIsOver'
    BY <1>0, <2>3, <2>6 DEF ExpiredIsOver
  <2>10. ReportersHold'
    BY <1>0, <2>3, <2>4 DEF ReportersHold
  <2>11. LeaseIsHonoured' /\ HoldersDiffer'
    BY <1>0, <2>3 DEF LeaseIsHonoured, Working, HoldersDiffer
  <2>12. QED
    BY <2>8, <2>9, <2>10, <2>11 DEF Honest
<1>2. ASSUME NEW a \in Agents, CommitSweep(a) PROVE Honest'
  <2>1. Sweeping(a) /\ leases' = Swept(request[a].expired) /\ UNCHANGED <<active, holding>> /\ Ends(a)
    BY <1>2 DEF CommitSweep, Sweeping
  <2>2. \A j \in JobIds : leases'[j] # None => leases[j] # None /\ leases'[j] = leases[j]
    BY <2>1 DEF Swept
  <2>3. \A j \in JobIds : leases[j] # None /\ leases[j].left # 0 => leases'[j] = leases[j]
    BY <1>0, <2>1 DEF Swept, ExpiredIsOver
  <2>4. LeaseIsHonoured'
    BY <1>0, <2>1, <2>3 DEF LeaseIsHonoured, Working, TypeOK, Held
  <2>5. FreshClaims' /\ ExpiredIsOver'
    BY <1>0, <2>1, <2>2, ClaimsStayTrue
  <2>6. ReportersHold' /\ HoldersDiffer'
    BY <1>0, <2>1, EndsOneRequest DEF ReportersHold, HoldersDiffer
  <2>7. QED
    BY <2>4, <2>5, <2>6 DEF Honest
<1>3. ASSUME NEW a \in Agents, CommitClaim(a) PROVE Honest'
  <2> DEFINE q == request[a]
             swept == Swept(q.expired)
  <2>1. /\ Claiming(a) /\ Sweeping(a) /\ q \in Claim /\ q.job \in JobIds
        /\ leases[q.job] = None /\ Ends(a)
    BY <1>0, <1>3, RequestKinds DEF CommitClaim, Claim, Claiming, Sweeping
  <2>2. leases' = [swept EXCEPT ![q.job] = [token |-> q.token, left |-> q.left, silent |-> LeaseTime - q.left]]
    BY <1>3 DEF CommitClaim
  <2>3. holding' = [holding EXCEPT ![a] = [job |-> q.job, token |-> q.token, left |-> q.left]]
    BY <1>3 DEF CommitClaim
  <2>4. /\ \A j \in JobIds : swept[j] # None => leases[j] # None /\ swept[j] = leases[j]
        /\ \A j \in JobIds : leases[j] # None /\ leases[j].left # 0 => swept[j] = leases[j]
    BY <1>0, <2>1 DEF Swept, ExpiredIsOver
  <2>5. DOMAIN swept = JobIds
    BY DEF Swept
  <2>5a. /\ [token |-> q.token, left |-> q.left, silent |-> LeaseTime - q.left] \in Lease
         /\ [job |-> q.job, token |-> q.token, left |-> q.left] \in Held
    BY <2>1, TicksCount DEF Claim, Lease, Held
  <2>6. /\ leases'[q.job] # None /\ leases'[q.job].token = q.token /\ leases'[q.job].left = q.left
        /\ \A j \in JobIds : j # q.job => leases'[j] = swept[j]
    BY <2>1, <2>2, <2>5, <2>5a, NoneIsNoRow
  <2>7. /\ holding'[a] # None /\ holding'[a].job = q.job /\ holding'[a].token = q.token
        /\ holding'[a].left = q.left
        /\ \A b \in Agents : b # a => holding'[b] = holding[b]
    BY <1>0, <2>3, <2>5a, NoneIsNoRow DEF TypeOK
  <2>8. request'[a].op = "idle" /\ \A b \in Agents : b # a => request'[b] = request[b]
    BY <1>0, <2>1, EndsOneRequest
  <2> HIDE DEF swept, q
  <2>9. ASSUME NEW b \in Agents, b # a, Working(b)
        PROVE  leases'[holding[b].job] = leases[holding[b].job]
    <3>1. holding[b].job \in JobIds /\ holding[b].left # 0
      BY <1>0, <2>9 DEF Working, TypeOK, Held
    <3>2. leases[holding[b].job] # None /\ leases[holding[b].job].left # 0
      BY <1>0, <2>9, <3>1 DEF LeaseIsHonoured
    <3>3. QED
      BY <2>1, <2>4, <2>6, <3>1, <3>2
  <2>10. LeaseIsHonoured'
    <3>1. ASSUME NEW b \in Agents, b # a, Working(b)'
          PROVE  /\ leases'[holding'[b].job] # None
                 /\ leases'[holding'[b].job].token = holding'[b].token
                 /\ leases'[holding'[b].job].left = holding'[b].left
      <4>1. Working(b) /\ holding'[b] = holding[b]
        BY <2>7, <3>1 DEF Working
      <4>2. QED
        BY <1>0, <2>9, <3>1, <4>1 DEF LeaseIsHonoured
    <3>2. QED
      BY <2>6, <2>7, <3>1 DEF LeaseIsHonoured
  <2>11. HoldersDiffer'
    BY <1>0, <2>1, <2>7 DEF HoldersDiffer, FreshClaims, q
  <2>12. FreshClaims'
    <3> SUFFICES ASSUME NEW c \in Agents, Claiming(c)'
                 PROVE  /\ \A j \in JobIds : leases'[j] # None => leases'[j].token # request'[c].token
                        /\ \A b \in Agents : holding'[b] # None => holding'[b].token # request'[c].token
                        /\ \A b \in Agents : Claiming(b)' /\ b # c => request'[b].token # request'[c].token
                        /\ \A b \in Agents : Sweeping(b)' =>
                              \A x \in request'[b].expired : x[2] # request'[c].token
      BY DEF FreshClaims
    <3>1. c # a /\ Claiming(c) /\ request'[c] = request[c]
      BY <2>8 DEF Claiming
    <3>2. q.token # request[c].token
      BY <1>0, <2>1, <3>1 DEF FreshClaims, q
    <3>3. \A b \in Agents :
              /\ Claiming(b)' => Claiming(b) /\ request'[b] = request[b]
              /\ Sweeping(b)' => Sweeping(b) /\ request'[b] = request[b]
      BY <2>8 DEF Claiming, Sweeping
    <3>4. \A j \in JobIds : leases'[j] # None => leases'[j].token # request'[c].token
      BY <1>0, <2>4, <2>6, <3>1, <3>2 DEF FreshClaims
    <3>5. \A b \in Agents : holding'[b] # None => holding'[b].token # request'[c].token
      BY <1>0, <2>7, <3>1, <3>2 DEF FreshClaims
    <3>6. QED
      BY <1>0, <3>1, <3>3, <3>4, <3>5 DEF FreshClaims
  <2>13. ExpiredIsOver'
    <3> SUFFICES ASSUME NEW c \in Agents, Sweeping(c)', NEW x \in request'[c].expired,
                        leases'[x[1]] # None, leases'[x[1]].token = x[2]
                 PROVE  leases'[x[1]].left = 0
      BY DEF ExpiredIsOver
    <3>1. c # a /\ Sweeping(c) /\ request'[c] = request[c]
      BY <2>8 DEF Sweeping
    <3>2. x[1] \in JobIds
      BY <1>0, <3>1, ExpiredAreJobs
    <3>3. x[2] # q.token
      BY <1>0, <2>1, <3>1 DEF FreshClaims, q
    <3>4. x[1] # q.job
      BY <2>6, <3>3
    <3>5. QED
      BY <1>0, <2>4, <2>6, <3>1, <3>2, <3>4 DEF ExpiredIsOver
  <2>14. ReportersHold'
    BY <1>0, <2>7, <2>8 DEF ReportersHold
  <2>15. QED
    BY <2>10, <2>11, <2>12, <2>13, <2>14 DEF Honest
<1>4. ASSUME NEW a \in Agents, RefuseClaim(a) \/ FailRequest(a) PROVE Honest'
  <2>1. Ends(a) /\ UNCHANGED <<jobs, leases, active, holding>>
    BY <1>4 DEF RefuseClaim, FailRequest
  <2>2. FreshClaims' /\ ExpiredIsOver'
    BY <1>0, <2>1, ClaimsStayTrue
  <2>3. LeaseIsHonoured' /\ HoldersDiffer' /\ ReportersHold'
    BY <1>0, <2>1, EndsOneRequest DEF LeaseIsHonoured, Working, HoldersDiffer, ReportersHold
  <2>4. QED
    BY <2>2, <2>3 DEF Honest
<1>5. ASSUME NEW a \in Agents, NEW s \in AgentStatuses, BeginReport(a, s) PROVE Honest'
  <2> DEFINE j == holding[a].job
             n == jobs[j].retries + (IF s = "failed" THEN 1 ELSE 0)
             q == [op |-> "report", from |-> jobs[j].status, to |-> s, retries |-> n]
  <2>1. request' = [request EXCEPT ![a] = q] /\ UNCHANGED <<jobs, leases, active, holding>>
        /\ holding[a] # None
    BY <1>5 DEF BeginReport, Starts
  <2>2. q.op = "report"
    OBVIOUS
  <2> HIDE DEF q
  <2>3. request'[a].op = "report" /\ \A b \in Agents : b # a => request'[b] = request[b]
    BY <1>0, <2>1, <2>2 DEF TypeOK
  <2>4. \A b \in Agents :
            /\ Claiming(b)' => Claiming(b) /\ request'[b] = request[b]
            /\ Sweeping(b)' => Sweeping(b) /\ request'[b] = request[b]
    BY <2>3 DEF Claiming, Sweeping
  <2>5. FreshClaims' /\ ExpiredIsOver'
    BY <1>0, <2>1, <2>4 DEF FreshClaims, ExpiredIsOver
  <2>6. LeaseIsHonoured' /\ HoldersDiffer' /\ ReportersHold'
    BY <1>0, <2>1, <2>3 DEF LeaseIsHonoured, Working, HoldersDiffer, ReportersHold
  <2>7. QED
    BY <2>5, <2>6 DEF Honest
<1>6. ASSUME NEW a \in Agents, CommitFinal(a) PROVE Honest'
  <2>1. /\ Ends(a) /\ request[a].op = "report" /\ holding' = [holding EXCEPT ![a] = None]
        /\ leases' = Swept({<<holding[a].job, holding[a].token>>})
    BY <1>6 DEF CommitFinal
  <2>2. holding[a] # None
    BY <1>0, <2>1 DEF ReportersHold
  <2>3. holding'[a] = None /\ \A b \in Agents : b # a => holding'[b] = holding[b]
    BY <1>0, <2>1 DEF TypeOK
  <2>4. \A j \in JobIds : leases'[j] # None => leases[j] # None /\ leases'[j] = leases[j]
    BY <2>1 DEF Swept
  <2>5. \A j \in JobIds :
            leases[j] # None /\ leases[j].token # holding[a].token => leases'[j] = leases[j]
    BY <2>1 DEF Swept
  <2>6. LeaseIsHonoured'
    <3> SUFFICES ASSUME NEW b \in Agents, Working(b)'
                 PROVE  /\ leases'[holding'[b].job] # None
                        /\ leases'[holding'[b].job].token = holding'[b].token
                        /\ leases'[holding'[b].job].left = holding'[b].left
      BY DEF LeaseIsHonoured
    <3>1. b # a /\ Working(b) /\ holding'[b] = holding[b]
      BY <2>3 DEF Working
    <3>2. holding[b].job \in JobIds /\ holding[b].token # holding[a].token
      BY <1>0, <2>2, <3>1 DEF Working, TypeOK, Held, HoldersDiffer
    <3>3. QED
      BY <1>0, <2>5, <3>1, <3>2 DEF LeaseIsHonoured
  <2>7. FreshClaims' /\ ExpiredIsOver'
    BY <1>0, <2>1, <2>3, <2>4, ClaimsStayTrue
  <2>8. HoldersDiffer' /\ ReportersHold'
    BY <1>0, <2>1, <2>3, EndsOneRequest DEF HoldersDiffer, ReportersHold
  <2>9. QED
    BY <2>6, <2>7, <2>8 DEF Honest
<1>7. ASSUME NEW a \in Agents, CommitHeartbeat(a) PROVE Honest'
  <2>1. Ends(a) /\ UNCHANGED holding
    BY <1>7 DEF CommitHeartbeat
  <2>2. \A j \in JobIds :
            /\ leases'[j] # None <=> leases[j] # None
            /\ leases[j] # None => leases'[j].token = leases[j].token /\ leases'[j].left = leases[j].left
    <3>1. CASE UNCHANGED leases
      BY <3>1
    <3>2. CASE leases[holding[a].job] # None /\ leases' = [leases EXCEPT ![holding[a].job].silent = 0]
      <4>1. \A r \in Lease :
                [r EXCEPT !.silent = 0].token = r.token /\ [r EXCEPT !.silent = 0].left = r.left
        BY DEF Lease
      <4>2. \A r \in Lease : [r EXCEPT !.silent = 0] \in Lease
        BY DEF Lease, Ticks
      <4>3. QED
        BY <1>0, <3>2, <4>1, <4>2, NoneIsNoRow DEF TypeOK
    <3>3. QED
      BY <1>7, <3>1, <3>2 DEF CommitHeartbeat
  <2>3. FreshClaims' /\ ExpiredIsOver'
    BY <1>0, <2>1, <2>2, ClaimsStayTrue
  <2>4. LeaseIsHonoured'
    BY <1>0, <2>1, <2>2 DEF LeaseIsHonoured, Working, TypeOK, Held
  <2>5. HoldersDiffer' /\ ReportersHold'
    BY <1>0, <2>1, EndsOneRequest DEF HoldersDiffer, ReportersHold
  <2>6. QED
    BY <2>3, <2>4, <2>5 DEF Honest
<1>8. ASSUME NEW a \in Agents, Abandon(a) PROVE Honest'
  <2>1. /\ holding'[a] = None /\ request[a].op = "idle" /\ UNCHANGED <<leases, request>>
        /\ \A b \in Agents : b # a => holding'[b] = holding[b]
    BY <1>0, <1>8 DEF Abandon, TypeOK, Idle
  <2>2. LeaseIsHonoured' /\ HoldersDiffer' /\ ReportersHold'
    BY <1>0, <2>1 DEF LeaseIsHonoured, Working, HoldersDiffer, ReportersHold
  <2>3. FreshClaims' /\ ExpiredIsOver'
    BY <1>0, <2>1 DEF FreshClaims, ExpiredIsOver, Claiming, Sweeping
  <2>4. QED
    BY <2>2, <2>3 DEF Honest
<1>9. ASSUME UNCHANGED <<leases, holding, request>> PROVE Honest'
  BY <1>0, <1>9 DEF Honest, LeaseIsHonoured, Working, HoldersDiffer, FreshClaims, ExpiredIsOver,
                    Claiming, Sweeping, ReportersHold
<1>10. ASSUME Tick PROVE Honest'
  <2>1. \A j \in JobIds :
            /\ leases'[j] # None <=> leases[j] # None
            /\ leases[j] # None =>
                  leases'[j].token = leases[j].token /\ leases'[j].left = Less(leases[j].left)
    <3>1. ASSUME NEW j \in JobIds, leases[j] # None PROVE leases'[j] \in Lease
      BY <1>0, <1>10, <3>1, TicksCount DEF Tick, TypeOK, Lease
    <3>2. QED
      BY <1>10, <3>1, NoneIsNoRow DEF Tick
  <2>2. \A a \in Agents :
            /\ holding'[a] # None <=> holding[a] # None
            /\ holding[a] # None =>
                  /\ holding'[a].job = holding[a].job /\ holding'[a].token = holding[a].token
                  /\ holding'[a].left = Less(holding[a].left)
    <3>1. ASSUME NEW a \in Agents, holding[a] # None PROVE holding'[a] \in Held
      BY <1>0, <1>10, <3>1, TicksCount DEF Tick, TypeOK, Held
    <3>2. QED
      BY <1>10, <3>1, NoneIsNoRow DEF Tick
  <2>3. \A a \in Agents :
            /\ request'[a].op = request[a].op
            /\ Claiming(a) => request'[a].token = request[a].token
            /\ Sweeping(a) => request'[a].expired = request[a].expired
    <3> SUFFICES ASSUME NEW a \in Agents
                 PROVE  /\ request'[a].op = request[a].op
                        /\ Claiming(a) => request'[a].token = request[a].token
                        /\ Sweeping(a) => request'[a].expired = request[a].expired
      OBVIOUS
    <3>1. CASE request[a].op = "claim"
      BY <1>0, <1>10, <3>1, RequestKinds DEF Tick, Claim
    <3>2. CASE request[a].op = "sweep"
      BY <1>0, <1>10, <3>2, RequestKinds DEF Tick, Sweep, Claiming
    <3>3. CASE request[a].op \notin {"sweep", "claim"}
      BY <1>10, <3>3 DEF Tick, Claiming, Sweeping
    <3>4. QED
      BY <3>1, <3>2, <3>3
  <2>4. LeaseIsHonoured'
    <3> SUFFICES ASSUME NEW a \in Agents, Working(a)'
                 PROVE  /\ leases'[holding'[a].job] # None
                        /\ leases'[holding'[a].job].token = holding'[a].token
                        /\ leases'[holding'[a].job].left = holding'[a].left
      BY DEF LeaseIsHonoured
    <3>1. Working(a) /\ holding[a].job \in JobIds
      BY <1>0, <2>2 DEF Working, TypeOK, Held, Ticks, Less
    <3>2. QED
      BY <1>0, <2>1, <2>2, <3>1 DEF LeaseIsHonoured, Working
  <2>5. HoldersDiffer'
    BY <1>0, <2>2 DEF HoldersDiffer
  <2>6. FreshClaims'
    BY <1>0, <2>1, <2>2, <2>3 DEF FreshClaims, Claiming, Sweeping
  <2>7. ExpiredIsOver'
    <3>1. \A a \in Agents : Sweeping(a) => \A x \in request[a].expired : x[1] \in JobIds
      BY <1>0, ExpiredAreJobs
    <3>2. Less(0) = 0
      BY DEF Less
    <3>3. QED
      BY <1>0, <2>1, <2>3, <3>1, <3>2 DEF ExpiredIsOver, Sweeping
  <2>8. ReportersHold'
    BY <1>0, <2>2, <2>3 DEF ReportersHold
  <2>9. QED
    BY <2>4, <2>5, <2>6, <2>7, <2>8 DEF Honest
<1>11. QED
  BY <1>1, <1>1a, <1>2, <1>3, <1>4, <1>5, <1>6, <1>7, <1>8, <1>9, <1>10
     DEF Next, CreateJob, UpdateDevice, UpdateJob, vars

LEMMA HonestAlways == Spec => []Honest
<1>1. Init => Honest
  BY QueueConstants DEF Init, Honest, LeaseIsHonoured, Working, HoldersDiffer, FreshClaims,
                        ExpiredIsOver, Claiming, Sweeping, ReportersHold, Idle
<1>2. QED
  BY <1>1, HonestSteps, TypedAlways, PTL DEF Spec

\* While an agent's lease runs, its row stays as it was granted: no request in
\* flight, whatever it has read and whenever it commits, takes it away.
THEOREM LeasesAreHonoured == Spec => []LeaseIsHonoured
<1>1. Honest => LeaseIsHonoured
  BY DEF Honest
<1>2. QED
  BY <1>1, HonestAlways, PTL

\* Two agents whose leases run never work on the same job.
THEOREM OneAgentWorksOnAJob == Spec => []OneAgentPerJob
<1>1. Honest => OneAgentPerJob
  BY DEF Honest, LeaseIsHonoured, HoldersDiffer, OneAgentPerJob, Working
<1>2. QED
  BY <1>1, HonestAlways, PTL

=============================================================================

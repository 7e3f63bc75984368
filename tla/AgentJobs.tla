------------------------------ MODULE AgentJobs -------------------------------
(***************************************************************************)
(* The life of a wipe job that an agent executes: the routes the agent     *)
(* calls (backend/agent_api.py), the agent process (agent/worker.py,       *)
(* agent/client.py) and the server threads that finish an accepted result  *)
(* (jobs.complete and jobs.fail of backend/jobs.py).                       *)
(*                                                                         *)
(* The routes are coroutines of one event loop that use the database       *)
(* without awaiting; a job of an agent has no executor thread, so until a  *)
(* result is accepted only routes touch its row and each of them is one    *)
(* step.  What is spread out in time is everything between the agent and   *)
(* the server: an answer may be lost, and a request may arrive after the   *)
(* agent has given it up and sent another.  A post that has been accepted  *)
(* becomes the thread that finishes it.                                    *)
(***************************************************************************)
EXTENDS Naturals, FiniteSets

CONSTANTS
  NJobs,       \* jobs of the agent, numbered in the order of created_at
  NoJob,       \* the job of an agent that has none
  Attempts,    \* posts of a result before it is spooled (5 in the code)
  MaxLosses,   \* bound: requests, answers or patience lost
  MaxFaults,   \* bound: raising database calls of the finishing threads
  MaxCrashes,  \* bound: crashes of the agent or of the server
  MaxRevokes   \* bound: 1 if the agent may be revoked

Jobs  == 1..NJobs
Slots == 1..(MaxLosses + 1)

ASSUME SizesAssumption  == NJobs \in Nat \ {0} /\ Attempts \in Nat \ {0}
ASSUME NoJobAssumption  == NoJob \notin Jobs
ASSUME BoundsAssumption == {MaxLosses, MaxFaults, MaxCrashes, MaxRevokes} \subseteq Nat

VARIABLES
  status, cancelRequested, hash,  \* columns of wipe_jobs
  pdf,        \* the certificate file {job id}.pdf, by issue; 0 is no file
  revoked,    \* revoked_at of the agent is set
  post,       \* the posts of a job's result, in transit or being finished
  agent,      \* the agent process
  spool,      \* its spool directory: jobs whose result is kept on its disk
  outcome,    \* the result the agent reached for a job
  starts,     \* history: how often the agent started to wipe for a job
  dropped,    \* history: jobs whose claim or result a failure has dropped
  losses, faults, crashes

rowVars   == <<status, cancelRequested, hash>>
agentVars == <<agent, spool, outcome, starts>>
countVars == <<losses, faults, crashes>>
vars == <<rowVars, pdf, revoked, post, agentVars, dropped, countVars>>

Terminal == {"completed", "failed", "cancelled"}
Status   == {"absent", "pending_approval", "queued", "running"} \cup Terminal
Outcomes == {"ok", "failed", "cancelled"}

\* A post is in transit (`sent') or at a step of its thread.
Finishing == {"complete", "failing", "issue", "publish", "record"}
Free      == [at |-> "free", cert |-> 0]
At(step)  == [at |-> step, cert |-> 0]

\* The agent at the top of its loop, with the spool to flush.
Looping(jobs) == [pc |-> "flush", job |-> NoJob, slot |-> 0, tries |-> 0,
                  cancel |-> FALSE, todo |-> jobs]

AgentSteps == {"flush", "flushwait", "poll", "wipe", "post", "wait"}

TypeOK ==
  /\ status \in [Jobs -> Status]
  /\ cancelRequested \in [Jobs -> BOOLEAN]
  /\ hash \in [Jobs -> Nat]
  /\ pdf \in [Jobs -> Nat]
  /\ revoked \in BOOLEAN
  /\ post \in [Jobs -> [Slots -> [at : Finishing \cup {"free", "sent"}, cert : Nat]]]
  /\ agent \in [pc : AgentSteps, job : Jobs \cup {NoJob}, slot : Slots \cup {0},
                tries : 0..(Attempts - 1), cancel : BOOLEAN, todo : SUBSET Jobs]
  /\ spool \subseteq Jobs
  /\ outcome \in [Jobs -> Outcomes \cup {"none"}]
  /\ starts \in [Jobs -> Nat]
  /\ dropped \subseteq Jobs
  /\ losses \in 0..MaxLosses
  /\ faults \in 0..MaxFaults
  /\ crashes \in 0..MaxCrashes

Init ==
  /\ status = [j \in Jobs |-> "absent"]
  /\ cancelRequested = [j \in Jobs |-> FALSE]
  /\ hash = [j \in Jobs |-> 0]
  /\ pdf = [j \in Jobs |-> 0]
  /\ revoked = FALSE
  /\ post = [j \in Jobs |-> [s \in Slots |-> Free]]
  /\ agent = Looping({})
  /\ spool = {}
  /\ outcome = [j \in Jobs |-> "none"]
  /\ starts = [j \in Jobs |-> 0]
  /\ dropped = {}
  /\ losses = 0
  /\ faults = 0
  /\ crashes = 0

-----------------------------------------------------------------------------
(* Helpers *)

SetStatus(j, s)  == status' = [status EXCEPT ![j] = s]
SetPost(j, s, p) == post' = [post EXCEPT ![j][s] = p]

Loss  == losses < MaxLosses /\ losses' = losses + 1
Fault == faults < MaxFaults /\ faults' = faults + 1
Crash == crashes < MaxCrashes /\ crashes' = crashes + 1

Waiting(j, s) ==
  agent.pc \in {"wait", "flushwait"} /\ agent.job = j /\ agent.slot = s

Oldest(j) ==
  status[j] = "queued" /\ \A k \in Jobs : status[k] = "queued" => j <= k

-----------------------------------------------------------------------------
(* The operator's routes *)

CreateJob(j, gate) ==
  /\ status[j] = "absent"
  /\ \A k \in Jobs : k < j => status[k] # "absent"
  /\ SetStatus(j, IF gate THEN "pending_approval" ELSE "queued")
  /\ UNCHANGED <<cancelRequested, hash, pdf, revoked, post, agentVars, dropped,
                 countVars>>

ApproveJob(j) ==
  /\ status[j] = "pending_approval"
  /\ SetStatus(j, "queued")
  /\ UNCHANGED <<cancelRequested, hash, pdf, revoked, post, agentVars, dropped,
                 countVars>>

\* Mutant: a running job is cancelled in its row as well.
CancelJobAtOnce(j) ==
  /\ status[j] \notin Terminal \cup {"absent"}
  /\ cancelRequested' = [cancelRequested EXCEPT ![j] = TRUE]
  /\ SetStatus(j, "cancelled")
  /\ UNCHANGED <<hash, pdf, revoked, post, agentVars, dropped, countVars>>

\* A running job is only marked: the agent learns of it from the answer to its
\* next progress event.
CancelJob(j) ==
  /\ status[j] \notin Terminal \cup {"absent"}
  /\ cancelRequested' = [cancelRequested EXCEPT ![j] = TRUE]
  /\ IF status[j] = "running" THEN UNCHANGED status ELSE SetStatus(j, "cancelled")
  /\ UNCHANGED <<hash, pdf, revoked, post, agentVars, dropped, countVars>>

RevokeAgent ==
  /\ ~ revoked /\ MaxRevokes > 0
  /\ revoked' = TRUE
  /\ UNCHANGED <<rowVars, pdf, post, agentVars, dropped, countVars>>

-----------------------------------------------------------------------------
(* The agent asks for a job and wipes *)

\* An empty answer, a refusal or an error: back to the top of the loop.
PollNothing ==
  /\ agent.pc = "poll"
  /\ revoked \/ \A j \in Jobs : status[j] # "queued"
  /\ agent' = Looping(spool)
  /\ UNCHANGED <<rowVars, pdf, revoked, post, spool, outcome, starts, dropped,
                 countVars>>

\* Mutant: next_job does not look at the status.
PollAny(j) ==
  /\ agent.pc = "poll" /\ ~ revoked
  /\ status[j] \in {"queued", "running"}
  /\ SetStatus(j, "running")
  /\ agent' = [Looping({}) EXCEPT !.pc = "wipe", !.job = j]
  /\ starts' = [starts EXCEPT ![j] = @ + 1]
  /\ UNCHANGED <<cancelRequested, hash, pdf, revoked, post, spool, outcome,
                 dropped, countVars>>

\* next_job claims the oldest queued job of the agent, and the agent starts to
\* wipe the device that came with it.
Poll(j) ==
  /\ agent.pc = "poll" /\ ~ revoked
  /\ Oldest(j)
  /\ SetStatus(j, "running")
  /\ agent' = [Looping({}) EXCEPT !.pc = "wipe", !.job = j]
  /\ starts' = [starts EXCEPT ![j] = @ + 1]
  /\ UNCHANGED <<cancelRequested, hash, pdf, revoked, post, spool, outcome,
                 dropped, countVars>>

\* The same, but the device is not in the answer: execute reports that.
PollDetached(j) ==
  /\ agent.pc = "poll" /\ ~ revoked
  /\ Oldest(j)
  /\ SetStatus(j, "running")
  /\ outcome' = [outcome EXCEPT ![j] = "failed"]
  /\ agent' = [Looping({}) EXCEPT !.pc = "post", !.job = j]
  /\ UNCHANGED <<cancelRequested, hash, pdf, revoked, post, spool, starts,
                 dropped, countVars>>

\* The job is claimed and the answer lost (or the route raises behind the
\* claim): to the agent it is an error of its loop.
PollUnheard(j) ==
  /\ agent.pc = "poll" /\ ~ revoked
  /\ Oldest(j)
  /\ Loss
  /\ SetStatus(j, "running")
  /\ dropped' = dropped \cup {j}
  /\ agent' = Looping(spool)
  /\ UNCHANGED <<cancelRequested, hash, pdf, revoked, post, spool, outcome,
                 starts, faults, crashes>>

\* A progress event is answered with the mark of cancel_job.  Any other answer,
\* and none, leaves the agent as it is.
Progress ==
  /\ agent.pc = "wipe" /\ ~ agent.cancel /\ ~ revoked
  /\ cancelRequested[agent.job]
  /\ agent' = [agent EXCEPT !.cancel = TRUE]
  /\ UNCHANGED <<rowVars, pdf, revoked, post, spool, outcome, starts, dropped,
                 countVars>>

\* The wipe ends: complete, in an error, or - the agent knows of the
\* cancellation and a check comes - cancelled.
WipeEnds ==
  /\ agent.pc = "wipe"
  /\ \E o \in Outcomes :
       /\ o = "cancelled" => agent.cancel
       /\ outcome' = [outcome EXCEPT ![agent.job] = o]
  /\ agent' = [agent EXCEPT !.pc = "post"]
  /\ UNCHANGED <<rowVars, pdf, revoked, post, spool, starts, dropped, countVars>>

-----------------------------------------------------------------------------
(* The agent posts a result *)

PostOf(j, s, wait) ==
  /\ post[j][s] = Free
  /\ \A k \in Slots : k < s => post[j][k] # Free
  /\ SetPost(j, s, At("sent"))
  /\ agent' = [agent EXCEPT !.pc = wait, !.job = j, !.slot = s]
  /\ UNCHANGED <<rowVars, pdf, revoked, spool, outcome, starts, dropped, countVars>>

Send(j, s)  == agent.pc = "post" /\ agent.job = j /\ PostOf(j, s, "wait")

Flush(j, s) == agent.pc = "flush" /\ j \in agent.todo /\ PostOf(j, s, "flushwait")

FlushEnds ==
  /\ agent.pc = "flush" /\ agent.todo = {}
  /\ agent' = [agent EXCEPT !.pc = "poll"]
  /\ UNCHANGED <<rowVars, pdf, revoked, post, spool, outcome, starts, dropped,
                 countVars>>

\* Mutant: the result that was not taken is not spooled.
AgainUnspooled(j) ==
  /\ UNCHANGED spool
  /\ agent' = IF agent.tries + 1 < Attempts
              THEN [agent EXCEPT !.pc = "post", !.slot = 0, !.tries = @ + 1]
              ELSE Looping(spool)

\* result: the next attempt, or the spool.
Again(j) ==
  IF agent.tries + 1 < Attempts
  THEN /\ agent' = [agent EXCEPT !.pc = "post", !.slot = 0, !.tries = @ + 1]
       /\ UNCHANGED spool
  ELSE /\ spool' = spool \cup {j}
       /\ agent' = Looping(spool')

\* flush_spool goes on to the next file.
NextFile(j) ==
  agent' = [agent EXCEPT !.pc = "flush", !.job = NoJob, !.slot = 0, !.todo = @ \ {j}]

\* 200 or 409: the server has the result, or an end that does not need it.
Settled(j) ==
  IF agent.pc = "wait"
  THEN UNCHANGED spool /\ agent' = Looping(spool)
  ELSE spool' = spool \ {j} /\ NextFile(j)

\* Mutant: flush_spool deletes the file whatever the answer.
RefusedDeletes(j) ==
  IF agent.pc = "wait" THEN Again(j) ELSE spool' = spool \ {j} /\ NextFile(j)

\* Another code (401 of a revoked agent) is an attempt like any other.
RefusedPost(j) ==
  IF agent.pc = "wait" THEN Again(j) ELSE UNCHANGED spool /\ NextFile(j)

\* No answer: flush_spool returns, and the loop goes on to its poll.
Unheard(j) ==
  IF agent.pc = "wait"
  THEN Again(j)
  ELSE /\ UNCHANGED spool
       /\ agent' = [Looping({}) EXCEPT !.pc = "poll"]

\* What an answer does to the agent, if it still waits for it and it arrives.
Answer(j, s, effect) ==
  \/ /\ ~ Waiting(j, s)
     /\ UNCHANGED <<agent, spool, losses>>
  \/ /\ Waiting(j, s)
     /\ effect
     /\ UNCHANGED losses
  \/ /\ Waiting(j, s)
     /\ Loss
     /\ Unheard(j)

\* The request is lost.
LosePost(j, s) ==
  /\ Waiting(j, s) /\ post[j][s].at = "sent"
  /\ Loss
  /\ SetPost(j, s, Free)
  /\ Unheard(j)
  /\ UNCHANGED <<rowVars, pdf, revoked, outcome, starts, dropped, faults, crashes>>

\* It takes longer than the agent waits, and stays in transit.
Timeout(j, s) ==
  /\ Waiting(j, s) /\ post[j][s].at = "sent"
  /\ Loss
  /\ Unheard(j)
  /\ UNCHANGED <<rowVars, pdf, revoked, post, outcome, starts, dropped, faults,
                 crashes>>

-----------------------------------------------------------------------------
(* job_result *)

Arrives(j, s) == post[j][s].at = "sent"

RefuseAgent(j, s) ==
  /\ Arrives(j, s) /\ revoked
  /\ SetPost(j, s, Free)
  /\ Answer(j, s, RefusedPost(j))
  /\ UNCHANGED <<rowVars, pdf, revoked, outcome, starts, dropped, faults, crashes>>

\* 409: the job is not running (any more).
Conflict(j, s) ==
  /\ Arrives(j, s) /\ ~ revoked
  /\ status[j] # "running"
  /\ SetPost(j, s, Free)
  /\ Answer(j, s, Settled(j))
  /\ UNCHANGED <<rowVars, pdf, revoked, outcome, starts, dropped, faults, crashes>>

\* The thread that finishes the job is started before the answer; until it has
\* written the status, another post of the same result starts another.
Accept(j, s) ==
  /\ Arrives(j, s) /\ ~ revoked
  /\ status[j] = "running"
  /\ outcome[j] # "cancelled"
  /\ SetPost(j, s, At(IF outcome[j] = "ok" THEN "complete" ELSE "failing"))
  /\ Answer(j, s, Settled(j))
  /\ UNCHANGED <<rowVars, pdf, revoked, outcome, starts, dropped, faults, crashes>>

AcceptCancelled(j, s) ==
  /\ Arrives(j, s) /\ ~ revoked
  /\ status[j] = "running"
  /\ outcome[j] = "cancelled"
  /\ SetStatus(j, "cancelled")
  /\ SetPost(j, s, Free)
  /\ Answer(j, s, Settled(j))
  /\ UNCHANGED <<cancelRequested, hash, pdf, revoked, outcome, starts, dropped,
                 faults, crashes>>

-----------------------------------------------------------------------------
(* The threads that finish an accepted result *)

\* Mutant: the status is all that complete writes.
CompleteWriteEnds(j, s) ==
  /\ post[j][s].at = "complete"
  /\ SetStatus(j, "completed")
  /\ SetPost(j, s, Free)
  /\ UNCHANGED <<cancelRequested, hash, pdf, revoked, agentVars, dropped, countVars>>

CompleteWrite(j, s) ==
  /\ post[j][s].at = "complete"
  /\ SetStatus(j, "completed")
  /\ SetPost(j, s, At("issue"))
  /\ UNCHANGED <<cancelRequested, hash, pdf, revoked, agentVars, dropped, countVars>>

\* Mutant: the failed branch of complete runs on into _finalize.
FailWriteIssues(j, s) ==
  /\ post[j][s].at = "failing"
  /\ SetStatus(j, "failed")
  /\ SetPost(j, s, At("issue"))
  /\ UNCHANGED <<cancelRequested, hash, pdf, revoked, agentVars, dropped, countVars>>

FailWrite(j, s) ==
  /\ post[j][s].at = "failing"
  /\ SetStatus(j, "failed")
  /\ SetPost(j, s, Free)
  /\ UNCHANGED <<cancelRequested, hash, pdf, revoked, agentVars, dropped, countVars>>

\* The certificate replaces the file of any other issue.
Issue(j, s) ==
  /\ post[j][s].at = "issue"
  /\ pdf' = [pdf EXCEPT ![j] = @ + 1]
  /\ SetPost(j, s, [at |-> "publish", cert |-> pdf[j] + 1])
  /\ UNCHANGED <<rowVars, revoked, agentVars, dropped, countVars>>

Publish(j, s) ==
  /\ post[j][s].at = "publish"
  /\ hash' = [hash EXCEPT ![j] = post[j][s].cert]
  /\ SetPost(j, s, At("record"))
  /\ UNCHANGED <<status, cancelRequested, pdf, revoked, agentVars, dropped, countVars>>

Record(j, s) ==
  /\ post[j][s].at = "record"
  /\ SetPost(j, s, Free)
  /\ UNCHANGED <<rowVars, pdf, revoked, agentVars, dropped, countVars>>

\* A call of complete or fail raises, its write done or not: it is tried again
\* or, the last attempt, the thread is over (the exception of complete has no
\* handler here, fail only prints).
StatusFault(j, s) ==
  /\ post[j][s].at \in {"complete", "failing"}
  /\ Fault
  /\ \/ UNCHANGED status
     \/ SetStatus(j, IF post[j][s].at = "complete" THEN "completed" ELSE "failed")
  /\ \/ UNCHANGED <<post, dropped>>
     \/ SetPost(j, s, Free) /\ dropped' = dropped \cup {j}
  /\ UNCHANGED <<cancelRequested, hash, pdf, revoked, agentVars, losses, crashes>>

\* _finalize_with_retry starts over or, after the last attempt, gives up.
FinalizeFault(j, s) ==
  /\ post[j][s].at \in {"issue", "publish", "record"}
  /\ Fault
  /\ \/ SetPost(j, s, At("issue")) /\ UNCHANGED dropped
     \/ SetPost(j, s, Free) /\ dropped' = dropped \cup {j}
  /\ UNCHANGED <<rowVars, pdf, revoked, agentVars, losses, crashes>>

-----------------------------------------------------------------------------
(* Crashes *)

\* The agent is restarted by systemd: what it was wiping or posting is gone,
\* the spool is not.
AgentCrash ==
  /\ Crash
  /\ dropped' = dropped \cup (IF agent.pc \in {"wipe", "post", "wait"}
                              THEN {agent.job} ELSE {})
  /\ agent' = Looping(spool)
  /\ UNCHANGED <<rowVars, pdf, revoked, post, spool, outcome, starts, losses, faults>>

\* The server is restarted: requests and threads are gone.
ServerCrash ==
  /\ Crash
  /\ post' = [j \in Jobs |-> [s \in Slots |-> Free]]
  /\ dropped' = dropped \cup
       {j \in Jobs : \E s \in Slots : post[j][s].at \in Finishing}
  /\ IF agent.pc \in {"wait", "flushwait"}
     THEN Unheard(agent.job)
     ELSE UNCHANGED <<agent, spool>>
  /\ UNCHANGED <<rowVars, pdf, revoked, outcome, starts, losses, faults>>

-----------------------------------------------------------------------------
ServerStep(j, s) ==
  \/ RefuseAgent(j, s) \/ Conflict(j, s) \/ Accept(j, s) \/ AcceptCancelled(j, s)
  \/ CompleteWrite(j, s) \/ FailWrite(j, s)
  \/ Issue(j, s) \/ Publish(j, s) \/ Record(j, s)

AgentStep ==
  \/ \E j \in Jobs : Poll(j) \/ PollDetached(j)
  \/ \E j \in Jobs, s \in Slots : Send(j, s) \/ Flush(j, s)
  \/ FlushEnds \/ PollNothing \/ WipeEnds

Next ==
  \/ \E j \in Jobs :
       \/ \E gate \in BOOLEAN : CreateJob(j, gate)
       \/ ApproveJob(j) \/ CancelJob(j) \/ PollUnheard(j)
       \/ \E s \in Slots :
            \/ ServerStep(j, s) \/ LosePost(j, s) \/ Timeout(j, s)
            \/ StatusFault(j, s) \/ FinalizeFault(j, s)
  \/ AgentStep \/ Progress \/ RevokeAgent
  \/ AgentCrash \/ ServerCrash

Spec == Init /\ [][Next]_vars

\* The agent's loop runs, every wipe ends, and what the server has received it
\* works on.
FairSpec ==
  /\ Spec
  /\ WF_vars(AgentStep)
  /\ \A j \in Jobs, s \in Slots : WF_vars(ServerStep(j, s))

-----------------------------------------------------------------------------
(* Properties *)

\* A device is wiped at most once for a job, whatever is lost, retried or
\* restarted: a job that has been handed out is never handed out again.
WipedOnce == \A j \in Jobs : starts[j] <= 1

\* A job that is completed, published or has a certificate on disk is one whose
\* wipe the agent ended with ok.
CertifiedWasErased ==
  \A j \in Jobs :
    status[j] = "completed" \/ hash[j] > 0 \/ pdf[j] > 0 => outcome[j] = "ok"

\* README: "A job that fails or fails verification is marked failed and never
\* gets a certificate".
FailedNeverCertified ==
  \A j \in Jobs : status[j] = "failed" => hash[j] = 0 /\ pdf[j] = 0

\* A cancelled job was cancelled before the agent had it, or the agent has
\* stopped its wipe for that reason.
CancelledMeansStopped ==
  \A j \in Jobs :
    status[j] = "cancelled" => starts[j] = 0 \/ outcome[j] = "cancelled"

\* A running job is in somebody's hands - the agent wipes or posts it, its spool
\* keeps it, a thread of the server finishes it - unless a crash, the loss of
\* the claim's answer or an outage has dropped it.  In particular no retry, no
\* late answer and no revocation makes agent and server both forget a result.
RunningIsOwned ==
  \A j \in Jobs :
    status[j] = "running" =>
      \/ agent.job = j /\ agent.pc \in {"wipe", "post", "wait"}
      \/ j \in spool
      \/ \E s \in Slots : post[j][s].at \in {"complete", "failing"}
      \/ j \in dropped

\* No step takes a job out of a terminal status, although complete and fail
\* write it by id and late posts of a result start them again.
TerminalIsFinal ==
  [][\A j \in Jobs : status[j] \in Terminal => status'[j] = status[j]]_vars

\* A result that the agent has reached is recorded, over the retries, the
\* spool and any finite number of lost messages, if nothing crashes and the
\* agent is not revoked.
ResultRecorded ==
  \A j \in Jobs : outcome[j] # "none" ~> status[j] \in Terminal

\* And a completed job gets its certificate.
CompletedIsCertified ==
  \A j \in Jobs : status[j] = "completed" ~> pdf[j] > 0 /\ hash[j] > 0

\* README: "Jobs for those disks are queued for the agent and its results come
\* back to the server" - a job that has been handed out ends.
ClaimedIsReported ==
  \A j \in Jobs : status[j] = "running" ~> status[j] \in Terminal

\* README: "Server-verify: GET /verify/{certificate_id}" - once no thread works
\* on it, the hash the server publishes is that of the certificate on disk.
PublishedIsOnDisk ==
  \A j \in Jobs :
    status[j] = "completed" /\ hash[j] > 0 /\ (\A s \in Slots : post[j][s].at \notin Finishing)
      => hash[j] = pdf[j]

\* What this promises of a job, in the terms of WipeJob; no job is contested.
W == INSTANCE WipeJob WITH
       state     <- status,
       erased    <- [j \in Jobs |-> outcome[j] = "ok"],
       certified <- [j \in Jobs |-> hash[j] > 0 \/ pdf[j] > 0],
       contested <- {}

\* The agent's routes, the agent and the finishing threads together implement
\* WipeJob without exception: lost answers, late and repeated posts, raising
\* calls and crashes never make a job skip a step of its life, leave a final
\* status or be certified for a device that is not erased.
ImplementsWipeJob == W!WSpec

=============================================================================

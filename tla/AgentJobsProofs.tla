--------------------------- MODULE AgentJobsProofs ----------------------------
(***************************************************************************)
(* Proofs about AgentJobs for any number of jobs and attempts and any      *)
(* bound on losses, faults, crashes and revocations.  IInv is the          *)
(* inductive invariant; the properties of AgentJobs follow from it.        *)
(***************************************************************************)
EXTENDS AgentJobs, TLAPS

\* The agent is wiping for j; it has j's result and is telling the server; it
\* will, or goes on to.
Wiping(j)    == agent.job = j /\ agent.pc = "wipe"
Reporting(j) == agent.job = j /\ agent.pc \in {"post", "wait", "flushwait"}
InHand(j)    == (agent.job = j /\ agent.pc \in {"wipe", "post", "wait"}) \/ j \in spool

AgentType ==
  /\ agent \in [pc : AgentSteps, job : Jobs \cup {NoJob}, slot : Slots \cup {0},
                tries : 0..(Attempts - 1), cancel : BOOLEAN, todo : SUBSET Jobs]
  /\ spool \subseteq Jobs

\* The agent works on a job, and flushes what is in the spool.
AgentOK ==
  /\ agent.pc \in {"wipe", "post", "wait", "flushwait"} => agent.job \in Jobs
  /\ agent.todo \subseteq spool

\* A job that has not been handed out, or was cancelled before, is untouched.
Fresh(j) ==
  /\ status[j] \in {"absent", "pending_approval", "queued"} =>
       starts[j] = 0 /\ outcome[j] = "none"
  /\ status[j] = "cancelled" /\ outcome[j] = "none" => starts[j] = 0

\* The result the agent has reached leaves one final status to the row.
Verdict(j) ==
  /\ outcome[j] = "none" => status[j] \notin {"completed", "failed"}
  /\ outcome[j] = "ok" => status[j] \in {"running", "completed"}
  /\ outcome[j] = "failed" => status[j] \in {"running", "failed"}
  /\ outcome[j] = "cancelled" => status[j] \in {"running", "cancelled"}

\* What the agent knows at each step, in memory and in its spool.
Known(j) ==
  /\ Wiping(j) => outcome[j] = "none" /\ status[j] = "running"
  /\ Reporting(j) \/ j \in spool => outcome[j] # "none"

\* A post carries a result, and its thread finishes it accordingly.
Posts(j) ==
  \A s \in Slots :
    /\ post[j][s].at # "free" => outcome[j] # "none"
    /\ post[j][s].at \in {"complete", "issue", "publish", "record"} => outcome[j] = "ok"
    /\ post[j][s].at = "failing" => outcome[j] = "failed"

Evidence(j) == hash[j] > 0 \/ pdf[j] > 0 => outcome[j] = "ok"

Once(j) == starts[j] <= 1

\* RunningIsOwned for one job.
Finished(j) == \E s \in Slots : post[j][s].at \in {"complete", "failing"}
Owned(j)    == status[j] = "running" => InHand(j) \/ Finished(j) \/ j \in dropped

JobInv(j) ==
  /\ Fresh(j) /\ Verdict(j) /\ Known(j) /\ Posts(j) /\ Evidence(j) /\ Once(j)
  /\ Owned(j)

IInv == TypeOK /\ AgentOK /\ \A j \in Jobs : JobInv(j)

-----------------------------------------------------------------------------
(* The agent hears, or does not hear, of a post *)

\* What that may do to the agent: it starts no wipe, tells of no other job, and
\* forgets no job but those of `settled'.
Hears(settled) ==
  /\ AgentType' /\ AgentOK'
  /\ \A k \in Jobs :
       /\ Wiping(k)' => Wiping(k)
       /\ Reporting(k)' \/ k \in spool' => Reporting(k) \/ k \in spool
       /\ InHand(k) /\ k \notin settled => InHand(k)'

\* What the assumptions say of the sizes.
LEMMA Constants ==
  /\ NoJob \notin Jobs /\ 0 \notin Slots
  /\ Attempts \in Nat /\ Attempts > 0 /\ 0 \in 0..(Attempts - 1)
<1> QED
  BY SizesAssumption, NoJobAssumption DEF Slots

\* The next attempt counts one more, or the result is spooled.
LEMMA AgainHears ==
  ASSUME NEW j \in Jobs, AgentType, AgentOK,
         agent.job = j, agent.pc = "wait", Again(j)
  PROVE  Hears({})
<1> USE Constants DEF AgentType, AgentOK, AgentSteps, Wiping, Reporting, InHand
<1>1. CASE agent.tries + 1 < Attempts
  <2>1. agent' = [agent EXCEPT !.pc = "post", !.slot = 0, !.tries = @ + 1] /\ spool' = spool
    BY <1>1 DEF Again
  <2>2. agent.tries + 1 \in 0..(Attempts - 1)
    BY <1>1
  <2>3. AgentType' /\ AgentOK'
    BY <2>1, <2>2
  <2> QED
    BY <2>1, <2>3 DEF Hears
<1>2. CASE ~ (agent.tries + 1 < Attempts)
  <2>1. spool' = spool \cup {j} /\ agent' = Looping(spool')
    BY <1>2 DEF Again
  <2>2. AgentType' /\ AgentOK'
    BY <2>1 DEF Looping
  <2> QED
    BY <2>1 DEF Hears, Looping
<1> QED
  BY <1>1, <1>2

\* Without an answer the result stays with the agent,
LEMMA UnheardHears ==
  ASSUME NEW j \in Jobs, AgentType, AgentOK,
         agent.job = j, agent.pc \in {"wait", "flushwait"}, Unheard(j)
  PROVE  Hears({})
<1>1. CASE agent.pc = "wait"
  BY <1>1, AgainHears DEF Unheard
<1>2. CASE agent.pc = "flushwait"
  <2> USE Constants DEF AgentType, AgentOK, AgentSteps, Wiping, Reporting, InHand
  <2>1. spool' = spool /\ agent' = [Looping({}) EXCEPT !.pc = "poll"]
    BY <1>2 DEF Unheard
  <2>2. AgentType' /\ AgentOK'
    BY <2>1 DEF Looping
  <2> QED
    BY <1>2, <2>1, <2>2 DEF Hears
<1> QED
  BY <1>1, <1>2

\* with a refusal too,
LEMMA RefusedHears ==
  ASSUME NEW j \in Jobs, AgentType, AgentOK,
         agent.job = j, agent.pc \in {"wait", "flushwait"}, RefusedPost(j)
  PROVE  Hears({})
<1>1. CASE agent.pc = "wait"
  BY <1>1, AgainHears DEF RefusedPost
<1>2. CASE agent.pc = "flushwait"
  <2> USE Constants DEF AgentType, AgentOK, AgentSteps, Wiping, Reporting, InHand
  <2>1. spool' = spool /\ NextFile(j)
    BY <1>2 DEF RefusedPost
  <2>2. AgentType' /\ AgentOK'
    BY <2>1 DEF NextFile
  <2> QED
    BY <1>2, <2>1 DEF Hears, NextFile
<1> QED
  BY <1>1, <1>2

\* and an acknowledgement lets go of this one.
LEMMA SettledHears ==
  ASSUME NEW j \in Jobs, AgentType, AgentOK,
         agent.job = j, agent.pc \in {"wait", "flushwait"}, Settled(j)
  PROVE  Hears({j})
<1> USE Constants DEF AgentType, AgentOK, AgentSteps, Wiping, Reporting, InHand
<1>1. CASE agent.pc = "wait"
  <2>1. spool' = spool /\ agent' = Looping(spool)
    BY <1>1 DEF Settled
  <2>2. AgentType' /\ AgentOK'
    BY <2>1 DEF Looping
  <2> QED
    BY <2>1 DEF Hears, Looping
<1>2. CASE agent.pc = "flushwait"
  <2>1. spool' = spool \ {j} /\ NextFile(j)
    BY <1>2 DEF Settled
  <2>2. AgentType' /\ AgentOK'
    BY <2>1 DEF NextFile
  <2> QED
    BY <2>1 DEF Hears, NextFile
<1> QED
  BY <1>1, <1>2

\* An answer does to the agent what `effect' does, what its loss does, or
\* nothing.
LEMMA AnswerHears ==
  ASSUME NEW j \in Jobs, NEW s \in Slots, AgentType, AgentOK, losses \in 0..MaxLosses
  PROVE  /\ Answer(j, s, Settled(j)) => Hears({j}) /\ losses' \in 0..MaxLosses
         /\ Answer(j, s, RefusedPost(j)) => Hears({}) /\ losses' \in 0..MaxLosses
<1> USE BoundsAssumption
<1>1. Hears({}) => Hears({j})
  BY DEF Hears
<1>2. UNCHANGED <<agent, spool>> => Hears({})
  BY DEF Hears, AgentType, AgentOK, Wiping, Reporting, InHand
<1>3. Waiting(j, s) /\ Unheard(j) => Hears({})
  BY UnheardHears DEF Waiting
<1>4. Waiting(j, s) /\ Settled(j) => Hears({j})
  BY SettledHears DEF Waiting
<1>5. Waiting(j, s) /\ RefusedPost(j) => Hears({})
  BY RefusedHears DEF Waiting
<1>6. UNCHANGED losses \/ Loss => losses' \in 0..MaxLosses
  BY DEF Loss
<1> QED
  BY <1>1, <1>2, <1>3, <1>4, <1>5, <1>6 DEF Answer

-----------------------------------------------------------------------------
(* The steps *)

\* Nothing has been handed out.
LEMMA InitIInv == Init => IInv
<1> SUFFICES ASSUME Init PROVE IInv
  OBVIOUS
<1> USE Constants, BoundsAssumption
<1>1. TypeOK
  <2>1. agent \in [pc : AgentSteps, job : Jobs \cup {NoJob}, slot : Slots \cup {0},
                   tries : 0..(Attempts - 1), cancel : BOOLEAN, todo : SUBSET Jobs]
    BY DEF Init, Looping, AgentSteps
  <2>2. post \in [Jobs -> [Slots -> [at : Finishing \cup {"free", "sent"}, cert : Nat]]]
    BY DEF Init, Free
  <2>3. losses \in 0..MaxLosses /\ faults \in 0..MaxFaults /\ crashes \in 0..MaxCrashes
    BY DEF Init
  <2> QED
    BY <2>1, <2>2, <2>3 DEF Init, TypeOK, Status
<1>2. AgentOK
  BY DEF Init, AgentOK, Looping
<1>3. ASSUME NEW j \in Jobs PROVE JobInv(j)
  BY DEF Init, JobInv, Fresh, Verdict, Known, Posts, Evidence, Once, Owned, Wiping,
         Reporting, Free, Looping
<1> QED
  BY <1>1, <1>2, <1>3 DEF IInv

\* What each step that ends a wait of the agent lets it forget.
LEMMA PostHears ==
  ASSUME NEW j \in Jobs, NEW s \in Slots, TypeOK, AgentOK
  PROVE  /\ LosePost(j, s) \/ Timeout(j, s) \/ RefuseAgent(j, s) =>
              Hears({}) /\ losses' \in 0..MaxLosses
         /\ Conflict(j, s) \/ Accept(j, s) \/ AcceptCancelled(j, s) =>
              Hears({j}) /\ losses' \in 0..MaxLosses
<1>1. AgentType /\ losses \in 0..MaxLosses
  BY DEF TypeOK, AgentType
<1>2. Waiting(j, s) /\ Unheard(j) /\ Loss => Hears({}) /\ losses' \in 0..MaxLosses
  BY <1>1, UnheardHears, BoundsAssumption DEF Waiting, Loss
<1> QED
  BY <1>1, <1>2, AnswerHears
     DEF LosePost, Timeout, RefuseAgent, Conflict, Accept, AcceptCancelled

\* A restart of the server takes no result from the agent.
LEMMA CrashHears ==
  ASSUME TypeOK, AgentOK, ServerCrash
  PROVE  Hears({})
<1>1. AgentType
  BY DEF TypeOK, AgentType
<1>2. CASE agent.pc \in {"wait", "flushwait"}
  BY <1>1, <1>2, UnheardHears DEF ServerCrash, AgentOK
<1>3. CASE agent.pc \notin {"wait", "flushwait"}
  BY <1>1, <1>3 DEF ServerCrash, Hears, AgentType, AgentOK, Wiping, Reporting, InHand
<1> QED
  BY <1>2, <1>3

\* Every step keeps the types, and the agent on a job with its spool in order.
LEMMA TypeStep ==
  ASSUME IInv, Next
  PROVE  TypeOK' /\ AgentOK'
<1> USE Constants, BoundsAssumption DEF IInv, rowVars, agentVars, countVars
<1>1. ASSUME NEW j \in Jobs, NEW gate \in BOOLEAN, CreateJob(j, gate) PROVE TypeOK' /\ AgentOK'
  BY <1>1 DEF CreateJob, SetStatus, TypeOK, Status, AgentOK
<1>2. ASSUME NEW j \in Jobs, ApproveJob(j) PROVE TypeOK' /\ AgentOK'
  BY <1>2 DEF ApproveJob, SetStatus, TypeOK, Status, AgentOK
<1>3. ASSUME NEW j \in Jobs, CancelJob(j) PROVE TypeOK' /\ AgentOK'
  BY <1>3 DEF CancelJob, SetStatus, TypeOK, Status, Terminal, AgentOK
<1>4. ASSUME RevokeAgent PROVE TypeOK' /\ AgentOK'
  BY <1>4 DEF RevokeAgent, TypeOK, AgentOK
<1>5. ASSUME PollNothing PROVE TypeOK' /\ AgentOK'
  BY <1>5 DEF PollNothing, Looping, TypeOK, AgentOK, AgentSteps
<1>6. ASSUME NEW j \in Jobs, Poll(j) PROVE TypeOK' /\ AgentOK'
  <2>1. agent' \in [pc : AgentSteps, job : Jobs \cup {NoJob}, slot : Slots \cup {0},
                    tries : 0..(Attempts - 1), cancel : BOOLEAN, todo : SUBSET Jobs]
        /\ AgentOK'
    BY <1>6 DEF Poll, Looping, AgentSteps, AgentOK
  <2> QED
    BY <1>6, <2>1 DEF Poll, SetStatus, TypeOK, Status
<1>7. ASSUME NEW j \in Jobs, PollDetached(j) PROVE TypeOK' /\ AgentOK'
  <2>1. agent' \in [pc : AgentSteps, job : Jobs \cup {NoJob}, slot : Slots \cup {0},
                    tries : 0..(Attempts - 1), cancel : BOOLEAN, todo : SUBSET Jobs]
        /\ AgentOK'
    BY <1>7 DEF PollDetached, Looping, AgentSteps, AgentOK
  <2> QED
    BY <1>7, <2>1 DEF PollDetached, SetStatus, Outcomes, TypeOK, Status
<1>8. ASSUME NEW j \in Jobs, PollUnheard(j) PROVE TypeOK' /\ AgentOK'
  BY <1>8 DEF PollUnheard, SetStatus, Looping, Loss, TypeOK, Status, AgentOK, AgentSteps
<1>9. ASSUME Progress PROVE TypeOK' /\ AgentOK'
  BY <1>9 DEF Progress, TypeOK, AgentOK
<1>10. ASSUME WipeEnds PROVE TypeOK' /\ AgentOK'
  <2>1. outcome' \in [Jobs -> Outcomes \cup {"none"}]
    <3>1. PICK o \in Outcomes : outcome' = [outcome EXCEPT ![agent.job] = o]
      BY <1>10 DEF WipeEnds
    <3> QED
      BY <3>1 DEF TypeOK
  <2>2. agent' = [agent EXCEPT !.pc = "post"]
    BY <1>10 DEF WipeEnds
  <2> QED
    BY <1>10, <2>1, <2>2 DEF WipeEnds, TypeOK, AgentOK, AgentSteps
<1>11. ASSUME NEW j \in Jobs, NEW s \in Slots, Send(j, s) PROVE TypeOK' /\ AgentOK'
  BY <1>11 DEF Send, PostOf, SetPost, At, TypeOK, AgentOK, AgentSteps
<1>12. ASSUME NEW j \in Jobs, NEW s \in Slots, Flush(j, s) PROVE TypeOK' /\ AgentOK'
  BY <1>12 DEF Flush, PostOf, SetPost, At, TypeOK, AgentOK, AgentSteps
<1>13. ASSUME FlushEnds PROVE TypeOK' /\ AgentOK'
  BY <1>13 DEF FlushEnds, TypeOK, AgentOK, AgentSteps
<1>14. ASSUME NEW j \in Jobs, NEW s \in Slots, LosePost(j, s) PROVE TypeOK' /\ AgentOK'
  <2>1. Hears({}) /\ losses' \in 0..MaxLosses
    BY <1>14, PostHears
  <2> QED
    BY <1>14, <2>1 DEF LosePost, SetPost, Free, Hears, AgentType, TypeOK
<1>15. ASSUME NEW j \in Jobs, NEW s \in Slots, Timeout(j, s) PROVE TypeOK' /\ AgentOK'
  <2>1. Hears({}) /\ losses' \in 0..MaxLosses
    BY <1>15, PostHears
  <2> QED
    BY <1>15, <2>1 DEF Timeout, Hears, AgentType, TypeOK
<1>16. ASSUME NEW j \in Jobs, NEW s \in Slots, RefuseAgent(j, s) PROVE TypeOK' /\ AgentOK'
  <2>1. Hears({}) /\ losses' \in 0..MaxLosses
    BY <1>16, PostHears
  <2> QED
    BY <1>16, <2>1 DEF RefuseAgent, SetPost, Free, Hears, AgentType, TypeOK
<1>17. ASSUME NEW j \in Jobs, NEW s \in Slots, Conflict(j, s) PROVE TypeOK' /\ AgentOK'
  <2>1. Hears({j}) /\ losses' \in 0..MaxLosses
    BY <1>17, PostHears
  <2> QED
    BY <1>17, <2>1 DEF Conflict, SetPost, Free, Hears, AgentType, TypeOK
<1>18. ASSUME NEW j \in Jobs, NEW s \in Slots, Accept(j, s) PROVE TypeOK' /\ AgentOK'
  <2>1. Hears({j}) /\ losses' \in 0..MaxLosses
    BY <1>18, PostHears
  <2> QED
    BY <1>18, <2>1 DEF Accept, SetPost, At, Hears, AgentType, TypeOK, Finishing
<1>19. ASSUME NEW j \in Jobs, NEW s \in Slots, AcceptCancelled(j, s) PROVE TypeOK' /\ AgentOK'
  <2>1. Hears({j}) /\ losses' \in 0..MaxLosses
    BY <1>19, PostHears
  <2> QED
    BY <1>19, <2>1
       DEF AcceptCancelled, SetPost, SetStatus, Free, Hears, AgentType, TypeOK, Status,
           Terminal
<1>20. ASSUME NEW j \in Jobs, NEW s \in Slots, CompleteWrite(j, s) PROVE TypeOK' /\ AgentOK'
  BY <1>20
     DEF CompleteWrite, SetStatus, SetPost, At, TypeOK, Status, Terminal, Finishing, AgentOK
<1>21. ASSUME NEW j \in Jobs, NEW s \in Slots, FailWrite(j, s) PROVE TypeOK' /\ AgentOK'
  BY <1>21 DEF FailWrite, SetStatus, SetPost, Free, TypeOK, Status, Terminal, AgentOK
<1>22. ASSUME NEW j \in Jobs, NEW s \in Slots, Issue(j, s) PROVE TypeOK' /\ AgentOK'
  BY <1>22 DEF Issue, SetPost, TypeOK, Finishing, AgentOK
<1>23. ASSUME NEW j \in Jobs, NEW s \in Slots, Publish(j, s) PROVE TypeOK' /\ AgentOK'
  BY <1>23 DEF Publish, SetPost, At, TypeOK, Finishing, AgentOK
<1>24. ASSUME NEW j \in Jobs, NEW s \in Slots, Record(j, s) PROVE TypeOK' /\ AgentOK'
  BY <1>24 DEF Record, SetPost, Free, TypeOK, AgentOK
<1>25. ASSUME NEW j \in Jobs, NEW s \in Slots, StatusFault(j, s) PROVE TypeOK' /\ AgentOK'
  <2> DEFINE p == [post EXCEPT ![j][s] = Free]
  <2>1. p \in [Jobs -> [Slots -> [at : Finishing \cup {"free", "sent"}, cert : Nat]]]
    BY DEF TypeOK, Free
  <2>2. post' = post \/ post' = p
    BY <1>25 DEF StatusFault, SetPost
  <2>3. status' \in [Jobs -> Status]
    BY <1>25 DEF StatusFault, SetStatus, TypeOK, Status, Terminal
  <2>4. dropped' \subseteq Jobs /\ faults' \in 0..MaxFaults
    BY <1>25 DEF StatusFault, Fault, TypeOK
  <2> QED
    BY <1>25, <2>1, <2>2, <2>3, <2>4 DEF StatusFault, TypeOK, AgentOK
<1>26. ASSUME NEW j \in Jobs, NEW s \in Slots, FinalizeFault(j, s) PROVE TypeOK' /\ AgentOK'
  <2> DEFINE p == [post EXCEPT ![j][s] = Free]
             q == [post EXCEPT ![j][s] = At("issue")]
  <2>1. {p, q} \subseteq [Jobs -> [Slots -> [at : Finishing \cup {"free", "sent"}, cert : Nat]]]
    BY DEF TypeOK, Free, At, Finishing
  <2>2. post' \in {p, q}
    BY <1>26 DEF FinalizeFault, SetPost
  <2>3. dropped' \subseteq Jobs /\ faults' \in 0..MaxFaults
    BY <1>26 DEF FinalizeFault, Fault, TypeOK
  <2> QED
    BY <1>26, <2>1, <2>2, <2>3 DEF FinalizeFault, TypeOK, AgentOK
<1>27. ASSUME AgentCrash PROVE TypeOK' /\ AgentOK'
  BY <1>27 DEF AgentCrash, Crash, Looping, TypeOK, AgentOK, AgentSteps
<1>28. ASSUME ServerCrash PROVE TypeOK' /\ AgentOK'
  <2>1. Hears({})
    BY <1>28, CrashHears
  <2> QED
    BY <1>28, <2>1 DEF ServerCrash, Crash, Free, Hears, AgentType, TypeOK
<1> QED
  BY <1>1, <1>2, <1>3, <1>4, <1>5, <1>6, <1>7, <1>8, <1>9, <1>10, <1>11, <1>12, <1>13,
     <1>14, <1>15, <1>16, <1>17, <1>18, <1>19, <1>20, <1>21, <1>22, <1>23, <1>24, <1>25,
     <1>26, <1>27, <1>28
     DEF Next, ServerStep, AgentStep

\* Every step keeps the invariant of every job.
LEMMA JobStep ==
  ASSUME IInv, Next, NEW k \in Jobs
  PROVE  JobInv(k)'
<1>a. TypeOK /\ AgentOK /\ JobInv(k)
  BY DEF IInv
<1> USE <1>a DEF rowVars, agentVars, countVars
<1>1. ASSUME NEW j \in Jobs, NEW gate \in BOOLEAN, CreateJob(j, gate) PROVE JobInv(k)'
  BY <1>1
     DEF CreateJob, SetStatus, JobInv, Fresh, Verdict, Evidence, Once, Posts, Known, Wiping,
         Reporting, Owned, Finished, InHand
<1>2. ASSUME NEW j \in Jobs, ApproveJob(j) PROVE JobInv(k)'
  BY <1>2
     DEF ApproveJob, SetStatus, JobInv, Fresh, Verdict, Evidence, Once, Posts, Known,
         Wiping, Reporting, Owned, Finished, InHand
<1>3. ASSUME NEW j \in Jobs, CancelJob(j) PROVE JobInv(k)'
  <2>1. Fresh(k)' /\ Verdict(k)' /\ Evidence(k)' /\ Once(k)'
    <3>1. \/ status'[k] = status[k]
          \/ /\ status'[k] = "cancelled"
             /\ status[k] \notin Terminal \cup {"absent", "running"}
      BY <1>3 DEF TypeOK, CancelJob, SetStatus
    <3>2. status[k] \in Status /\ outcome[k] \in Outcomes \cup {"none"}
      BY DEF TypeOK
    <3> QED
      BY <1>3, <3>1, <3>2 DEF CancelJob, Status, JobInv, Fresh, Verdict, Evidence, Once
  <2>2. Known(k)'
    BY <1>3 DEF TypeOK, CancelJob, SetStatus, JobInv, Known, Wiping, Reporting
  <2>3. Posts(k)'
    BY <1>3 DEF CancelJob, JobInv, Posts
  <2>4. Owned(k)'
    BY <1>3 DEF TypeOK, CancelJob, SetStatus, JobInv, Owned, Finished, InHand
  <2> QED
    BY <2>1, <2>2, <2>3, <2>4 DEF JobInv
<1>4. ASSUME RevokeAgent PROVE JobInv(k)'
  BY <1>4
     DEF RevokeAgent, JobInv, Fresh, Verdict, Evidence, Once, Posts, Known, Wiping,
         Reporting, Owned, Finished, InHand
<1>5. ASSUME PollNothing PROVE JobInv(k)'
  BY <1>5
     DEF PollNothing, Looping, JobInv, Fresh, Verdict, Evidence, Once, Posts, Known, Wiping,
         Reporting, Owned, Finished, InHand
<1>6. ASSUME NEW j \in Jobs, Poll(j) PROVE JobInv(k)'
  BY <1>6
     DEF TypeOK, Poll, Oldest, SetStatus, JobInv, Fresh, Verdict, Evidence, Once, Posts,
         Known, Wiping, Reporting, Owned, Finished, InHand
<1>7. ASSUME NEW j \in Jobs, PollDetached(j) PROVE JobInv(k)'
  BY <1>7
     DEF TypeOK, PollDetached, Oldest, SetStatus, JobInv, Fresh, Verdict, Evidence, Once,
         Posts, Known, Wiping, Reporting, Owned, Finished, InHand
<1>8. ASSUME NEW j \in Jobs, PollUnheard(j) PROVE JobInv(k)'
  BY <1>8
     DEF PollUnheard, SetStatus, Looping, JobInv, Fresh, Verdict, Evidence, Once, Posts,
         Known, Wiping, Reporting, Owned, Finished, InHand
<1>9. ASSUME Progress PROVE JobInv(k)'
  BY <1>9
     DEF Progress, JobInv, Fresh, Verdict, Evidence, Once, Posts, Known, Wiping, Reporting,
         Owned, Finished, InHand
<1>10. ASSUME WipeEnds PROVE JobInv(k)'
  BY <1>10
     DEF TypeOK, WipeEnds, Outcomes, JobInv, Fresh, Verdict, Evidence, Once, Posts, Known,
         Wiping, Reporting, Owned, Finished, InHand
<1>11. ASSUME NEW j \in Jobs, NEW s \in Slots, Send(j, s) PROVE JobInv(k)'
  BY <1>11
     DEF Send, PostOf, SetPost, At, JobInv, Fresh, Verdict, Evidence, Once, Posts, Known,
         Wiping, Reporting, Owned, Finished, InHand
<1>12. ASSUME NEW j \in Jobs, NEW s \in Slots, Flush(j, s) PROVE JobInv(k)'
  BY <1>12
     DEF Flush, PostOf, SetPost, At, JobInv, Fresh, Verdict, Evidence, Once, Posts, Known,
         Wiping, Reporting, AgentOK, Owned, Finished, InHand
<1>13. ASSUME FlushEnds PROVE JobInv(k)'
  BY <1>13
     DEF FlushEnds, JobInv, Fresh, Verdict, Evidence, Once, Posts, Known, Wiping, Reporting,
         Owned, Finished, InHand
<1>14. ASSUME NEW j \in Jobs, NEW s \in Slots, LosePost(j, s) PROVE JobInv(k)'
  <2>1. Hears({})
    BY <1>14, PostHears
  <2> QED
    BY <1>14, <2>1
       DEF LosePost, SetPost, Free, JobInv, Fresh, Verdict, Evidence, Once, Posts, Known,
           Hears, Owned, Finished
<1>15. ASSUME NEW j \in Jobs, NEW s \in Slots, Timeout(j, s) PROVE JobInv(k)'
  <2>1. Hears({})
    BY <1>15, PostHears
  <2> QED
    BY <1>15, <2>1
       DEF Timeout, JobInv, Fresh, Verdict, Evidence, Once, Posts, Known, Hears, Owned,
           Finished
<1>16. ASSUME NEW j \in Jobs, NEW s \in Slots, RefuseAgent(j, s) PROVE JobInv(k)'
  <2>1. Hears({})
    BY <1>16, PostHears
  <2> QED
    BY <1>16, <2>1
       DEF RefuseAgent, SetPost, Free, Arrives, JobInv, Fresh, Verdict, Evidence, Once,
           Posts, Known, Hears, Owned, Finished
<1>17. ASSUME NEW j \in Jobs, NEW s \in Slots, Conflict(j, s) PROVE JobInv(k)'
  <2>1. Hears({j})
    BY <1>17, PostHears
  <2> QED
    BY <1>17, <2>1
       DEF Conflict, SetPost, Free, JobInv, Fresh, Verdict, Evidence, Once, Posts, Known,
           Hears, Owned, Finished
<1>18. ASSUME NEW j \in Jobs, NEW s \in Slots, Accept(j, s) PROVE JobInv(k)'
  <2>1. Hears({j})
    BY <1>18, PostHears
  <2> QED
    BY <1>18, <2>1
       DEF TypeOK, Accept, SetPost, At, Arrives, JobInv, Fresh, Verdict, Evidence, Once,
           Posts, Known, Hears, Outcomes, Owned, Finished
<1>19. ASSUME NEW j \in Jobs, NEW s \in Slots, AcceptCancelled(j, s) PROVE JobInv(k)'
  <2>1. Hears({j})
    BY <1>19, PostHears
  <2> QED
    BY <1>19, <2>1
       DEF TypeOK, AcceptCancelled, SetPost, SetStatus, Free, JobInv, Fresh, Verdict,
           Evidence, Once, Posts, Known, Hears, Owned, Finished
<1>20. ASSUME NEW j \in Jobs, NEW s \in Slots, CompleteWrite(j, s) PROVE JobInv(k)'
  BY <1>20
     DEF TypeOK, CompleteWrite, SetStatus, SetPost, At, JobInv, Fresh, Verdict, Evidence,
         Once, Posts, Known, Wiping, Reporting, Owned, Finished, InHand
<1>21. ASSUME NEW j \in Jobs, NEW s \in Slots, FailWrite(j, s) PROVE JobInv(k)'
  BY <1>21
     DEF TypeOK, FailWrite, SetStatus, SetPost, Free, JobInv, Fresh, Verdict, Evidence,
         Once, Posts, Known, Wiping, Reporting, Owned, Finished, InHand
<1>22. ASSUME NEW j \in Jobs, NEW s \in Slots, Issue(j, s) PROVE JobInv(k)'
  BY <1>22
     DEF Issue, SetPost, JobInv, Fresh, Verdict, Evidence, Once, Posts, Known, Wiping,
         Reporting, Owned, Finished, InHand
<1>23. ASSUME NEW j \in Jobs, NEW s \in Slots, Publish(j, s) PROVE JobInv(k)'
  BY <1>23
     DEF Publish, SetPost, At, JobInv, Fresh, Verdict, Evidence, Once, Posts, Known, Wiping,
         Reporting, Owned, Finished, InHand
<1>24. ASSUME NEW j \in Jobs, NEW s \in Slots, Record(j, s) PROVE JobInv(k)'
  BY <1>24
     DEF Record, SetPost, Free, JobInv, Fresh, Verdict, Evidence, Once, Posts, Known,
         Wiping, Reporting, Owned, Finished, InHand
<1>25. ASSUME NEW j \in Jobs, NEW s \in Slots, StatusFault(j, s) PROVE JobInv(k)'
  <2>1. Fresh(k)' /\ Verdict(k)' /\ Evidence(k)' /\ Once(k)'
    BY <1>25
       DEF TypeOK, StatusFault, SetStatus, JobInv, Fresh, Verdict, Evidence, Once, Posts
  <2>2. Known(k)'
    BY <1>25 DEF TypeOK, StatusFault, SetStatus, JobInv, Known, Posts, Wiping, Reporting
  <2>3. Posts(k)'
    <3>1. PICK p \in {Free} : post' \in {post, [post EXCEPT ![j][s] = p]}
      BY <1>25 DEF StatusFault, SetPost
    <3>2. \A t \in Slots : post'[k][t] = post[k][t] \/ (post'[k][t] = p /\ k = j /\ t = s)
      BY <3>1 DEF TypeOK
    <3>3. outcome'[k] = outcome[k] /\ (k = j => post[k][s].at \in Finishing)
      BY <1>25 DEF StatusFault, Finishing
    <3>4. /\ p.at \in {"free", "issue"}
          /\ p.at = "issue" => post[j][s].at \in {"issue", "publish", "record"}
      BY DEF Free
    <3> QED
      BY <3>2, <3>3, <3>4 DEF JobInv, Posts
  <2>4. Owned(k)'
    BY <1>25 DEF TypeOK, StatusFault, SetStatus, SetPost, JobInv, Owned, Finished, InHand
  <2> QED
    BY <2>1, <2>2, <2>3, <2>4 DEF JobInv
<1>26. ASSUME NEW j \in Jobs, NEW s \in Slots, FinalizeFault(j, s) PROVE JobInv(k)'
  <2>1. Fresh(k)' /\ Verdict(k)' /\ Evidence(k)' /\ Once(k)'
    BY <1>26 DEF FinalizeFault, JobInv, Fresh, Verdict, Evidence, Once
  <2>2. Known(k)'
    BY <1>26 DEF FinalizeFault, JobInv, Known, Wiping, Reporting
  <2>3. Posts(k)'
    <3>1. PICK p \in {Free, At("issue")} : post' \in {post, [post EXCEPT ![j][s] = p]}
      BY <1>26 DEF FinalizeFault, SetPost
    <3>2. \A t \in Slots : post'[k][t] = post[k][t] \/ (post'[k][t] = p /\ k = j /\ t = s)
      BY <3>1 DEF TypeOK
    <3>3. outcome'[k] = outcome[k] /\ (k = j => post[k][s].at \in Finishing)
      BY <1>26 DEF FinalizeFault, Finishing
    <3>4. /\ p.at \in {"free", "issue"}
          /\ p.at = "issue" => post[j][s].at \in {"issue", "publish", "record"}
      BY <1>26 DEF FinalizeFault, Free, At
    <3> QED
      BY <3>2, <3>3, <3>4 DEF JobInv, Posts
  <2>4. Owned(k)'
    BY <1>26
       DEF TypeOK, FinalizeFault, Fault, SetPost, At, Free, JobInv, Owned, Finished,
           Finishing, InHand, AgentOK
  <2> QED
    BY <2>1, <2>2, <2>3, <2>4 DEF JobInv
<1>27. ASSUME AgentCrash PROVE JobInv(k)'
  BY <1>27
     DEF AgentCrash, Looping, JobInv, Fresh, Verdict, Evidence, Once, Posts, Known, Wiping,
         Reporting, Owned, Finished, InHand
<1>28. ASSUME ServerCrash PROVE JobInv(k)'
  <2>1. Hears({})
    BY <1>28, CrashHears
  <2> QED
    BY <1>28, <2>1
       DEF ServerCrash, Free, JobInv, Fresh, Verdict, Evidence, Once, Posts, Known, Hears,
           Owned, Finished, Finishing
<1> QED
  BY <1>1, <1>2, <1>3, <1>4, <1>5, <1>6, <1>7, <1>8, <1>9, <1>10, <1>11, <1>12, <1>13,
     <1>14, <1>15, <1>16, <1>17, <1>18, <1>19, <1>20, <1>21, <1>22, <1>23, <1>24, <1>25,
     <1>26, <1>27, <1>28
     DEF Next, ServerStep, AgentStep

-----------------------------------------------------------------------------
(* The theorems *)

\* The inductive invariant: what the routes, the agent and the threads rely on.
THEOREM Invariance == Spec => []IInv
<1>1. IInv /\ [Next]_vars => IInv'
  <2> SUFFICES ASSUME IInv, [Next]_vars PROVE IInv'
    OBVIOUS
  <2>1. CASE Next
    BY <2>1, TypeStep, JobStep DEF IInv
  <2>2. CASE UNCHANGED vars
    BY <2>2
       DEF vars, rowVars, agentVars, countVars, IInv, TypeOK, AgentOK, JobInv, Fresh,
           Verdict, Known, Posts, Evidence, Once, Owned, Finished, Wiping, Reporting, InHand
  <2> QED
    BY <2>1, <2>2
<1> QED
  BY InitIInv, <1>1, PTL DEF Spec

\* Every variable keeps its type; the agent never counts more than Attempts.
THEOREM TypeCorrect == Spec => []TypeOK
<1>1. IInv => TypeOK
  BY DEF IInv
<1> QED
  BY Invariance, <1>1, PTL

\* No device is wiped twice for a job.
THEOREM WipedOnceHolds == Spec => []WipedOnce
<1>1. IInv => WipedOnce
  BY DEF IInv, JobInv, Once, WipedOnce
<1> QED
  BY Invariance, <1>1, PTL

\* Completed, published and certified jobs are those the agent ended with ok.
THEOREM CertifiedWasErasedHolds == Spec => []CertifiedWasErased
<1>1. IInv => CertifiedWasErased
  BY DEF IInv, TypeOK, Outcomes, JobInv, Evidence, Verdict, CertifiedWasErased
<1> QED
  BY Invariance, <1>1, PTL

\* A failed job has neither a published hash nor a certificate file.
THEOREM FailedNeverCertifiedHolds == Spec => []FailedNeverCertified
<1>1. IInv => FailedNeverCertified
  <2> SUFFICES ASSUME IInv, NEW j \in Jobs, status[j] = "failed"
               PROVE  hash[j] = 0 /\ pdf[j] = 0
    BY DEF FailedNeverCertified
  <2>1. outcome[j] # "ok"
    BY DEF IInv, JobInv, Verdict
  <2>2. hash[j] \in Nat /\ pdf[j] \in Nat
    BY DEF IInv, TypeOK
  <2> QED
    BY <2>1, <2>2 DEF IInv, JobInv, Evidence
<1> QED
  BY Invariance, <1>1, PTL

\* A cancelled job was never started, or its wipe stopped for that reason.
THEOREM CancelledMeansStoppedHolds == Spec => []CancelledMeansStopped
<1>1. IInv => CancelledMeansStopped
  BY DEF IInv, TypeOK, Outcomes, JobInv, Fresh, Verdict, CancelledMeansStopped
<1> QED
  BY Invariance, <1>1, PTL

\* A running job is in somebody's hands, or a failure of a named kind has
\* dropped it.
THEOREM RunningIsOwnedHolds == Spec => []RunningIsOwned
<1>1. IInv => RunningIsOwned
  BY DEF IInv, JobInv, Owned, Finished, InHand, RunningIsOwned
<1> QED
  BY Invariance, <1>1, PTL

\* No step takes a job out of a final status.
LEMMA FinalStep ==
  ASSUME IInv, Next, NEW k \in Jobs, status[k] \in Terminal
  PROVE  status'[k] = status[k]
<1>1. TypeOK /\ JobInv(k)
  BY DEF IInv
<1>2. ASSUME NEW j \in Jobs,
             \/ \E gate \in BOOLEAN : CreateJob(j, gate)
             \/ ApproveJob(j) \/ CancelJob(j) \/ PollUnheard(j) \/ Poll(j) \/ PollDetached(j)
      PROVE  status'[k] = status[k]
  BY <1>1, <1>2
     DEF TypeOK, Terminal, CreateJob, ApproveJob, CancelJob, PollUnheard, Poll,
         PollDetached, Oldest, SetStatus
<1>3. ASSUME NEW j \in Jobs, NEW s \in Slots,
             \/ AcceptCancelled(j, s) \/ CompleteWrite(j, s) \/ FailWrite(j, s)
             \/ StatusFault(j, s)
      PROVE  status'[k] = status[k]
  <2>1. CASE k # j
    BY <1>1, <1>3, <2>1
       DEF TypeOK, AcceptCancelled, CompleteWrite, FailWrite, StatusFault, SetStatus
  <2>2. CASE k = j
    BY <1>1, <1>3
       DEF TypeOK, Terminal, JobInv, Verdict, Posts, AcceptCancelled, CompleteWrite,
           FailWrite, StatusFault, SetStatus
  <2> QED
    BY <2>1, <2>2
<1>4. ASSUME NEW j \in Jobs, NEW s \in Slots,
             \/ RefuseAgent(j, s) \/ Conflict(j, s) \/ Accept(j, s) \/ Issue(j, s)
             \/ Publish(j, s) \/ Record(j, s) \/ LosePost(j, s) \/ Timeout(j, s)
             \/ FinalizeFault(j, s) \/ Send(j, s) \/ Flush(j, s)
      PROVE  status'[k] = status[k]
  BY <1>4
     DEF RefuseAgent, Conflict, Accept, Issue, Publish, Record, LosePost, Timeout,
         FinalizeFault, Send, Flush, PostOf, rowVars
<1>5. ASSUME \/ FlushEnds \/ PollNothing \/ WipeEnds \/ Progress \/ RevokeAgent
             \/ AgentCrash \/ ServerCrash
      PROVE  status'[k] = status[k]
  BY <1>5
     DEF FlushEnds, PollNothing, WipeEnds, Progress, RevokeAgent, AgentCrash, ServerCrash,
         rowVars
<1> QED
  BY <1>2, <1>3, <1>4, <1>5 DEF Next, ServerStep, AgentStep

\* No step leaves a final status: whatever is posted late carries the result
\* that put it there.
THEOREM TerminalIsFinalHolds == Spec => TerminalIsFinal
<1> DEFINE Final == \A j \in Jobs : status[j] \in Terminal => status'[j] = status[j]
<1>1. ASSUME IInv, Next PROVE Final
  BY <1>1, FinalStep
<1>2. IInv /\ [Next]_vars => [Final]_vars
  BY <1>1
<1> QED
  BY Invariance, <1>2, PTL DEF Spec, TerminalIsFinal

-----------------------------------------------------------------------------
(***************************************************************************)
(* AgentJobs implements WipeJob, without a contested job.                  *)
(***************************************************************************)

\* What the mapping needs beyond IInv: a thread issues a certificate for a job
\* that is completed, and the file is there before its hash is published.
Issuing(j) ==
  \A s \in Slots :
    /\ post[j][s].at \in {"issue", "publish", "record"} => status[j] = "completed"
    /\ post[j][s].at = "publish" => pdf[j] > 0

\* SetPost writes one slot of one job.
LEMMA PostWrite ==
  ASSUME TypeOK, NEW j \in Jobs, NEW s \in Slots, NEW p, SetPost(j, s, p),
         NEW k \in Jobs, NEW r \in Slots
  PROVE  post'[k][r] = IF k = j /\ r = s THEN p ELSE post[k][r]
<1> QED
  BY DEF TypeOK, SetPost

\* Issuing is an invariant, given IInv.
LEMMA IssuingStep ==
  ASSUME IInv, Next, NEW k \in Jobs, Issuing(k)
  PROVE  Issuing(k)'
<1>a. TypeOK /\ TypeOK'
  BY TypeStep DEF IInv
<1>b. status[k] = "completed" => status'[k] = "completed"
  BY FinalStep DEF Terminal
<1>1. ASSUME NEW j \in Jobs,
             \/ \E gate \in BOOLEAN : CreateJob(j, gate)
             \/ ApproveJob(j) \/ CancelJob(j) \/ PollUnheard(j) \/ Poll(j) \/ PollDetached(j)
      PROVE  Issuing(k)'
  BY <1>1, <1>b
     DEF Issuing, CreateJob, ApproveJob, CancelJob, PollUnheard, Poll, PollDetached
<1>2. ASSUME \/ FlushEnds \/ PollNothing \/ WipeEnds \/ Progress \/ RevokeAgent
             \/ AgentCrash
      PROVE  Issuing(k)'
  BY <1>2, <1>b
     DEF Issuing, FlushEnds, PollNothing, WipeEnds, Progress, RevokeAgent, AgentCrash, rowVars
<1>3. CASE ServerCrash
  BY <1>3 DEF Issuing, ServerCrash, Free
<1>4. ASSUME NEW j \in Jobs, NEW s \in Slots,
             \/ RefuseAgent(j, s) \/ Conflict(j, s) \/ Accept(j, s)
             \/ AcceptCancelled(j, s) \/ LosePost(j, s) \/ Timeout(j, s)
             \/ Send(j, s) \/ Flush(j, s) \/ Record(j, s) \/ FailWrite(j, s)
      PROVE  Issuing(k)'
  <2>1. /\ pdf' = pdf
        /\ \A r \in Slots :
             \/ post'[k][r] = post[k][r]
             \/ post'[k][r].at \in {"free", "sent", "complete", "failing"}
    <3>1. /\ pdf' = pdf
          /\ \/ post' = post
             \/ \E p : /\ SetPost(j, s, p)
                       /\ p.at \in {"free", "sent", "complete", "failing"}
      BY <1>4
         DEF RefuseAgent, Conflict, Accept, AcceptCancelled, LosePost, Timeout, Send, Flush,
             PostOf, Record, FailWrite, At, Free, rowVars
    <3>2. CASE post' = post
      BY <3>1, <3>2
    <3>3. ASSUME NEW p, SetPost(j, s, p), p.at \in {"free", "sent", "complete", "failing"}
          PROVE  \A r \in Slots :
                   \/ post'[k][r] = post[k][r]
                   \/ post'[k][r].at \in {"free", "sent", "complete", "failing"}
      BY <1>a, <3>3, PostWrite
    <3> QED
      BY <3>1, <3>2, <3>3
  <2> QED
    BY <1>b, <2>1 DEF Issuing
<1>5. ASSUME NEW j \in Jobs, NEW s \in Slots,
             \/ CompleteWrite(j, s) \/ StatusFault(j, s) \/ FinalizeFault(j, s)
      PROVE  Issuing(k)'
  <2>1. /\ pdf' = pdf
        /\ \A r \in Slots :
             \/ post'[k][r] = post[k][r]
             \/ post'[k][r].at = "free"
             \/ post'[k][r].at = "issue" /\ status'[k] = "completed"
    <3>1. CASE CompleteWrite(j, s)
      BY <1>a, <3>1 DEF TypeOK, CompleteWrite, SetPost, SetStatus, At
    <3>2. CASE StatusFault(j, s)
      <4>1. pdf' = pdf /\ (post' = post \/ SetPost(j, s, Free))
        BY <3>2 DEF StatusFault
      <4>2. CASE post' = post
        BY <4>1, <4>2
      <4>3. CASE SetPost(j, s, Free)
        BY <1>a, <4>1, <4>3, PostWrite DEF Free
      <4> QED
        BY <4>1, <4>2, <4>3
    <3>3. CASE FinalizeFault(j, s)
      <4>1. /\ pdf' = pdf /\ status' = status
            /\ SetPost(j, s, At("issue")) \/ SetPost(j, s, Free)
            /\ post[j][s].at \in {"issue", "publish", "record"}
        BY <3>3 DEF FinalizeFault, rowVars
      <4>2. k = j => status[k] = "completed"
        BY <4>1 DEF Issuing
      <4>3. CASE SetPost(j, s, At("issue"))
        BY <1>a, <4>1, <4>2, <4>3, PostWrite DEF At
      <4>4. CASE SetPost(j, s, Free)
        BY <1>a, <4>1, <4>4, PostWrite DEF Free
      <4> QED
        BY <4>1, <4>3, <4>4
    <3> QED
      BY <1>5, <3>1, <3>2, <3>3
  <2> QED
    BY <1>b, <2>1 DEF Issuing
<1>6. ASSUME NEW j \in Jobs, NEW s \in Slots, Issue(j, s) \/ Publish(j, s)
      PROVE  Issuing(k)'
  <2>1. pdf[k] \in Nat /\ (pdf'[k] = pdf[k] \/ pdf'[k] = pdf[k] + 1)
    BY <1>6, <1>a DEF TypeOK, Issue, Publish
  <2>2. \A r \in Slots :
          \/ post'[k][r] = post[k][r]
          \/ post[k][r].at = "issue" /\ post'[k][r].at = "publish" /\ pdf'[k] = pdf[k] + 1
          \/ post[k][r].at = "publish" /\ post'[k][r].at = "record"
    <3>1. CASE Issue(j, s)
      <4>1. SetPost(j, s, [at |-> "publish", cert |-> pdf[j] + 1]) /\ post[j][s].at = "issue"
        BY <3>1 DEF Issue
      <4>2. k = j => pdf'[k] = pdf[k] + 1
        BY <1>a, <3>1 DEF Issue, TypeOK
      <4> QED
        BY <1>a, <4>1, <4>2, PostWrite
    <3>2. CASE Publish(j, s)
      <4>1. SetPost(j, s, At("record")) /\ post[j][s].at = "publish"
        BY <3>2 DEF Publish
      <4> QED
        BY <1>a, <4>1, PostWrite DEF At
    <3> QED
      BY <1>6, <3>1, <3>2
  <2> QED
    BY <1>b, <2>1, <2>2 DEF Issuing
<1> QED
  BY <1>1, <1>2, <1>3, <1>4, <1>5, <1>6 DEF Next, ServerStep, AgentStep

-----------------------------------------------------------------------------
(* Steps of AgentJobs as steps of WipeJob *)

\* A write of the status alone.
LEMMA StatusWrite ==
  ASSUME NEW j \in Jobs, NEW s, SetStatus(j, s), UNCHANGED <<outcome, hash, pdf>>
  PROVE  W!Becomes(j, s)
<1> QED
  BY DEF SetStatus, W!Becomes

\* A write of the status that is there already.
LEMMA SameStatus ==
  ASSUME TypeOK, NEW j \in Jobs, SetStatus(j, status[j])
  PROVE  status' = status
<1> QED
  BY DEF TypeOK, SetStatus

\* Every step of the routes, the agent, the threads and a crash, as WipeJob
\* sees it.
LEMMA StepMaps ==
  ASSUME IInv, Next, \A j \in Jobs : Issuing(j)
  PROVE  W!WNext
<1> DEFINE Stutter == UNCHANGED <<status, [j \in Jobs |-> outcome[j] = "ok"],
                                  [j \in Jobs |-> hash[j] > 0 \/ pdf[j] > 0]>>
           Lives(j) ==
             \/ W!Create(j) \/ W!Approve(j) \/ W!Claim(j) \/ W!Erase(j)
             \/ W!Complete(j) \/ W!Fail(j) \/ W!Cancel(j) \/ W!Certify(j)
             \/ W!Overwrite(j)
<1>a. TypeOK /\ AgentOK /\ \A j \in Jobs : JobInv(j)
  BY DEF IInv
<1>1. ASSUME NEW j \in Jobs, NEW gate \in BOOLEAN, CreateJob(j, gate) PROVE Lives(j)
  BY <1>1, StatusWrite DEF CreateJob, agentVars, W!Create
<1>2. ASSUME NEW j \in Jobs, ApproveJob(j) PROVE Lives(j)
  BY <1>2, StatusWrite DEF ApproveJob, agentVars, W!Approve
<1>3. ASSUME NEW j \in Jobs, CancelJob(j) PROVE Lives(j) \/ Stutter
  <2>1. CASE status[j] = "running"
    BY <1>3, <2>1 DEF CancelJob, agentVars
  <2>2. CASE status[j] # "running"
    <3>1. W!Becomes(j, "cancelled")
      BY <1>3, <2>2, StatusWrite DEF CancelJob, agentVars
    <3>2. status[j] \in {"pending_approval", "queued"} /\ outcome[j] # "ok"
      BY <1>3, <1>a, <2>2 DEF CancelJob, TypeOK, Status, Terminal, JobInv, Fresh
    <3> QED
      BY <3>1, <3>2 DEF W!Cancel
  <2> QED
    BY <2>1, <2>2
<1>4. ASSUME NEW j \in Jobs, PollUnheard(j) \/ Poll(j) PROVE Lives(j)
  BY <1>4, StatusWrite DEF PollUnheard, Poll, Oldest, W!Claim
<1>5. ASSUME NEW j \in Jobs, PollDetached(j) PROVE Lives(j)
  <2>1. \A k \in Jobs : (outcome'[k] = "ok") = (outcome[k] = "ok")
    BY <1>5, <1>a DEF PollDetached, Oldest, TypeOK, JobInv, Fresh
  <2>2. SetStatus(j, "running") /\ UNCHANGED <<hash, pdf>> /\ status[j] = "queued"
    BY <1>5 DEF PollDetached, Oldest
  <2>3. W!Becomes(j, "running")
    BY <2>1, <2>2 DEF SetStatus, W!Becomes
  <2> QED
    BY <2>2, <2>3 DEF W!Claim
<1>6. ASSUME WipeEnds PROVE Stutter \/ \E j \in Jobs : Lives(j)
  <2>1. /\ agent.job \in Jobs /\ status[agent.job] = "running"
        /\ outcome[agent.job] = "none"
    BY <1>6, <1>a DEF WipeEnds, AgentOK, JobInv, Known, Wiping
  <2>2. PICK o \in Outcomes : outcome' = [outcome EXCEPT ![agent.job] = o]
    BY <1>6 DEF WipeEnds
  <2>3. UNCHANGED <<status, hash, pdf>>
    BY <1>6 DEF WipeEnds, rowVars
  <2>4. CASE o = "ok"
    <3>1. [k \in Jobs |-> outcome[k] = "ok"]'
            = [[k \in Jobs |-> outcome[k] = "ok"] EXCEPT ![agent.job] = TRUE]
      BY <1>a, <2>1, <2>2, <2>4 DEF TypeOK
    <3> QED
      BY <2>1, <2>3, <3>1 DEF W!Erase
  <2>5. CASE o # "ok"
    <3>1. \A k \in Jobs : (outcome'[k] = "ok") = (outcome[k] = "ok")
      BY <1>a, <2>1, <2>2, <2>5 DEF TypeOK
    <3> QED
      BY <2>3, <3>1
  <2> QED
    BY <2>4, <2>5
<1>c. ASSUME NEW j \in Jobs, NEW s \in Slots, SetStatus(j, "completed"),
             UNCHANGED <<outcome, hash, pdf>>, post[j][s].at = "complete"
      PROVE  Lives(j) \/ Stutter
  <2>1. outcome[j] = "ok" /\ status[j] \in {"running", "completed"}
    BY <1>a, <1>c DEF JobInv, Posts, Verdict
  <2>2. CASE status[j] = "running"
    BY <1>c, <2>1, <2>2, StatusWrite DEF W!Complete
  <2>3. CASE status[j] = "completed"
    BY <1>a, <1>c, <2>3, SameStatus
  <2> QED
    BY <2>1, <2>2, <2>3
<1>f. ASSUME NEW j \in Jobs, NEW s \in Slots, SetStatus(j, "failed"),
             UNCHANGED <<outcome, hash, pdf>>, post[j][s].at = "failing"
      PROVE  Lives(j) \/ Stutter
  <2>1. outcome[j] = "failed" /\ status[j] \in {"running", "failed"}
    BY <1>a, <1>f DEF JobInv, Posts, Verdict
  <2>2. CASE status[j] = "running"
    BY <1>f, <2>1, <2>2, StatusWrite DEF W!Fail
  <2>3. CASE status[j] = "failed"
    BY <1>a, <1>f, <2>3, SameStatus
  <2> QED
    BY <2>1, <2>2, <2>3
<1>7. ASSUME NEW j \in Jobs, NEW s \in Slots, CompleteWrite(j, s) \/ FailWrite(j, s)
      PROVE  Lives(j) \/ Stutter
  BY <1>7, <1>c, <1>f DEF CompleteWrite, FailWrite, agentVars
<1>8. ASSUME NEW j \in Jobs, NEW s \in Slots, StatusFault(j, s) PROVE Lives(j) \/ Stutter
  <2>1. UNCHANGED <<outcome, hash, pdf>>
    BY <1>8 DEF StatusFault, agentVars
  <2>2. CASE UNCHANGED status
    BY <2>1, <2>2
  <2>3. CASE ~ UNCHANGED status
    BY <1>8, <1>c, <1>f, <2>1, <2>3 DEF StatusFault
  <2> QED
    BY <2>2, <2>3
<1>9. ASSUME NEW j \in Jobs, NEW s \in Slots, AcceptCancelled(j, s) PROVE Lives(j)
  BY <1>9, StatusWrite DEF AcceptCancelled, W!Cancel
<1>10. ASSUME NEW j \in Jobs, NEW s \in Slots, Issue(j, s) PROVE Lives(j)
  <2>1. outcome[j] = "ok" /\ status[j] = "completed"
    BY <1>10, <1>a DEF Issue, JobInv, Posts, Issuing
  <2>2. pdf'[j] > 0 /\ \A k \in Jobs : k # j => pdf'[k] = pdf[k]
    BY <1>10, <1>a DEF Issue, TypeOK
  <2>3. [k \in Jobs |-> hash[k] > 0 \/ pdf[k] > 0]'
          = [[k \in Jobs |-> hash[k] > 0 \/ pdf[k] > 0] EXCEPT ![j] = TRUE]
    BY <1>10, <2>2 DEF Issue, rowVars
  <2>4. UNCHANGED <<status, outcome>>
    BY <1>10 DEF Issue, rowVars, agentVars
  <2> QED
    BY <2>1, <2>3, <2>4 DEF W!Certify
<1>11. ASSUME NEW j \in Jobs, NEW s \in Slots, Publish(j, s) PROVE Stutter
  <2>1. pdf' = pdf /\ pdf[j] > 0 /\ \A k \in Jobs : k # j => hash'[k] = hash[k]
    BY <1>11, <1>a DEF Publish, TypeOK, Issuing
  <2>2. \A k \in Jobs : (hash'[k] > 0 \/ pdf'[k] > 0) = (hash[k] > 0 \/ pdf[k] > 0)
    BY <2>1
  <2> QED
    BY <1>11, <2>2 DEF Publish, agentVars
<1>12. ASSUME NEW j \in Jobs, NEW s \in Slots,
              \/ RefuseAgent(j, s) \/ Conflict(j, s) \/ Accept(j, s) \/ Record(j, s)
              \/ LosePost(j, s) \/ Timeout(j, s) \/ FinalizeFault(j, s)
              \/ Send(j, s) \/ Flush(j, s)
       PROVE  Stutter
  BY <1>12
     DEF RefuseAgent, Conflict, Accept, Record, LosePost, Timeout, FinalizeFault, Send,
         Flush, PostOf, rowVars, agentVars
<1>13. ASSUME \/ FlushEnds \/ PollNothing \/ Progress \/ RevokeAgent \/ AgentCrash
              \/ ServerCrash
       PROVE  Stutter
  BY <1>13
     DEF FlushEnds, PollNothing, Progress, RevokeAgent, AgentCrash, ServerCrash, rowVars,
         agentVars
<1> QED
  <2>1. Stutter \/ \E j \in Jobs : Lives(j)
    BY <1>1, <1>2, <1>3, <1>4, <1>5, <1>6, <1>7, <1>8, <1>9, <1>10, <1>11, <1>12, <1>13
       DEF Next, ServerStep, AgentStep
  <2> QED
    BY <2>1 DEF W!WNext

\* The execution of wipe jobs by an agent implements the abstract job.
THEOREM AgentImplementsWipeJob == Spec => ImplementsWipeJob
<1> DEFINE AllIssuing == \A j \in Jobs : Issuing(j)
<1>1. Init => W!WInit /\ AllIssuing
  <2> SUFFICES ASSUME Init PROVE W!WInit /\ AllIssuing
    OBVIOUS
  <2>1. AllIssuing
    BY DEF Init, Issuing, Free
  <2>2. \A j \in Jobs : outcome[j] = "none" /\ hash[j] = 0 /\ pdf[j] = 0
    BY DEF Init
  <2>3. [j \in Jobs |-> outcome[j] = "ok"] = [j \in Jobs |-> FALSE]
    BY <2>2
  <2>4. [j \in Jobs |-> hash[j] > 0 \/ pdf[j] > 0] = [j \in Jobs |-> FALSE]
    <3>1. ~ (0 > 0)
      OBVIOUS
    <3>2. \A j \in Jobs : (hash[j] > 0 \/ pdf[j] > 0) <=> FALSE
      BY <2>2, <3>1, Zenon
    <3> QED
      BY <3>2
  <2> QED
    BY <2>1, <2>3, <2>4 DEF Init, W!WInit
<1>2. IInv /\ AllIssuing /\ [Next]_vars => AllIssuing'
  <2>1. ASSUME IInv, AllIssuing, Next PROVE AllIssuing'
    BY <2>1, IssuingStep
  <2>2. ASSUME AllIssuing, UNCHANGED vars PROVE AllIssuing'
    BY <2>2 DEF vars, rowVars, Issuing
  <2> QED
    BY <2>1, <2>2
<1>3. IInv /\ AllIssuing /\ [Next]_vars => [W!WNext]_(W!wipeVars)
  <2>1. ASSUME IInv, AllIssuing, Next PROVE W!WNext
    BY <2>1, StepMaps
  <2>2. ASSUME UNCHANGED vars PROVE UNCHANGED W!wipeVars
    BY <2>2 DEF vars, rowVars, agentVars, W!wipeVars
  <2> QED
    BY <2>1, <2>2
<1> QED
  BY Invariance, <1>1, <1>2, <1>3, PTL DEF Spec, ImplementsWipeJob, W!WSpec

=============================================================================

-------------------------- MODULE JobLifecycleProofs --------------------------
(***************************************************************************)
(* Proofs about JobLifecycle for any set of jobs, number of attempts and   *)
(* bound on faults and crashes.  IInv is the inductive invariant; the      *)
(* properties of JobLifecycle follow from it.                              *)
(***************************************************************************)
EXTENDS JobLifecycle, TLAPS

\* Which statuses a job can have at each step of its thread.  `cancelled'
\* among the steps of a claimed job is the write of an overlapping cancel_job;
\* a step whose write raised may already have its effect.
StatusAt(j) ==
  /\ thread[j].pc = "none" =>
       status[j] \in {"absent", "pending_approval", "queued", "cancelled"}
  /\ thread[j].pc \in {"find", "claim"} => status[j] \in {"queued", "cancelled"}
  /\ thread[j].pc \in {"register", "run", "cancelling"} =>
       status[j] \in {"running", "cancelled"}
  /\ thread[j].pc = "complete" => status[j] \in {"running", "cancelled", "completed"}
  /\ thread[j].pc = "failing" =>
       status[j] \in {"running", "cancelled", "completed", "failed"}
  /\ thread[j].pc \in {"issue", "publish", "record"} =>
       status[j] \in {"completed", "cancelled"}
  /\ thread[j].pc = "aborted" => status[j] \in {"queued", "running", "cancelled"}
  /\ thread[j].pc \in {"done", "dead"} => status[j] \notin {"absent", "pending_approval"}

\* A route about to start a thread does so for a queued job that has none.
StartPending(j) ==
  handler.job = j /\ handler.pc \in {"create_start", "approve_start"}
    => thread[j].pc = "none" /\ status[j] = "queued"

\* The gate, from the row on.
Gate(j) ==
  /\ gated[j] /\ status[j] \in {"queued", "running", "completed", "failed"} => approved[j]
  /\ gated[j] /\ thread[j].pc # "none" => approved[j]

\* What the device, the row and the file hold at each step.
Evidence(j) ==
  /\ status[j] \in {"absent", "pending_approval", "queued"} => device[j] = "untouched"
  /\ thread[j].pc \in {"none", "find", "claim", "aborted", "register", "run"} =>
       device[j] = "untouched" /\ hash[j] = 0 /\ pdf[j] = 0
  /\ thread[j].pc \in {"complete", "cancelling", "failing"} => hash[j] = 0 /\ pdf[j] = 0
  /\ thread[j].pc \in {"complete", "issue", "publish", "record"} => device[j] = "erased"
  /\ thread[j].pc \in {"publish", "record"} => pdf[j] > 0
  /\ thread[j].pc = "record" => hash[j] = pdf[j]
  /\ status[j] = "failed" => hash[j] = 0 /\ pdf[j] = 0
  /\ status[j] = "completed" \/ hash[j] > 0 \/ pdf[j] > 0 => device[j] = "erased"
  /\ status[j] = "completed" /\ thread[j].pc = "done" /\ faults < Retries =>
       pdf[j] > 0 /\ hash[j] = pdf[j]

\* A job without a live thread has a failure in its past.
Owned(j) ==
  /\ thread[j].tries <= faults
  /\ ~ Live(j) /\ status[j] = "queued" =>
       \/ crashes > 0 \/ faults > 0
       \/ handler.job = j /\ handler.pc \in {"create_start", "approve_start"}
  /\ ~ Live(j) /\ status[j] = "running" =>
       crashes > 0 \/ thread[j].pc = "aborted" \/ faults >= Retries
  /\ thread[j].pc = "failing" /\ status[j] = "completed" => faults >= Retries

\* Without an overlap a cancellation finds the job before its claim, and the
\* thread finds the job as the routes left it.
Separate(j) ==
  ~ overlapped[j] =>
    /\ thread[j].pc = "claim" => status[j] = "queued"
    /\ thread[j].pc \in {"register", "run"} => status[j] = "running"
    /\ thread[j].pc = "complete" => status[j] \in {"running", "completed"}
    /\ thread[j].pc = "cancelling" => status[j] \in {"running", "cancelled"}
    /\ thread[j].pc = "failing" => status[j] \in {"running", "completed", "failed"}
    /\ thread[j].pc \in {"issue", "publish", "record"} => status[j] = "completed"
    /\ handler.job = j /\ handler.pc \in {"cancel_find", "cancel_write"} =>
         /\ status[j] \in {"queued", "pending_approval"}
         /\ thread[j].pc \in {"none", "find", "done", "aborted", "dead"}
    /\ reply[j] = "cancelled" =>
         /\ status[j] = "cancelled" /\ device[j] = "untouched"
         /\ thread[j].pc \in {"none", "find", "done", "aborted", "dead"}

JobInv(j) ==
  /\ StatusAt(j) /\ StartPending(j) /\ Gate(j) /\ Evidence(j) /\ Owned(j)
  /\ Separate(j)

IInv == TypeOK /\ \A j \in Jobs : JobInv(j)

-----------------------------------------------------------------------------
\* No job exists yet.
LEMMA InitIInv == Init => IInv
<1> SUFFICES ASSUME Init PROVE IInv
  OBVIOUS
<1>1. TypeOK
  BY RetriesAssumption, BoundsAssumption
     DEF Init, TypeOK, Status, ThreadSteps, Terminal
<1>2. ASSUME NEW j \in Jobs PROVE JobInv(j)
  BY RetriesAssumption, NoJobAssumption
     DEF Init, Idle, JobInv, StatusAt, StartPending, Gate, Evidence, Owned, Separate,
         Live, LiveSteps
<1> QED
  BY <1>1, <1>2 DEF IInv

\* Every step keeps the types.
LEMMA TypeStep == TypeOK /\ [Next]_vars => TypeOK'
<1> SUFFICES ASSUME TypeOK, [Next]_vars PROVE TypeOK'
  OBVIOUS
<1> USE RetriesAssumption, BoundsAssumption
    DEF TypeOK, Status, Terminal, HandlerSteps, CancelSteps, ThreadSteps, LiveSteps,
        rowVars, ghostVars, countVars
<1>1. ASSUME NEW j \in Jobs, NEW gate \in BOOLEAN, CreateJob(j, gate) PROVE TypeOK'
  <2>1. handler' \in [pc : HandlerSteps, job : Jobs] \cup {Idle}
    BY <1>1 DEF CreateJob, Handle
  <2>2. status' \in [Jobs -> Status] /\ gated' \in [Jobs -> BOOLEAN]
    BY <1>1 DEF CreateJob, SetStatus
  <2> QED
    BY <1>1, <2>1, <2>2 DEF CreateJob
<1>2. ASSUME NEW j \in Jobs, ApproveJob(j) PROVE TypeOK'
  BY <1>2 DEF ApproveJob, SetStatus, Handle
<1>3. ASSUME NEW j \in Jobs, CancelJob(j) PROVE TypeOK'
  BY <1>3 DEF CancelJob, Handle, Terminal
<1>4. ASSUME NEW j \in Jobs, StartJob(j) PROVE TypeOK'
  BY <1>4 DEF StartJob, Handling, Start, Goto, Idle
<1>5. ASSUME NEW j \in Jobs, CancelMark(j) PROVE TypeOK'
  BY <1>5 DEF CancelMark, Handling, Handle
<1>6. ASSUME NEW j \in Jobs, CancelSignal(j) PROVE TypeOK'
  BY <1>6 DEF CancelSignal, Handling, Idle
<1>7. ASSUME NEW j \in Jobs, CancelFind(j) PROVE TypeOK'
  <2>1. handler' \in [pc : HandlerSteps, job : Jobs] \cup {Idle}
    BY <1>7 DEF CancelFind, Handle
  <2>2. reply' \in [Jobs -> {"none", "pending", "cancelled"}]
    BY <1>7 DEF CancelFind
  <2> QED
    BY <1>7, <2>1, <2>2 DEF CancelFind
<1>8. ASSUME NEW j \in Jobs, CancelWrite(j) PROVE TypeOK'
  BY <1>8 DEF CancelWrite, Handling, SetStatus, Idle
<1>9. ASSUME NEW j \in Jobs, ClaimFind(j) PROVE TypeOK'
  BY <1>9 DEF ClaimFind, Goto, NoteOverlap, Cancelling, CancelSteps
<1>10. ASSUME NEW j \in Jobs, ClaimWrite(j) PROVE TypeOK'
  BY <1>10 DEF ClaimWrite, SetStatus, Goto, NoteOverlap, Cancelling, CancelSteps
<1>11. ASSUME NEW j \in Jobs, Register(j) PROVE TypeOK'
  BY <1>11 DEF Register, Goto
<1>12. ASSUME NEW j \in Jobs, RunErases(j) PROVE TypeOK'
  BY <1>12 DEF RunErases, Goto
<1>13. ASSUME NEW j \in Jobs, RunFails(j) PROVE TypeOK'
  BY <1>13 DEF RunFails, Goto
<1>14. ASSUME NEW j \in Jobs, RunCancelled(j) PROVE TypeOK'
  BY <1>14 DEF RunCancelled, Goto
<1>15. ASSUME NEW j \in Jobs, CompleteWrite(j) PROVE TypeOK'
  BY <1>15 DEF CompleteWrite, SetStatus, Goto
<1>16. ASSUME NEW j \in Jobs, CancelledWrite(j) PROVE TypeOK'
  BY <1>16 DEF CancelledWrite, SetStatus, Finish, Goto
<1>17. ASSUME NEW j \in Jobs, FailWrite(j) PROVE TypeOK'
  BY <1>17 DEF FailWrite, SetStatus, Finish, Goto
<1>18. ASSUME NEW j \in Jobs, Issue(j) PROVE TypeOK'
  <2>1. pdf' \in [Jobs -> Nat]
    BY <1>18 DEF Issue
  <2>2. thread' \in [Jobs -> [pc : ThreadSteps, tries : 0..(Retries - 1)]]
    BY <1>18 DEF Issue
  <2> QED
    BY <1>18, <2>1, <2>2 DEF Issue
<1>19. ASSUME NEW j \in Jobs, Publish(j) PROVE TypeOK'
  BY <1>19 DEF Publish
<1>20. ASSUME NEW j \in Jobs, Record(j) PROVE TypeOK'
  BY <1>20 DEF Record, Finish, Goto
<1>21. ASSUME NEW j \in Jobs, ClaimFault(j) PROVE TypeOK'
  BY <1>21 DEF ClaimFault, Fault, MayWrite, SetStatus, Goto, NoteOverlap, Cancelling,
                CancelSteps
<1>22. ASSUME NEW j \in Jobs, CompleteFault(j) PROVE TypeOK'
  <2>1. thread' \in [Jobs -> [pc : ThreadSteps, tries : 0..(Retries - 1)]]
    <3>1. thread[j].tries \in 0..(Retries - 1)
      OBVIOUS
    <3>2. CASE thread[j].tries + 1 < Retries
      BY <1>22, <3>1, <3>2 DEF CompleteFault, RetryElse
    <3>3. CASE ~ thread[j].tries + 1 < Retries
      BY <1>22, <3>1, <3>3 DEF CompleteFault, RetryElse, Goto
    <3> QED
      BY <3>2, <3>3
  <2>2. faults' \in 0..MaxFaults
    BY <1>22 DEF CompleteFault, Fault
  <2> QED
    BY <1>22, <2>1, <2>2 DEF CompleteFault, MayWrite, SetStatus
<1>23. ASSUME NEW j \in Jobs, EndFault(j) PROVE TypeOK'
  <2>1. thread' \in [Jobs -> [pc : ThreadSteps, tries : 0..(Retries - 1)]]
    <3>1. thread[j].tries \in 0..(Retries - 1)
      OBVIOUS
    <3>2. CASE thread[j].tries + 1 < Retries
      BY <1>23, <3>1, <3>2 DEF EndFault, RetryElse
    <3>3. CASE ~ thread[j].tries + 1 < Retries
      BY <1>23, <3>1, <3>3 DEF EndFault, RetryElse, Finish, Goto
    <3> QED
      BY <3>2, <3>3
  <2>2. faults' \in 0..MaxFaults
    BY <1>23 DEF EndFault, Fault
  <2> QED
    BY <1>23, <2>1, <2>2 DEF EndFault, MayWrite, SetStatus, Finish
<1>24. ASSUME NEW j \in Jobs, FinalizeFault(j) PROVE TypeOK'
  <2>1. thread[j].tries \in 0..(Retries - 1)
    OBVIOUS
  <2>2. CASE thread[j].tries + 1 < Retries
    <3>1. thread' \in [Jobs -> [pc : ThreadSteps, tries : 0..(Retries - 1)]]
      BY <1>24, <2>1, <2>2 DEF FinalizeFault
    <3> QED
      BY <1>24, <2>2, <3>1 DEF FinalizeFault, Fault
  <2>3. CASE ~ thread[j].tries + 1 < Retries
    <3>1. thread' \in [Jobs -> [pc : ThreadSteps, tries : 0..(Retries - 1)]]
      BY <1>24, <2>3 DEF FinalizeFault, Finish, Goto
    <3>2. flag' \in [Jobs -> {"none", "clear", "set"}]
      BY <1>24, <2>3 DEF FinalizeFault, Finish
    <3> QED
      BY <1>24, <3>1, <3>2 DEF FinalizeFault, Fault
  <2> QED
    BY <2>2, <2>3
<1>25. ASSUME NEW j \in Jobs, HandlerFault(j) PROVE TypeOK'
  <2>1. status' \in [Jobs -> Status] /\ cancelRequested' \in [Jobs -> BOOLEAN]
    BY <1>25 DEF HandlerFault, SetStatus
  <2> QED
    BY <1>25, <2>1 DEF HandlerFault, Fault
<1>26. CASE Crash
  BY <1>26 DEF Crash, Idle, Live
<1>27. CASE UNCHANGED vars
  BY <1>27 DEF vars
<1> QED
  BY <1>1, <1>2, <1>3, <1>4, <1>5, <1>6, <1>7, <1>8, <1>9, <1>10, <1>11, <1>12, <1>13,
     <1>14, <1>15, <1>16, <1>17, <1>18, <1>19, <1>20, <1>21, <1>22, <1>23, <1>24, <1>25,
     <1>26, <1>27
     DEF Next, RouteStep, ThreadStep, ThreadFault

\* A step about another job leaves JobInv(k) alone.
LEMMA OtherJob ==
  ASSUME TypeOK, NEW k \in Jobs, JobInv(k),
         status'[k] = status[k], approved'[k] = approved[k], hash'[k] = hash[k],
         pdf'[k] = pdf[k], thread'[k] = thread[k], device'[k] = device[k],
         gated'[k] = gated[k], reply'[k] = reply[k], overlapped'[k] = overlapped[k],
         handler'.job = k \/ handler.job = k => handler' = handler,
         faults' \in Nat, faults' >= faults, crashes' = crashes
  PROVE  JobInv(k)'
<1>1. faults \in Nat /\ Retries \in Nat /\ thread[k].tries \in Nat
  BY RetriesAssumption, BoundsAssumption DEF TypeOK
<1>2. StatusAt(k)' /\ StartPending(k)' /\ Gate(k)' /\ Separate(k)'
  BY DEF JobInv, StatusAt, StartPending, Gate, Separate
<1>3. Evidence(k)'
  BY <1>1 DEF JobInv, Evidence
<1>4. Owned(k)'
  BY <1>1 DEF JobInv, Owned, Live
<1> QED
  BY <1>2, <1>3, <1>4 DEF JobInv

\* Every step keeps the invariant of every job.
LEMMA JobStep ==
  ASSUME IInv, Next, NEW k \in Jobs
  PROVE  JobInv(k)'
<1>a. TypeOK /\ TypeOK'
  BY TypeStep DEF IInv
<1>b. JobInv(k)
  BY DEF IInv
<1>c. /\ faults \in Nat /\ faults' \in Nat /\ crashes \in Nat
      /\ Retries \in Nat \ {0} /\ thread[k].tries \in Nat
      /\ NoJob # k
  BY <1>a, RetriesAssumption, BoundsAssumption, NoJobAssumption DEF TypeOK
<1>1. ASSUME NEW j \in Jobs, NEW gate \in BOOLEAN, CreateJob(j, gate) PROVE JobInv(k)'
  <2>1. CASE k # j
    BY <1>1, <1>a, <1>b, <1>c, <2>1, OtherJob
       DEF CreateJob, SetStatus, Handle, Idle, TypeOK, countVars
  <2>2. CASE k = j
    BY <1>1, <1>a, <1>b, <2>2
       DEF CreateJob, SetStatus, Handle, TypeOK, countVars, JobInv, StatusAt, StartPending,
           ThreadSteps, LiveSteps, Gate, Evidence, Owned, Separate
  <2> QED
    BY <2>1, <2>2
<1>2. ASSUME NEW j \in Jobs, ApproveJob(j) PROVE JobInv(k)'
  <2>1. CASE k # j
    <3>1. approved'[k] = approved[k] /\ status'[k] = status[k]
      BY <1>2, <2>1 DEF ApproveJob, SetStatus
    <3>2. handler'.job # k /\ handler.job # k
      BY <1>2, <1>c, <2>1 DEF ApproveJob, Handle, Idle
    <3>3. /\ hash'[k] = hash[k] /\ pdf'[k] = pdf[k] /\ thread'[k] = thread[k]
          /\ device'[k] = device[k] /\ gated'[k] = gated[k] /\ reply'[k] = reply[k]
          /\ overlapped'[k] = overlapped[k] /\ faults' = faults /\ crashes' = crashes
      BY <1>2 DEF ApproveJob, ghostVars, countVars
    <3> QED
      BY <1>a, <1>b, <1>c, <3>1, <3>2, <3>3, OtherJob
  <2>2. CASE k = j
    BY <1>2, <1>a, <1>b, <2>2
       DEF ApproveJob, SetStatus, Handle, TypeOK, ghostVars, countVars, JobInv, StatusAt,
           StartPending, ThreadSteps, LiveSteps, Gate, Evidence, Owned, Separate
  <2> QED
    BY <2>1, <2>2
<1>3. ASSUME NEW j \in Jobs, CancelJob(j) PROVE JobInv(k)'
  <2>1. CASE k # j
    BY <1>3, <1>a, <1>b, <1>c, <2>1, OtherJob
       DEF CancelJob, Handle, Idle, rowVars, countVars
  <2>2. CASE k = j
    <3> USE <1>3, <1>a, <1>b, <1>c, <2>2
        DEF CancelJob, Handle, Idle, Terminal, TypeOK, rowVars, ghostVars, countVars
    <3>1. StatusAt(k)'
      BY DEF JobInv, StatusAt
    <3>2. StartPending(k)'
      BY DEF StartPending
    <3>3. Gate(k)'
      BY DEF JobInv, Gate
    <3>4. Evidence(k)'
      BY DEF JobInv, Evidence
    <3>5. Owned(k)'
      BY DEF JobInv, Owned, Live
    <3>a. ~ overlapped'[k] => ~ overlapped[k] /\ thread[k].pc # "claim"
      OBVIOUS
    <3>b. thread' = thread /\ status' = status /\ reply' = reply /\ device' = device
      OBVIOUS
    <3>c. handler'.pc = "cancel_find" =>
            /\ status[k] \in {"queued", "pending_approval"}
            /\ thread[k].pc \in {"none", "find", "claim", "done", "aborted", "dead"}
      BY DEF JobInv, StatusAt, Status, ThreadSteps, LiveSteps
    <3>d. handler'.pc # "cancel_write"
      OBVIOUS
    <3>6. Separate(k)'
      BY <3>c DEF JobInv, Separate
    <3> QED
      BY <3>1, <3>2, <3>3, <3>4, <3>5, <3>6 DEF JobInv
  <2> QED
    BY <2>1, <2>2
<1>4. ASSUME NEW j \in Jobs, StartJob(j) PROVE JobInv(k)'
  <2>1. CASE k # j
    BY <1>4, <1>a, <1>b, <1>c, <2>1, OtherJob
       DEF StartJob, Handling, Start, Goto, Idle, rowVars, ghostVars, countVars
  <2>2. CASE k = j
    BY <1>4, <1>a, <1>b, <2>2
       DEF StartJob, Handling, Start, Goto, Idle, TypeOK, rowVars, ghostVars, JobInv,
           StatusAt, StartPending, Gate, Evidence, Owned, Live, LiveSteps, Separate
  <2> QED
    BY <2>1, <2>2
<1>5. ASSUME NEW j \in Jobs, CancelMark(j) PROVE JobInv(k)'
  <2>1. CASE k # j
    BY <1>5, <1>a, <1>b, <1>c, <2>1, OtherJob
       DEF CancelMark, Handling, Handle, ghostVars, countVars
  <2>2. CASE k = j
    BY <1>5, <1>b
       DEF CancelMark, Handling, Handle, ghostVars, countVars, JobInv, StatusAt,
           StartPending, Gate, Evidence, Owned, Live, Separate
  <2> QED
    BY <2>1, <2>2
<1>6. ASSUME NEW j \in Jobs, CancelSignal(j) PROVE JobInv(k)'
  <2>1. CASE k # j
    BY <1>6, <1>a, <1>b, <1>c, <2>1, OtherJob
       DEF CancelSignal, Handling, Idle, rowVars, countVars
  <2>2. CASE k = j
    BY <1>6, <1>b
       DEF CancelSignal, Handling, Idle, rowVars, countVars, JobInv, StatusAt, StartPending,
           Gate, Evidence, Owned, Live, Separate
  <2> QED
    BY <2>1, <2>2
<1>7. ASSUME NEW j \in Jobs, CancelFind(j) PROVE JobInv(k)'
  <2>1. CASE k # j
    BY <1>7, <1>a, <1>b, <1>c, <2>1, OtherJob
       DEF CancelFind, Handling, Handle, Idle, TypeOK, rowVars, countVars
  <2>2. CASE k = j
    BY <1>7, <1>b, <2>2
       DEF CancelFind, Handling, Handle, Idle, rowVars, countVars, JobInv, StatusAt,
           StartPending, Gate, Evidence, Owned, Live, Separate
  <2> QED
    BY <2>1, <2>2
<1>8. ASSUME NEW j \in Jobs, CancelWrite(j) PROVE JobInv(k)'
  <2>1. CASE k # j
    BY <1>8, <1>a, <1>b, <1>c, <2>1, OtherJob
       DEF CancelWrite, Handling, SetStatus, Idle, countVars
  <2>2. CASE k = j
    BY <1>8, <1>a, <1>b, <2>2
       DEF CancelWrite, Handling, SetStatus, Idle, TypeOK, countVars, JobInv, StatusAt,
           StartPending, Gate, Evidence, Owned, Separate
  <2> QED
    BY <2>1, <2>2
<1>9. ASSUME NEW j \in Jobs, ClaimFind(j) PROVE JobInv(k)'
  <2>1. CASE k # j
    BY <1>9, <1>a, <1>b, <1>c, <2>1, OtherJob
       DEF ClaimFind, Goto, NoteOverlap, rowVars, countVars
  <2>2. CASE k = j
    <3>1. /\ thread[k].pc = "find"
          /\ thread'[k] = [pc |-> IF status[k] = "queued" THEN "claim" ELSE "done",
                           tries |-> 0]
          /\ overlapped'[k] = (overlapped[k] \/ Cancelling(k))
      BY <1>9, <1>a, <2>2 DEF ClaimFind, Goto, NoteOverlap, TypeOK
    <3>2. /\ thread'[k].pc = IF status[k] = "queued" THEN "claim" ELSE "done"
          /\ thread'[k].tries = 0
      BY <3>1
    <3>3. UNCHANGED <<rowVars, pdf, handler, flag, device, gated, reply, countVars>>
      BY <1>9 DEF ClaimFind
    <3> USE <1>b, <1>c, <3>1, <3>2, <3>3 DEF rowVars, countVars, JobInv
    <3>4. StatusAt(k)' /\ StartPending(k)'
      BY DEF StatusAt, StartPending
    <3>5. Gate(k)'
      BY DEF Gate, StatusAt
    <3>6. Evidence(k)'
      BY DEF Evidence, StatusAt
    <3>7. Owned(k)'
      BY DEF Owned, Live, LiveSteps, StatusAt
    <3>8. Separate(k)'
      BY DEF Separate, StatusAt, Cancelling, CancelSteps
    <3> QED
      BY <3>4, <3>5, <3>6, <3>7, <3>8
  <2> QED
    BY <2>1, <2>2
<1>10. ASSUME NEW j \in Jobs, ClaimWrite(j) PROVE JobInv(k)'
  <2>1. CASE k # j
    BY <1>10, <1>a, <1>b, <1>c, <2>1, OtherJob
       DEF ClaimWrite, SetStatus, Goto, NoteOverlap, countVars
  <2>2. CASE k = j
    BY <1>10, <1>a, <1>b, <2>2
       DEF ClaimWrite, SetStatus, Goto, NoteOverlap, TypeOK, JobInv, StatusAt, StartPending,
           Gate, Evidence, Owned, Live, LiveSteps, Separate
  <2> QED
    BY <2>1, <2>2
<1>11. ASSUME NEW j \in Jobs, Register(j) PROVE JobInv(k)'
  <2>1. CASE k # j
    BY <1>11, <1>a, <1>b, <1>c, <2>1, OtherJob
       DEF Register, Goto, rowVars, ghostVars, countVars
  <2>2. CASE k = j
    BY <1>11, <1>b, <1>c
       DEF Register, Goto, rowVars, ghostVars, countVars, JobInv, StatusAt, StartPending,
           Gate, Evidence, Owned, Live, LiveSteps, Separate
  <2> QED
    BY <2>1, <2>2
<1>12. ASSUME NEW j \in Jobs, RunErases(j) PROVE JobInv(k)'
  <2>1. CASE k # j
    BY <1>12, <1>a, <1>b, <1>c, <2>1, OtherJob
       DEF RunErases, Goto, rowVars, ghostVars, countVars
  <2>2. CASE k = j
    BY <1>12, <1>a, <1>b, <2>2
       DEF RunErases, Goto, TypeOK, rowVars, ghostVars, JobInv, StatusAt, StartPending,
           Gate, Evidence, Owned, Live, LiveSteps, Separate
  <2> QED
    BY <2>1, <2>2
<1>13. ASSUME NEW j \in Jobs, RunFails(j) PROVE JobInv(k)'
  <2>1. CASE k # j
    BY <1>13, <1>a, <1>b, <1>c, <2>1, OtherJob
       DEF RunFails, Goto, rowVars, ghostVars, countVars
  <2>2. CASE k = j
    BY <1>13, <1>a, <1>b, <2>2
       DEF RunFails, Goto, TypeOK, rowVars, ghostVars, JobInv, StatusAt, StartPending, Gate,
           Evidence, Owned, Live, LiveSteps, Separate
  <2> QED
    BY <2>1, <2>2
<1>14. ASSUME NEW j \in Jobs, RunCancelled(j) PROVE JobInv(k)'
  <2>1. CASE k # j
    BY <1>14, <1>a, <1>b, <1>c, <2>1, OtherJob
       DEF RunCancelled, Goto, rowVars, ghostVars, countVars
  <2>2. CASE k = j
    BY <1>14, <1>a, <1>b, <2>2
       DEF RunCancelled, Goto, TypeOK, rowVars, ghostVars, JobInv, StatusAt, StartPending,
           Gate, Evidence, Owned, Live, LiveSteps, Separate
  <2> QED
    BY <2>1, <2>2
<1>15. ASSUME NEW j \in Jobs, CompleteWrite(j) PROVE JobInv(k)'
  <2>1. CASE k # j
    BY <1>15, <1>a, <1>b, <1>c, <2>1, OtherJob
       DEF CompleteWrite, SetStatus, Goto, ghostVars, countVars
  <2>2. CASE k = j
    BY <1>15, <1>a, <1>b, <2>2
       DEF CompleteWrite, SetStatus, Goto, TypeOK, ghostVars, JobInv, StatusAt,
           StartPending, Gate, Evidence, Owned, Separate
  <2> QED
    BY <2>1, <2>2
<1>16. ASSUME NEW j \in Jobs, CancelledWrite(j) PROVE JobInv(k)'
  <2>1. CASE k # j
    BY <1>16, <1>a, <1>b, <1>c, <2>1, OtherJob
       DEF CancelledWrite, SetStatus, Finish, Goto, ghostVars, countVars
  <2>2. CASE k = j
    BY <1>16, <1>a, <1>b, <2>2
       DEF CancelledWrite, SetStatus, Finish, Goto, TypeOK, ghostVars, JobInv, StatusAt,
           StartPending, Gate, Evidence, Owned, Separate
  <2> QED
    BY <2>1, <2>2
<1>17. ASSUME NEW j \in Jobs, FailWrite(j) PROVE JobInv(k)'
  <2>1. CASE k # j
    BY <1>17, <1>a, <1>b, <1>c, <2>1, OtherJob
       DEF FailWrite, SetStatus, Finish, Goto, ghostVars, countVars
  <2>2. CASE k = j
    BY <1>17, <1>a, <1>b, <2>2
       DEF FailWrite, SetStatus, Finish, Goto, TypeOK, ghostVars, JobInv, StatusAt,
           StartPending, Gate, Evidence, Owned, Separate
  <2> QED
    BY <2>1, <2>2
<1>18. ASSUME NEW j \in Jobs, Issue(j) PROVE JobInv(k)'
  <2>1. CASE k # j
    BY <1>18, <1>a, <1>b, <1>c, <2>1, OtherJob DEF Issue, rowVars, ghostVars, countVars
  <2>2. CASE k = j
    BY <1>18, <1>a, <1>b, <2>2
       DEF Issue, TypeOK, rowVars, ghostVars, countVars, JobInv, StatusAt, StartPending,
           Gate, Evidence, Owned, Separate
  <2> QED
    BY <2>1, <2>2
<1>19. ASSUME NEW j \in Jobs, Publish(j) PROVE JobInv(k)'
  <2>1. CASE k # j
    BY <1>19, <1>a, <1>b, <1>c, <2>1, OtherJob DEF Publish, ghostVars, countVars
  <2>2. CASE k = j
    BY <1>19, <1>a, <1>b, <2>2
       DEF Publish, TypeOK, ghostVars, countVars, JobInv, StatusAt, StartPending, Gate,
           Evidence, Owned, Separate
  <2> QED
    BY <2>1, <2>2
<1>20. ASSUME NEW j \in Jobs, Record(j) PROVE JobInv(k)'
  <2>1. CASE k # j
    BY <1>20, <1>a, <1>b, <1>c, <2>1, OtherJob
       DEF Record, Finish, Goto, rowVars, ghostVars, countVars
  <2>2. CASE k = j
    BY <1>20, <1>b, <1>c, <2>2
       DEF Record, Finish, Goto, rowVars, ghostVars, countVars, JobInv, StatusAt,
           StartPending, Gate, Evidence, Owned, Separate
  <2> QED
    BY <2>1, <2>2
<1>21. ASSUME NEW j \in Jobs, ClaimFault(j) PROVE JobInv(k)'
  <2>1. CASE k # j
    BY <1>21, <1>a, <1>b, <2>1, OtherJob
       DEF ClaimFault, Fault, MayWrite, SetStatus, Goto, NoteOverlap, TypeOK
  <2>2. CASE k = j
    BY <1>21, <1>a, <1>b, <2>2
       DEF ClaimFault, Fault, MayWrite, SetStatus, Goto, NoteOverlap, TypeOK, JobInv,
           StatusAt, StartPending, Gate, Evidence, Owned, Separate
  <2> QED
    BY <2>1, <2>2
<1>22. ASSUME NEW j \in Jobs, CompleteFault(j) PROVE JobInv(k)'
  <2>1. CASE k # j
    BY <1>22, <1>a, <1>b, <2>1, OtherJob
       DEF CompleteFault, Fault, MayWrite, SetStatus, RetryElse, Goto, TypeOK, ghostVars
  <2>2. CASE k = j
    BY <1>22, <1>a, <1>b, <1>c
       DEF CompleteFault, Fault, MayWrite, SetStatus, RetryElse, Goto, TypeOK, ghostVars,
           JobInv, StatusAt, StartPending, Gate, Evidence, Owned, Live, Separate
  <2> QED
    BY <2>1, <2>2
<1>23. ASSUME NEW j \in Jobs, EndFault(j) PROVE JobInv(k)'
  <2>1. CASE k # j
    BY <1>23, <1>a, <1>b, <2>1, OtherJob
       DEF EndFault, Fault, MayWrite, SetStatus, RetryElse, Finish, Goto, TypeOK, ghostVars
  <2>2. CASE k = j
    BY <1>23, <1>a, <1>b, <1>c, <2>2
       DEF EndFault, Fault, MayWrite, SetStatus, RetryElse, Finish, Goto, TypeOK, ghostVars,
           JobInv, StatusAt, StartPending, Gate, Evidence, Owned, Live, Separate
  <2> QED
    BY <2>1, <2>2
<1>24. ASSUME NEW j \in Jobs, FinalizeFault(j) PROVE JobInv(k)'
  <2>1. CASE k # j
    BY <1>24, <1>a, <1>b, <2>1, OtherJob
       DEF FinalizeFault, Fault, Finish, Goto, TypeOK, rowVars, ghostVars
  <2>2. CASE k = j
    BY <1>24, <1>a, <1>b, <1>c, <2>2
       DEF FinalizeFault, Fault, Finish, Goto, TypeOK, rowVars, ghostVars, JobInv, StatusAt,
           StartPending, Gate, Evidence, Owned, Separate
  <2> QED
    BY <2>1, <2>2
<1>25. ASSUME NEW j \in Jobs, HandlerFault(j) PROVE JobInv(k)'
  <2>1. CASE k # j
    BY <1>25, <1>a, <1>b, <1>c, <2>1, OtherJob
       DEF HandlerFault, SetStatus, Fault, Idle, TypeOK, ghostVars
  <2>2. CASE k = j
    BY <1>25, <1>a, <1>b, <1>c
       DEF HandlerFault, SetStatus, Fault, Idle, TypeOK, ghostVars, JobInv, StatusAt,
           StartPending, Gate, Evidence, Owned, Live, Separate
  <2> QED
    BY <2>1, <2>2
<1>26. CASE Crash
  BY <1>26, <1>b, <1>c
     DEF Crash, Idle, rowVars, ghostVars, JobInv, StatusAt, StartPending, Gate, Evidence,
         Owned, Separate, Live, LiveSteps
<1> QED
  BY <1>1, <1>2, <1>3, <1>4, <1>5, <1>6, <1>7, <1>8, <1>9, <1>10, <1>11, <1>12, <1>13,
     <1>14, <1>15, <1>16, <1>17, <1>18, <1>19, <1>20, <1>21, <1>22, <1>23, <1>24, <1>25,
     <1>26
     DEF Next, RouteStep, ThreadStep, ThreadFault

\* The inductive invariant: what every step of a route or a thread relies on.
THEOREM Invariance == Spec => []IInv
<1>1. IInv /\ [Next]_vars => IInv'
  <2> SUFFICES ASSUME IInv, [Next]_vars PROVE IInv'
    OBVIOUS
  <2>1. TypeOK'
    BY TypeStep DEF IInv
  <2>2. CASE Next
    BY <2>1, <2>2, JobStep DEF IInv
  <2>3. CASE UNCHANGED vars
    BY <2>1, <2>3
       DEF vars, rowVars, ghostVars, countVars, IInv, JobInv, StatusAt, StartPending,
           Gate, Evidence, Owned, Separate, Live
  <2> QED
    BY <2>2, <2>3
<1> QED
  BY InitIInv, <1>1, PTL DEF Spec

\* Every variable keeps its type, for any jobs, attempts and bounds.
THEOREM TypeCorrect == Spec => []TypeOK
<1>1. IInv => TypeOK
  BY DEF IInv
<1> QED
  BY Invariance, <1>1, PTL

\* No executor thread works for a gated job that approve_job has not approved.
THEOREM ApprovalGateHolds == Spec => []ApprovalGate
<1>1. IInv => ApprovalGate
  BY DEF IInv, JobInv, Gate, ApprovalGate
<1> QED
  BY Invariance, <1>1, PTL

\* completed, a published hash and a certificate file each imply an erased
\* device.
THEOREM CertifiedWasErasedHolds == Spec => []CertifiedWasErased
<1>1. IInv => CertifiedWasErased
  BY DEF IInv, JobInv, Evidence, CertifiedWasErased
<1> QED
  BY Invariance, <1>1, PTL

\* A failed job has neither a published hash nor a certificate file.
THEOREM FailedNeverCertifiedHolds == Spec => []FailedNeverCertified
<1>1. IInv => FailedNeverCertified
  BY DEF IInv, JobInv, Evidence, FailedNeverCertified
<1> QED
  BY Invariance, <1>1, PTL

\* A job nobody will finish has a crash, a raised call or an outage of all its
\* attempts in its past.
THEOREM StuckOnlyAfterFailureHolds == Spec => []StuckOnlyAfterFailure
<1>1. IInv => StuckOnlyAfterFailure
  BY DEF IInv, JobInv, Owned, StuckOnlyAfterFailure
<1> QED
  BY Invariance, <1>1, PTL

\* A cancellation that did not overlap the claim stands.
THEOREM CancelHonouredHolds == Spec => []CancelHonoured
<1>1. IInv => CancelHonoured
  BY DEF IInv, JobInv, Separate, CancelHonoured
<1> QED
  BY Invariance, <1>1, PTL

\* The published hash is the one of the file, outages of all attempts apart.
THEOREM PublishedIsOnDiskHolds == Spec => []PublishedIsOnDisk
<1>1. IInv => PublishedIsOnDisk
  BY DEF IInv, JobInv, Evidence, PublishedIsOnDisk
<1> QED
  BY Invariance, <1>1, PTL

\* A final status changes only for a job whose cancellation overlapped its
\* claim, or after an outage of all attempts, although the writers of a final
\* status do not look at the old one.
THEOREM TerminalIsFinalHolds == Spec => TerminalIsFinal
<1> DEFINE Settled(k) == status[k] \in Terminal /\ ~ overlapped[k] /\ faults < Retries
           Final == \A j \in Jobs : Settled(j) => status'[j] = status[j]
<1>1. ASSUME IInv, Next PROVE Final
  <2> SUFFICES ASSUME NEW k \in Jobs, Settled(k) PROVE status'[k] = status[k]
    OBVIOUS
  <2>a. faults \in Nat /\ Retries \in Nat
    BY <1>1, RetriesAssumption, BoundsAssumption DEF IInv, TypeOK
  <2>1. /\ TypeOK
        /\ thread[k].pc \notin {"claim", "register", "run"}
        /\ thread[k].pc = "complete" => status[k] = "completed"
        /\ thread[k].pc = "cancelling" => status[k] = "cancelled"
        /\ thread[k].pc = "failing" => status[k] = "failed"
        /\ handler.job = k => handler.pc # "cancel_write"
    BY <1>1, <2>a DEF IInv, JobInv, Separate, Owned, Terminal
  <2>2. status[k] \notin {"absent", "pending_approval"}
    BY DEF Terminal
  <2>3. ASSUME NEW j \in Jobs, NEW gate \in BOOLEAN, CreateJob(j, gate)
        PROVE  status'[k] = status[k]
    BY <2>1, <2>2, <2>3 DEF CreateJob, SetStatus, TypeOK
  <2>4. ASSUME NEW j \in Jobs, ApproveJob(j) PROVE status'[k] = status[k]
    BY <2>1, <2>2, <2>4 DEF ApproveJob, SetStatus, TypeOK
  <2>5. ASSUME NEW j \in Jobs, RouteStep(j) PROVE status'[k] = status[k]
    <3>1. CASE CancelWrite(j)
      BY <2>1, <3>1 DEF CancelWrite, Handling, SetStatus, TypeOK
    <3>2. CASE ~ CancelWrite(j)
      BY <2>5, <3>2
         DEF RouteStep, StartJob, CancelMark, CancelSignal, CancelFind, rowVars
    <3> QED
      BY <3>1, <3>2
  <2>6. ASSUME NEW j \in Jobs, ThreadStep(j) PROVE status'[k] = status[k]
    <3>1. CASE ClaimWrite(j) \/ CompleteWrite(j) \/ CancelledWrite(j) \/ FailWrite(j)
      BY <2>1, <3>1
         DEF ClaimWrite, CompleteWrite, CancelledWrite, FailWrite, SetStatus, TypeOK
    <3>2. CASE ~ (ClaimWrite(j) \/ CompleteWrite(j) \/ CancelledWrite(j) \/ FailWrite(j))
      BY <2>6, <3>2
         DEF ThreadStep, ClaimFind, Register, RunErases, RunFails, RunCancelled,
             Issue, Publish, Record, rowVars
    <3> QED
      BY <3>1, <3>2
  <2>7. ASSUME NEW j \in Jobs, ThreadFault(j) PROVE status'[k] = status[k]
    <3>1. CASE ClaimFault(j) \/ CompleteFault(j) \/ EndFault(j)
      BY <2>1, <3>1 DEF ClaimFault, CompleteFault, EndFault, MayWrite, SetStatus, TypeOK
    <3>2. CASE FinalizeFault(j)
      BY <3>2 DEF FinalizeFault, rowVars
    <3> QED
      BY <2>7, <3>1, <3>2 DEF ThreadFault
  <2>8. ASSUME NEW j \in Jobs, HandlerFault(j) PROVE status'[k] = status[k]
    BY <2>1, <2>8 DEF HandlerFault, SetStatus, TypeOK
  <2>9. ASSUME NEW j \in Jobs, CancelJob(j) \/ Crash PROVE status'[k] = status[k]
    BY <2>9 DEF CancelJob, Crash, rowVars
  <2> QED
    BY <1>1, <2>3, <2>4, <2>5, <2>6, <2>7, <2>8, <2>9 DEF Next
<1>2. IInv /\ [Next]_vars => [Final]_vars
  BY <1>1
<1> QED
  BY Invariance, <1>2, PTL DEF Spec, TerminalIsFinal

-----------------------------------------------------------------------------
(***************************************************************************)
(* JobLifecycle implements WipeJob: the initial state maps to the initial  *)
(* state, and every step of a route, a thread or a crash maps to one step  *)
(* of the life of a job or to none.                                        *)
(***************************************************************************)

\* What the mapping needs beyond IInv: a thread that stops for a cancellation
\* has not erased the device, and one that fails a job it has erased was let
\* down by the database in every attempt.
Honest(j) ==
  /\ thread[j].pc = "cancelling" => device[j] # "erased"
  /\ thread[j].pc = "failing" /\ device[j] = "erased" => faults >= Retries

Contested(j) == overlapped[j] \/ faults >= Retries

\* A step about another job leaves Honest(k) alone.
LEMMA HonestOther ==
  ASSUME TypeOK, NEW k \in Jobs, Honest(k), thread'[k] = thread[k],
         device'[k] = device[k], faults' \in Nat, faults' >= faults
  PROVE  Honest(k)'
<1> QED
  BY RetriesAssumption, BoundsAssumption DEF TypeOK, Honest

\* Honest is an invariant, given IInv.
LEMMA HonestStep ==
  ASSUME IInv, Next, NEW k \in Jobs, Honest(k)
  PROVE  Honest(k)'
<1>a. TypeOK /\ TypeOK' /\ JobInv(k)
  BY TypeStep DEF IInv
<1>b. faults \in Nat /\ faults' \in Nat /\ Retries \in Nat /\ thread[k].tries \in Nat
  BY <1>a, RetriesAssumption, BoundsAssumption DEF TypeOK
<1>1. ASSUME NEW j \in Jobs,
             \/ \E gate \in BOOLEAN : CreateJob(j, gate)
             \/ ApproveJob(j) \/ CancelJob(j) \/ CancelMark(j) \/ CancelSignal(j)
             \/ CancelFind(j) \/ CancelWrite(j) \/ HandlerFault(j)
      PROVE  Honest(k)'
  BY <1>1, <1>b
     DEF Honest, CreateJob, ApproveJob, CancelJob, CancelMark, CancelSignal, CancelFind,
         CancelWrite, HandlerFault, Fault, countVars
<1>2. ASSUME NEW j \in Jobs,
             \/ StartJob(j) \/ ClaimFind(j) \/ ClaimWrite(j) \/ Register(j)
             \/ RunErases(j) \/ CompleteWrite(j)
      PROVE  Honest(k)'
  BY <1>2, <1>a
     DEF Honest, TypeOK, StartJob, Start, ClaimFind, ClaimWrite, Register, RunErases,
         CompleteWrite, Goto, countVars
<1>3. ASSUME NEW j \in Jobs, RunFails(j) \/ RunCancelled(j) PROVE Honest(k)'
  BY <1>3, <1>a DEF Honest, TypeOK, RunFails, RunCancelled, Goto, countVars
<1>4. ASSUME NEW j \in Jobs,
             CancelledWrite(j) \/ FailWrite(j) \/ Issue(j) \/ Publish(j) \/ Record(j)
      PROVE  Honest(k)'
  <2>1. thread'[k] = thread[k] \/ thread'[k].pc \in {"done", "publish", "record"}
    BY <1>4, <1>a
       DEF TypeOK, CancelledWrite, FailWrite, Issue, Publish, Record, Finish, Goto
  <2>2. UNCHANGED <<device, faults>>
    BY <1>4 DEF CancelledWrite, FailWrite, Issue, Publish, Record, countVars
  <2> QED
    BY <2>1, <2>2 DEF Honest
<1>5. ASSUME NEW j \in Jobs, ClaimFault(j) \/ EndFault(j) \/ FinalizeFault(j)
      PROVE  Honest(k)'
  <2>1. \/ thread'[k].pc = thread[k].pc
        \/ thread'[k].pc \in {"done", "aborted", "issue"}
    <3>1. CASE k # j
      BY <1>5, <1>a, <3>1
         DEF TypeOK, ClaimFault, EndFault, FinalizeFault, RetryElse, Finish, Goto
    <3>2. CASE k = j /\ ClaimFault(j)
      BY <1>a, <3>2 DEF TypeOK, ClaimFault, Goto
    <3>3. CASE k = j /\ EndFault(j)
      <4>1. CASE thread[j].tries + 1 < Retries
        BY <1>a, <3>3, <4>1 DEF TypeOK, EndFault, RetryElse
      <4>2. CASE ~ (thread[j].tries + 1 < Retries)
        BY <1>a, <3>3, <4>2 DEF TypeOK, EndFault, Finish, Goto
      <4> QED
        BY <4>1, <4>2
    <3>4. CASE k = j /\ FinalizeFault(j)
      BY <1>a, <3>4 DEF TypeOK, FinalizeFault, Finish, Goto
    <3> QED
      BY <1>5, <3>1, <3>2, <3>3, <3>4
  <2>2. device' = device /\ faults' >= faults
    BY <1>5, <1>b DEF ClaimFault, EndFault, FinalizeFault, Fault
  <2> QED
    BY <1>b, <2>1, <2>2 DEF Honest
<1>6. ASSUME NEW j \in Jobs, CompleteFault(j) PROVE Honest(k)'
  <2>1. CASE k # j
    BY <1>6, <1>a, <1>b, <2>1, HonestOther
       DEF TypeOK, CompleteFault, RetryElse, Goto, Fault
  <2>2. CASE k = j
    BY <1>6, <1>a, <1>b, <2>2
       DEF Honest, TypeOK, JobInv, Owned, CompleteFault, RetryElse, Goto, Fault
  <2> QED
    BY <2>1, <2>2
<1>7. CASE Crash
  BY <1>7, <1>a DEF Honest, TypeOK, Crash, Live, LiveSteps
<1> QED
  BY <1>1, <1>2, <1>3, <1>4, <1>5, <1>6, <1>7 DEF Next, RouteStep, ThreadStep, ThreadFault

-----------------------------------------------------------------------------
(* Steps of JobLifecycle as steps of WipeJob *)

\* A write of the status alone.
LEMMA StatusWrite ==
  ASSUME NEW j \in Jobs, NEW s, SetStatus(j, s), UNCHANGED <<device, hash, pdf>>
  PROVE  W!Becomes(j, s)
<1> QED
  BY DEF SetStatus, W!Becomes

\* A write of the status that is there already.
LEMMA SameStatus ==
  ASSUME TypeOK, NEW j \in Jobs, SetStatus(j, status[j])
  PROVE  status' = status
<1> QED
  BY DEF TypeOK, SetStatus

\* A step that leaves row, file and device alone is a stutter.
LEMMA Nothing ==
  ASSUME UNCHANGED <<status, device, hash, pdf>>
  PROVE  UNCHANGED <<status, [j \in Jobs |-> device[j] = "erased"],
                     [j \in Jobs |-> hash[j] > 0 \/ pdf[j] > 0]>>
<1> QED
  OBVIOUS

\* A contested job stays contested.
LEMMA ContestedStays ==
  ASSUME IInv, Next
  PROVE  {j \in Jobs : Contested(j)} \subseteq {j \in Jobs : Contested(j)}'
<1> SUFFICES ASSUME NEW k \in Jobs, Contested(k) PROVE Contested(k)'
  BY DEF Contested
<1>a. TypeOK /\ TypeOK'
  BY TypeStep DEF IInv
<1>b. faults \in Nat /\ faults' \in Nat /\ Retries \in Nat
  BY <1>a, RetriesAssumption, BoundsAssumption DEF TypeOK
<1>1. faults' >= faults /\ (overlapped[k] => overlapped'[k])
  <2>1. ASSUME NEW j \in Jobs,
               \/ \E gate \in BOOLEAN : CreateJob(j, gate)
               \/ ApproveJob(j) \/ CancelJob(j) \/ RouteStep(j) \/ HandlerFault(j)
        PROVE  faults' >= faults /\ (overlapped[k] => overlapped'[k])
    BY <2>1, <1>a, <1>b
       DEF TypeOK, CreateJob, ApproveJob, CancelJob, RouteStep, StartJob, CancelMark,
           CancelSignal, CancelFind, CancelWrite, HandlerFault, Fault, ghostVars, countVars
  <2>2. ASSUME NEW j \in Jobs, ThreadStep(j)
        PROVE  faults' >= faults /\ (overlapped[k] => overlapped'[k])
    BY <2>2, <1>a, <1>b
       DEF TypeOK, ThreadStep, ClaimFind, ClaimWrite, Register, RunErases, RunFails,
           RunCancelled, CompleteWrite, CancelledWrite, FailWrite, Issue, Publish, Record,
           NoteOverlap, ghostVars, countVars
  <2>3. ASSUME NEW j \in Jobs, ThreadFault(j)
        PROVE  faults' >= faults /\ (overlapped[k] => overlapped'[k])
    BY <2>3, <1>a, <1>b
       DEF TypeOK, ThreadFault, ClaimFault, CompleteFault, EndFault, FinalizeFault, Fault,
           NoteOverlap, ghostVars
  <2>4. CASE Crash
    BY <2>4, <1>b DEF Crash, ghostVars
  <2> QED
    BY <2>1, <2>2, <2>3, <2>4 DEF Next
<1> QED
  BY <1>1, <1>b DEF Contested

\* Every step of the routes, the threads and a crash, as WipeJob sees it.
LEMMA StepMaps ==
  ASSUME IInv, Next, \A j \in Jobs : Honest(j)
  PROVE  W!WNext
<1> DEFINE Stutter == UNCHANGED <<status, [j \in Jobs |-> device[j] = "erased"],
                                  [j \in Jobs |-> hash[j] > 0 \/ pdf[j] > 0]>>
           Lives(j) ==
             \/ W!Create(j) \/ W!Approve(j) \/ W!Claim(j) \/ W!Erase(j)
             \/ W!Complete(j) \/ W!Fail(j) \/ W!Cancel(j) \/ W!Certify(j)
             \/ W!Overwrite(j)
<1>a. TypeOK /\ \A j \in Jobs : JobInv(j)
  BY DEF IInv
<1>b. ASSUME NEW j \in Jobs, Contested(j)
      PROVE  /\ j \in {k \in Jobs : overlapped[k] \/ faults >= Retries}
             /\ j \in {k \in Jobs : overlapped[k] \/ faults >= Retries}'
  BY <1>b, ContestedStays DEF Contested
<1>c. ASSUME NEW j \in Jobs, SetStatus(j, "running"), UNCHANGED <<device, hash, pdf>>,
             thread[j].pc = "claim"
      PROVE  Lives(j)
  <2>1. W!Becomes(j, "running")
    BY <1>c, StatusWrite
  <2>2. status[j] = "queued" \/ Contested(j)
    BY <1>a, <1>c DEF JobInv, StatusAt, Separate, Contested
  <2>3. device[j] # "erased"
    BY <1>a, <1>c DEF JobInv, Evidence
  <2> QED
    BY <1>b, <2>1, <2>2, <2>3 DEF W!Claim, W!Overwrite
<1>d. ASSUME NEW j \in Jobs, SetStatus(j, "completed"), UNCHANGED <<device, hash, pdf>>,
             thread[j].pc = "complete"
      PROVE  Lives(j) \/ Stutter
  <2>1. W!Becomes(j, "completed") /\ device[j] = "erased"
    BY <1>a, <1>d, StatusWrite DEF JobInv, Evidence
  <2>2. CASE status[j] = "running"
    BY <2>1, <2>2 DEF W!Complete
  <2>3. CASE status[j] = "completed"
    BY <1>a, <1>d, <2>3, SameStatus, Nothing
  <2>4. CASE Contested(j)
    BY <1>b, <2>1, <2>4 DEF W!Overwrite
  <2> QED
    BY <1>a, <1>d, <2>2, <2>3, <2>4 DEF JobInv, Separate, Contested
<1>e. ASSUME NEW j \in Jobs, SetStatus(j, "cancelled"), UNCHANGED <<device, hash, pdf>>,
             thread[j].pc = "cancelling" \/ Handling(j, "cancel_write")
      PROVE  Lives(j) \/ Stutter
  <2>1. W!Becomes(j, "cancelled")
    BY <1>e, StatusWrite
  <2>2. CASE Contested(j)
    BY <1>b, <2>1, <2>2 DEF W!Overwrite
  <2>3. CASE status[j] = "cancelled"
    BY <1>a, <1>e, <2>3, SameStatus, Nothing
  <2>4. CASE ~ Contested(j) /\ status[j] # "cancelled"
    <3>1. /\ status[j] \in {"queued", "pending_approval", "running"}
          /\ device[j] # "erased"
      BY <1>a, <1>e, <2>4
         DEF JobInv, Separate, Evidence, Honest, Contested, Handling
    <3> QED
      BY <2>1, <3>1 DEF W!Cancel
  <2> QED
    BY <2>2, <2>3, <2>4
<1>f. ASSUME NEW j \in Jobs, SetStatus(j, "failed"), UNCHANGED <<device, hash, pdf>>,
             thread[j].pc = "failing"
      PROVE  Lives(j) \/ Stutter
  <2>1. W!Becomes(j, "failed") /\ hash[j] = 0 /\ pdf[j] = 0
    BY <1>a, <1>f, StatusWrite DEF JobInv, Evidence
  <2>2. CASE Contested(j)
    <3>1. ~ (hash[j] > 0 \/ pdf[j] > 0)
      BY <2>1
    <3> QED
      BY <1>b, <2>1, <2>2, <3>1 DEF W!Overwrite
  <2>3. CASE status[j] = "failed"
    BY <1>a, <1>f, <2>3, SameStatus, Nothing
  <2>4. CASE ~ Contested(j) /\ status[j] # "failed"
    <3>1. status[j] = "running" /\ device[j] # "erased"
      BY <1>a, <1>f, <2>4 DEF JobInv, Separate, Owned, Honest, Contested
    <3> QED
      BY <2>1, <3>1 DEF W!Fail
  <2> QED
    BY <2>2, <2>3, <2>4
<1>1. ASSUME NEW j \in Jobs, NEW gate \in BOOLEAN, CreateJob(j, gate) PROVE Lives(j)
  BY <1>1, StatusWrite DEF CreateJob, W!Create
<1>2. ASSUME NEW j \in Jobs, ApproveJob(j) PROVE Lives(j)
  BY <1>2, StatusWrite DEF ApproveJob, W!Approve
<1>3. ASSUME NEW j \in Jobs, CancelJob(j) PROVE Stutter
  BY <1>3 DEF CancelJob, rowVars
<1>4. ASSUME NEW j \in Jobs, RouteStep(j) PROVE Lives(j) \/ Stutter
  <2>1. CASE CancelWrite(j)
    BY <1>e, <2>1 DEF CancelWrite
  <2>2. CASE ~ CancelWrite(j)
    BY <1>4, <2>2 DEF RouteStep, StartJob, CancelMark, CancelSignal, CancelFind, rowVars
  <2> QED
    BY <2>1, <2>2
<1>5. ASSUME NEW j \in Jobs, HandlerFault(j) PROVE Lives(j) \/ Stutter
  <2>1. CASE UNCHANGED status
    BY <1>5, <2>1 DEF HandlerFault
  <2>2. CASE handler.pc = "cancel_write" /\ SetStatus(j, "cancelled")
    <3>1. handler \in [pc : HandlerSteps, job : Jobs]
      BY <1>5, <1>a, <2>2 DEF TypeOK, Idle
    <3>2. Handling(j, "cancel_write")
      BY <1>5, <2>2, <3>1 DEF HandlerFault, Handling
    <3> QED
      BY <1>5, <1>e, <2>2, <3>2 DEF HandlerFault
  <2> QED
    BY <1>5, <2>1, <2>2 DEF HandlerFault
<1>6. ASSUME NEW j \in Jobs, RunErases(j) PROVE Lives(j)
  BY <1>6, <1>a, <1>b
     DEF RunErases, rowVars, TypeOK, JobInv, StatusAt, Separate, Contested, W!Erase
<1>7. ASSUME NEW j \in Jobs, RunFails(j) \/ RunCancelled(j) PROVE Stutter
  <2>1. /\ \A k \in Jobs : (device'[k] = "erased") = (device[k] = "erased")
        /\ UNCHANGED <<status, hash, pdf>>
    BY <1>7, <1>a DEF RunFails, RunCancelled, rowVars, TypeOK, JobInv, Evidence
  <2> QED
    BY <2>1
<1>8. ASSUME NEW j \in Jobs, Issue(j) PROVE Lives(j)
  <2>1. /\ device[j] = "erased"
        /\ status[j] = "completed" \/ (status[j] = "cancelled" /\ Contested(j))
    BY <1>8, <1>a DEF Issue, JobInv, Evidence, StatusAt, Separate, Contested
  <2>2. pdf'[j] > 0 /\ \A k \in Jobs : k # j => pdf'[k] = pdf[k]
    BY <1>8, <1>a DEF Issue, TypeOK
  <2>3. [k \in Jobs |-> hash[k] > 0 \/ pdf[k] > 0]'
          = [[k \in Jobs |-> hash[k] > 0 \/ pdf[k] > 0] EXCEPT ![j] = TRUE]
    BY <1>8, <2>2 DEF Issue, rowVars
  <2>4. status' = status /\ device' = device
    BY <1>8 DEF Issue, rowVars
  <2> QED
    BY <1>b, <2>1, <2>3, <2>4 DEF W!Certify
<1>9. ASSUME NEW j \in Jobs, Publish(j) PROVE Stutter
  <2>1. /\ \A k \in Jobs : (hash'[k] > 0 \/ pdf'[k] > 0) = (hash[k] > 0 \/ pdf[k] > 0)
        /\ UNCHANGED <<status, device>>
    BY <1>9, <1>a DEF Publish, TypeOK, JobInv, Evidence
  <2> QED
    BY <2>1
<1>10. ASSUME NEW j \in Jobs,
              ClaimWrite(j) \/ CompleteWrite(j) \/ CancelledWrite(j) \/ FailWrite(j)
       PROVE  Lives(j) \/ Stutter
  BY <1>10, <1>c, <1>d, <1>e, <1>f DEF ClaimWrite, CompleteWrite, CancelledWrite, FailWrite
<1>11. ASSUME NEW j \in Jobs, ClaimFind(j) \/ Register(j) \/ Record(j) PROVE Stutter
  BY <1>11 DEF ClaimFind, Register, Record, rowVars
<1>12. ASSUME NEW j \in Jobs, ThreadFault(j) PROVE Lives(j) \/ Stutter
  BY <1>12, <1>c, <1>d, <1>e, <1>f, Nothing
     DEF ThreadFault, ClaimFault, CompleteFault, EndFault, FinalizeFault, MayWrite, rowVars
<1>13. ASSUME Crash PROVE Stutter
  <2>1. /\ \A k \in Jobs : (device'[k] = "erased") = (device[k] = "erased")
        /\ UNCHANGED <<status, hash, pdf>>
    BY <1>13, <1>a DEF Crash, rowVars, JobInv, Evidence
  <2> QED
    BY <2>1
<1> QED
  <2>1. Stutter \/ \E j \in Jobs : Lives(j)
    BY <1>1, <1>2, <1>3, <1>4, <1>5, <1>6, <1>7, <1>8, <1>9, <1>10, <1>11, <1>12, <1>13
       DEF Next, ThreadStep
  <2> QED
    BY <2>1, ContestedStays DEF W!WNext, Contested

\* The server's own execution of wipe jobs implements the abstract job.
THEOREM JobImplementsWipeJob == Spec => ImplementsWipeJob
<1> DEFINE AllHonest == \A j \in Jobs : Honest(j)
<1>1. Init => W!WInit /\ AllHonest
  <2> SUFFICES ASSUME Init PROVE W!WInit /\ AllHonest
    OBVIOUS
  <2>1. AllHonest
    BY DEF Init, Honest
  <2>2. faults < Retries /\ \A j \in Jobs : ~ overlapped[j]
    BY RetriesAssumption DEF Init
  <2>3. {j \in Jobs : overlapped[j] \/ faults >= Retries} = {}
    BY <2>2, RetriesAssumption DEF Init
  <2>4. /\ [j \in Jobs |-> device[j] = "erased"] = [j \in Jobs |-> FALSE]
        /\ [j \in Jobs |-> hash[j] > 0 \/ pdf[j] > 0] = [j \in Jobs |-> FALSE]
    <3>1. \A j \in Jobs : device[j] = "untouched" /\ hash[j] = 0 /\ pdf[j] = 0
      BY DEF Init
    <3>2. [j \in Jobs |-> device[j] = "erased"] = [j \in Jobs |-> FALSE]
      BY <3>1
    <3>3. [j \in Jobs |-> hash[j] > 0 \/ pdf[j] > 0] = [j \in Jobs |-> FALSE]
      <4>1. ~ (0 > 0)
        OBVIOUS
      <4>2. \A j \in Jobs : (hash[j] > 0 \/ pdf[j] > 0) <=> FALSE
        BY <3>1, <4>1, Zenon
      <4> QED
        BY <4>2
    <3> QED
      BY <3>2, <3>3
  <2> QED
    BY <2>1, <2>3, <2>4 DEF Init, W!WInit
<1>2. IInv /\ AllHonest /\ [Next]_vars => AllHonest'
  <2>1. ASSUME IInv, AllHonest, Next PROVE AllHonest'
    BY <2>1, HonestStep
  <2>2. ASSUME AllHonest, UNCHANGED vars PROVE AllHonest'
    BY <2>2 DEF vars, countVars, Honest
  <2> QED
    BY <2>1, <2>2
<1>3. IInv /\ AllHonest /\ [Next]_vars => [W!WNext]_(W!wipeVars)
  <2>1. ASSUME IInv, AllHonest, Next PROVE W!WNext
    BY <2>1, StepMaps
  <2>2. ASSUME UNCHANGED vars PROVE UNCHANGED W!wipeVars
    BY <2>2 DEF vars, rowVars, ghostVars, countVars, W!wipeVars
  <2> QED
    BY <2>1, <2>2
<1> QED
  BY Invariance, <1>1, <1>2, <1>3, PTL DEF Spec, ImplementsWipeJob, W!WSpec

=============================================================================

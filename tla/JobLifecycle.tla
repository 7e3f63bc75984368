----------------------------- MODULE JobLifecycle -----------------------------
(***************************************************************************)
(* The life of a wipe job that the server executes itself (agent_id null): *)
(* the job routes of backend/server.py, the executor threads of            *)
(* backend/jobs.py and the rows of wipe_jobs they share through            *)
(* backend/db/query.py.                                                    *)
(*                                                                         *)
(* The routes are coroutines of one event loop that call pymongo without   *)
(* awaiting, so at most one of them is in progress: `handler'.  Every      *)
(* queued job has its own executor thread, which does interleave with the  *)
(* routes.  A conditional update is two database calls, a find with the    *)
(* condition and a write by _id without it, so each is two steps here.     *)
(***************************************************************************)
EXTENDS Naturals

CONSTANTS
  Jobs,         \* ids of the jobs that may be created
  NoJob,        \* the job of an idle handler
  Retries,      \* attempts of update_with_retry and _finalize_with_retry
  MaxFaults,    \* bound: database calls that raise
  MaxCrashes    \* bound: crashes of the server process

ASSUME NoJobAssumption   == NoJob \notin Jobs
ASSUME RetriesAssumption == Retries \in Nat \ {0}
ASSUME BoundsAssumption  == MaxFaults \in Nat /\ MaxCrashes \in Nat

VARIABLES
  (* Columns of wipe_jobs *)
  status, approved, cancelRequested, hash,
  (* The certificate file {job id}.pdf, by issue; 0 is no file *)
  pdf,
  (* Memory of the server process *)
  handler, thread, flag,
  (* The device: what the wipe has done to it *)
  device,
  (* History: the gate applied at creation, the answer of the cancel route,  *)
  (* and whether a cancellation overlapped the executor's claim              *)
  gated, reply, overlapped,
  (* Counters of the bounded failures *)
  faults, crashes

rowVars   == <<status, approved, cancelRequested, hash>>
ghostVars == <<gated, reply, overlapped>>
countVars == <<faults, crashes>>
vars == <<rowVars, pdf, handler, thread, flag, device, ghostVars, countVars>>

Terminal == {"completed", "failed", "cancelled"}
Status   == {"absent", "pending_approval", "queued", "running"} \cup Terminal

CancelSteps  == {"cancel_mark", "cancel_signal", "cancel_find", "cancel_write"}
HandlerSteps == {"create_start", "approve_start"} \cup CancelSteps

\* Steps of an executor thread: `none' before jobs.start, `done' after
\* execute has returned, `aborted' when its claim raised, `dead' when the
\* process died under it.
LiveSteps   == {"find", "claim", "register", "run", "complete", "issue",
                "publish", "record", "cancelling", "failing"}
ThreadSteps == LiveSteps \cup {"none", "done", "aborted", "dead"}

Idle == [pc |-> "idle", job |-> NoJob]

TypeOK ==
  /\ status \in [Jobs -> Status]
  /\ approved \in [Jobs -> BOOLEAN]
  /\ cancelRequested \in [Jobs -> BOOLEAN]
  /\ hash \in [Jobs -> Nat]
  /\ pdf \in [Jobs -> Nat]
  /\ handler \in [pc : HandlerSteps, job : Jobs] \cup {Idle}
  /\ thread \in [Jobs -> [pc : ThreadSteps, tries : 0..(Retries - 1)]]
  /\ flag \in [Jobs -> {"none", "clear", "set"}]
  /\ device \in [Jobs -> {"untouched", "partial", "unverified", "erased"}]
  /\ gated \in [Jobs -> BOOLEAN]
  /\ reply \in [Jobs -> {"none", "pending", "cancelled"}]
  /\ overlapped \in [Jobs -> BOOLEAN]
  /\ faults \in 0..MaxFaults
  /\ crashes \in 0..MaxCrashes

Init ==
  /\ status = [j \in Jobs |-> "absent"]
  /\ approved = [j \in Jobs |-> FALSE]
  /\ cancelRequested = [j \in Jobs |-> FALSE]
  /\ hash = [j \in Jobs |-> 0]
  /\ pdf = [j \in Jobs |-> 0]
  /\ handler = Idle
  /\ thread = [j \in Jobs |-> [pc |-> "none", tries |-> 0]]
  /\ flag = [j \in Jobs |-> "none"]
  /\ device = [j \in Jobs |-> "untouched"]
  /\ gated = [j \in Jobs |-> FALSE]
  /\ reply = [j \in Jobs |-> "none"]
  /\ overlapped = [j \in Jobs |-> FALSE]
  /\ faults = 0
  /\ crashes = 0

-----------------------------------------------------------------------------
(* Helpers *)

Goto(j, pc)  == thread' = [thread EXCEPT ![j] = [pc |-> pc, tries |-> 0]]
SetStatus(j, s) == status' = [status EXCEPT ![j] = s]
Live(j)      == thread[j].pc \in LiveSteps
Handling(j, pc) == handler = [pc |-> pc, job |-> j]
Handle(j, pc)   == handler' = [pc |-> pc, job |-> j]
Cancelling(j)   == handler.job = j /\ handler.pc \in CancelSteps

\* The finally clause of execute: the flag is dropped and the thread ends.
Finish(j) ==
  /\ Goto(j, "done")
  /\ flag' = [flag EXCEPT ![j] = "none"]

\* jobs.start: a daemon thread that runs execute.
Start(j) == Goto(j, "find")

Fault == faults < MaxFaults /\ faults' = faults + 1

\* The write of a call that raises: the database may have taken it before the
\* connection was lost.
MayWrite(j, s) == UNCHANGED status \/ SetStatus(j, s)

\* A raising database call: one more attempt while there are any, else the
\* thread goes on at `next'.
RetryElse(j, next) ==
  IF thread[j].tries + 1 < Retries
  THEN thread' = [thread EXCEPT ![j].tries = @ + 1]
  ELSE Goto(j, next)

NoteOverlap(j) ==
  overlapped' = [overlapped EXCEPT ![j] = @ \/ Cancelling(j)]

-----------------------------------------------------------------------------
(* The routes *)

\* Mutant: create_job starts the job whatever the gate said.
CreateJobStartsAnyway(j, gate) ==
  /\ handler = Idle
  /\ status[j] = "absent"
  /\ gated' = [gated EXCEPT ![j] = gate]
  /\ SetStatus(j, IF gate THEN "pending_approval" ELSE "queued")
  /\ Handle(j, "create_start")
  /\ UNCHANGED <<approved, cancelRequested, hash, pdf, thread, flag, device,
                 reply, overlapped, countVars>>

\* create_job up to the insert: behind the approval gate the row is
\* pending_approval and no thread is started.
CreateJob(j, gate) ==
  /\ handler = Idle
  /\ status[j] = "absent"
  /\ gated' = [gated EXCEPT ![j] = gate]
  /\ IF gate
     THEN SetStatus(j, "pending_approval") /\ UNCHANGED handler
     ELSE SetStatus(j, "queued") /\ Handle(j, "create_start")
  /\ UNCHANGED <<approved, cancelRequested, hash, pdf, thread, flag, device,
                 reply, overlapped, countVars>>

\* approve_job up to its conditional update.  Only routes touch a job that is
\* pending, so the condition cannot change between the find and the write.
ApproveJob(j) ==
  /\ handler = Idle
  /\ status[j] = "pending_approval"
  /\ SetStatus(j, "queued")
  /\ approved' = [approved EXCEPT ![j] = TRUE]
  /\ Handle(j, "approve_start")
  /\ UNCHANGED <<cancelRequested, hash, pdf, thread, flag, device, ghostVars,
                 countVars>>

\* The end of either route, once the event is in the audit log.
StartJob(j) ==
  /\ Handling(j, "create_start") \/ Handling(j, "approve_start")
  /\ Start(j)
  /\ handler' = Idle
  /\ UNCHANGED <<rowVars, pdf, flag, device, ghostVars, countVars>>

\* cancel_job reads the status and decides on what it read.
CancelJob(j) ==
  /\ handler = Idle
  /\ status[j] \notin Terminal \cup {"absent"}
  /\ Handle(j, IF status[j] = "running" THEN "cancel_mark" ELSE "cancel_find")
  /\ overlapped' = [overlapped EXCEPT ![j] = @ \/ thread[j].pc = "claim"]
  /\ UNCHANGED <<rowVars, pdf, thread, flag, device, gated, reply, countVars>>

CancelMark(j) ==
  /\ Handling(j, "cancel_mark")
  /\ cancelRequested' = [cancelRequested EXCEPT ![j] = TRUE]
  /\ Handle(j, "cancel_signal")
  /\ UNCHANGED <<status, approved, hash, pdf, thread, flag, device, ghostVars,
                 countVars>>

\* jobs.request_cancel: without a registered flag it does nothing.
CancelSignal(j) ==
  /\ Handling(j, "cancel_signal")
  /\ flag' = [flag EXCEPT ![j] = IF @ = "none" THEN "none" ELSE "set"]
  /\ reply' = [reply EXCEPT ![j] = "pending"]
  /\ handler' = Idle
  /\ UNCHANGED <<rowVars, pdf, thread, device, gated, overlapped, countVars>>

\* The find of the conditional update to `cancelled'.  No row is not an
\* error: the route answers ok all the same.
CancelFind(j) ==
  /\ Handling(j, "cancel_find")
  /\ IF status[j] \in {"queued", "pending_approval"}
     THEN Handle(j, "cancel_write") /\ UNCHANGED reply
     ELSE handler' = Idle /\ reply' = [reply EXCEPT ![j] = "cancelled"]
  /\ UNCHANGED <<rowVars, pdf, thread, flag, device, gated, overlapped,
                 countVars>>

\* Its write, by _id alone.
CancelWrite(j) ==
  /\ Handling(j, "cancel_write")
  /\ SetStatus(j, "cancelled")
  /\ cancelRequested' = [cancelRequested EXCEPT ![j] = TRUE]
  /\ reply' = [reply EXCEPT ![j] = "cancelled"]
  /\ handler' = Idle
  /\ UNCHANGED <<approved, hash, pdf, thread, flag, device, gated, overlapped,
                 countVars>>

\* A database call of a route raises (log_event included, whose read of the
\* last hash is outside its try): 500, and what was written stays.
HandlerFault(j) ==
  /\ handler.job = j /\ handler.pc # "cancel_signal"
  /\ Fault
  /\ handler' = Idle
  /\ \/ UNCHANGED <<status, cancelRequested>>
     \/ /\ handler.pc = "cancel_mark"
        /\ cancelRequested' = [cancelRequested EXCEPT ![j] = TRUE]
        /\ UNCHANGED status
     \/ /\ handler.pc = "cancel_write"
        /\ cancelRequested' = [cancelRequested EXCEPT ![j] = TRUE]
        /\ SetStatus(j, "cancelled")
  /\ UNCHANGED <<approved, hash, pdf, thread, flag, device, ghostVars, crashes>>

-----------------------------------------------------------------------------
(* The executor thread *)

\* Mutant: _claim without .eq("status", "queued").
ClaimFindAny(j) ==
  /\ thread[j].pc = "find"
  /\ Goto(j, "claim")
  /\ NoteOverlap(j)
  /\ UNCHANGED <<rowVars, pdf, handler, flag, device, gated, reply, countVars>>

\* _claim, the find: queued and not an agent's.
ClaimFind(j) ==
  /\ thread[j].pc = "find"
  /\ Goto(j, IF status[j] = "queued" THEN "claim" ELSE "done")
  /\ NoteOverlap(j)
  /\ UNCHANGED <<rowVars, pdf, handler, flag, device, gated, reply, countVars>>

\* _claim, the write, by _id alone.
ClaimWrite(j) ==
  /\ thread[j].pc = "claim"
  /\ SetStatus(j, "running")
  /\ Goto(j, "register")
  /\ NoteOverlap(j)
  /\ UNCHANGED <<approved, cancelRequested, hash, pdf, handler, flag, device,
                 gated, reply, countVars>>

\* _claim is outside the try of execute: when it raises the thread is over,
\* even if the job is marked running by now.
ClaimFault(j) ==
  /\ thread[j].pc \in {"find", "claim"}
  /\ Fault
  /\ IF thread[j].pc = "claim" THEN MayWrite(j, "running") ELSE UNCHANGED status
  /\ Goto(j, "aborted")
  /\ NoteOverlap(j)
  /\ UNCHANGED <<approved, cancelRequested, hash, pdf, handler, flag, device,
                 gated, reply, crashes>>

Register(j) ==
  /\ thread[j].pc = "register"
  /\ flag' = [flag EXCEPT ![j] = "clear"]
  /\ Goto(j, "run")
  /\ UNCHANGED <<rowVars, pdf, handler, device, ghostVars, countVars>>

\* The wipe ends with a record that passed, or could not be, verified.
RunErases(j) ==
  /\ thread[j].pc = "run"
  /\ device' = [device EXCEPT ![j] = "erased"]
  /\ Goto(j, "complete")
  /\ UNCHANGED <<rowVars, pdf, handler, flag, ghostVars, countVars>>

\* Mutant: execute does not catch what the wipe raises.
RunRaises(j) ==
  /\ thread[j].pc = "run"
  /\ \E d \in {"untouched", "partial", "unverified"} :
       device' = [device EXCEPT ![j] = d]
  /\ Finish(j)
  /\ UNCHANGED <<rowVars, pdf, handler, ghostVars, countVars>>

\* The wipe ends with a record whose verification failed (complete sends it to
\* fail), or raises WipeError, PathRejected or anything else.
RunFails(j) ==
  /\ thread[j].pc = "run"
  /\ \E d \in {"untouched", "partial", "unverified"} :
       device' = [device EXCEPT ![j] = d]
  /\ Goto(j, "failing")
  /\ UNCHANGED <<rowVars, pdf, handler, flag, ghostVars, countVars>>

\* A cancel check sees the flag.  A wipe past its last check ends otherwise.
RunCancelled(j) ==
  /\ thread[j].pc = "run"
  /\ flag[j] = "set"
  /\ \E d \in {"untouched", "partial"} : device' = [device EXCEPT ![j] = d]
  /\ Goto(j, "cancelling")
  /\ UNCHANGED <<rowVars, pdf, handler, flag, ghostVars, countVars>>

\* complete: status by id, whatever it is by now.
CompleteWrite(j) ==
  /\ thread[j].pc = "complete"
  /\ SetStatus(j, "completed")
  /\ Goto(j, "issue")
  /\ UNCHANGED <<approved, cancelRequested, hash, pdf, handler, flag, device,
                 ghostVars, countVars>>

\* Out of attempts, the exception reaches execute, which calls fail.
CompleteFault(j) ==
  /\ thread[j].pc = "complete"
  /\ Fault
  /\ MayWrite(j, "completed")
  /\ RetryElse(j, "failing")
  /\ UNCHANGED <<approved, cancelRequested, hash, pdf, handler, flag, device,
                 ghostVars, crashes>>

\* The Cancelled clause of execute.
CancelledWrite(j) ==
  /\ thread[j].pc = "cancelling"
  /\ SetStatus(j, "cancelled")
  /\ Finish(j)
  /\ UNCHANGED <<approved, cancelRequested, hash, pdf, handler, device,
                 ghostVars, countVars>>

\* fail: status by id.
FailWrite(j) ==
  /\ thread[j].pc = "failing"
  /\ SetStatus(j, "failed")
  /\ Finish(j)
  /\ UNCHANGED <<approved, cancelRequested, hash, pdf, handler, device,
                 ghostVars, countVars>>

\* Mutant: the final status is written without a retry.
EndFaultFinishes(j) ==
  /\ thread[j].pc \in {"cancelling", "failing"}
  /\ Fault
  /\ Finish(j)
  /\ UNCHANGED <<rowVars, pdf, handler, device, ghostVars, crashes>>

\* Out of attempts, the Cancelled clause raises and fail only prints: the
\* thread ends and the row keeps its status.
EndFault(j) ==
  /\ thread[j].pc \in {"cancelling", "failing"}
  /\ Fault
  /\ IF thread[j].tries + 1 < Retries
     THEN RetryElse(j, "done") /\ UNCHANGED flag
     ELSE Finish(j)
  /\ MayWrite(j, IF thread[j].pc = "failing" THEN "failed" ELSE "cancelled")
  /\ UNCHANGED <<approved, cancelRequested, hash, pdf, handler, device,
                 ghostVars, crashes>>

\* _finalize, first half: a certificate with its own issued_at, and so its own
\* hash, replaces the file of an earlier attempt.
Issue(j) ==
  /\ thread[j].pc = "issue"
  /\ pdf' = [pdf EXCEPT ![j] = @ + 1]
  /\ thread' = [thread EXCEPT ![j].pc = "publish"]
  /\ UNCHANGED <<rowVars, handler, flag, device, ghostVars, countVars>>

\* Mutant: a hash that is there already is kept.
PublishOnce(j) ==
  /\ thread[j].pc = "publish"
  /\ hash' = [hash EXCEPT ![j] = IF @ = 0 THEN pdf[j] ELSE @]
  /\ thread' = [thread EXCEPT ![j].pc = "record"]
  /\ UNCHANGED <<status, approved, cancelRequested, pdf, handler, flag, device,
                 ghostVars, countVars>>

\* _finalize, the update of the row with the hash of the file just written.
Publish(j) ==
  /\ thread[j].pc = "publish"
  /\ hash' = [hash EXCEPT ![j] = pdf[j]]
  /\ thread' = [thread EXCEPT ![j].pc = "record"]
  /\ UNCHANGED <<status, approved, cancelRequested, pdf, handler, flag, device,
                 ghostVars, countVars>>

\* _finalize, the audit entry; the anomaly checks behind it cannot raise.
Record(j) ==
  /\ thread[j].pc = "record"
  /\ Finish(j)
  /\ UNCHANGED <<rowVars, pdf, handler, device, ghostVars, countVars>>

\* Mutant: the last failure of _finalize is raised, and execute calls fail.
FinalizeFaultFails(j) ==
  /\ thread[j].pc \in {"issue", "publish", "record"}
  /\ Fault
  /\ IF thread[j].tries + 1 < Retries
     THEN thread' = [thread EXCEPT ![j] = [pc |-> "issue", tries |-> @.tries + 1]]
     ELSE Goto(j, "failing")
  /\ UNCHANGED <<rowVars, pdf, handler, flag, device, ghostVars, crashes>>

\* Mutant: the certificate is tried once.
FinalizeFaultEnds(j) ==
  /\ thread[j].pc \in {"issue", "publish", "record"}
  /\ Fault
  /\ Finish(j)
  /\ UNCHANGED <<rowVars, pdf, handler, device, ghostVars, crashes>>

\* _finalize_with_retry starts over from the read of the row, and in the end
\* only broadcasts an error.  (A call that takes effect and raises is the
\* step before this one.)
FinalizeFault(j) ==
  /\ thread[j].pc \in {"issue", "publish", "record"}
  /\ Fault
  /\ IF thread[j].tries + 1 < Retries
     THEN /\ thread' = [thread EXCEPT ![j] = [pc |-> "issue", tries |-> @.tries + 1]]
          /\ UNCHANGED flag
     ELSE Finish(j)
  /\ UNCHANGED <<rowVars, pdf, handler, device, ghostVars, crashes>>

-----------------------------------------------------------------------------
\* The process dies and is restarted (run.py under docker's restart policy):
\* threads, flags and the request in progress are gone, nothing looks for the
\* jobs they were working on, and a wipe stops where it was.
Crash ==
  /\ crashes < MaxCrashes
  /\ crashes' = crashes + 1
  /\ handler' = Idle
  /\ thread' = [j \in Jobs |-> IF Live(j) THEN [pc |-> "dead", tries |-> 0]
                               ELSE thread[j]]
  /\ flag' = [j \in Jobs |-> "none"]
  /\ device' = [j \in Jobs |-> IF thread[j].pc = "run" THEN "partial"
                               ELSE device[j]]
  /\ UNCHANGED <<rowVars, pdf, ghostVars, faults>>

RouteStep(j) ==
  \/ StartJob(j) \/ CancelMark(j) \/ CancelSignal(j) \/ CancelFind(j)
  \/ CancelWrite(j)

ThreadStep(j) ==
  \/ ClaimFind(j) \/ ClaimWrite(j) \/ Register(j)
  \/ RunErases(j) \/ RunFails(j) \/ RunCancelled(j)
  \/ CompleteWrite(j) \/ CancelledWrite(j) \/ FailWrite(j)
  \/ Issue(j) \/ Publish(j) \/ Record(j)

ThreadFault(j) ==
  \/ ClaimFault(j) \/ CompleteFault(j) \/ EndFault(j) \/ FinalizeFault(j)

Next ==
  \/ \E j \in Jobs :
       \/ \E gate \in BOOLEAN : CreateJob(j, gate)
       \/ ApproveJob(j) \/ CancelJob(j)
       \/ RouteStep(j) \/ ThreadStep(j) \/ ThreadFault(j) \/ HandlerFault(j)
  \/ Crash

Spec == Init /\ [][Next]_vars

\* A route in progress and a thread that exists are run on; nobody has to
\* create, approve or cancel anything, and nothing has to fail.
FairSpec ==
  /\ Spec
  /\ \A j \in Jobs : WF_vars(RouteStep(j)) /\ WF_vars(ThreadStep(j))

-----------------------------------------------------------------------------
(* Properties *)

\* A job created behind the approval gate is picked up by an executor thread
\* only after approve_job has approved it, and so are its running, completed
\* and failed states.
ApprovalGate ==
  \A j \in Jobs :
    gated[j] /\ (thread[j].pc # "none" \/ status[j] \in {"running", "completed", "failed"})
      => approved[j]

\* A job that is completed, has a published hash or has a certificate on disk
\* is one whose wipe ended without a failed verification.
CertifiedWasErased ==
  \A j \in Jobs :
    status[j] = "completed" \/ hash[j] > 0 \/ pdf[j] > 0 => device[j] = "erased"

\* README: "A job that fails or fails verification is marked failed and never
\* gets a certificate" - its second half, whatever raises on the way.
FailedNeverCertified ==
  \A j \in Jobs : status[j] = "failed" => hash[j] = 0 /\ pdf[j] = 0

\* A queued or running job that no thread will ever finish is the trace of a
\* crash, of a call that raised between the row and the claim, or of an outage
\* that outlived every attempt to write the final status.
StuckOnlyAfterFailure ==
  \A j \in Jobs :
    ~ Live(j) /\ handler.job # j =>
      /\ status[j] = "queued" => crashes > 0 \/ faults > 0
      /\ status[j] = "running" =>
           crashes > 0 \/ thread[j].pc = "aborted" \/ faults >= Retries

\* A cancellation answered with "ok" and without "pending", that did not
\* overlap the executor's claim of the job, stands: the job is cancelled and
\* its device untouched.
CancelHonoured ==
  \A j \in Jobs :
    reply[j] = "cancelled" /\ ~ overlapped[j] =>
      status[j] = "cancelled" /\ device[j] = "untouched"

\* The same without the proviso, which is what the answer and the "Job
\* cancelled" of JobDetail.jsx tell the operator.
AckedCancelStands ==
  \A j \in Jobs : reply[j] = "cancelled" => status[j] = "cancelled"

\* When an executor has returned from a completed job, the published hash is
\* that of the certificate on disk, unless the database was away for as many
\* calls as there are attempts.
PublishedIsOnDisk ==
  \A j \in Jobs :
    status[j] = "completed" /\ thread[j].pc = "done" /\ faults < Retries =>
      pdf[j] > 0 /\ hash[j] = pdf[j]

\* completed, failed and cancelled are final for every job whose cancellation
\* did not overlap its claim, although complete, fail and the Cancelled clause
\* write the status without looking at it; a completed job can still become
\* failed when every attempt to write `completed' raised.
TerminalIsFinal ==
  [][\A j \in Jobs :
       status[j] \in Terminal /\ ~ overlapped[j] /\ faults < Retries =>
         status'[j] = status[j]]_vars

\* A job that an executor has claimed ends, if the process lives and the
\* database is away for fewer calls than there are attempts.
ClaimedJobEnds ==
  \A j \in Jobs : thread[j].pc = "register" ~> status[j] \in Terminal

\* README: "Every completed wipe produces a PDF/A certificate" - and publishes
\* the hash of the one on disk, under the same conditions.
CompletedGetsCertificate ==
  \A j \in Jobs :
    status[j] = "completed" ~> thread[j].pc = "done" /\ pdf[j] > 0 /\ hash[j] = pdf[j]

\* What this promises of a job, in the terms of WipeJob: a job is contested
\* once its cancellation has overlapped its claim, or the database has been
\* away for as many calls as there are attempts.
W == INSTANCE WipeJob WITH
       state     <- status,
       erased    <- [j \in Jobs |-> device[j] = "erased"],
       certified <- [j \in Jobs |-> hash[j] > 0 \/ pdf[j] > 0],
       contested <- {j \in Jobs : overlapped[j] \/ faults >= Retries}

\* The routes and the threads together implement WipeJob: a job is completed or
\* certified only if it is erased, fails or is cancelled only if it is not,
\* and takes the steps of its life in order, although every write of a status
\* is by id and unconditional.
ImplementsWipeJob == W!WSpec

=============================================================================

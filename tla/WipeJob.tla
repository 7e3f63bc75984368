------------------------------- MODULE WipeJob --------------------------------
(***************************************************************************)
(* What a wipe job promises, whoever executes it: its status follows one   *)
(* path from creation to a final status, `completed' needs an erased       *)
(* device, `failed' and `cancelled' a device that is not, and only a       *)
(* completed job is certified.  JobLifecycle (the server's own threads)    *)
(* and AgentJobs (an agent) both implement it.                             *)
(*                                                                         *)
(* A contested job is one for which the promise is weaker: a cancellation  *)
(* met the claim of the same job, or the database was away for as long as  *)
(* there are attempts.  Its status may then be overwritten, but never by   *)
(* one that its device or its certificate belies.                          *)
(***************************************************************************)
CONSTANT Jobs

VARIABLES
  state,       \* status of the job
  erased,      \* its wipe has ended with success
  certified,   \* it has a certificate file or a published hash
  contested    \* the jobs whose status may be overwritten

wipeVars == <<state, erased, certified, contested>>

WInit ==
  /\ state = [j \in Jobs |-> "absent"]
  /\ erased = [j \in Jobs |-> FALSE]
  /\ certified = [j \in Jobs |-> FALSE]
  /\ contested = {}

Becomes(j, s) ==
  state' = [state EXCEPT ![j] = s] /\ UNCHANGED <<erased, certified>>

Create(j)  == state[j] = "absent" /\ \E s \in {"pending_approval", "queued"} : Becomes(j, s)

Approve(j) == state[j] = "pending_approval" /\ Becomes(j, "queued")

Claim(j)   == state[j] = "queued" /\ Becomes(j, "running")

Erase(j) ==
  /\ state[j] = "running" \/ j \in contested
  /\ erased' = [erased EXCEPT ![j] = TRUE]
  /\ UNCHANGED <<state, certified>>

Complete(j) == state[j] = "running" /\ erased[j] /\ Becomes(j, "completed")

Fail(j)     == state[j] = "running" /\ ~ erased[j] /\ Becomes(j, "failed")

Cancel(j) ==
  /\ state[j] \in {"pending_approval", "queued", "running"} /\ ~ erased[j]
  /\ Becomes(j, "cancelled")

Certify(j) ==
  /\ state[j] = "completed" \/ (j \in contested /\ state[j] = "cancelled")
  /\ erased[j]
  /\ certified' = [certified EXCEPT ![j] = TRUE]
  /\ UNCHANGED <<state, erased>>

\* The status of a contested job is overwritten.
Overwrite(j) ==
  /\ j \in contested'
  /\ \/ Becomes(j, "cancelled")
     \/ ~ erased[j] /\ Becomes(j, "running")
     \/ erased[j] /\ Becomes(j, "completed")
     \/ ~ certified[j] /\ Becomes(j, "failed")

WNext ==
  /\ contested \subseteq contested'
  /\ \/ UNCHANGED <<state, erased, certified>>
     \/ \E j \in Jobs :
          \/ Create(j) \/ Approve(j) \/ Claim(j) \/ Erase(j)
          \/ Complete(j) \/ Fail(j) \/ Cancel(j) \/ Certify(j) \/ Overwrite(j)

WSpec == WInit /\ [][WNext]_wipeVars

-----------------------------------------------------------------------------
\* What an operator may conclude from a job that obeys WipeJob: a completed or
\* certified job is erased, a certified one has not failed, and, contested jobs
\* apart, it is completed, and a failed or cancelled job is not erased.
Trustworthy ==
  \A j \in Jobs :
    /\ state[j] = "completed" => erased[j]
    /\ certified[j] => erased[j] /\ state[j] \in {"completed", "cancelled"}
    /\ j \notin contested =>
         /\ certified[j] => state[j] = "completed"
         /\ state[j] \in {"failed", "cancelled"} => ~ erased[j]

=============================================================================

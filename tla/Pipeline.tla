------------------------------- MODULE Pipeline -------------------------------
(***************************************************************************)
(* One hardware wipe: the worker thread of backend/hw/pipeline.py run, the *)
(* firmware executors (executors.py), the preflight of Linux and of        *)
(* Windows, and the drive they work on.                                    *)
(*                                                                         *)
(* The drive goes on by itself: a sanitize runs in its firmware while the  *)
(* worker polls, and a hidden area appears or stays when it is told.  The  *)
(* worker stops at a cancellation it sees, at a command or a read that     *)
(* fails, at a verdict, or with its process.                               *)
(***************************************************************************)
EXTENDS Planner, ReadBack

CONSTANTS
  Drives,      \* [transport, type, caps, units, data, stuck, lies]
  Jobs,        \* [method, standard, psid, full, dry, system]
  Hosts,       \* [root, attached, boot, held, mounted]: where the drive is
  IDLE_LIMIT,  \* _idle_guard: idle answers before a sanitize counts as failed
  MaxFaults    \* bound: commands, reads and writes that fail

HostStates ==
  [root : BOOLEAN, attached : BOOLEAN, boot : BOOLEAN, held : BOOLEAN, mounted : BOOLEAN]

\* Chunks and blocks are not empty; the areas a drive hides are part of it.
ASSUME DriveAssumption ==
  /\ CHUNK \in Nat \ {0} /\ BLOCK \in Nat \ {0} /\ COUNT \in Nat
  /\ IDLE_LIMIT \in Nat \ {0} /\ MaxFaults \in Nat
  /\ Hosts \subseteq HostStates
  /\ \A d \in Drives :
       /\ d.units \in Nat /\ DOMAIN d.data = 1..d.units
       /\ d.caps.hpa_current \in 0..d.units /\ d.caps.hpa_native \in 0..d.units

VARIABLES
  disk, job, host,         \* the drive, the job and the state of the host
  media, visible,          \* what each unit holds; how many the host can address
  password,                \* an ATA security password is set
  fw,                      \* the sanitize in the drive: none, running, done, failed
  pc, caps, todo,          \* the worker: its step, the capabilities, the plan
  size, offsets, before,   \* size; the sampled offsets and what they held
  index, written, idle,    \* position in the plan, in a pass, idle answers
  last_source, keystreams, \* what the last pass writes; keys not destroyed yet
  verification, record,    \* the verdict; the outcome of execute
  cancelled,               \* cancel_check would raise
  purged, refused, faults  \* history: units erased by firmware, failed security commands

drive    == <<disk, job, media, visible, password, fw>>
progress == <<index, written, idle>>
sampling == <<size, offsets, before>>
keys     == <<last_source, keystreams>>
vars == <<drive, host, pc, caps, todo, progress, sampling, keys, verification, record,
          cancelled, purged, refused, faults>>

step == todo.steps[index]
Ended == pc = "ended"

TypeOK ==
  /\ disk \in Drives /\ job \in Jobs
  /\ host \in HostStates
  /\ DOMAIN media = 1..disk.units /\ visible \in 0..disk.units
  /\ password \in BOOLEAN /\ cancelled \in BOOLEAN
  /\ fw \in {"none", "running", "done", "failed"}
  /\ pc \in {"check", "again", "plan", "step", "write", "poll",
             "erase", "disable", "identify", "ended"}
  /\ index \in 1..(Len(todo.steps) + 1)
  /\ written \in 0..size /\ size \in 0..disk.units
  /\ idle \in 0..IDLE_LIMIT /\ faults \in 0..MaxFaults
  /\ verification.passed \in {"none", "yes", "no"}
  /\ record \in {"none", "complete", "cancelled", "failed", "crashed"}
  /\ purged \subseteq 1..disk.units /\ refused \subseteq {"set-pass", "disable", "identify"}

\* What the host can address before the job: all but the hidden areas.
FirstVisible(d) == IF d.caps.hpa_current > 0 THEN d.caps.hpa_current ELSE d.units

\* A job j for the drive d of a host h, about to take the step `at'.
Start(d, j, h, at) ==
  /\ disk = d /\ job = j /\ host = h
  /\ media = d.data /\ visible = FirstVisible(d)
  /\ password = FALSE /\ fw = "none" /\ cancelled = FALSE
  /\ pc = at /\ caps = NoCaps /\ todo = PlanError
  /\ size = 0 /\ offsets = {} /\ before = <<>>
  /\ index = 1 /\ written = 0 /\ idle = 0
  /\ last_source = <<"none", 0>> /\ keystreams = {}
  /\ verification = NoVerdict /\ record = "none"
  /\ purged = {} /\ refused = {} /\ faults = 0

Init == \E d \in Drives, j \in Jobs, h \in Hosts : Start(d, j, h, "check")

-----------------------------------------------------------------------------
(* The ways out of execute. *)

\* The finally clause, then the answer of run: a record or the exception.
End(outcome) ==
  /\ pc' = "ended" /\ record' = outcome
  /\ keystreams' = {} /\ UNCHANGED last_source

Fault == faults < MaxFaults /\ faults' = faults + 1

Goto(label) == pc' = label /\ UNCHANGED <<record, keys>>

\* An exception of the step.
Fails == End("failed")

-----------------------------------------------------------------------------
(* Before the plan. *)

\* preflight.check refuses: not root, not attached, a system disk, or held by LVM,
\* dm-crypt or RAID; windows.prepare: not an Administrator, or the boot disk.
Refuses ==
  \/ ~host.root \/ ~host.attached \/ host.boot
  \/ job.system # "Windows" /\ host.held

PreflightRefuses ==
  /\ pc = "check" /\ ~job.dry /\ Refuses
  /\ Fails
  /\ UNCHANGED <<drive, host, caps, todo, progress, sampling, verification, cancelled, purged,
                 refused, faults>>

\* _unmount, largest mount point last; Clear-Disk on Windows.
Unmount ==
  /\ pc = "check" /\ ~job.dry /\ ~Refuses
  /\ \/ host' = [host EXCEPT !.mounted = FALSE] /\ Goto("again") /\ UNCHANGED faults
     \/ Fault /\ Fails /\ UNCHANGED host
  /\ UNCHANGED <<drive, caps, todo, progress, sampling, verification, cancelled, purged, refused>>

\* The second find_disk, and the size of the disk.
LookAgain ==
  /\ pc = "again"
  /\ IF host.attached /\ ~(job.system = "Linux" /\ host.mounted) /\ ~host.boot
     THEN Goto("plan") ELSE Fails
  /\ UNCHANGED <<drive, host, caps, todo, progress, sampling, verification, cancelled, purged,
                 refused, faults>>

DryRun ==
  /\ pc = "check" /\ job.dry
  /\ Goto("plan")
  /\ UNCHANGED <<drive, host, caps, todo, progress, sampling, verification, cancelled, purged,
                 refused, faults>>

\* Something mounts the disk again, or unplugs it, before the second look.
HostChanges ==
  /\ pc = "again" /\ Fault
  /\ \/ host' = [host EXCEPT !.mounted = TRUE]
     \/ host' = [host EXCEPT !.attached = FALSE]
  /\ UNCHANGED <<drive, pc, caps, todo, progress, sampling, keys, verification, record,
                 cancelled, purged, refused>>

\* What probe may learn: on Linux whatever part of its queries is answered.
Probed ==
  IF job.dry THEN {simulated_caps(disk.type)}
  ELSE IF job.system = "Linux"
       THEN {probe(disk, answered) : answered \in SUBSET Queries(disk.transport)}
       ELSE {NoCaps}

\* _plan, then the offsets and, before anything is changed, what they hold.
MakePlan ==
  /\ pc = "plan"
  /\ \E c \in Probed, direct \in BOOLEAN :
       LET p == plan(disk, c, job, job.dry \/ job.system = "Linux") IN
       /\ caps' = c /\ todo' = p
       /\ IF p = PlanError
          THEN Fails /\ UNCHANGED <<sampling, faults>>
          ELSE \/ /\ size' = visible
                  /\ offsets' \in sample_offsets(visible, COUNT)
                  /\ before' = IF job.dry THEN <<>>
                               ELSE snapshot(media, visible, visible, offsets', direct)
                  /\ Goto("step") /\ UNCHANGED faults
               \/ ~job.dry /\ Fault /\ Fails /\ UNCHANGED sampling
  /\ UNCHANGED <<drive, host, progress, verification, cancelled, purged, refused>>

-----------------------------------------------------------------------------
(* The steps of the plan: cancel_check comes first. *)

untouched == UNCHANGED <<host, caps, todo, offsets, before, cancelled>>
driveless == UNCHANGED <<drive, purged, refused>>

StepDone == Goto("step") /\ index' = index + 1 /\ written' = 0 /\ idle' = 0
Stay     == UNCHANGED <<index, written, idle>>
Begins   == pc = "step" /\ index <= Len(todo.steps) /\ ~cancelled

\* Mutant: cancel_check is also called while the drive is polled.
CancelledAnywhere ==
  /\ cancelled /\ pc \in {"step", "write", "poll"}
  /\ End("cancelled")
  /\ Stay /\ untouched /\ driveless /\ UNCHANGED <<size, verification, faults>>

StepCancelled ==
  /\ cancelled
  /\ \/ pc = "step" /\ index <= Len(todo.steps)
     \/ pc = "write" /\ written < size
  /\ End("cancelled")
  /\ Stay /\ untouched /\ driveless /\ UNCHANGED <<size, verification, faults>>

\* _simulate, at the times it is not cancelled.
Simulate ==
  /\ Begins /\ job.dry
  /\ verification' = IF step.kind = "verify" THEN Verdict(step.arg, {}, "yes") ELSE verification
  /\ StepDone
  /\ untouched /\ driveless /\ UNCHANGED <<size, faults>>

\* _overwrite: the source of the pass; a size of nothing is refused.
StartPass ==
  /\ Begins /\ ~job.dry /\ step.kind = "overwrite"
  /\ IF size = 0 THEN Fails
     ELSE /\ pc' = "write" /\ last_source' = Content(step.arg, step.n)
          /\ keystreams' = IF step.arg = "random" THEN keystreams \cup {step.n} ELSE keystreams
          /\ UNCHANGED record
  /\ Stay /\ untouched /\ driveless /\ UNCHANGED <<size, verification, faults>>

\* Mutant: the loop stops at the last whole chunk.
WriteWholeChunks ==
  /\ pc = "write" /\ written < size /\ ~cancelled
  /\ written' = IF size - written < CHUNK THEN size ELSE written + CHUNK
  /\ media' = IF size - written < CHUNK THEN media
              ELSE Filled(media, ChunkAfter(written, size) \ disk.stuck, last_source)
  /\ UNCHANGED <<disk, job, visible, password, fw, host, pc, caps, todo, index, idle, sampling,
                 keys, verification, record, cancelled, purged, refused, faults>>

\* Mutant: the last chunk is as long as the others.
WriteLongChunk ==
  /\ pc = "write" /\ written < size /\ ~cancelled
  /\ written' = written + CHUNK
  /\ media' = Filled(media, ChunkAfter(written, size) \ disk.stuck, last_source)
  /\ UNCHANGED <<disk, job, visible, password, fw, host, pc, caps, todo, index, idle, sampling,
                 keys, verification, record, cancelled, purged, refused, faults>>

\* _write_all writes the whole chunk; what a stuck unit is given is lost.
WriteChunk ==
  /\ pc = "write" /\ written < size /\ ~cancelled
  /\ written' = written + Least(CHUNK, size - written)
  /\ media' = Filled(media, ChunkAfter(written, size) \ disk.stuck, last_source)
  /\ UNCHANGED <<disk, job, visible, password, fw, host, pc, caps, todo, index, idle, sampling,
                 keys, verification, record, cancelled, purged, refused, faults>>

\* A write or the open fails, after a part of the chunk.
WriteFails ==
  /\ pc = "write" /\ Fault
  /\ \E part \in {{}, {written + 1}} :
       media' = Filled(media, (part \cap 1..size) \ disk.stuck, last_source)
  /\ Fails
  /\ Stay /\ untouched
  /\ UNCHANGED <<disk, job, visible, password, fw, size, verification, purged, refused>>

Sync ==
  /\ pc = "write" /\ written = size
  /\ StepDone
  /\ untouched /\ driveless /\ UNCHANGED <<size, verification, faults>>

\* _verify: "full" reads every block of the size, "sample" the offsets drawn before
\* the steps; a verdict of False fails the job.
Verify ==
  /\ Begins /\ ~job.dry /\ step.kind = "verify"
  /\ \E direct \in BOOLEAN :
       LET v == IF step.arg = "changed"
                THEN check_changed(media, visible, size, before, direct)
                ELSE check_pattern(media, visible, size,
                                   IF step.n = 1 THEN AllOffsets(size) ELSE offsets,
                                   last_source, direct)
       IN /\ verification' = v
          /\ IF v.passed = "no" THEN Fails /\ Stay ELSE StepDone
  /\ untouched /\ driveless /\ UNCHANGED <<size, faults>>

\* A read fails, or a hidden-area command.
StepFails ==
  /\ Begins /\ ~job.dry /\ step.kind \in {"verify", "remove_hpa", "restore_dco"} /\ Fault
  /\ Fails
  /\ Stay /\ untouched /\ driveless /\ UNCHANGED <<size, verification>>

\* The drive makes hidden units addressable; on Linux the size is read again.
Reveal(units) ==
  /\ visible' = units
  /\ size' = IF job.system = "Linux" THEN units ELSE size
  /\ StepDone
  /\ untouched
  /\ UNCHANGED <<disk, job, media, password, fw, verification, purged, refused, faults>>

\* remove_hpa: -N with the native size that probe read.
remove_hpa == Begins /\ ~job.dry /\ step.kind = "remove_hpa" /\ Reveal(step.n)

\* restore_dco: a protected area keeps its limit.
restore_dco ==
  /\ Begins /\ ~job.dry /\ step.kind = "restore_dco"
  /\ Reveal(IF hpa_enabled(caps) THEN visible ELSE disk.units)

-----------------------------------------------------------------------------
(* The firmware executors. *)

Erased == IF disk.lies THEN media ELSE Filled(media, 1..disk.units, <<"fw", 0>>)

EraseAll == media' = Erased /\ purged' = 1..disk.units

Firmware(kinds) == Begins /\ ~job.dry /\ step.kind \in kinds

\* nvme_format (with its second try without --force), scsi_sanitize, sed_psid_revert:
\* the command returns when the drive is done.
EraseNow ==
  /\ Firmware({"nvme_format", "scsi_sanitize", "sed_psid_revert"})
  /\ \/ EraseAll /\ StepDone /\ UNCHANGED faults
     \/ Fault /\ Fails /\ Stay /\ (EraseAll \/ UNCHANGED <<media, purged>>)
  /\ untouched
  /\ UNCHANGED <<disk, job, visible, password, fw, size, verification, refused>>

\* nvme_sanitize, ata_sanitize: the drive accepts the command, and works on it.
StartSanitize ==
  /\ Firmware({"nvme_sanitize", "ata_sanitize"})
  /\ \/ fw' = "running" /\ Goto("poll") /\ UNCHANGED faults
     \/ Fault /\ Fails /\ fw' \in {"none", "running"}
  /\ Stay /\ untouched
  /\ UNCHANGED <<disk, job, media, visible, password, size, verification, purged, refused>>

\* The drive finishes a sanitize, whether or not anything polls it.
FirmwareFinishes ==
  /\ fw = "running"
  /\ \/ fw' = "done" /\ EraseAll /\ UNCHANGED faults
     \/ Fault /\ fw' = "failed" /\ UNCHANGED <<media, purged>>
  /\ UNCHANGED <<disk, job, visible, password, host, pc, caps, todo, progress, sampling, keys,
                 verification, record, cancelled, refused>>

Polled == untouched /\ UNCHANGED <<disk, job, media, visible, password, size, verification,
                                   purged, refused, faults>>

PollDone == pc = "poll" /\ fw = "done" /\ StepDone /\ fw' = "none" /\ Polled

PollFailed == pc = "poll" /\ fw = "failed" /\ Fails /\ Stay /\ Polled /\ UNCHANGED fw

\* Mutant: enough idle answers mean that the drive is done.
PollIdleIsDone ==
  /\ pc = "poll" /\ fw = "running"
  /\ IF idle + 1 < IDLE_LIMIT
     THEN idle' = idle + 1 /\ UNCHANGED <<index, written, pc, record, keys>>
     ELSE StepDone
  /\ Polled /\ UNCHANGED fw

\* _idle_guard: an answer that shows no sanitize; enough of them count as a failure.
PollIdle ==
  /\ pc = "poll" /\ fw = "running"
  /\ idle' = idle + 1
  /\ UNCHANGED <<index, written>>
  /\ IF idle + 1 < IDLE_LIMIT THEN Goto("poll") ELSE Fails
  /\ Polled /\ UNCHANGED fw

\* Mutant: the poll has no deadline.
PollForever == FALSE

\* The deadline, or a status command that fails: the firmware is left to itself.
PollGivesUp == pc = "poll" /\ Fails /\ Stay /\ Polled /\ UNCHANGED fw

\* ata_secure_erase: the password is set, the drive erases and drops it, and an
\* IDENTIFY shows whether it did.
Security == untouched /\ UNCHANGED <<disk, job, visible, fw, size, verification>>

SetPassword ==
  /\ Firmware({"ata_secure_erase"})
  /\ \/ password' = TRUE /\ Goto("erase") /\ UNCHANGED <<refused, faults>>
     \/ Fault /\ Fails /\ password' \in BOOLEAN /\ refused' = refused \cup {"set-pass"}
  /\ Stay /\ Security /\ UNCHANGED <<media, purged>>

\* Mutant: a failed erase leaves the step at once.
EraseOrLeave ==
  /\ pc = "erase"
  /\ \/ EraseAll /\ password' = FALSE /\ Goto("identify") /\ UNCHANGED faults
     \/ Fault /\ Fails /\ UNCHANGED <<media, purged, password>>
  /\ Stay /\ Security /\ UNCHANGED refused

SecureErase ==
  /\ pc = "erase"
  /\ \/ EraseAll /\ password' = FALSE /\ Goto("identify") /\ UNCHANGED faults
     \/ Fault /\ EraseAll /\ Goto("identify") /\ UNCHANGED password
     \/ Fault /\ Goto("disable") /\ UNCHANGED <<media, purged, password>>
  /\ Stay /\ Security /\ UNCHANGED refused

\* security-disable runs with check=False: nothing looks at its exit code.
DisablePassword ==
  /\ pc = "disable" /\ Fails
  /\ \/ password' = FALSE /\ UNCHANGED <<refused, faults>>
     \/ Fault /\ refused' = refused \cup {"disable"} /\ UNCHANGED password
  /\ Stay /\ Security /\ UNCHANGED <<media, purged>>

Identify ==
  /\ pc = "identify"
  /\ \/ ~password /\ StepDone /\ UNCHANGED <<refused, faults>>
     \/ password /\ Goto("disable") /\ Stay /\ UNCHANGED <<refused, faults>>
     \/ Fault /\ Fails /\ Stay /\ refused' = refused \cup {"identify"}
  /\ Security /\ UNCHANGED <<media, purged, password>>

-----------------------------------------------------------------------------
\* After the last step: the record, and the "complete" event.
Finish ==
  /\ pc = "step" /\ index > Len(todo.steps)
  /\ End("complete")
  /\ Stay /\ untouched /\ driveless /\ UNCHANGED <<size, verification, faults>>

\* request_cancel sets the event that cancel_check looks at.
Cancel ==
  /\ ~Ended /\ ~cancelled
  /\ cancelled' = TRUE
  /\ UNCHANGED <<drive, host, pc, caps, todo, progress, sampling, keys, verification, record,
                 purged, refused, faults>>

\* The worker is a daemon thread: it ends with its process, wherever it is.
Crash ==
  /\ ~Ended /\ Fault
  /\ End("crashed")
  /\ UNCHANGED <<drive, host, caps, todo, progress, sampling, verification, cancelled, purged,
                 refused>>

Prepare == PreflightRefuses \/ Unmount \/ LookAgain \/ DryRun \/ MakePlan
TakeStep ==
  \/ StepCancelled \/ Simulate \/ StartPass \/ WriteChunk \/ WriteFails \/ Sync \/ Verify
  \/ StepFails \/ remove_hpa \/ restore_dco \/ EraseNow \/ StartSanitize
  \/ PollDone \/ PollFailed \/ PollGivesUp
  \/ SetPassword \/ SecureErase \/ DisablePassword \/ Identify \/ Finish

Worker == Prepare \/ TakeStep
Next == Worker \/ PollIdle \/ FirmwareFinishes \/ Cancel \/ HostChanges \/ Crash

\* The worker's thread runs; neither the drive nor anybody else owes it anything.
Fairness == WF_vars(Worker)
Spec == Init /\ [][Next]_vars /\ Fairness

-----------------------------------------------------------------------------
Completed == record = "complete" /\ ~job.dry
Sound     == disk.stuck = {} /\ ~disk.lies

LastCheck == todo.steps[Len(todo.steps)].arg

\* A wipe that completes on a drive that does what it acknowledges leaves no
\* addressable unit as it was: the last pass, or the firmware's erase, is on every one
\* of them, on those the plan made addressable and on the partial last chunk too.  A
\* dry run changes nothing.
ErasedWhenComplete ==
  /\ Completed /\ Sound =>
       \A u \in 1..visible :
         media[u] = IF LastCheck = "pattern" THEN last_source ELSE <<"fw", 0>>
  /\ job.dry => media = disk.data /\ fw = "none" /\ ~password

\* A positive verdict says what it seems to say, whatever the drive did: every block it
\* names holds the last pass, the first and the last unit known when the samples were
\* drawn are in them, and the full mode names them all.  A verdict on what changed is
\* positive only if a unit it read did change, unless the last sample was cut short by
\* a hidden area that the plan then revealed: that block is longer when it is read again.
UnitsOf(o) == (o + 1)..(o + LengthAt(size, o))

HonestVerdict ==
  LET first == FirstVisible(disk) IN
  Completed /\ verification.passed = "yes" =>
    /\ verification.check = "pattern" =>
         /\ \A o \in verification.checked : \A u \in UnitsOf(o) : media[u] = last_source
         /\ {1, first} \subseteq UNION {UnitsOf(o) : o \in verification.checked}
         /\ job.full => UNION {UnitsOf(o) : o \in verification.checked} = 1..size
    /\ verification.check = "changed" /\ (size = first \/ first % BLOCK = 0) =>
         \E o \in verification.checked : \E u \in UnitsOf(o) : media[u] # disk.data[u]

\* What the certificate says of such a verdict, "pre/post sector hash, n changed": some
\* sector was changed.  check_changed compares digests of different lengths after a
\* hidden area was revealed, and counts the block as changed.
ChangedMeansChanged ==
  Completed /\ verification.passed = "yes" /\ verification.check = "changed" =>
    \E o \in verification.checked : \E u \in UnitsOf(o) : media[u] # disk.data[u]

\* No secret of a wipe outlives it: a drive is left with the password of the erase only
\* if a security command itself failed or the process died, never by a job that reports
\* success; and no keystream is kept, however the job ends.
NoSecretLeft ==
  /\ record \in {"complete", "cancelled"} => ~password
  /\ record = "failed" /\ password => refused # {}
  /\ Ended => keystreams = {}

\* A record says "purge" only if the firmware of the drive erased every unit of it,
\* hidden ones included, after a technique that the drive had reported.
PurgeIsFirmware ==
  Completed /\ todo.category = "purge" => purged = 1..disk.units

\* The pieces of an erasure (Erasure) are the units of the drive.
Kept == {u \in 1..disk.units : disk.data[u][1] = "data" /\ media[u] = disk.data[u]}

\* Those the worker may touch: none in a dry run, none of a disk that preflight refuses
\* for what it is.
Reach ==
  IF job.dry \/ ~host.root \/ host.boot \/ (job.system # "Windows" /\ host.held)
  THEN {} ELSE 1..disk.units

\* Those that a record of success answers for: on a sound drive all that can be
\* addressed; on one that erases when it says so the hidden ones too, if the record says
\* "purge"; on any drive those that its verification read.
Answered ==
  IF job.dry THEN {}
  ELSE (IF Sound THEN 1..visible ELSE {})
       \cup (IF ~disk.lies /\ todo.category = "purge" THEN 1..disk.units ELSE {})
       \cup (IF verification.check = "pattern" /\ verification.passed = "yes"
             THEN UNION {UnitsOf(o) : o \in verification.checked} ELSE {})

DriveErasure ==
  INSTANCE Erasure WITH held <- Kept, scope <- Reach, claimed <- Answered, ending <- record,
                        loose <- (fw = "running")

\* A hardware wipe does what an erasure promises: a refused disk and a dry run lose
\* nothing, a unit once erased stays so, success leaves nothing of what the record
\* answers for, and only after a failure or a crash does the firmware go on.
DriveKeepsPromise == DriveErasure!ESpec
=============================================================================

# Formal models of OBLVN

OBLVN is a data-erasure server: operators create wipe jobs, the server (or a paired agent)
erases a device, and every completed wipe gets a PDF/A certificate whose hash the server
publishes; what happened goes into a hash-chained audit log. This directory holds TLA+ models
of it, the TLC instances that check them and TLAPS proofs about them. Source paths below
are relative to the repository (`backend/jobs.py` is `src/backend/jobs.py` in `PROJECT.json`).

    tlc -workers 2 -config JobLifecycle_safety.cfg MCJobLifecycle.tla
    tlapm JobLifecycleProofs.tla

## 1. Inventory

### How the program runs

One uvicorn process with one event loop (`run.py`); MongoDB behind `backend/db`. Route handlers
are coroutines that call the synchronous pymongo driver without awaiting, so two handlers do not
interleave between their awaits. Real concurrency is between a handler and

* the daemon threads of `jobs.start` - one per queued job - the threads `agent_api.job_result`
  starts to finish an agent's result, the thread of a Google sign-in, and the threads that report
  anomalies;
* the scheduler's nightly batch (02:00) and the worker thread of the hardware pipeline;
* other processes on the same database (a second server, the agent over HTTP), the tabs of a
  browser, and the firmware of a drive, which goes on by itself once told to.

`db/query.py` turns a conditional update into a *find* with the condition followed by a *write by
`_id`* without it (lines 230-244), so a condition in an update is no compare-and-swap. Nothing at
start-up looks at the jobs a killed process left queued or running.

### Components

| Component | State | Operations | Hard | Correct when | Module |
|---|---|---|---|---|---|
| Job routes (`server.py` 1056-1250) | rows of `wipe_jobs` | `create_job`, `approve_job`, `cancel_job` | overlap with the executor's claim; a raise after the insert | gate respected, an acknowledged cancel stands | JobLifecycle, AgentJobs, WipeJob |
| Job executor (`jobs.py`) | thread per job, `_cancel_flags` | `start`, `_claim`, `execute`, `complete`, `fail`, `_finalize` | writes by id, partial failure, crash between status and certificate | only erased devices certified, terminal states final, published hash is that of the file | JobLifecycle |
| Agent API (`agent_api.py`) | `agents`, pairing codes, the agent's jobs | `next_job`, `job_progress`, `job_result`, pairing, heartbeat, `revoke_agent` | lost answers, duplicates, threads behind an acknowledgement | wiped once, no result forgotten, one agent per code | AgentJobs, OneTimeCodes |
| Agent process (`agent/*.py`) | loop, spool directory | `execute`, `result`, `flush_spool` | retries, spool, restart | same | AgentJobs |
| Audit log (`audit.py`) | `audit_log`, a lock per chain and process | `log_event`, `verify_chain`, exports | appends of several processes, refused inserts, raises | chain intact, ids in order, nothing twice, nothing lost unseen | AuditChain, Ledger |
| Database layer (`db/*.py`) | collections, counters, indexes | find, insert, update, upsert | find-then-write, an id drawn before its insert | used inside the other modules | (in the others) |
| Certificates (`reporter.py`, `timestamps.py`) | file `{job}.pdf` | issue, stamp, upgrade | a second issue replaces the first | published hash is that of the file | (in the others) |
| Accounts, MFA (`accounts/*.py`, `auth.py`) | users, session families, one-time tokens | register, login, second factor, refresh, reset, Google | rotation and reuse, attempt limits, TOTP steps, a thread between read and write | an ended family stays ended, a factor counts once, a lock locks | Sessions, Accounts |
| Frontend (`frontend/src`) | cookie, access token, calls, timers | calls, shared refresh, sign-out, reload | many 401 at once, lost answers, two tabs | one tab never trips the reuse detection | Browser |
| Organisations (`server.py`, `security.py`) | memberships, roles, settings | create, invite, join, change role, remove, update | last administrator | an organisation keeps an `org_admin` | Organisation |
| Planner (`hw/planner.py`, `hw/capabilities.py`) | none | choose technique and steps | case coverage | what is called purged was purged by firmware | Planner |
| Pipeline (`hw/pipeline.py`, `executors.py`, `sanitize.py`) | step, worker thread, device security state | run the steps, poll, fall back, cancel | every command may fail, deadlines, password left set | complete means erased, drive left unlocked | Pipeline, Erasure |
| Overwrite, verify (`hw/overwrite.py`, `verify.py`) | offset, hit list | passes, sampled and full reads | last chunk and block, short writes, marginal sectors | every unit written, verdict right | Pipeline, ReadBack |
| File wipe (`file_wipe.py`) | list of files | overwrite, verify, rename, unlink | vanished files, failure in the middle | report says what is gone | FileWipe, Erasure |
| Free-space wiper (`wiper.py`) | fill files | passes over the free space | other writers, full volume, a removal that fails | what was free was overwritten | SpaceFill |
| Anomalies (`anomaly.py`) | `anomalies` | checks, acknowledge, nightly batch | concurrent detections | one open row per issue, a later one raised again | Anomalies |
| Traffic monitor (`security.py`) | windows, blocks | record, block, expire | exact counts, late errors | never more than the limit in a window | Traffic |
| Realtime (`realtime.py`) | tickets, rooms | issue, redeem, broadcast | single use, expiry | a ticket opens one socket of its job | OneTimeCodes |
| ML registry (`ml/registry.py`) | model files, cache | train, promote, load | dump in place while others load | what is served is the current model | Registry |
| Detection, SMART, Windows inventory, configuration, packaging | little or none | parsing, I/O | - | - | where a module needs them; reasons in `PROJECT.json` |

Interactions: routes start executor threads and set their cancel flag (shared memory); executors,
routes and result threads share the rows of `wipe_jobs` and the certificate file; an executor runs
the pipeline, the file wipe or the space fill and takes its verdict; the agent talks
to the routes by HTTP polling; finished and failed jobs, logins and drives are handed to the anomaly
engine; a new password and a sign-out end the sessions a browser holds; all of them append to
the audit log and broadcast over the websocket rooms (progress only; a failed broadcast is swallowed
and changes nothing).

`PROJECT.json` lists the hazards of all of these with the line where each bites and the
properties that cover it, or why none does.

## 2. Plan

Done, in this order: 1. **JobLifecycle** with proofs; 2. **AuditChain** with proofs; 3. **AgentJobs**;
4. its proofs; 5. **WipeJob**, the abstract promise of a job, which both job modules implement
(proved); 6. **Planner**, **ReadBack** and **Pipeline**; 7. **Sessions** and **Organisation** (proved),
**Accounts** and **Browser**; 8. **FileWipe**, **SpaceFill**, **Anomalies**, **Traffic**,
**OneTimeCodes**, **Registry**; 9. proofs of the safety properties of 6, 7 and 8: **FilesProofs**,
**PipelineProofs**, **AccountsProofs**, **MonitoringProofs**; 10. two more abstract promises, **Erasure** (of a
drive or of files) and **Ledger** (of the audit log), with the proofs that Pipeline, FileWipe and AuditChain
keep them, **PromiseProofs** for what the three promises are worth, the composed type invariants, and the
proofs that the scenes of the instances are behaviours of the systems the theorems are about.

The components of step 8 are small and do not interact; each keeps a module of its own, and an instance
module composes several of them (interleaved steps, shared nothing but the clock) so that one run
asks about more than one.

Left, most valuable first:

* a spool file whose write fails or is torn, and a progress answer that is not JSON, with the
  pipeline's thread going on behind a job reported failed (AgentJobs composed with Pipeline);
* two jobs on one device: nothing in `jobs.py` reserves it;
* Erasure as what the wipe of JobLifecycle and AgentJobs stands for (`RunErases`, `WipeEnds` composed with its
  end). SpaceFill does not implement it: what may stay there is bounded by the reserve, and files that other
  programs delete meanwhile add to what can be recovered;
* the checks for off-hours wipes and new operators, which go through the recording of Anomalies;
* the broadcasts to the rooms of OneTimeCodes and the polls of `JobDetail.jsx` that race them.

## 3. Modules

### WipeJob

What a job promises, whoever executes it: `state`, `erased`, `certified`, and `contested`, the jobs for
which the promise is weaker. `Create` ... `Certify` are the life of a job; `Overwrite` is what may still
happen to the status of a contested one. JobLifecycle and AgentJobs both end with
`W == INSTANCE WipeJob WITH ...` and `ImplementsWipeJob == W!WSpec`; a job of JobLifecycle is contested once a cancellation has
overlapped its claim or the database has failed as often as there are attempts, one of AgentJobs
never.

### JobLifecycle

| Model | Code |
|---|---|
| `status`, `approved`, `cancelRequested`, `hash` | columns of `wipe_jobs` |
| `pdf` | the file `{job}.pdf`, numbered by issue: each issue has its own `issued_at`, hence its own hash |
| `handler` | the one route in progress (event loop) and the database call it is at |
| `thread[j]` | the executor: the call it is at and the attempts of `update_with_retry` or `_finalize_with_retry` used up |
| `flag` | `_cancel_flags` |
| `device` | what the wipe has done; `erased` is an end without a failed verification |
| `gated`, `reply`, `overlapped` | history: the gate at creation, the answer of `cancel_job`, whether a cancellation and the claim were in progress at the same time |

`CreateJob`, `ApproveJob`, `StartJob` and `CancelJob` ... `CancelWrite` are the routes, split at the
database calls where a thread can come in between. `ClaimFind`/`ClaimWrite` are `_claim`, `Register` the
flag, `RunErases`/`RunFails`/`RunCancelled` the ends of the wipe, `CompleteWrite`, `FailWrite`,
`CancelledWrite`, `Issue`, `Publish`, `Record` the calls behind it. A `...Fault` action is a database
call that raises, whether or not the write took effect; `Crash` ends all threads.
Where `log_event` inside `execute`'s `try` raises after `fail` has written, `execute` calls `fail` a
second time with the same effect; the two are one `FailWrite`.

### AgentJobs

A job of an agent has no executor thread, so each route is one step. `agent` is the worker's loop
(`flush`, `poll`, `wipe`, `post`, `wait`), `spool` its directory, `post[j][s]` a posted result: in transit,
or, once accepted, the thread that finishes it (`complete`, `failing`, `issue`, `publish`, `record`).
A request may be lost, may arrive after the agent has given it up (`Timeout`), or its answer may be
lost (`Answer`). Simplifications, each with more behaviours than the code unless said otherwise:

* a raising call of a finishing thread is tried again or is the last attempt, without counting
  (JobLifecycle counts them);
* a route that raises is a lost answer;
* a progress answer that is older than the mark is one of an earlier event;
* *fewer* behaviours: writing the spool always succeeds, a progress answer is always JSON (both
  are listed as hazards without a property), and there is one agent. `next_job` selects by
  `agent_id` and `job_result` refuses another agent's job, so agents share no job.

### AuditChain, Ledger

`log[c]` is the chain in insertion order, `counter` the shared id counter, `lock[p][c]` the lock of a
process, and each writer is a thread at a step of `log_event`: lock, read the last hash, draw the
id, insert. `AppendRow` is the unique index on `(chain_key, prev_entry_hash)`; `Refused` is the
`DuplicateKeyError` round. `Hash` is a constant operator: the proofs hold for every hash function,
TLC uses a collision-free one. `Intact` is `verify_chain`: by id, each hash recomputed from the hash
of the row before.

**Ledger** is what a caller of `log_event` is promised: `entries` of each chain, the calls that are `open`, the
events `called`, those `missed`. A call adds its event at the end in one step, or its loss shows (a line
`[AUDIT]` of the server's log, an exception, the death of the process); after a lost answer both may be true.
AuditChain maps its rows to entries, a thread that is not idle to an open call, and the history `lost` to `missed`.

### Planner, ReadBack, Pipeline

**Planner** has no state: the capabilities a probe learns of a drive, the order in which techniques are
preferred, the passes of a standard, and the steps of the plan. `ata_security_enabled` also stands for
`ata_locked`: both are answered by the same probe and refuse the same techniques.

**ReadBack** has none either: the blocks of a range, `sample_offsets`, and the two verdicts
(`check_pattern`, `check_changed`) over the units a read returns. Drives and files share it.

**Pipeline** is one job on one drive. The drive has its units (`data`, those beyond an HPA or DCO
included), its security password, what its firmware is doing, and the abilities and defects that the
instance gives it (`stuck` units whose writes are lost, a firmware that `lies` and reports an end it
has not reached). The worker thread is at `check`, `again`, `plan`, `step`, `write`, `poll`, `erase`, `disable`,
`identify` or `ended`. Each step of the plan is the code of its executor: preflight and its
second look, HPA and DCO removal, the sanitize with its polling, deadline and idle guard, the security
erase between set-password and disable, the chunks of a pass with short writes and syncs, the
read-back, the fallback to overwriting after a firmware failure. Any command may fail
(`faults`), an operator may cancel at any time, and the process may die; the firmware goes on by
itself. `nvme_format` (`executors.py` 109-116) returns when it is done, so it is part of `EraseNow`.

### Erasure

What an erasure promises: `held` (the pieces whose data can still be read) only shrinks, and only within `scope`; a
success leaves nothing of what is `claimed`; after a success or a cancellation nothing is taken and no device is
`loose`, which only a failure or a crash may leave. Pipeline maps to it

| Erasure | of Pipeline |
|---|---|
| `held` (`Kept`) | units with the data they had |
| `scope` (`Reach`) | all units, hidden ones too; none in a dry run, nor on a disk that preflight refuses for what it is |
| `claimed` (`Answered`) | on a sound drive what can be addressed; with the record "purge", on a drive that erases when it says so, every unit; on any drive the units its verification read |
| `loose` | a sanitize of the firmware is running |

and FileWipe the units of the files: `scope` are those in the files that `expand` finds (`Chosen`), none when a path is
refused or the run is dry; not `claimed` are files that somebody else deleted and units that lose
their writes where no verification reads them (`Settled`).

### FileWipe, SpaceFill

**FileWipe** lists the selected files (links, empty directories, roots, paths outside the allowed ones
are refused or skipped as in `collect`), then for each: the passes, the verification, the renames, the
removal. Files vanish in between, and any call may raise. **SpaceFill** fills what is free on a volume
down to its reserve, pass by pass, while other programs take and free blocks. `RemoveTemp` is the `finally` clause
(`wiper.py` 262-266): a removal that fails is swallowed and leaves `wipe.tmp` with its blocks (history `kept`); the next
pass then truncates the file that stayed (`OpenTemp`), and after the last pass it stays, with a complete end too.
A crash (`FillCrash`) runs no `finally`. Nothing cancels a fill: `jobs.execute` does not hand it the cancel check.

### Sessions, Accounts, Browser, Organisation

**Sessions** is the rows of `sessions`: a session is its place in the sequence and so is its refresh token.
Rotation inserts the successor before it revokes the old row, so `RotateCut` is a crash between the
two. **Accounts** adds users, one-time tokens and second factors; each route is one step with the places
a crash can cut it at (`CrashHere`), except Google's sign-in, which runs in a thread and is split
into its calls (`GoogleReads`, `GoogleWrites`, `GoogleSignsIn`); *fewer* behaviours: one such thread runs at a time, so two
Google accounts that carry one address do not race each other. **Browser** is the tabs that hold the tokens: calls
that leave with the access token of the moment, the refresh that the calls of one tab share, the
timer, sign-out, reload, lost answers. **Organisation** is the membership routes; `update_org` reads its
body after the role check and is two steps.

### Anomalies, Traffic, OneTimeCodes, Registry

**Anomalies**: each check is a thread that computes what it found and then calls `_record_anomaly`, split at
its database calls (look up, insert, unique index, update), while operators acknowledge rows. What
the statistics say is a choice. **Traffic**: the windows and the block of one address, with errors of
requests that are answered after the block began. Its lists of times are sets of places in the history
`trace`, which holds the times: two requests of one moment are two places. **OneTimeCodes**: websocket tickets with the rooms they
open, pairing codes with the agents they make, heartbeats. These three read one clock (**Clock**), which
a step of theirs never moves - `Later` is its step without a bound, which the theorems use; **Registry**: training, promotion, the dump
in place, and readers that load through the cache; how a new model compares with the old one on the
holdout is a choice, and every save has an mtime of its own.

### Instances

`MC*.tla` hold what TLC needs: the symmetry of jobs, the threads of the processes, the hash, the drives,
files and accounts of the instance. MCErasure erases one of a drive, a list of files or a volume. In
MCAccounts and MCMonitoring a behaviour keeps to one *scene*, the operations that bear on each
other (named in the modules): their product would be far larger and tell nothing more.
Definitions marked `Mutant:` are plausible bugs used to see that each property can fail; `Next` does
not use them.

## 4. Runs

| Run | Instance | Shows |
|---|---|---|
| `job_safety` | 2 jobs, 2 attempts, 2 faults or a crash; 2.0 million states | gate, published hashes, honoured cancels under every interleaving; every step is one of WipeJob |
| `job_live` | 1 job, 3 attempts, 2 faults, no crash | a claimed job ends; a completed one gets the certificate whose hash is published |
| `job_ack` | 1 job, no failure - *violation* | a cancel overlapping the claim is acknowledged though the job goes on |
| `audit_chain` | 3 threads in 2 processes, 2 chains, 2 rounds, 2 faults or crashes | chain intact, ids in order, every call adds its event in one step or shows its loss, and returns |
| `agent_safety` | 2 jobs, 2 attempts, 1 loss, 1 fault, 1 crash, 1 revocation; 1.2 million states | wiped once, no result forgotten by both sides; every step is one of WipeJob |
| `agent_live` | 1 job, 3 losses | retries and spool get the result recorded and the certificate issued |
| `agent_claim` | 1 job, 1 loss - *violation* | the answer of `next_job` is lost: running for good |
| `agent_duplicate` | 1 job, 1 loss - *violation* | a result accepted twice: the published hash is not that of the file |
| `erasure` | 11 drives, 7 jobs, 5 host states, 6 file selections, 4 volumes; 3 faults; 122,000 states | what is reported erased, purged, verified, destroyed or filled was; drives and files keep the promise of Erasure; every job ends |
| `erasure_revealed` | 1 drive that ignores its erase, a hidden area inside a block - *violation* | a block that got longer is certified as changed |
| `accounts` | 7 scenes; 3 sessions, 2 tabs, 1 crash, 1 loss, clock 0..2; 697,000 states | ended families stay ended, reuse detection, second factors, lockout, accounts keep what they have, the last admin |
| `monitoring` | 9 scenes; 4 rows, 7 requests, 2 codes, 3 models; 1.7 million states | one open anomaly per issue, bounded admission, single use, the model served is the current one |

**Bounds.** Two jobs are enough for `job_safety`: jobs share only the event loop, and an
interleaving of a route of one with the thread of another needs two. Two attempts make `first, last`
distinct and two faults exhaust them, which is what separates `faults < Retries` from its opposite; a
crash ends every thread, so it is explored in the place of the two faults (`FewFailures`); the proofs have no such
bound. In `job_live` three attempts with two faults use every
attempt but the last. In AuditChain two rounds can be exhausted by one other process; two threads of
one process are needed for the lock and a third of another for the index. In AgentJobs one loss
already gives a late post beside its repetition (two slots in flight), a spooled result needs two
attempts that fail (a loss and a refusal after a revocation, or a crash); `agent_live` has three losses, more than
attempts, so the spool and its flush are used. Liveness runs have one job: the jobs share nothing
that could block, and symmetry is used in no liveness run.

In `erasure` the drives have three to seven units in chunks and blocks of two, so that there is a first, a middle
and a partial last one, and hidden units behind an HPA, a DCO or both; between them they have every
technique the planner knows, alone and with the ones it prefers or falls back to, a marginal sector, a
lying firmware and a drive that is blank but for one unit. Three faults are one more than any path
from a firmware failure through its fallback needs; two idle answers are the guard's limit. Five files
reach every kind of entry; two list positions separate "before" from "after" a failure; a volume of
six blocks with one in reserve is filled by three chunks while three things happen to it: blocks that change hands,
calls and removals that fail, a crash. In `accounts` three
sessions are a family of two rotations or two families; a lockout of two wrong passwords and two
wrong codes has a first and a last; two ticks pass an access token's lifetime and a lockout, and the
login token's. Of three Google claims two are of one Google account with different addresses and two of different ones
with one address, so that a sign-in finds, links, makes and is refused an account. The second tab has only its timer: its other calls are those of the first. In `monitoring` windows of
two ticks in a clock of five let a window, a block and another window follow each other; two threads
race for one key and two acknowledgements reopen an issue; three models are an archive, an incumbent
and a candidate.

**Fairness.** Weak fairness on each thread's own steps and on a route in progress: the operating
system schedules threads, the event loop finishes a handler it has begun, and a wipe ends (every
poll of the executors has a deadline; `Ends` shows it of the pipeline). In AgentJobs also on the agent's loop and on a post that has
arrived. In `erasure` on the worker, the file thread and the filler, never on the firmware. Never on users (create, approve, cancel), on faults, losses, crashes, or on a progress
event. Locks need no strong fairness because each thread of the instance logs a bounded number of
events. `accounts` and `monitoring` check safety only and assume none.

**Deadlock** is not checked where the system may stop: a JobLifecycle in which every job has ended,
an AuditChain in which every thread has logged, an erasure that is over, accounts and monitoring at the end of their
bounds. The agent never stops polling, so its runs check it.

## 5. Properties worth reading

* `ImplementsWipeJob` (both job modules): one abstract life, two machines. Its content is `Trustworthy`: a
  completed or certified job is erased, and, contested jobs apart, a failed or cancelled one is not.
* `ApprovalGate` (JobLifecycle): the gate is only a status and the absence of a thread.
* `StuckOnlyAfterFailure`: which failures can leave a job queued or running with nobody on it.
* `CancelHonoured`: an acknowledged cancellation that did not overlap the claim leaves the device
  untouched; `AckedCancelStands` is the same without the proviso and does not hold.
* `PublishedIsOnDisk`: `_finalize` is repeated as a whole, each time with another certificate.
* `AlwaysIntact`, `InsertedInIdOrder`: the ids are drawn before the insert from a counter shared by all
  chains, yet a chain never verifies wrongly: a thread whose tip is stale is refused.
* `ImplementsLedger`: a whole `log_event` call, with its lock, its rounds and its retries, is one step of an abstract
  log or a loss that shows: no event twice (`LoggedAtMostOnce` follows), none lost in silence. A refused last round that
  returned without a word would break it and nothing else.
* `WipedOnce`, `RunningIsOwned` (AgentJobs): over losses, late posts, the spool, restarts and revocation
  a device is not wiped again for the same job, and a running job is in somebody's hands unless a
  failure of a named kind has dropped it.
* `ErasedWhenComplete`, `HonestVerdict`, `PurgeIsFirmware` (Pipeline): what is reported as complete, verified or
  purged, against what the units of the drive hold, for every technique, fallback and fault.
  A positive verdict on what changed stands for a unit that did, except where a revealed area made the
  last block longer: that exception is `ChangedMeansChanged`, which does not hold.
* `DriveKeepsPromise` (Pipeline), `FilesKeepPromise` (FileWipe): every step, not only the end: a disk that is refused loses
  nothing, an overwrite, a lost write or a firmware that finishes late never brings data back, and a
  cancellation or a success is reported only when the drive has stopped. One path that is refused keeps all files.
* `NoSecretLeft`: an erase password stays only behind a failed security command or a crash.
* `DestroyedWasOverwritten`, `CompleteMeansAllGone` (FileWipe), `FilledWhenComplete` (SpaceFill): a failure in the middle, files
  that vanish, other writers and removals that fail do not make the report claim more than was done. `wipe.tmp` itself
  is gone at the end, unless the last removal failed or the process died: a complete report says nothing of it.
* `EndedStaysEnded` (Sessions): a refresh under way, cut short or repeated never revives a family.
* `ReuseNeedsLossOrTabs` (Browser): the reuse detection never signs out one tab whose messages arrive.
* `SecondFactorSpentOnce`, `LockoutHolds` (Accounts): exact counts across crashes and the clock. The lock is
  stated over the history of wrong passwords: `q` full rounds of `LOCKOUT_THRESHOLD` have gone by, and the
  last of the q-th lies `LOCKOUT_TIME` back when a password counts again.
* `AccountsKept` (Accounts): Google's sign-in writes after a read of an earlier step, the routes in between register,
  reset or turn on a second factor: nobody's account is made anew or loses what it had. It holds because the insert
  is refused by the index and the link sets columns instead of writing back the row (`service.py` 94).
* `OrgKeepsAdmin`: over any order of revocations and demotions, of oneself included.
* `OneOpenPerIssue`, `RaisedAgain` (Anomalies): concurrent detections, a lost answer, an acknowledgement in between.
* `AdmissionBounded` (Traffic), `SpentOnce` (OneTimeCodes), `ServedIsCurrent` (Registry).

### Findings

1. `job_ack`: the toast "Job cancelled" of `JobDetail.jsx:248` is shown for an answer that
   `server.py:1230` gives without looking at what its update did.
2. `agent_claim`: README.md:198 promises that results of queued jobs come back; a claim whose answer
   is lost (`agent_api.py:194`) leaves the job running for good.
3. `agent_duplicate`: `agent_api.py:236` accepts a result until the thread of the first post has written
   the status; two threads then publish one certificate and leave the other on disk.
4. `erasure_revealed`: `verify.snapshot` hashes the last block as the drive's size cuts it off before the plan
   (`pipeline.py:135`), `verify.check_changed` hashes it over the size that `exact_size` reports after an HPA or a DCO
   was removed (`verify.py:140`). When the hidden area begins inside a block the two digests are of different
   lengths, so a block nobody touched counts as changed, on the certificate too (`reporter.py:56`); on a
   drive that was uniform elsewhere, an erase it ignored is verified.

### Observed while modelling

Behaviour that the models contain, or that reading for them showed, and that no run is made of:

* Jobs: README.md:152 promises a certificate for every completed wipe; a restart between `jobs.py:187` and 188
  leaves a completed job without one, and nothing looks for it later. `job_live` has no crash; with one,
  `CompletedGetsCertificate` fails. A cancellation of a running job is lost when it comes before the executor has
  registered its flag (`jobs.py:120`): the answer is ok, the job runs to its end.
* Drives: with an HPA and a DCO, the units between the two stay hidden after the removal of one;
  sampled offsets are drawn before hidden areas are removed (`pipeline.py:134`), so samples do not reach
  them; a solid-state drive with nothing but the plain security erase is recorded as "clear"; where
  `identify` fails after an erase, no disable is attempted; the preflight's second look checks the mounts again but not
  the holders.
* Free space: a failing `os.remove` of `wipe.tmp` is swallowed (`wiper.py:263-266`), so a fill can report complete with
  the file still filling the volume to its reserve (what was deleted is overwritten all the same); a running fill
  cannot be cancelled, the request is answered ok and only recorded; an `OSError` ends a pass early (`wiper.py:236`) and the fill still reports complete, while the
  docstring (178-180) speaks of the space being filled; running out of space skips the `fsync`.
* Accounts: a login token issued before a password reset starts a session after it; a refresh with a
  token that a sign-out has revoked is logged as `refresh_token_reuse` (`service.py:256`, `server.py:427`); two tabs
  that share the cookie can trip the reuse detection; an invited account can be verified while it has
  no password; Google's sign-in decides about lock and second factor on what it read before its
  writes; a crash in `reset_password` before `revoke_all` leaves the old sessions alive.
* Organisations: the last active admin can leave if another `org_admin` is an invitation nobody has
  accepted; `change_role` of somebody who is no member reports a role escalation and changes nothing.
* Anomalies: `check_role_escalation` has no dedupe key though README.md:137 gives every anomaly one; a burst
  at twice the limit would be critical but finds the open "high" row; a burst across a quarter of an hour opens two rows;
  `repeat:{serial}:{day}` and `smart:{serial}` leave the organisation out; duration outliers that were resolved
  are raised again each night; acknowledging a resolved row makes it active; an exception of
  `check_verification_failure` in `jobs.fail` skips the broadcast.
* Models: `registry.save` dumps in place; a crash in the middle leaves a bundle that every load of its scope
  trips over, without falling back to the global one.
* Agents: a server that dies after it has acknowledged a result and before the thread of the answer has written it
  (`agent_api.py:247`) leaves the job running, with nobody who remembers it; a register that is cut short between the claim of its code and the insert burns the code; a
  machine that is paired again stays visible under both agents with the same drives; a job of a revoked
  agent stays queued or running; a heartbeat that is cut short between its delete and its insert leaves
  `create_job` without the drive until the next one.
* Frontend: a poll of `JobDetail.jsx` (128-147) that answers after the websocket's last event (203-214) puts the
  older status back.

## 6. Proofs

The theorems hold for every set of jobs, drives, files, threads, users, tabs and codes and every value of the
bounds; none has a hypothesis beyond the specification it is about. What they assume is written in the modules, as
named `ASSUME`s that TLC evaluates: attempts are positive, bounds, lifetimes, windows and limits are natural numbers
(`SessionsAssumption`, `AccountsAssumption` among them), `NoJob` is no job, every thread has a process, there is a
chain, chunks and blocks are not empty, an area a drive hides is part of it, a volume is finite, the entries of a
folder name known files, the calls of a page are of the three kinds Browser knows and a browser has finitely
many tabs (`BrowserAssumption`). The theorems about instances also need what their scenes name: something to erase
(`ErasureAssumption`), a tab "t1" (`MCAccountsAssumption`), two jobs that wipe a drive (`MCMonitoringAssumption`).
No induction over data and no recursive operator is involved.

**JobLifecycleProofs.** `IInv` is `TypeOK` and, for every job, six parts. `StatusAt` says which statuses a
row can have at each step of its thread - needed because the writers do not look at the status.
`StartPending`: a route about to start a thread has a queued job without one. `Gate` carries the approval
from the row to the thread. `Evidence` ties device, file and hash to the step, so that `Issue` is reached
only with an erased device and `failing` only without a file. `Owned` counts failed attempts against
`faults`, which makes "out of attempts" imply `faults >= Retries`. `Separate` describes jobs whose
cancellation did not overlap the claim: a cancelling route then meets no thread between its find and
its write. From it follow `TypeCorrect`, `ApprovalGateHolds`, `CertifiedWasErasedHolds`,
`FailedNeverCertifiedHolds`, `StuckOnlyAfterFailureHolds`, `CancelHonouredHolds`, `PublishedIsOnDiskHolds`, and, as
an action property, `TerminalIsFinalHolds`. The refinement `JobImplementsWipeJob` maps initial states to initial
states and every step to a step of WipeJob or a stutter. On top of `IInv` it needs `Honest`: a thread that stops
for a cancellation has not erased the device, and one that fails a job it has erased was let down by the
database in every attempt. A write that finds a status out of turn is then one of a contested job.

**AuditChainProofs.** `IInv` is `TypeOK`, `LogOK` (each chain is `Chained`: every row's `prev` is the hash of the
row before and ids increase), `Called` (a row's event is a call the thread has already made),
`LoggedAtMostOnce` and `Reading(w)`: the tip a thread holds is the hash of some row k and its id is above
those of the rows up to k. If k is the last row the insert keeps the chain; if it is not, row k + 1 has
that very hash as its `prev`, and the index refuses. The argument needs neither the lock nor injectivity
of the hash. From it follow `TypeCorrect`, `AlwaysIntactHolds`, `InsertedInIdOrderHolds`, `LoggedAtMostOnceHolds`.
`ImplementsLedgerHolds` adds lemmas for the beginning of a call (`CallBegins`), its end (`CallEnds`) and a crash
(`CallsDie`): an insert appends the event, an insert whose answer is lost appends and misses it at once, a refusal
in the last round and a call that raises miss it, a crash misses all calls of its process; taking the lock, reading
the tip, drawing the id and another round are stutters.

**AgentJobsProofs.** `IInv` is `TypeOK`, `AgentOK` (the agent works on a job, and flushes only what is in the
spool) and, for every job, seven parts. `Fresh`: a job that was not handed out, or was cancelled before,
is untouched. `Verdict`: the result the agent has reached leaves one final status to the row - this is
what makes late and repeated posts harmless to the status. `Known`: the agent that wipes has a running
job without a result, the one that posts has a result. `Posts`: a post carries a result, and its thread
finishes it accordingly. `Evidence`, `Once` and `Owned` are the properties themselves. Every step that ends a
wait of the agent goes through the lemmas about `Hears`: whatever it hears, it starts no wipe, tells of
no other job, and forgets no job but the one settled. From it follow `TypeCorrect`, `WipedOnceHolds`,
`CertifiedWasErasedHolds`, `FailedNeverCertifiedHolds`, `CancelledMeansStoppedHolds`, `RunningIsOwnedHolds` and
`TerminalIsFinalHolds`. `AgentImplementsWipeJob` adds `Issuing`: a thread that issues or publishes does so for a
completed job, and the file is there before its hash is published.

**PromiseProofs** says what the three promises are worth; with the refinements it holds of what implements them.
`ObeyingIsTrustworthy`: a job that obeys WipeJob is certified or completed only if its device was erased.
`ErasureIsConclusive` and `ErasureIsBounded`: a complete erasure holds nothing of what it answers for, then or later, and
nothing out of scope is lost, nor anything after its last word. `LedgerAccounts` and `LedgerIsAppendOnly`: an event that was
to be logged is in its chain, under way or known to be missing, what is in a chain was logged, once, and no step
moves it. The invariant behind the last two (`LedgerInv`) is that an open call is in no chain and is the only one of its event.

**PipelineProofs.** First the planner, as lemmas about its operators: what `plan` returns is a sequence of
steps that ends in a check of the step before it (`PlanShape`), areas are removed only where the capabilities show
one, and a category of "purge" names a technique of the firmware. `Control` is `TypeOK`, `Course` (which
variables mean something at which place of the worker), `Planned` (the plan is one of those) and `Areas` (what
is addressable, and when it grows). On it rest four invariants, each with a lemma for `Init` and one for a step
that goes action by action: `Secrets` (where a password and a keystream may be), `Purging` (a firmware
step that is past has purged every unit), `Erasing` (a pass has written `1..written`, a later pass starts
over, and what the firmware erased is overwritten by nothing) and `Honest` with `Samples` (the offsets were
drawn over the size before the plan and contain its first and last block, `ReadWhole`: the full mode covers
all units, `PatternVerdict` and `ChangedVerdict`: what the two checks conclude). Lying firmware, units that
lose writes, and faults of every command are in all of them. `DriveKeepsPromiseHolds` adds `Keeping`: past the preflight
the disk is one it allows, a cancelled job has no sanitize under way, and on a drive that does not lie, once every unit
was purged, none holds its data. That a success claims nothing it holds then follows from the invariants of
`ErasedWhenComplete`, `PurgeIsFirmware` and `HonestVerdict`. `ErasureTypeCorrect` is about the instance that chooses one of drive,
files and volume: the two that were not chosen have nothing to do, and a drive without a job (`DriveOver`) stays as it is.

**FilesProofs.** `FillIInv` of SpaceFill: once the first fill is over (`MeasuredFull`) and was not cut short,
the old blocks that can still be recovered are within the reserve, whatever others took and freed in the
meantime. No old block is in `wipe.tmp` (what is there was overwritten), so neither a removal that fails nor the
reopening of a file that stayed makes anything recoverable; the file is empty before the fill, and after it unless
the last removal failed or the process died. `FileIInv` of FileWipe: a file is
spared, at work or destroyed (`Spared`, `Destroyed`); the one at work has the passes so far up to the offset
(`AtFile`); and of the files listed only those that are gone, or the current one, are no longer left (`Gone`).
`FilesKeepPromiseHolds` adds `AsAsked`: what is listed is what `expand` found, or nothing when a path was refused, before
the first file is opened; so every write is in scope, and a success has gone through all of it.

**AccountsProofs** is about the accounts, the clock and the browser together (`SystemSpec`), without the scenes of
the instance, and about the organisation.
* Sessions: `AccountsObey` and `BrowserObeys` show that no step does to the sessions what is no step of
  `SessionsNext`; `IInv` of the latter is `Typed`, `Named` (a family is named by its first session and is one user's,
  so that a fresh name is nobody's and `revoke_all` takes families whole) and the property. A rotation
  replaces one live session by one, a cut rotation adds one and counts a crash, and both need a live
  session, which an ended family has not.
* Second factors: a code that was accepted is `Gone` from its account - its secret is no secret of the
  account any more, or its step is not after the last one, or it is not among the recovery codes left - and an
  account never takes back what is gone: secrets grow, steps grow, codes shrink. `OwnersHold` says every session
  is that of an account, so that whoever is authorised has one.
* The lock: `Rounds`: the wrong passwords of an account are a number of full rounds and as many more as
  it counts, and since the last full round it is locked until LOCKOUT_TIME after it. `CountersMove`: every step of
  the system keeps the counters of an account, starts them over, or adds a wrong password.
* What an account keeps: `RouteKeeps`: a route changes one account by what it reads in the same step and never its Google
  account. `GoogleFree` is the strengthening: the account that a sign-in with Google is about to link has none until the
  write, since no route gives it one. With `LockIInv` it is inductive, and every step is one `AccountsKept` allows.
* The browser: `TabSound`: in a calm browser (one tab, nothing lost, no crash) every token in use by a call, a
  refresh or an answer under way is that of a live session or of an ended family, and the cookie is
  behind only while the answer that replaces it is on its way; so no refresh presents a rotated token of a live family.
* The types (`AccountsTypeCorrect`): four parts on top of the invariants above, for the sessions (`SessionsHeld`: the clock, the
  bounds, when a session expires), the accounts (`RowsHeld`: a second factor that is on has a secret and a last step, and
  no Google account is linked to two accounts), the counters (`CountsHeld`: tokens, attempts, secrets and where
  Google's thread is) and the browser (`CallsHeld`: a call that waits for a refresh waits for one that is under way).
* The scenes: `ScenesAreTheSystem` shows that each scene of MCAccounts is a behaviour of `SystemSpec` and of `OrgSpec`, so a
  run checks instances of what is proved.
* The organisation: `IInv` adds to type and property that the admins are finite, which is what makes "more than
  one" leave one behind; people need not be finite.

**MonitoringProofs.**
* Registry: a bundle in the cache is no older than the mtime it was remembered under, and a reader carries
  how new its answer must be.
* OneTimeCodes: tickets and codes are used before what they pay for exists, and an agent with drives on offer
  holds its token.
* Anomalies: one invariant for both properties. An active row of an issue is unique since an insert or a
  reactivation asks the index; what a check has found is *owed* by its thread until a row has it, a row counts as
  having it when it is active or was closed later, and a thread gives up nothing without an exception.
* Traffic: whatever happened within the window is in the list (`Listed`), since pruning drops only what is
  older; the block reaches as far as the last overflow earned (`Blocked`).
* The scenes: `ScenesAreTheMonitors`, as for the accounts: every behaviour of MCMonitoring is one of each monitor.

**What the proofs changed in the models.** The lists of Traffic became sets of places in its history, since a
filter over a sequence (SelectSeq) is an induction over data. Two `CASE` expressions of Pipeline had guards that overlap, which
leaves the choice open: they are now an order, as in the code. A place of its worker was never reached and
went. `HonestVerdict` was false for drives the instance did not have - that is finding 4; it now names the exception.
In Anomalies, Pipeline, Sessions, Browser and Accounts the constants got the assumptions they need, in place of hypotheses of
the theorems. The clock of AnomaliesSpec lost its bound, which only the instance needs: as the four monitors share the clock, a
scene of another that goes on past that bound was no behaviour of Anomalies.

**Only model-checked:** liveness (`ClaimedJobEnds`, `CompletedGetsCertificate`, `LogEventReturns`,
`ResultRecorded`, `CompletedIsCertified`, `Ends`), since the prover treats neither fairness nor ENABLED. Every
invariant, action property and refinement of a passing run is a theorem.
The other way round, TLC does not repeat some theorems: `LoggedAtMostOnce` and the evidence properties follow from the
refinements a run checks; `TerminalIsFinal` and the types of JobLifecycle, AuditChain and AgentJobs are proved for every instance.

## 7. Not modelled

* Who may call a route: the membership check of each route and the per-user database policies read
  one row and keep no state; the roles they read are Organisation's.
* The checks for off-hours wipes and new operators and the risk score; exports; broadcasts.
* A torn or unwritable spool file, a progress answer that is not JSON, two jobs on one device (hazards
  without a property in `PROJECT.json`, with the reason).
* Files an operator deletes, and a database restored from a backup.
* PDF layout, OpenTimestamps calendars, SMART and inventory parsers, ML features, fitting and scoring, the
  pages of the frontend, desktop dialogs: formatting, external services or numerics without control state of their
  own.

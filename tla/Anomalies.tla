------------------------------- MODULE Anomalies -------------------------------
(***************************************************************************)
(* The anomaly engine, backend/anomaly.py, with the routes and the jobs    *)
(* that call it.  Failed logins, logins, drives and role changes are       *)
(* checked on the event loop, finished jobs in a thread each, outliers in  *)
(* the nightly batch; what a check finds goes through _record_anomaly,     *)
(* whose calls to the database interleave with those of the other threads. *)
(*                                                                         *)
(* A finding is its dedupe key: kind, subject and period.  Statistics are  *)
(* choices: any hour may be unusual, any job an outlier.                   *)
(***************************************************************************)
EXTENDS Clock, Naturals, Sequences, FiniteSets, SequencesExt

CONSTANTS
  Jobs,      \* the threads of jobs, each with
  serial_of, \* the serial of the device it wipes
  Far,       \* pairs of addresses that nobody travels between in a moment
  WINDOW,    \* the fifteen minutes, in units of the clock
  LIMIT,     \* failed_logins of the organisation's sensitivity
  Emails, Users, Addresses, \* who tries to log in, who does, and from where
  Snapshots, \* what the SMART data of a drive may say, by the checks it fails
  MaxTime, MaxLogins, MaxRows, MaxFaults, MaxAcks  \* bounds

VARIABLES
  failures,   \* login_failed events: email, ip, at
  logins,     \* login_success events: user, ip, at
  done,       \* jobs that ended, in order: job, and whether it completed
  history,    \* serials of which smart_history has a row of today
  anomalies,  \* the rows: key, status, events logged, and the moment they were closed last
  busy,       \* of each thread, what it is recording, or Idle
  faults,
  acks        \* calls of acknowledge_anomaly so far

anomalyVars == <<failures, logins, done, history, anomalies, busy, faults, acks>>

Threads == Jobs \cup {"loop", "nightly"}
ACTIVE_STATUSES == {"open", "acknowledged"}

\* `keys' are left to record, the first one now; `strict' ends with the first exception.
Idle == [pc |-> "idle", keys |-> <<>>, row |-> 0, strict |-> FALSE]
Free(t) == busy[t].pc = "idle"
Recording(keys, strict) ==
  IF keys = <<>> THEN Idle
  ELSE [Idle EXCEPT !.pc = "find", !.keys = keys, !.strict = strict]

Goto(t, pc) == busy' = [busy EXCEPT ![t] = [@ EXCEPT !.pc = pc]]
NextKey(t) == busy' = [busy EXCEPT ![t] = Recording(Tail(@.keys), @.strict)]

NoKey == <<"role_escalation">>
Snapshot(serial) == <<"smart_history", serial>>  \* no anomaly, but a row of its own
Moment == Len(failures) + Len(done)

AnomaliesInit ==
  /\ clock = 0 /\ failures = <<>> /\ logins = <<>> /\ done = <<>> /\ history = {}
  /\ anomalies = <<>> /\ busy = [t \in Threads |-> Idle] /\ faults = 0 /\ acks = 0

Later == clock' = clock + 1 /\ UNCHANGED anomalyVars
Tick  == clock < MaxTime /\ Later

-----------------------------------------------------------------------------
(* What the checks find. *)

When(condition, key) == IF condition THEN <<key>> ELSE <<>>
bucket == clock \div WINDOW
day == 0

\* check_failed_logins: what it counts is the last fifteen minutes, what it dedupes by is
\* the quarter of the hour.
FailedLogins(email, ip, events) ==
  LET seen     == {i \in DOMAIN events : events[i].at + WINDOW >= clock}
      by_email == {i \in seen : events[i].email = email}
      by_ip    == {i \in seen : events[i].ip = ip}
      emails_from_ip == {events[i].email : i \in by_ip}
  IN When(Cardinality(by_email) >= LIMIT, <<"brute_force", email, bucket>>)
     \o When(Cardinality(by_ip) >= 2 * LIMIT /\ Cardinality(emails_from_ip) > 1,
             <<"stuffing", ip, bucket>>)

\* check_new_ip, check_unusual_login_hour, check_impossible_travel: against the logins
\* before this one.
NewLogin(user, ip, earlier, odd) ==
  LET own   == SelectSeq(earlier, LAMBDA e : e.user = user)
      known == {own[i].ip : i \in DOMAIN own}
  IN When(known # {} /\ ip \notin known, <<"new_ip", <<user, ip>>, 0>>)
     \o When(odd, <<"login_hour", user, day>>)
     \o When(own # <<>> /\ <<Last(own).ip, ip>> \in Far /\ Last(own).at = clock,
             <<"travel", <<user, Last(own).ip, ip>>, 0>>)

\* check_smart_anomalies: both a SATA attribute and the NVMe log may report a temperature.
SmartAnomalies(serial, s) ==
  LET smart(kind) == <<"smart", <<serial, kind>>, 0>> IN
  When(s.reallocated, smart("realloc")) \o When(s.hot, smart("temp"))
  \o When(s.failing, smart("failed")) \o When(s.nvme_hot, smart("temp"))

\* check_repeat_wipe, which counts the completed jobs it can see.
Wipes(serial) == {i \in DOMAIN done : done[i].ok /\ serial_of[done[i].job] = serial}
RepeatWipe(serial) == When(Cardinality(Wipes(serial)) >= 2, <<"repeat", serial, day>>)

-----------------------------------------------------------------------------
(* The callers. *)

\* _login_failed, whose checks end with the first exception.
LoginFailed(email, ip) ==
  /\ Free("loop") /\ Len(failures) < MaxLogins
  /\ failures' = Append(failures, [email |-> email, ip |-> ip, at |-> clock])
  /\ busy' = [busy EXCEPT !["loop"] = Recording(FailedLogins(email, ip, failures'), TRUE)]
  /\ UNCHANGED <<clock, logins, done, history, anomalies, faults, acks>>

\* _login_success, whose checks are caught one by one.
LoginSuccess(user, ip) ==
  /\ Free("loop") /\ Len(logins) < MaxLogins
  /\ logins' = Append(logins, [user |-> user, ip |-> ip, at |-> clock])
  /\ \E odd \in BOOLEAN :
       busy' = [busy EXCEPT !["loop"] = Recording(NewLogin(user, ip, logins, odd), FALSE)]
  /\ UNCHANGED <<clock, failures, done, history, anomalies, faults, acks>>

\* list_devices and heartbeat: the drive's SMART data is checked, and then kept.
DeviceSeen(serial, s) ==
  /\ Free("loop")
  /\ busy' = [busy EXCEPT !["loop"] =
                Recording(SmartAnomalies(serial, s) \o <<Snapshot(serial)>>, TRUE)]
  /\ UNCHANGED <<clock, failures, logins, done, history, anomalies, faults, acks>>

\* change_role with a rise: no key, so each rise is a row of its own.
RoleRises ==
  /\ Free("loop") /\ Len(anomalies) < MaxRows
  /\ busy' = [busy EXCEPT !["loop"] = Recording(<<NoKey>>, TRUE)]
  /\ UNCHANGED <<clock, failures, logins, done, history, anomalies, faults, acks>>

Running(j) == \A i \in DOMAIN done : done[i].job # j

\* complete: the status is written first, the checks follow the certificate.
JobCompleted(j) ==
  /\ Free(j) /\ Running(j)
  /\ done' = Append(done, [job |-> j, ok |-> TRUE])
  /\ Goto(j, "check")
  /\ UNCHANGED <<clock, failures, logins, history, anomalies, faults, acks>>

JobChecked(j) ==
  /\ busy[j].pc = "check"
  /\ \E fast \in BOOLEAN :
       busy' = [busy EXCEPT ![j] =
                  Recording(RepeatWipe(serial_of[j]) \o When(fast, <<"throughput", j, 0>>), FALSE)]
  /\ UNCHANGED <<clock, failures, logins, done, history, anomalies, faults, acks>>

\* fail, of a verification.
JobFailed(j) ==
  /\ Free(j) /\ Running(j)
  /\ done' = Append(done, [job |-> j, ok |-> FALSE])
  /\ busy' = [busy EXCEPT ![j] = Recording(<<<<"verify_fail", j, 0>>>>, TRUE)]
  /\ UNCHANGED <<clock, failures, logins, history, anomalies, faults, acks>>

\* run_statistical_batch: a job is an outlier every night anew.
Nightly(j) ==
  /\ Free("nightly") /\ Contains(done, [job |-> j, ok |-> TRUE])
  /\ busy' = [busy EXCEPT !["nightly"] = Recording(<<<<"duration", j, 0>>>>, TRUE)]
  /\ UNCHANGED <<clock, failures, logins, done, history, anomalies, faults, acks>>

-----------------------------------------------------------------------------
(* _record_anomaly, for the first key of a thread. *)

Key(t) == busy[t].keys[1]
IsActive(i) == anomalies[i].status \in ACTIVE_STATUSES
Same(k) == {i \in DOMAIN anomalies : anomalies[i].key = k}

\* Mutant: whatever was once resolved is still the same issue.
_existingEver(k) == k # NoKey /\ Same(k) # {}

_existing(k) == k # NoKey /\ \E i \in Same(k) : IsActive(i)

\* Mutant: the index leaves out what somebody acknowledged.
ClashesOpen(k) == k # NoKey /\ \E i \in Same(k) : anomalies[i].status = "open"

\* The index of active_dedupe_key, which apply_computed keeps with the status.
Clashes(k) == k # NoKey /\ \E i \in Same(k) : IsActive(i)

Find(t) ==
  /\ busy[t].pc = "find" /\ Key(t)[1] # "smart_history"
  /\ IF _existing(Key(t)) THEN NextKey(t) ELSE Goto(t, "insert")
  /\ UNCHANGED <<clock, failures, logins, done, history, anomalies, faults, acks>>

Insert(t) ==
  /\ busy[t].pc = "insert" /\ Len(anomalies) < MaxRows /\ ~Clashes(Key(t))
  /\ anomalies' = Append(anomalies, [key |-> Key(t), status |-> "open", events |-> 0, closed |-> 0])
  /\ busy' = [busy EXCEPT ![t] = [@ EXCEPT !.pc = "log", !.row = Len(anomalies')]]
  /\ UNCHANGED <<clock, failures, logins, done, history, faults, acks>>

\* The index refuses: whatever row is found now is answered, or the one never inserted.
Duplicate(t) ==
  /\ busy[t].pc = "insert" /\ Clashes(Key(t)) /\ NextKey(t)
  /\ UNCHANGED <<clock, failures, logins, done, history, anomalies, faults, acks>>

\* log_event, the anomaly_detected entry.
Log(t) ==
  /\ busy[t].pc = "log" /\ NextKey(t)
  /\ anomalies' = [anomalies EXCEPT ![busy[t].row].events = @ + 1]
  /\ UNCHANGED <<clock, failures, logins, done, history, faults, acks>>

\* record_smart_snapshot: one row a day; what it raises is caught.
Keep(t) ==
  /\ busy[t].pc = "find" /\ Key(t)[1] = "smart_history" /\ NextKey(t)
  /\ \/ history' = history \cup {Key(t)[2]} /\ UNCHANGED faults
     \/ faults < MaxFaults /\ faults' = faults + 1 /\ UNCHANGED history
  /\ UNCHANGED <<clock, failures, logins, done, anomalies, acks>>

Raises(t) ==
  /\ busy[t].pc \in {"find", "insert", "log"} /\ Key(t)[1] # "smart_history"
  /\ faults < MaxFaults
  /\ faults' = faults + 1
  /\ IF busy[t].strict THEN busy' = [busy EXCEPT ![t] = Idle] ELSE NextKey(t)
  /\ UNCHANGED <<clock, failures, logins, done, history, anomalies, acks>>

\* The server stops: nobody takes the recording up again.
Crash ==
  /\ faults < MaxFaults /\ faults' = faults + 1
  /\ busy' = [t \in Threads |-> Idle]
  /\ UNCHANGED <<clock, failures, logins, done, history, anomalies, acks>>

Settled(row, resolved) ==
  [row EXCEPT !.status = IF resolved THEN "resolved" ELSE "acknowledged",
              !.closed = IF resolved THEN Moment ELSE @]

\* acknowledge_anomaly, of any row: a resolved one may become active again, unless
\* the index refuses.
acknowledge_anomaly(i, resolved) ==
  /\ Free("loop") /\ acks < MaxAcks /\ acks' = acks + 1
  /\ ~resolved /\ ~IsActive(i) => ~Clashes(anomalies[i].key)
  /\ anomalies' = [anomalies EXCEPT ![i] = Settled(@, resolved)]
  /\ UNCHANGED <<clock, failures, logins, done, history, busy, faults>>

Record(t) == Keep(t) \/ Find(t) \/ Insert(t) \/ Duplicate(t) \/ Log(t) \/ Raises(t)
Acknowledge == \E i \in DOMAIN anomalies, resolved \in BOOLEAN : acknowledge_anomaly(i, resolved)

Finds ==
  \/ \E email \in Emails, ip \in Addresses : LoginFailed(email, ip)
  \/ \E user \in Users, ip \in Addresses : LoginSuccess(user, ip)
  \/ \E j \in Jobs, s \in Snapshots : DeviceSeen(serial_of[j], s)
  \/ RoleRises
  \/ \E j \in Jobs : JobCompleted(j) \/ JobChecked(j) \/ JobFailed(j) \/ Nightly(j)

AnomaliesNext == Finds \/ Acknowledge \/ Crash \/ Later \/ \E t \in Threads : Record(t)
AnomaliesSpec == AnomaliesInit /\ [][AnomaliesNext]_<<clock, anomalyVars>>

-----------------------------------------------------------------------------
\* An issue with a key has one active row, whichever threads find it at one time and
\* whatever is acknowledged meanwhile; a row is announced in the audit log once, and
\* stays unannounced only by an exception or a crash in between.
OneOpenPerIssue ==
  /\ \A i, j \in DOMAIN anomalies :
       anomalies[i].key = anomalies[j].key /\ anomalies[i].key # NoKey /\ IsActive(i) /\ IsActive(j)
         => i = j
  /\ \A i \in DOMAIN anomalies :
       /\ anomalies[i].events <= 1
       /\ anomalies[i].events = 0 =>
            faults > 0 \/ \E t \in Threads : busy[t].pc = "log" /\ busy[t].row = i

\* What was resolved is raised again when it goes on: after the failed login that reaches
\* the limit within fifteen minutes, and after the second wipe of a device, the issue has
\* a row that is active or was closed later than that, when every thread is through
\* without an exception.
Raised(key, moment) ==
  \E i \in Same(key) : IsActive(i) \/ anomalies[i].closed >= moment

RaisedAgain ==
  faults = 0 /\ (\A t \in Threads : Free(t)) =>
    /\ \A i \in DOMAIN failures :
         LET f == failures[i]
             n == Cardinality({j \in 1..i : failures[j].email = f.email
                                            /\ failures[j].at + WINDOW >= f.at})
         IN n >= LIMIT => Raised(<<"brute_force", f.email, f.at \div WINDOW>>, i)
    /\ \A serial \in {serial_of[j] : j \in Jobs} : \A j \in Wipes(serial) :
         (\E i \in Wipes(serial) : i < j) => Raised(<<"repeat", serial, day>>, j)
=============================================================================

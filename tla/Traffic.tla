-------------------------------- MODULE Traffic --------------------------------
(***************************************************************************)
(* The traffic monitor of backend/security.py, for one address: requests   *)
(* are counted before they are handled, their errors after.  Other         *)
(* addresses have lists of their own.                                      *)
(***************************************************************************)
EXTENDS Clock, Naturals, Sequences, FiniteSets

CONSTANTS
  MAX_RPM, MAX_ERR_RPM, BLOCK_SECS, WINDOW_SECS,
  MaxRequests  \* bound: requests that are handled

ASSUME TrafficAssumption == {MAX_RPM, MAX_ERR_RPM, BLOCK_SECS, WINDOW_SECS} \subseteq Nat

VARIABLES
  requests, errors,  \* _requests and _errors: what they hold the times of, by its place in trace
  blocked,           \* _blocked: until when, 0 for no entry
  handling,          \* requests admitted and not answered yet
  trace              \* history: what happened and when

trafficVars == <<requests, errors, blocked, handling, trace>>

TrafficInit ==
  requests = {} /\ errors = {} /\ blocked = 0 /\ handling = 0 /\ trace = <<>>

Happened(what) == trace' = Append(trace, [what |-> what, at |-> clock])

_prune(times) == {j \in times : trace[j].at + WINDOW_SECS > clock}
is_blocked == blocked # 0 /\ clock < blocked
_block == blocked' = clock + BLOCK_SECS

\* Pruned, with the one that happens now.
Counted(times) == _prune(times) \cup {Len(trace) + 1}

\* Mutant: judged before it is counted.
TooManyBefore(times, max) == Cardinality(times) - 1 > max

TooMany(times, max) == Cardinality(times) > max

\* dispatch, up to call_next: a request that is one too many is counted all the same.
Request ==
  /\ Len(trace) < MaxRequests /\ UNCHANGED clock
  /\ IF is_blocked THEN UNCHANGED trafficVars
     ELSE /\ requests' = Counted(requests)
          /\ IF TooMany(requests', MAX_RPM)
             THEN _block /\ Happened("denied") /\ UNCHANGED handling
             ELSE blocked' = 0 /\ handling' = handling + 1 /\ Happened("admitted")
          /\ UNCHANGED errors

\* record_error: an answer to a request admitted earlier may block, or block for longer.
record_error(is4xx) ==
  /\ handling > 0 /\ handling' = handling - 1 /\ UNCHANGED clock
  /\ IF ~is4xx THEN UNCHANGED <<errors, blocked, trace>>
     ELSE /\ errors' = Counted(errors)
          /\ Happened("error")
          /\ IF TooMany(errors', MAX_ERR_RPM) THEN _block ELSE UNCHANGED blocked
  /\ UNCHANGED requests

Monitor == Request \/ \E is4xx \in BOOLEAN : record_error(is4xx)

TrafficNext == Monitor \/ (clock' = clock + 1 /\ UNCHANGED trafficVars)
TrafficSpec == clock = 0 /\ TrafficInit /\ [][TrafficNext]_<<clock, trafficVars>>

-----------------------------------------------------------------------------
\* No window of WINDOW_SECS admits more than MAX_RPM requests, and after one request or
\* one error too many nothing is admitted for BLOCK_SECS, however late the errors of
\* requests in flight come.
Within(what, i) ==
  {j \in 1..i : trace[j].what = what /\ trace[j].at + WINDOW_SECS > trace[i].at}

Overflow(i) ==
  \/ trace[i].what = "denied"
  \/ trace[i].what = "error" /\ Cardinality(Within("error", i)) > MAX_ERR_RPM

AdmissionBounded ==
  \A i \in DOMAIN trace :
    /\ trace[i].what = "admitted" => Cardinality(Within("admitted", i)) <= MAX_RPM
    /\ Overflow(i) => \A j \in i..Len(trace) :
                        trace[j].what = "admitted" => trace[j].at >= trace[i].at + BLOCK_SECS
=============================================================================

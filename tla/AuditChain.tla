------------------------------ MODULE AuditChain ------------------------------
(***************************************************************************)
(* The audit log: backend/audit.py's log_event and verify_chain over the   *)
(* collection audit_log of backend/db.                                     *)
(*                                                                         *)
(* Any thread of any server process may log.  A chain (an organisation's,  *)
(* or "global") has one lock per process; across processes only the unique *)
(* index on (chain_key, prev_entry_hash) stands between two appends.  The  *)
(* id of a row comes from a counter shared by all chains and is drawn      *)
(* before the row is inserted.                                             *)
(***************************************************************************)
EXTENDS Naturals, Sequences, FiniteSets

CONSTANTS
  Processes,    \* server processes on one database
  Writers,      \* their threads that log
  Process,      \* the process of each thread
  Chains,       \* values of chain_key
  Genesis,      \* GENESIS_HASH
  Hash(_, _),   \* _hash_entry: of an event and the previous hash
  Attempts,     \* rounds of log_event (5 in the code)
  MaxEvents,    \* bound: events a thread logs
  MaxFaults     \* bound: database calls that raise

ASSUME ProcessAssumption  == Process \in [Writers -> Processes]
ASSUME ChainsAssumption   == Chains # {}
ASSUME AttemptsAssumption == Attempts \in Nat \ {0}
ASSUME BoundsAssumption   == MaxEvents \in Nat /\ MaxFaults \in Nat

VARIABLES
  log,      \* the rows of each chain, in the order of their insertion
  counter,  \* the document of `counters' for audit_log
  lock,     \* _chain_locks: the holders of the lock of a process and chain
  pc,       \* each thread's step of log_event
  calls,    \* how many times it has called it
  chain, tip, id, tries,  \* its locals: chain, prev_hash, row["_id"], failed rounds
  lost,     \* history: events that log_event did not see appended, and why
  faults    \* count of the bounded faults

locals == <<calls, chain, tip, id, tries>>
vars   == <<log, counter, lock, pc, locals, lost, faults>>

Events  == [by : Writers, n : Nat]
PCs     == {"idle", "lock", "read", "number", "insert"}

\* A thread's events differ.
Event(w) == [by |-> w, n |-> calls[w]]

\* The last row by id: order("id", desc=True).limit(1).
Last(c) ==
  CHOOSE i \in DOMAIN log[c] : \A k \in DOMAIN log[c] : log[c][k].id <= log[c][i].id

TipHash(c) == IF DOMAIN log[c] = {} THEN Genesis ELSE log[c][Last(c)].hash

Init ==
  /\ log = [c \in Chains |-> <<>>]
  /\ counter = 0
  /\ lock = [p \in Processes |-> [c \in Chains |-> {}]]
  /\ pc = [w \in Writers |-> "idle"]
  /\ calls = [w \in Writers |-> 0]
  /\ chain = [w \in Writers |-> CHOOSE c \in Chains : TRUE]
  /\ tip = [w \in Writers |-> Genesis]
  /\ id = [w \in Writers |-> 0]
  /\ tries = [w \in Writers |-> 0]
  /\ lost = {}
  /\ faults = 0

-----------------------------------------------------------------------------
Goto(w, step) == pc' = [pc EXCEPT ![w] = step]

\* Leaving the with block, by return or by exception.
Return(w) ==
  /\ Goto(w, "idle")
  /\ lock' = [lock EXCEPT ![Process[w]][chain[w]] = {}]

Loss(w, why) == [event |-> Event(w), chain |-> chain[w], why |-> why]
Lose(w, why) == lost' = lost \cup {Loss(w, why)}

Fault == faults < MaxFaults /\ faults' = faults + 1

\* log_event is called, and waits for the lock of its chain.
Call(w, c) ==
  /\ pc[w] = "idle"
  /\ calls[w] < MaxEvents
  /\ Goto(w, "lock")
  /\ calls' = [calls EXCEPT ![w] = @ + 1]
  /\ chain' = [chain EXCEPT ![w] = c]
  /\ tries' = [tries EXCEPT ![w] = 0]
  /\ UNCHANGED <<log, counter, lock, tip, id, lost, faults>>

Acquire(w) ==
  /\ pc[w] = "lock"
  /\ lock[Process[w]][chain[w]] = {}
  /\ lock' = [lock EXCEPT ![Process[w]][chain[w]] = {w}]
  /\ Goto(w, "read")
  /\ UNCHANGED <<log, counter, locals, lost, faults>>

\* _get_last_hash.
ReadTip(w) ==
  /\ pc[w] = "read"
  /\ tip' = [tip EXCEPT ![w] = TipHash(chain[w])]
  /\ Goto(w, "number")
  /\ UNCHANGED <<log, counter, lock, calls, chain, id, tries, lost, faults>>

\* Mutant: the lock is taken without a with block.
ReadFaultKeepsLock(w) ==
  /\ pc[w] = "read"
  /\ Fault
  /\ Goto(w, "idle")
  /\ Lose(w, "raised")
  /\ UNCHANGED <<log, counter, lock, locals>>

\* It is called outside the try: its exception leaves log_event.
ReadFault(w) ==
  /\ pc[w] = "read"
  /\ Fault
  /\ Return(w)
  /\ Lose(w, "raised")
  /\ UNCHANGED <<log, counter, locals>>

\* Mutant: a thread keeps the number of its first round.
DrawIdOnce(w) ==
  /\ pc[w] = "number"
  /\ IF tries[w] = 0
     THEN counter' = counter + 1 /\ id' = [id EXCEPT ![w] = counter + 1]
     ELSE UNCHANGED <<counter, id>>
  /\ Goto(w, "insert")
  /\ UNCHANGED <<log, lock, calls, chain, tip, tries, lost, faults>>

\* The insert draws the id first (Query._prepare, Query._next_id).
DrawId(w) ==
  /\ pc[w] = "number"
  /\ counter' = counter + 1
  /\ id' = [id EXCEPT ![w] = counter + 1]
  /\ Goto(w, "insert")
  /\ UNCHANGED <<log, lock, calls, chain, tip, tries, lost, faults>>

\* The unique index on (chain_key, prev_entry_hash).
Taken(w) == \E i \in DOMAIN log[chain[w]] : log[chain[w]][i].prev = tip[w]

Row(w) == [id |-> id[w], event |-> Event(w), prev |-> tip[w],
           hash |-> Hash(Event(w), tip[w])]

\* Mutant: the index on (chain_key, prev_entry_hash) is missing.
AppendAny(w) == log' = [log EXCEPT ![chain[w]] = Append(@, Row(w))]

AppendRow(w) == ~ Taken(w) /\ log' = [log EXCEPT ![chain[w]] = Append(@, Row(w))]

Insert(w) ==
  /\ pc[w] = "insert"
  /\ AppendRow(w)
  /\ Return(w)
  /\ UNCHANGED <<counter, locals, lost, faults>>

\* Mutant: the last refusal is silent.
RefusedSilently(w) ==
  /\ pc[w] = "insert" /\ Taken(w)
  /\ tries' = [tries EXCEPT ![w] = IF @ + 1 < Attempts THEN @ + 1 ELSE @]
  /\ IF tries[w] + 1 < Attempts THEN Goto(w, "read") /\ UNCHANGED lock ELSE Return(w)
  /\ UNCHANGED <<log, counter, calls, chain, tip, id, lost, faults>>

\* The index refuses the row: another round, the last one gives up.
Refused(w) ==
  /\ pc[w] = "insert"
  /\ Taken(w)
  /\ IF tries[w] + 1 < Attempts
     THEN /\ tries' = [tries EXCEPT ![w] = @ + 1]
          /\ Goto(w, "read")
          /\ UNCHANGED <<lock, lost>>
     ELSE /\ Return(w)
          /\ Lose(w, "contention")
          /\ UNCHANGED tries
  /\ UNCHANGED <<log, counter, calls, chain, tip, id, faults>>

\* Any other exception is printed and the row given up; the database may have
\* taken it before the connection was lost.
InsertFault(w) ==
  /\ pc[w] \in {"number", "insert"}
  /\ Fault
  /\ \/ UNCHANGED log
     \/ pc[w] = "insert" /\ AppendRow(w)
  /\ Return(w)
  /\ Lose(w, "printed")
  /\ UNCHANGED <<counter, locals>>

\* A process dies under its threads and comes back with new locks.
Crash(p) ==
  LET died == {w \in Writers : Process[w] = p /\ pc[w] # "idle"}
  IN /\ died # {}
     /\ Fault
     /\ pc' = [w \in Writers |-> IF Process[w] = p THEN "idle" ELSE pc[w]]
     /\ lock' = [lock EXCEPT ![p] = [c \in Chains |-> {}]]
     /\ lost' = lost \cup {Loss(w, "crash") : w \in died}
     /\ UNCHANGED <<log, counter, locals>>

WriterStep(w) ==
  Acquire(w) \/ ReadTip(w) \/ DrawId(w) \/ Insert(w) \/ Refused(w)

Next ==
  \/ \E w \in Writers :
       \/ \E c \in Chains : Call(w, c)
       \/ WriterStep(w)
       \/ ReadFault(w) \/ InsertFault(w)
  \/ \E p \in Processes : Crash(p)

Spec == Init /\ [][Next]_vars

\* Threads run.  A lock that others take and let go needs no more than that:
\* every thread logs a bounded number of events.
FairSpec == Spec /\ \A w \in Writers : WF_vars(WriterStep(w))

-----------------------------------------------------------------------------
(* verify_chain: in the order of the ids, every hash is recomputed from the  *)
(* row's event and the hash of the row before it.                            *)

Before(c, i) == {k \in DOMAIN log[c] : log[c][k].id < log[c][i].id}

HashBefore(c, i) ==
  IF Before(c, i) = {} THEN Genesis
  ELSE LET k == CHOOSE k \in Before(c, i) :
                  \A m \in Before(c, i) : log[c][m].id <= log[c][k].id
       IN log[c][k].hash

Intact(c) ==
  \A i \in DOMAIN log[c] : log[c][i].hash = Hash(log[c][i].event, HashBefore(c, i))

-----------------------------------------------------------------------------
(* Properties *)

TypeOK ==
  /\ counter \in Nat
  /\ lock \in [Processes -> [Chains -> SUBSET Writers]]
  /\ pc \in [Writers -> PCs]
  /\ calls \in [Writers -> 0..MaxEvents]
  /\ chain \in [Writers -> Chains]
  /\ id \in [Writers -> 0..counter]
  /\ tries \in [Writers -> 0..(Attempts - 1)]
  /\ faults \in 0..MaxFaults

\* verify_chain finds every chain intact, whatever the processes append
\* concurrently and wherever a call raises or a process dies.
AlwaysIntact == \A c \in Chains : Intact(c)

\* Rows become visible in the order of their ids, so that a reader that pages
\* by id (fetch_all) misses none that is inserted meanwhile, though the ids are
\* drawn before the inserts.
InsertedInIdOrder ==
  \A c \in Chains : \A i, k \in DOMAIN log[c] : i < k => log[c][i].id < log[c][k].id

\* An event is in the log at most once: what is given up is not tried again.
LoggedAtMostOnce ==
  \A c, d \in Chains : \A i \in DOMAIN log[c], k \in DOMAIN log[d] :
    log[c][i].event = log[d][k].event => c = d /\ i = k

\* What this promises of an event, in the terms of Ledger.
Written  == [c \in Chains |-> [i \in DOMAIN log[c] |-> log[c][i].event]]
CallsOf(ws) == {<<Event(w), chain[w]>> : w \in ws}
UnderWay == CallsOf({w \in Writers : pc[w] # "idle"})
Asked    == UNION {{[by |-> w, n |-> n] : n \in 1..calls[w]} : w \in Writers}
Missed   == {<<l.event, l.chain>> : l \in lost}

L == INSTANCE Ledger WITH Events <- [by : Writers, n : 1..MaxEvents], entries <- Written,
                          open <- UnderWay, called <- Asked, missed <- Missed

\* Every call of log_event adds its event to its chain in one step, as it returns, or
\* shows that it is lost: with rounds that the index refuses, calls that raise, an insert
\* whose answer is lost, and a process that dies under all its threads.
ImplementsLedger == L!LSpec

\* Every call of log_event returns, so the request or thread that logs goes on.
LogEventReturns ==
  \A w \in Writers : pc[w] # "idle" ~> pc[w] = "idle"

=============================================================================

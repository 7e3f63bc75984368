--------------------------- MODULE MonitoringProofs ----------------------------
(***************************************************************************)
(* Proofs about what watches the system, for any number of threads, jobs,  *)
(* models, tickets, codes and requests: the model registry, the tickets    *)
(* and pairing codes, the anomaly engine, the traffic monitor.             *)
(***************************************************************************)
EXTENDS MCMonitoring, FiniteSetTheorems, SequenceTheorems, TLAPS

(***************************************************************************)
(* The registry.  A bundle's mtime tells its model and whether it is torn, *)
(* and bundles only get newer; so a cache that was filled from a newer     *)
(* file than the one it was looked up for is still never too old.          *)
(***************************************************************************)

Bundles == [model : Nat, torn : BOOLEAN, mtime : Nat]
Loads   == [pc : {"rest", "stat", "open", "keep", "found"}, mtime : Nat, found : Nat, least : Nat]

RegistryTyped ==
  /\ promotes \in BOOLEAN /\ global \in Nat
  /\ file \in Bundles /\ cache \in [mtime : Nat, model : Nat]
  /\ trained \in Nat /\ saved \in Nat
  /\ trainer \in [pc : {"rest", "archive", "dump", "write", "forget"}, model : Nat]
  /\ reading \in [Readers -> Loads]

\* The model in training is the newest; its bundle comes after every other.
Training ==
  /\ saved <= trained /\ file.model <= trained
  /\ ~Is("rest") => trainer.model = trained /\ saved < trained
  /\ Is("archive") \/ Is("dump") => file.model < trained
  /\ Is("write") \/ Is("forget") => file.model = trained

\* The bundle is no older than the last save, and mtimes tell models.
Dated ==
  /\ file.model # 0 =>
       saved <= file.model /\ file.mtime \in {2 * file.model, 2 * file.model + 1}
  /\ cache.mtime <= 2 * cache.model + 1

\* A reader looked at a bundle no newer than the file, and has loaded one that is as new.
Loading(r) ==
  /\ reading[r].least <= saved
  /\ reading[r].pc = "open" =>
       /\ file.model # 0 => reading[r].mtime <= file.mtime
       /\ reading[r].mtime <= 2 * trained + 1
       /\ Is("archive") \/ Is("dump") => reading[r].mtime < 2 * trained
  /\ reading[r].pc = "keep" =>
       /\ reading[r].found >= reading[r].least
       /\ reading[r].mtime <= 2 * reading[r].found + 1
  /\ reading[r].pc = "found" =>
       reading[r].found = global \/ reading[r].found >= reading[r].least

RegistryIInv ==
  /\ RegistryTyped /\ Training /\ Dated
  /\ \A r \in Readers : Loading(r)

LEMMA RegistryStarts == RegistryInit => RegistryIInv
BY DEF RegistryInit, RegistryIInv, RegistryTyped, Training, Dated, Loading, Bundles, Loads, NoFile,
       NoCache, AtRest, NotReading, Is

\* The steps of the training leave the readers as they are.
LEMMA TrainerStep ==
  ASSUME RegistryIInv,
         \/ \E candidate, incumbent \in Metrics : TrainDuration(candidate, incumbent)
         \/ TrainBehaviour \/ Archive \/ Truncate \/ Write \/ Forget
  PROVE  RegistryIInv'
<1> USE DEF RegistryIInv, RegistryTyped, Training, Dated, Bundles, Is, New, Train
<1>1. CASE \E candidate, incumbent \in Metrics : TrainDuration(candidate, incumbent)
  BY <1>1 DEF TrainDuration, Loading, Loads
<1>2. CASE TrainBehaviour
  BY <1>2 DEF TrainBehaviour, Loading, Loads
<1>3. CASE Archive
  BY <1>3 DEF Archive, Loading, NoFile
<1>4. CASE Truncate
  BY <1>4 DEF Truncate, Loading, Loads
<1>5. CASE Write
  BY <1>5 DEF Write, Loading, Loads
<1>6. CASE Forget
  BY <1>6 DEF Forget, Loading, Loads, NoCache, AtRest
<1> QED
  BY <1>1, <1>2, <1>3, <1>4, <1>5, <1>6

\* What a reader has in hand after its step decides whether the invariant holds.
LEMMA ReaderHolds ==
  ASSUME RegistryIInv, NEW r \in Readers, NEW new \in Loads,
         reading' = [reading EXCEPT ![r] = new], Loading(r)',
         UNCHANGED <<promotes, file, global, trained, trainer, saved>>,
         cache' \in [mtime : Nat, model : Nat], cache'.mtime <= 2 * cache'.model + 1
  PROVE  RegistryIInv'
<1>1. RegistryTyped' /\ Training' /\ Dated'
  BY DEF RegistryIInv, RegistryTyped, Training, Dated, Is
<1>2. \A q \in Readers : q # r => Loading(q)'
  BY DEF RegistryIInv, RegistryTyped, Loading, Is
<1> QED
  BY <1>1, <1>2 DEF RegistryIInv

LEMMA ReaderStep ==
  ASSUME RegistryIInv, NEW r \in Readers,
         Begin(r) \/ Stat(r) \/ Open(r) \/ Remember(r) \/ Score(r)
  PROVE  RegistryIInv'
<1> DEFINE old == reading[r]
           Becomes(new) == reading' = [reading EXCEPT ![r] = new] /\ reading'[r] = new
<1>0. /\ reading \in [Readers -> Loads] /\ old \in Loads
      /\ cache \in [mtime : Nat, model : Nat] /\ cache.mtime <= 2 * cache.model + 1
      /\ global \in Nat /\ saved \in Nat /\ trained \in Nat /\ file \in Bundles
  BY DEF RegistryIInv, RegistryTyped, Dated
<1>1. CASE Begin(r)
  <2>1. PICK new : new = [NotReading EXCEPT !.pc = "stat", !.least = saved] /\ Becomes(new)
    BY <1>0, <1>1 DEF Begin
  <2>2. new \in Loads /\ new.pc = "stat" /\ new.least = saved
    BY <1>0, <1>1, <2>1 DEF Loads, Bundles, NotReading
  <2>4. Loading(r)'
    BY <1>0, <1>1, <2>1, <2>2 DEF Begin, Loading, RegistryIInv
  <2> QED
    BY <1>0, <1>1, <2>1, <2>2, <2>4, ReaderHolds DEF Begin
<1>2. CASE Stat(r) /\ file.model = 0
  <2>1. PICK new : new = [old EXCEPT !.pc = "found", !.found = global] /\ Becomes(new)
    BY <1>0, <1>2 DEF Stat, Answer
  <2>2. new \in Loads /\ new.pc = "found" /\ new.found = global /\ new.least = old.least
    BY <1>0, <1>2, <2>1 DEF Loads, Bundles
  <2>4. Loading(r)'
    BY <1>0, <1>2, <2>1, <2>2 DEF Stat, Loading, RegistryIInv
  <2> QED
    BY <1>0, <1>2, <2>1, <2>2, <2>4, ReaderHolds DEF Stat
<1>3. CASE Stat(r) /\ file.model # 0 /\ Hits
  <2>1. PICK new : new = [old EXCEPT !.pc = "found", !.found = cache.model] /\ Becomes(new)
    BY <1>0, <1>3 DEF Stat, Answer
  <2>2. new \in Loads /\ new.pc = "found" /\ new.found = cache.model /\ new.least = old.least
    BY <1>0, <1>3, <2>1 DEF Loads, Bundles
  <2>3. cache.model >= old.least
    BY <1>0, <1>3 DEF Hits, RegistryIInv, Dated, Loading, Bundles, Loads
  <2>4. Loading(r)'
    BY <1>0, <1>3, <2>1, <2>2, <2>3 DEF Stat, Loading, RegistryIInv
  <2> QED
    BY <1>0, <1>3, <2>1, <2>2, <2>3, <2>4, ReaderHolds DEF Stat
<1>4. CASE Stat(r) /\ file.model # 0 /\ ~Hits
  <2>1. PICK new : new = [old EXCEPT !.pc = "open", !.mtime = file.mtime] /\ Becomes(new)
    BY <1>0, <1>4 DEF Stat
  <2>2. new \in Loads /\ new.pc = "open" /\ new.mtime = file.mtime /\ new.least = old.least
    BY <1>0, <1>4, <2>1 DEF Loads, Bundles
  <2>3. /\ file.mtime <= 2 * trained + 1
        /\ Is("archive") \/ Is("dump") => file.mtime < 2 * trained
    BY <1>0, <1>4 DEF RegistryIInv, Training, Dated, Bundles
  <2>4. Loading(r)'
    BY <1>0, <1>4, <2>1, <2>2, <2>3 DEF Is, Bundles, Stat, Loading, RegistryIInv
  <2> QED
    BY <1>0, <1>4, <2>1, <2>2, <2>3, <2>4, ReaderHolds DEF Is, Bundles, Stat
<1>5. CASE (Open(r) /\ (file.torn \/ file.model = 0)) \/ Score(r)
  <2>1. PICK new : new = NotReading /\ Becomes(new)
    BY <1>0, <1>5 DEF Open, Score
  <2>2. new \in Loads /\ new.pc = "rest" /\ new.least = 0
    BY <1>0, <1>5, <2>1 DEF Loads, Bundles, NotReading
  <2>4. Loading(r)'
    BY <1>0, <1>5, <2>1, <2>2 DEF Open, Score, Loading, RegistryIInv
  <2> QED
    BY <1>0, <1>5, <2>1, <2>2, <2>4, ReaderHolds DEF Open, Score
<1>6. CASE Open(r) /\ ~(file.torn \/ file.model = 0)
  <2>1. PICK new : new = [old EXCEPT !.pc = "keep", !.found = file.model] /\ Becomes(new)
    BY <1>0, <1>6 DEF Open
  <2>2. new \in Loads /\ new.pc = "keep" /\ new.found = file.model
        /\ new.mtime = old.mtime /\ new.least = old.least
    BY <1>0, <1>6, <2>1 DEF Loads, Bundles
  <2>3. old.mtime <= 2 * file.model + 1 /\ file.model >= old.least
    BY <1>0, <1>6 DEF Open, RegistryIInv, Dated, Loading, Bundles, Loads
  <2>4. Loading(r)'
    BY <1>0, <1>6, <2>1, <2>2, <2>3 DEF Open, Loading, RegistryIInv
  <2> QED
    BY <1>0, <1>6, <2>1, <2>2, <2>3, <2>4, ReaderHolds DEF Open
<1>7. CASE Remember(r)
  <2>1. PICK new : new = [old EXCEPT !.pc = "found", !.found = old.found] /\ Becomes(new)
    BY <1>0, <1>7 DEF Remember, Answer
  <2>2. new \in Loads /\ new.pc = "found" /\ new.found = old.found /\ new.least = old.least
    BY <1>0, <1>7, <2>1 DEF Loads, Bundles
  <2>3. /\ old.found >= old.least
        /\ cache' \in [mtime : Nat, model : Nat] /\ cache'.mtime <= 2 * cache'.model + 1
    BY <1>0, <1>7 DEF Remember, RegistryIInv, Loading, Loads
  <2>4. Loading(r)'
    BY <1>0, <1>7, <2>1, <2>2, <2>3 DEF Remember, Loading, RegistryIInv
  <2> QED
    BY <1>0, <1>7, <2>1, <2>2, <2>3, <2>4, ReaderHolds DEF Remember
<1> QED
  BY <1>1, <1>2, <1>3, <1>4, <1>5, <1>6, <1>7

LEMMA RegistryStep == RegistryIInv /\ [Models]_registryVars => RegistryIInv'
<1> SUFFICES ASSUME RegistryIInv, [Models]_registryVars PROVE RegistryIInv'
  OBVIOUS
<1>1. CASE Stop
  BY <1>1 DEF Stop, RegistryIInv, RegistryTyped, Training, Dated, Loading, Bundles, Loads, NoCache,
              AtRest, NotReading, Is
<1>2. CASE UNCHANGED registryVars
  BY <1>2 DEF registryVars, RegistryIInv, RegistryTyped, Training, Dated, Loading, Is
<1> QED
  BY <1>1, <1>2, TrainerStep, ReaderStep DEF Models

\* However many threads load and cache while models are trained, whatever the metrics
\* and wherever the process stops, nobody scores with a model that was replaced before
\* they began to load it.
THEOREM ServedIsCurrentHolds == RegistrySpec => []ServedIsCurrent
<1>1. RegistryIInv => ServedIsCurrent
  BY DEF RegistryIInv, ServedIsCurrent, Loading
<1> QED
  BY <1>1, RegistryStarts, RegistryStep, PTL DEF RegistrySpec

-----------------------------------------------------------------------------
(***************************************************************************)
(* Tickets and pairing codes.  What is kept was never opened, and a device *)
(* is only ever reported by an agent that has its token.                   *)
(***************************************************************************)

Tickets(E) == [job : Watched, expires : E, kept : BOOLEAN, opened : Seq(Watched)]
Codes(E)   == [expires : E, used : BOOLEAN]
Agents     == [code : Nat, revoked : BOOLEAN, devices : SUBSET Drives, known : BOOLEAN]

CodesTyped ==
  /\ \E E : tickets \in Seq(Tickets(E))
  /\ \E E : codes \in Seq(Codes(E))
  /\ rooms \in [Watched -> SUBSET Nat]
  /\ agents \in Seq(Agents)

TicketOnce(k) ==
  /\ tickets[k].opened \in {<<>>, <<tickets[k].job>>}
  /\ tickets[k].opened # <<>> => ~tickets[k].kept
  /\ \A j \in Watched : k \in rooms[j] => tickets[k].opened = <<j>>

TicketsOnce ==
  /\ \A k \in DOMAIN tickets : TicketOnce(k)
  /\ \A j \in Watched : rooms[j] \subseteq DOMAIN tickets

AgentsOnce ==
  /\ \A a, b \in DOMAIN agents : agents[a].code = agents[b].code => a = b
  /\ \A a \in DOMAIN agents :
       /\ agents[a].code \in DOMAIN codes /\ codes[agents[a].code].used
       /\ agents[a].devices # {} => agents[a].known

CodesIInv == CodesTyped /\ TicketsOnce /\ AgentsOnce

LEMMA CodesStart == CodesInit => CodesIInv
<1> SUFFICES ASSUME CodesInit PROVE CodesIInv
  OBVIOUS
<1>1. /\ tickets \in Seq(Tickets({})) /\ codes \in Seq(Codes({})) /\ agents \in Seq(Agents)
      /\ DOMAIN tickets = {} /\ DOMAIN agents = {}
  BY DEF CodesInit
<1> QED
  BY <1>1 DEF CodesInit, CodesIInv, CodesTyped, TicketsOnce, AgentsOnce

\* A new ticket is in no room yet; those that expired are dropped.
LEMMA TicketIssued ==
  ASSUME CodesIInv, NEW j \in Watched, issue_ticket(j)
  PROVE  CodesIInv'
<1> DEFINE n == Len(tickets)
           Kept == [k \in DOMAIN tickets |->
                     [tickets[k] EXCEPT !.kept = @ /\ tickets[k].expires >= clock]]
           new == [job |-> j, expires |-> clock + TICKET_TTL, kept |-> TRUE, opened |-> <<>>]
<1>1. PICK E : tickets \in Seq(Tickets(E))
  BY DEF CodesIInv, CodesTyped
<1>2. /\ n \in Nat /\ DOMAIN tickets = 1..n /\ \A k \in 1..n : tickets[k] \in Tickets(E)
      /\ tickets' = Append(Kept, new) /\ UNCHANGED <<codes, rooms, agents>>
  BY <1>1 DEF issue_ticket
<1> DEFINE F == E \cup {clock + TICKET_TTL}
<1>3. \A k \in 1..n : /\ Kept[k] \in Tickets(F) /\ Kept[k].job = tickets[k].job
                      /\ Kept[k].opened = tickets[k].opened
                      /\ Kept[k].kept => tickets[k].kept
  BY <1>2 DEF Tickets
<1>4. new \in Tickets(F) /\ new.opened = <<>>
  BY DEF Tickets
<1>5. Kept \in [1..n -> Tickets(F)]
  BY <1>2, <1>3
<1> HIDE DEF Kept, new, n, F
<1>6. Kept \in Seq(Tickets(F)) /\ Len(Kept) = n
  BY <1>2, <1>5
<1>7. /\ tickets' \in Seq(Tickets(F)) /\ DOMAIN tickets' = 1..(n + 1)
      /\ tickets'[n + 1] = new /\ \A k \in 1..n : tickets'[k] = Kept[k]
  BY <1>2, <1>4, <1>6
<1>8. TicketsOnce'
  BY <1>2, <1>3, <1>4, <1>7 DEF CodesIInv, TicketsOnce, TicketOnce
<1> QED
  BY <1>2, <1>7, <1>8 DEF CodesIInv, CodesTyped, AgentsOnce

\* A socket opens only with a ticket that is kept, and nobody keeps it.
LEMMA SocketOpens ==
  ASSUME CodesIInv, NEW k \in DOMAIN tickets, NEW j \in Watched,
         job_websocket(k, j) \/ Disconnect(k, j)
  PROVE  CodesIInv'
<1>1. PICK E : tickets \in Seq(Tickets(E))
  BY DEF CodesIInv, CodesTyped
<1>2. /\ Len(tickets) \in Nat /\ DOMAIN tickets = 1..Len(tickets)
      /\ \A i \in DOMAIN tickets : tickets[i] \in Tickets(E)
      /\ UNCHANGED <<codes, agents>>
  BY <1>1 DEF job_websocket, Disconnect
<1>3. CASE Disconnect(k, j)
  BY <1>1, <1>2, <1>3 DEF Disconnect, CodesIInv, CodesTyped, TicketsOnce, TicketOnce, AgentsOnce
<1>4. CASE job_websocket(k, j)
  <2> DEFINE new == [tickets[k] EXCEPT !.kept = FALSE, !.opened = Opened(k, j)]
  <2>0. tickets' = [tickets EXCEPT ![k] = new]
    BY <1>4 DEF job_websocket
  <2>a. Good(k, j) => tickets[k].opened = <<>> /\ tickets[k].job = j
    BY <1>2 DEF Good, CodesIInv, TicketsOnce, TicketOnce, Tickets
  <2>b. tickets[k].opened \in Seq(Watched) /\ <<j>> \in Seq(Watched) /\ Append(<<>>, j) = <<j>>
    BY <1>2 DEF Tickets
  <2>c. Opened(k, j) = IF Good(k, j) THEN <<j>> ELSE tickets[k].opened
    BY <2>a, <2>b DEF Opened
  <2>1. new \in Tickets(E) /\ new.job = tickets[k].job /\ ~new.kept /\ new.opened = Opened(k, j)
    BY <1>2, <2>b, <2>c DEF Tickets
  <2> HIDE DEF new
  <2>2. IF Good(k, j) THEN tickets[k].opened = <<>> /\ tickets[k].job = j /\ new.opened = <<j>>
        ELSE new.opened = tickets[k].opened
    BY <2>a, <2>c, <2>1
  <2>3. /\ tickets' \in Seq(Tickets(E)) /\ DOMAIN tickets' = DOMAIN tickets /\ tickets'[k] = new
        /\ \A i \in DOMAIN tickets : i # k => tickets'[i] = tickets[i]
    BY <1>1, <1>2, <2>0, <2>1
  <2>4. /\ rooms' \in [Watched -> SUBSET Nat]
        /\ \A i \in Watched : rooms'[i] = IF i = j /\ Good(k, j) THEN rooms[i] \cup {k} ELSE rooms[i]
    <3>1. rooms \in [Watched -> SUBSET Nat] /\ k \in Nat
      BY <1>2 DEF CodesIInv, CodesTyped
    <3> QED
      BY <1>4, <3>1 DEF job_websocket
  <2>5. TicketsOnce'
    <3>1. \A i \in DOMAIN tickets : i # k => TicketOnce(i)'
      BY <2>3, <2>4 DEF CodesIInv, TicketsOnce, TicketOnce
    <3>2. \A i \in Watched : k \in rooms[i] => ~Good(k, j) /\ tickets[k].opened = <<i>>
      BY <2>a, \A i : <<i>> # <<>> DEF CodesIInv, TicketsOnce, TicketOnce
    <3>3. TicketOnce(k)'
      BY <2>1, <2>2, <2>3, <2>4, <3>2 DEF CodesIInv, TicketsOnce, TicketOnce
    <3>4. \A i \in Watched : rooms'[i] \subseteq DOMAIN tickets'
      BY <2>3, <2>4 DEF CodesIInv, TicketsOnce
    <3> QED
      BY <2>3, <3>1, <3>3, <3>4 DEF TicketsOnce
  <2> QED
    BY <1>1, <1>2, <2>3, <2>4, <2>5 DEF CodesIInv, CodesTyped, AgentsOnce
<1> QED
  BY <1>3, <1>4

\* A code is claimed by the one agent that is made of it, if any.
LEMMA CodeClaimed ==
  ASSUME CodesIInv, NEW k \in DOMAIN codes, register_agent(k)
  PROVE  CodesIInv'
<1>1. PICK E : codes \in Seq(Codes(E))
  BY DEF CodesIInv, CodesTyped
<1>2. /\ agents \in Seq(Agents) /\ Len(agents) \in Nat /\ DOMAIN agents = 1..Len(agents)
      /\ k \in Nat /\ UNCHANGED <<tickets, rooms>>
  BY <1>1 DEF CodesIInv, CodesTyped, register_agent
<1> DEFINE claimed == [codes[k] EXCEPT !.used = TRUE]
<1>a. ~codes[k].used /\ codes' = [codes EXCEPT ![k] = claimed]
  BY DEF register_agent, Claim
<1>b. claimed \in Codes(E) /\ claimed.used
  <2>1. codes[k] \in Codes(E)
    BY <1>1
  <2> QED
    BY <2>1 DEF Codes
<1> HIDE DEF claimed
<1>3. /\ codes' \in Seq(Codes(E)) /\ DOMAIN codes' = DOMAIN codes
      /\ ~codes[k].used /\ codes'[k].used
      /\ \A i \in DOMAIN codes : codes[i].used => codes'[i].used
  BY <1>1, <1>a, <1>b
<1>4. \A a \in DOMAIN agents : agents[a].code # k
  BY <1>3 DEF CodesIInv, AgentsOnce
<1>5. CodesTyped' /\ AgentsOnce'
  <2>1. CASE UNCHANGED agents
    BY <1>2, <1>3, <2>1 DEF CodesIInv, CodesTyped, AgentsOnce
  <2>2. ASSUME NEW known \in BOOLEAN, agents' = Made(k, known)
        PROVE  CodesTyped' /\ AgentsOnce'
    <3> DEFINE new == [code |-> k, revoked |-> FALSE, devices |-> {}, known |-> known]
    <3>1. new \in Agents /\ new.code = k /\ new.devices = {}
      BY <1>2 DEF Agents
    <3>2. agents' = Append(agents, new)
      BY <2>2 DEF Made
    <3> HIDE DEF new
    <3>3. /\ agents' \in Seq(Agents) /\ DOMAIN agents' = 1..(Len(agents) + 1)
          /\ agents'[Len(agents) + 1] = new
          /\ \A a \in DOMAIN agents : agents'[a] = agents[a]
      BY <1>2, <3>1, <3>2
    <3>4. CodesTyped'
      BY <1>2, <1>3, <3>3 DEF CodesIInv, CodesTyped
    <3>a. \A a \in DOMAIN agents' : a # Len(agents) + 1 => a \in DOMAIN agents
      BY <1>2, <3>3
    <3>b. \A a, b \in DOMAIN agents' : agents'[a].code = agents'[b].code => a = b
      <4> SUFFICES ASSUME NEW a \in DOMAIN agents', NEW b \in DOMAIN agents',
                          agents'[a].code = agents'[b].code
                   PROVE  a = b
        OBVIOUS
      <4>1. CASE a \in DOMAIN agents /\ b \in DOMAIN agents
        BY <3>3, <4>1 DEF CodesIInv, AgentsOnce
      <4>2. CASE a \notin DOMAIN agents \/ b \notin DOMAIN agents
        BY <1>4, <3>1, <3>3, <3>a, <4>2
      <4> QED
        BY <4>1, <4>2
    <3>c. \A a \in DOMAIN agents' :
            /\ agents'[a].code \in DOMAIN codes' /\ codes'[agents'[a].code].used
            /\ agents'[a].devices # {} => agents'[a].known
      <4> SUFFICES ASSUME NEW a \in DOMAIN agents'
                   PROVE  /\ agents'[a].code \in DOMAIN codes' /\ codes'[agents'[a].code].used
                          /\ agents'[a].devices # {} => agents'[a].known
        OBVIOUS
      <4>1. CASE a = Len(agents) + 1
        BY <1>3, <3>1, <3>3, <4>1
      <4>2. CASE a \in DOMAIN agents
        BY <1>3, <3>3, <4>2 DEF CodesIInv, AgentsOnce
      <4> QED
        BY <3>a, <4>1, <4>2
    <3>5. AgentsOnce'
      BY <3>b, <3>c DEF AgentsOnce
    <3> QED
      BY <3>4, <3>5
  <2> QED
    BY <2>1, <2>2 DEF register_agent
<1> QED
  BY <1>2, <1>5 DEF CodesIInv, TicketsOnce, TicketOnce

SameAgent(a, b) == b.code = a.code /\ b.known = a.known /\ (a.known \/ b.devices = a.devices)

\* An agent's row may change in what was revoked and reported.
LEMMA AgentRow ==
  ASSUME CodesIInv, NEW a \in DOMAIN agents, NEW row \in Agents, SameAgent(agents[a], row),
         agents' = [agents EXCEPT ![a] = row], UNCHANGED <<tickets, rooms, codes>>
  PROVE  CodesIInv'
<1>1. /\ agents' \in Seq(Agents) /\ DOMAIN agents' = DOMAIN agents /\ agents'[a] = row
      /\ \A b \in DOMAIN agents : b # a => agents'[b] = agents[b]
  BY DEF CodesIInv, CodesTyped
<1>2. \A b \in DOMAIN agents : SameAgent(agents[b], agents'[b])
  BY <1>1 DEF SameAgent
<1>3. AgentsOnce'
  BY <1>1, <1>2 DEF CodesIInv, AgentsOnce, SameAgent
<1> QED
  BY <1>1, <1>3 DEF CodesIInv, CodesTyped, TicketsOnce, TicketOnce

LEMMA CodesStep == CodesIInv /\ [Sockets \/ Pairing]_codeVars => CodesIInv'
<1> SUFFICES ASSUME CodesIInv, [Sockets \/ Pairing]_codeVars PROVE CodesIInv'
  OBVIOUS
<1>1. CASE create_pairing_code
  <2>1. PICK E : codes \in Seq(Codes(E))
    BY DEF CodesIInv, CodesTyped
  <2> DEFINE F == E \cup {clock + PAIR_TTL}
             new == [expires |-> clock + PAIR_TTL, used |-> FALSE]
  <2>a. \A i \in 1..Len(codes) : codes[i] \in Codes(E)
    BY <2>1
  <2>b. Codes(E) \subseteq Codes(F)
    BY DEF Codes
  <2>c. new \in Codes(F)
    BY DEF Codes
  <2>2. codes' = Append(codes, new) /\ UNCHANGED <<tickets, rooms, agents>>
    BY <1>1 DEF create_pairing_code
  <2> HIDE DEF F, new
  <2>3. codes \in Seq(Codes(F))
    BY <2>1, <2>a, <2>b
  <2>4. /\ codes' \in Seq(Codes(F)) /\ \A i \in DOMAIN codes : i \in DOMAIN codes' /\ codes'[i] = codes[i]
    BY <2>2, <2>3, <2>c
  <2> QED
    BY <2>2, <2>4 DEF CodesIInv, CodesTyped, TicketsOnce, TicketOnce, AgentsOnce
<1>2. ASSUME NEW a \in DOMAIN agents, revoke_agent(a)
      PROVE  CodesIInv'
  <2>1. PICK row : row = [agents[a] EXCEPT !.revoked = TRUE] /\ agents' = [agents EXCEPT ![a] = row]
    BY <1>2 DEF revoke_agent
  <2>2. row \in Agents /\ SameAgent(agents[a], row)
    <3>1. agents[a] \in Agents
      BY DEF CodesIInv, CodesTyped
    <3> QED
      BY <2>1, <3>1 DEF Agents, SameAgent
  <2> QED
    BY <1>2, <2>1, <2>2, AgentRow DEF revoke_agent
<1>3. ASSUME NEW a \in DOMAIN agents, NEW reported \in SUBSET Drives, heartbeat(a, reported)
      PROVE  CodesIInv'
  <2>1. PICK devices \in SUBSET Drives :
          agents' = [agents EXCEPT ![a] = [agents[a] EXCEPT !.devices = devices]]
    BY <1>3 DEF heartbeat
  <2>2. PICK row : row = [agents[a] EXCEPT !.devices = devices] /\ agents' = [agents EXCEPT ![a] = row]
    BY <2>1
  <2>3. row \in Agents /\ SameAgent(agents[a], row)
    <3>1. agents[a] \in Agents /\ agents[a].known
      BY <1>3 DEF CodesIInv, CodesTyped, heartbeat, Known
    <3> QED
      BY <2>2, <3>1 DEF Agents, SameAgent
  <2> QED
    BY <1>3, <2>2, <2>3, AgentRow DEF heartbeat
<1>4. CASE UNCHANGED codeVars
  BY <1>4 DEF codeVars, CodesIInv, CodesTyped, TicketsOnce, TicketOnce, AgentsOnce
<1> QED
  BY <1>1, <1>2, <1>3, <1>4, TicketIssued, SocketOpens, CodeClaimed DEF Sockets, Pairing

\* Whatever the clock shows, however many tickets and codes there are, and wherever the
\* server stops: a ticket opens one socket, a code makes one agent, and no drive is on
\* offer but from an agent that holds its token.
THEOREM SpentOnceHolds == CodesSpec => []SpentOnce
<1>1. CodesIInv => SpentOnce
  <2> SUFFICES ASSUME CodesIInv PROVE SpentOnce
    OBVIOUS
  <2>1. \A k \in DOMAIN tickets :
          /\ Len(tickets[k].opened) <= 1 /\ tickets[k].opened # <<>> => ~tickets[k].kept
          /\ \A j \in Watched : k \in rooms[j] => tickets[k].opened = <<j>> /\ tickets[k].job = j
    BY \A i : <<i>> # <<>> /\ Len(<<i>>) = 1 DEF CodesIInv, TicketsOnce, TicketOnce
  <2>2. \A d \in agent_devices : \E a \in DOMAIN agents : d \in agents[a].devices /\ Known(a)
    BY DEF agent_devices, visible_agents, Known, CodesIInv, AgentsOnce
  <2> QED
    BY <2>1, <2>2 DEF SpentOnce, CodesIInv, AgentsOnce
<1> QED
  BY <1>1, CodesStart, CodesStep, PTL DEF CodesSpec

-----------------------------------------------------------------------------
(***************************************************************************)
(* The anomaly engine.  What a check has found is owed a row until it has  *)
(* one: it stays in the list of the thread that records it, or a row with  *)
(* its key is active, or was closed after it was found.                    *)
(***************************************************************************)

IsList(s) == \E S : s \in Seq(S)

LEMMA ListProperties ==
  ASSUME NEW s, IsList(s)
  PROVE  /\ Len(s) \in Nat /\ DOMAIN s = 1..Len(s)
         /\ s # <<>> <=> Len(s) > 0
BY DEF IsList

LEMMA ListConcat ==
  ASSUME NEW s, NEW u, IsList(s), IsList(u)
  PROVE  /\ IsList(s \o u) /\ Len(s \o u) = Len(s) + Len(u)
         /\ \A i \in 1..Len(s) : (s \o u)[i] = s[i]
         /\ \A i \in 1..Len(u) : (s \o u)[Len(s) + i] = u[i]
<1>1. PICK S, T : s \in Seq(S) /\ u \in Seq(T)
  BY DEF IsList
<1>2. s \in Seq(S \cup T) /\ u \in Seq(S \cup T) /\ Len(s) \in Nat /\ Len(u) \in Nat
  BY <1>1
<1>3. /\ s \o u \in Seq(S \cup T) /\ Len(s \o u) = Len(s) + Len(u)
      /\ \A i \in 1..Len(s) + Len(u) : (s \o u)[i] = IF i <= Len(s) THEN s[i] ELSE u[i - Len(s)]
  BY <1>2, ConcatProperties, Zenon
<1> QED
  BY <1>2, <1>3 DEF IsList

LEMMA ListAppend ==
  ASSUME NEW s, NEW x, IsList(s)
  PROVE  /\ IsList(Append(s, x)) /\ Len(Append(s, x)) = Len(s) + 1
         /\ Append(s, x)[Len(s) + 1] = x
         /\ \A i \in DOMAIN s : Append(s, x)[i] = s[i]
<1>1. PICK S : s \in Seq(S)
  BY DEF IsList
<1>2. s \in Seq(S \cup {x}) /\ x \in S \cup {x} /\ DOMAIN s = 1..Len(s)
  BY <1>1
<1> QED
  BY <1>2, AppendProperties DEF IsList

LEMMA ListTail ==
  ASSUME NEW s, IsList(s), s # <<>>
  PROVE  /\ IsList(Tail(s)) /\ Len(Tail(s)) = Len(s) - 1
         /\ \A i \in 1..Len(Tail(s)) : Tail(s)[i] = s[i + 1]
BY HeadTailProperties DEF IsList

Holds(s, x) == \E i \in DOMAIN s : s[i] = x

LEMMA WhenList ==
  ASSUME NEW condition, NEW key
  PROVE  IsList(When(condition, key)) /\ (condition => Holds(When(condition, key), key))
<1>1. <<key>> \in Seq({key}) /\ <<>> \in Seq({key}) /\ 1 \in DOMAIN <<key>> /\ <<key>>[1] = key
  OBVIOUS
<1> QED
  BY <1>1 DEF When, IsList, Holds

LEMMA ConcatHolds ==
  ASSUME NEW s, NEW u, IsList(s), IsList(u), NEW x, Holds(s, x) \/ Holds(u, x)
  PROVE  Holds(s \o u, x)
<1>1. /\ Len(s) \in Nat /\ DOMAIN s = 1..Len(s) /\ Len(u) \in Nat /\ DOMAIN u = 1..Len(u)
      /\ DOMAIN (s \o u) = 1..(Len(s) + Len(u))
  BY ListProperties, ListConcat
<1>2. CASE Holds(s, x)
  <2>1. PICK i \in 1..Len(s) : s[i] = x
    BY <1>1, <1>2 DEF Holds
  <2>2. i \in DOMAIN (s \o u) /\ (s \o u)[i] = x
    BY <1>1, <2>1, ListConcat
  <2> QED
    BY <2>2 DEF Holds
<1>3. CASE Holds(u, x)
  <2>1. PICK i \in 1..Len(u) : u[i] = x
    BY <1>1, <1>3 DEF Holds
  <2>2. Len(s) + i \in DOMAIN (s \o u) /\ (s \o u)[Len(s) + i] = x
    BY <1>1, <2>1, ListConcat
  <2> QED
    BY <2>2 DEF Holds
<1> QED
  BY <1>2, <1>3

\* A thread, and what it has yet to record: while it announces a row, the rest.
Recorder(b) ==
  /\ b = [pc |-> b.pc, keys |-> b.keys, row |-> b.row, strict |-> b.strict]
  /\ b.pc \in {"idle", "check", "find", "insert", "log"}
  /\ b.keys # <<>> <=> b.pc \in {"find", "insert", "log"}
  /\ IsList(b.keys) /\ b.row \in Nat /\ b.strict \in BOOLEAN

Left(b, key) == \E i \in DOMAIN b.keys : b.keys[i] = key /\ (b.pc = "log" => i # 1)

IsRow(r) ==
  /\ r = [key |-> r.key, status |-> r.status, events |-> r.events, closed |-> r.closed]
  /\ r.status \in {"open", "acknowledged", "resolved"}
  /\ r.events \in Nat /\ r.closed \in Nat

LEMMA RecordingLeaves ==
  ASSUME NEW keys, IsList(keys), NEW strict \in BOOLEAN
  PROVE  /\ Recorder(Recording(keys, strict))
         /\ Recording(keys, strict).pc \in {"idle", "find"}
         /\ \A x : Holds(keys, x) => Left(Recording(keys, strict), x)
<1>1. CASE keys = <<>>
  <2>1. Recording(keys, strict) = Idle /\ ~\E x : Holds(keys, x)
    BY <1>1 DEF Recording, Holds
  <2>2. IsList(<<>>)
    BY <1>1
  <2> QED
    BY <2>1, <2>2 DEF Idle, Recorder
<1>2. CASE keys # <<>>
  <2>1. PICK b : b = [pc |-> "find", keys |-> keys, row |-> 0, strict |-> strict]
                 /\ b = Recording(keys, strict)
    <3>1. PICK idle : idle = [pc |-> "idle", keys |-> <<>>, row |-> 0, strict |-> FALSE]
      OBVIOUS
    <3>2. PICK b : b = [idle EXCEPT !.pc = "find", !.keys = keys, !.strict = strict]
      OBVIOUS
    <3>3. b = [pc |-> "find", keys |-> keys, row |-> 0, strict |-> strict]
      BY <3>1, <3>2
    <3>4. b = Recording(keys, strict)
      BY <1>2, <3>1, <3>2 DEF Recording, Idle
    <3> QED
      BY <3>3, <3>4
  <2>2. b.pc = "find" /\ b.keys = keys /\ b.row = 0 /\ b.strict = strict
    BY <2>1
  <2>3. Recorder(b)
    BY <1>2, <2>1, <2>2 DEF Recorder
  <2>4. \A x : Holds(keys, x) => Left(b, x)
    BY <2>2 DEF Holds, Left
  <2> QED
    BY <2>1, <2>2, <2>3, <2>4
<1> QED
  BY <1>1, <1>2

\* The next key: the first one is dropped, and no other.
LEMMA NextLeaves ==
  ASSUME NEW b, Recorder(b), b.keys # <<>>,
         NEW new, new = Recording(Tail(b.keys), b.strict)
  PROVE  /\ Recorder(new) /\ new.pc \in {"idle", "find"}
         /\ \A x : Left(b, x) /\ (b.pc = "log" \/ x # b.keys[1]) => Left(new, x)
<1>1. IsList(b.keys) /\ b.strict \in BOOLEAN
  BY DEF Recorder
<1>2. /\ IsList(Tail(b.keys)) /\ Len(Tail(b.keys)) = Len(b.keys) - 1 /\ Len(b.keys) \in Nat
      /\ DOMAIN b.keys = 1..Len(b.keys) /\ DOMAIN Tail(b.keys) = 1..Len(Tail(b.keys))
      /\ \A i \in 1..Len(Tail(b.keys)) : Tail(b.keys)[i] = b.keys[i + 1]
  BY <1>1, ListTail, ListProperties
<1>3. ASSUME NEW x, Left(b, x), b.pc = "log" \/ x # b.keys[1] PROVE Holds(Tail(b.keys), x)
  <2>1. PICK i \in 1..Len(b.keys) : b.keys[i] = x /\ i # 1
    BY <1>2, <1>3 DEF Left
  <2>2. i - 1 \in 1..Len(Tail(b.keys)) /\ Tail(b.keys)[i - 1] = x
    BY <1>2, <2>1
  <2> QED
    BY <1>2, <2>2 DEF Holds
<1> QED
  BY <1>1, <1>2, <1>3, RecordingLeaves

AnomaliesTyped ==
  /\ IsList(failures) /\ IsList(done) /\ IsList(anomalies) /\ faults \in Nat
  /\ \A i \in DOMAIN done : done[i].job \in Jobs
  /\ \A i \in DOMAIN anomalies : IsRow(anomalies[i])
  /\ busy = [t \in Threads |-> busy[t]]
  /\ \A t \in Threads : Recorder(busy[t])

OneActive ==
  \A i, j \in DOMAIN anomalies :
    anomalies[i].key = anomalies[j].key /\ anomalies[i].key # NoKey /\ IsActive(i) /\ IsActive(j)
      => i = j

Announcing(t, i) == busy[t].pc = "log" /\ busy[t].row = i

\* A row is announced by the thread that inserted it, and by no other.
Announced ==
  /\ \A i \in DOMAIN anomalies :
       /\ anomalies[i].events <= 1
       /\ anomalies[i].events = 0 => faults > 0 \/ \E t \in Threads : Announcing(t, i)
  /\ \A t \in Threads : busy[t].pc = "log" =>
       /\ busy[t].row \in DOMAIN anomalies /\ anomalies[busy[t].row].events = 0
       /\ \A u \in Threads : Announcing(u, busy[t].row) => u = t

Owed(key, moment) == Raised(key, moment) \/ \E t \in Threads : Left(busy[t], key)

Reached(i) ==
  LIMIT <= Cardinality({j \in 1..i : failures[j].email = failures[i].email
                                     /\ failures[j].at + WINDOW >= failures[i].at})

BruteForceOwed ==
  \A i \in DOMAIN failures : Reached(i) =>
    Owed(<<"brute_force", failures[i].email, failures[i].at \div WINDOW>>, i)

Again(j) == \E i \in DOMAIN done :
  /\ i < j /\ done[i].ok /\ done[j].ok
  /\ serial_of[done[i].job] = serial_of[done[j].job]

RepeatOwed ==
  \A j \in DOMAIN done : Again(j) =>
    \/ Owed(<<"repeat", serial_of[done[j].job], day>>, j)
    \/ busy[done[j].job].pc = "check"

AnomaliesIInv ==
  /\ AnomaliesTyped /\ OneActive /\ Announced
  /\ faults = 0 => BruteForceOwed /\ RepeatOwed

LEMMA AnomaliesStart == AnomaliesInit => AnomaliesIInv
<1> SUFFICES ASSUME AnomaliesInit PROVE AnomaliesIInv
  OBVIOUS
<1>1. IsList(<<>>) /\ DOMAIN <<>> = {}
  BY <<>> \in Seq({}) DEF IsList
<1>2. Recorder(Idle) /\ Idle.pc = "idle"
  BY <1>1 DEF Recorder, Idle
<1> QED
  BY <1>1, <1>2 DEF AnomaliesInit, AnomaliesIInv, AnomaliesTyped, OneActive, Announced,
     BruteForceOwed, RepeatOwed

\* A thread that stops announcing without having done so has met an exception.
LEMMA ThreadMoves ==
  ASSUME AnomaliesIInv, NEW t \in Threads, NEW new, busy' = [busy EXCEPT ![t] = new],
         Recorder(new), new.pc # "log", UNCHANGED anomalies,
         faults' \in Nat, faults' >= faults, busy[t].pc = "log" => faults' > 0,
         IsList(failures'), IsList(done'), \A i \in DOMAIN done' : done'[i].job \in Jobs
  PROVE  AnomaliesTyped' /\ OneActive' /\ Announced'
<1>1. /\ busy' = [u \in Threads |-> busy'[u]] /\ busy'[t] = new
      /\ \A u \in Threads : u # t => busy'[u] = busy[u]
  BY DEF AnomaliesIInv, AnomaliesTyped
<1>2. AnomaliesTyped'
  BY <1>1 DEF AnomaliesIInv, AnomaliesTyped
<1>3. OneActive'
  BY DEF AnomaliesIInv, OneActive, IsActive
<1>4. \A u \in Threads, i \in DOMAIN anomalies :
        /\ Announcing(u, i)' => u # t /\ Announcing(u, i)
        /\ Announcing(u, i) /\ ~Announcing(u, i)' => faults' > 0
  BY <1>1 DEF Announcing
<1>5. Announced'
  <2>1. ASSUME NEW i \in DOMAIN anomalies
        PROVE  /\ anomalies[i].events <= 1
               /\ anomalies[i].events = 0 => faults' > 0 \/ \E u \in Threads : Announcing(u, i)'
    BY <1>4 DEF AnomaliesIInv, AnomaliesTyped, Announced
  <2>2. ASSUME NEW u \in Threads, busy'[u].pc = "log"
        PROVE  /\ busy'[u].row \in DOMAIN anomalies /\ anomalies[busy'[u].row].events = 0
               /\ \A v \in Threads : Announcing(v, busy[u].row)' => v = u
               /\ busy'[u].row = busy[u].row
    <3>1. u # t /\ busy'[u] = busy[u]
      BY <1>1, <2>2
    <3>2. busy[u].row \in DOMAIN anomalies
      BY <2>2, <3>1 DEF AnomaliesIInv, Announced
    <3> QED
      BY <1>4, <2>2, <3>1, <3>2 DEF AnomaliesIInv, Announced
  <2> QED
    BY <2>1, <2>2 DEF Announced
<1> QED
  BY <1>2, <1>3, <1>5

\* What a thread no longer lists has a row.
LEMMA OwedMoves ==
  ASSUME AnomaliesIInv, NEW t \in Threads, NEW new, busy' = [busy EXCEPT ![t] = new],
         UNCHANGED anomalies, NEW key, NEW moment, Owed(key, moment),
         Left(busy[t], key) => Left(new, key) \/ Raised(key, moment)
  PROVE  Owed(key, moment)'
<1>1. busy'[t] = new /\ \A u \in Threads : u # t => busy'[u] = busy[u]
  BY DEF AnomaliesIInv, AnomaliesTyped
<1>2. Raised(key, moment)' <=> Raised(key, moment)
  BY DEF Raised, Same, IsActive
<1>3. CASE Raised(key, moment)
  BY <1>2, <1>3 DEF Owed
<1>4. CASE ~Raised(key, moment)
  <2>1. PICK u \in Threads : Left(busy[u], key)
    BY <1>4 DEF Owed
  <2>2. Left(busy'[u], key)
    BY <1>1, <1>4, <2>1
  <2>3. Left(busy[u], key)'
    BY <2>2 DEF Left
  <2> QED
    BY <2>3 DEF Owed
<1> QED
  BY <1>3, <1>4

IsOwing(key) == key[1] \in {"brute_force", "repeat"}

\* What was found stays owed while nothing new is found.
LEMMA StillOwed ==
  ASSUME BruteForceOwed, RepeatOwed, AnomaliesTyped, UNCHANGED <<failures, done>>,
         \A j \in Jobs : busy[j].pc = "check" => busy'[j].pc = "check",
         \A key, moment : IsOwing(key) /\ moment \in 1..Moment /\ Owed(key, moment)
                            => Owed(key, moment)'
  PROVE  BruteForceOwed' /\ RepeatOwed'
<1>1. /\ Len(failures) \in Nat /\ DOMAIN failures = 1..Len(failures)
      /\ Len(done) \in Nat /\ DOMAIN done = 1..Len(done)
  BY ListProperties DEF AnomaliesTyped
<1>2. DOMAIN failures \subseteq 1..Moment /\ DOMAIN done \subseteq 1..Moment
  BY <1>1 DEF Moment
<1>3. \A i : Reached(i)' <=> Reached(i)
  BY DEF Reached
<1>4. BruteForceOwed'
  <2> SUFFICES ASSUME NEW i \in DOMAIN failures', Reached(i)'
               PROVE  Owed(<<"brute_force", failures[i].email, failures[i].at \div WINDOW>>, i)'
    BY DEF BruteForceOwed
  <2> DEFINE key == <<"brute_force", failures[i].email, failures[i].at \div WINDOW>>
  <2>1. IsOwing(key) /\ i \in 1..Moment /\ Owed(key, i)
    BY <1>2, <1>3 DEF BruteForceOwed, IsOwing
  <2>2. key' = key
    OBVIOUS
  <2> QED
    BY <2>1, <2>2
<1>5. RepeatOwed'
  <2> SUFFICES ASSUME NEW j \in DOMAIN done', Again(j)', busy'[done[j].job].pc # "check"
               PROVE  Owed(<<"repeat", serial_of[done[j].job], day>>, j)'
    BY DEF RepeatOwed
  <2> DEFINE key == <<"repeat", serial_of[done[j].job], day>>
  <2>1. Again(j) /\ done[j].job \in Jobs
    BY DEF Again, AnomaliesTyped
  <2>2. IsOwing(key) /\ j \in 1..Moment /\ Owed(key, j)
    BY <1>2, <2>1 DEF RepeatOwed, IsOwing
  <2> QED
    BY <2>2
<1> QED
  BY <1>4, <1>5

\* A thread with nothing to record begins with what a check has found.
LEMMA Begins ==
  ASSUME AnomaliesIInv, NEW t \in Threads, Free(t), NEW keys, IsList(keys),
         NEW strict \in BOOLEAN, busy' = [busy EXCEPT ![t] = Recording(keys, strict)],
         UNCHANGED <<anomalies, faults, failures, done>>
  PROVE  AnomaliesIInv'
<1> DEFINE new == Recording(keys, strict)
<1>1. /\ Recorder(new) /\ new.pc \in {"idle", "find"}
      /\ busy' = [busy EXCEPT ![t] = new] /\ busy[t].pc = "idle"
  BY RecordingLeaves DEF Free
<1> HIDE DEF new
<1>2. faults \in Nat /\ IsList(failures) /\ IsList(done) /\ \A i \in DOMAIN done : done[i].job \in Jobs
  BY DEF AnomaliesIInv, AnomaliesTyped
<1>a. /\ UNCHANGED anomalies /\ faults' \in Nat /\ faults' >= faults
      /\ busy[t].pc # "log" /\ new.pc # "log"
      /\ IsList(failures') /\ IsList(done') /\ \A i \in DOMAIN done' : done'[i].job \in Jobs
  BY <1>1, <1>2
<1>3. AnomaliesTyped' /\ OneActive' /\ Announced'
  BY <1>1, <1>a, ThreadMoves
<1>4. \A key, moment : Owed(key, moment) => Owed(key, moment)'
  <2>1. ~\E key : Left(busy[t], key)
    BY DEF Free, Left, AnomaliesIInv, AnomaliesTyped, Recorder
  <2> QED
    BY <1>1, <2>1, OwedMoves
<1>5. \A j \in Jobs : busy[j].pc = "check" => busy'[j].pc = "check"
  BY DEF Free, AnomaliesIInv, AnomaliesTyped, Threads
<1>6. faults' = 0 => BruteForceOwed' /\ RepeatOwed'
  BY <1>4, <1>5, StillOwed DEF AnomaliesIInv
<1> QED
  BY <1>3, <1>6 DEF AnomaliesIInv

LEMMA RoleRaisesStep == ASSUME AnomaliesIInv, RoleRises PROVE AnomaliesIInv'
<1>1. IsList(<<NoKey>>)
  BY <<NoKey>> \in Seq({NoKey}) DEF IsList
<1> QED
  BY <1>1, Begins DEF RoleRises, Threads

LEMMA NightlyStep == ASSUME AnomaliesIInv, NEW j \in Jobs, Nightly(j) PROVE AnomaliesIInv'
<1> DEFINE key == <<"duration", j, 0>>
<1>1. IsList(<<key>>)
  BY <<key>> \in Seq({key}) DEF IsList
<1> QED
  BY <1>1, Begins DEF Nightly, Threads

LEMMA LoginSuccessStep ==
  ASSUME AnomaliesIInv, NEW user, NEW ip, LoginSuccess(user, ip)
  PROVE  AnomaliesIInv'
<1>1. PICK odd \in BOOLEAN :
        busy' = [busy EXCEPT !["loop"] = Recording(NewLogin(user, ip, logins, odd), FALSE)]
  BY DEF LoginSuccess
<1>2. IsList(NewLogin(user, ip, logins, odd))
  BY ListConcat, WhenList DEF NewLogin
<1> QED
  BY <1>1, <1>2, Begins DEF LoginSuccess, Threads

LEMMA DeviceSeenStep ==
  ASSUME AnomaliesIInv, NEW serial, NEW s, DeviceSeen(serial, s)
  PROVE  AnomaliesIInv'
<1>1. IsList(<<Snapshot(serial)>>)
  BY <<Snapshot(serial)>> \in Seq({Snapshot(serial)}) DEF IsList
<1>2. IsList(SmartAnomalies(serial, s) \o <<Snapshot(serial)>>)
  BY <1>1, ListConcat, WhenList DEF SmartAnomalies
<1> QED
  BY <1>2, Begins DEF DeviceSeen, Threads

\* The failure that reaches the limit is found by the check that follows it.
LEMMA LoginFailedStep ==
  ASSUME AnomaliesIInv, NEW email, NEW ip, LoginFailed(email, ip)
  PROVE  AnomaliesIInv'
<1> DEFINE event == [email |-> email, ip |-> ip, at |-> clock]
           keys == FailedLogins(email, ip, failures')
           new == Recording(keys, TRUE)
           n == Len(failures) + 1
<1>1. /\ IsList(failures) /\ IsList(done) /\ faults \in Nat /\ faults' = faults
      /\ \A i \in DOMAIN done : done[i].job \in Jobs
      /\ UNCHANGED <<done, anomalies>> /\ "loop" \in Threads
      /\ busy' = [busy EXCEPT !["loop"] = new] /\ failures' = Append(failures, event)
      /\ busy["loop"].pc = "idle"
  BY DEF LoginFailed, Free, AnomaliesIInv, AnomaliesTyped, Threads
<1>2. /\ Len(failures) \in Nat /\ DOMAIN failures = 1..Len(failures)
      /\ IsList(failures') /\ DOMAIN failures' = 1..n
      /\ failures'[n] = event /\ \A i \in DOMAIN failures : failures'[i] = failures[i]
  BY <1>1, ListProperties, ListAppend
<1>3. IsList(keys)
  BY ListConcat, WhenList DEF FailedLogins
<1>4. /\ Recorder(new) /\ new.pc \in {"idle", "find"}
      /\ \A x : Holds(keys, x) => Left(new, x)
  BY <1>3, RecordingLeaves
<1> HIDE DEF new, keys, event
<1>a. /\ UNCHANGED anomalies /\ faults' \in Nat /\ faults' >= faults
      /\ busy["loop"].pc # "log" /\ new.pc # "log"
      /\ IsList(failures') /\ IsList(done') /\ \A i \in DOMAIN done' : done'[i].job \in Jobs
  BY <1>1, <1>2, <1>4
<1>5. AnomaliesTyped' /\ OneActive' /\ Announced'
  BY <1>1, <1>4, <1>a, ThreadMoves
<1>6. \A key, moment : Owed(key, moment) => Owed(key, moment)'
  <2>1. ~\E key : Left(busy["loop"], key)
    BY <1>1 DEF LoginFailed, Free, Left, AnomaliesIInv, AnomaliesTyped, Recorder
  <2> QED
    BY <1>1, <2>1, OwedMoves
<1>7. ASSUME faults = 0 PROVE BruteForceOwed'
  <2> SUFFICES ASSUME NEW i \in 1..n, Reached(i)'
               PROVE  Owed(<<"brute_force", failures[i].email, failures[i].at \div WINDOW>>, i)'
    BY <1>2 DEF BruteForceOwed
  <2> DEFINE key == <<"brute_force", failures[i].email, failures[i].at \div WINDOW>>
  <2>1. CASE i # n
    <3>1. i \in DOMAIN failures /\ \A j \in 1..i : j \in DOMAIN failures /\ failures'[j] = failures[j]
      BY <1>2, <2>1
    <3>2. {j \in 1..i : failures'[j].email = failures'[i].email
                        /\ failures'[j].at + WINDOW >= failures'[i].at}
          = {j \in 1..i : failures[j].email = failures[i].email
                          /\ failures[j].at + WINDOW >= failures[i].at}
      BY <1>2, <3>1
    <3>3. Reached(i)
      BY <3>2, Zenon DEF Reached
    <3>4. PICK k : k = key
      OBVIOUS
    <3>5. Owed(k, i)'
      BY <1>6, <1>7, <3>1, <3>3, <3>4 DEF AnomaliesIInv, BruteForceOwed
    <3>6. k = key'
      BY <3>1, <3>4
    <3> QED
      BY <3>5, <3>6
  <2>2. CASE i = n
    <3> DEFINE seen == {j \in 1..n : failures'[j].at + WINDOW >= clock}
               found == <<"brute_force", email, bucket>>
    <3>1. failures'[n].email = email /\ failures'[n].at = clock
      BY <1>2 DEF event
    <3>2. {j \in seen : failures'[j].email = email}
          = {j \in 1..n : failures'[j].email = email /\ failures'[j].at + WINDOW >= clock}
      OBVIOUS
    <3>3. Cardinality({j \in seen : failures'[j].email = email}) >= LIMIT
      BY <2>2, <3>1, <3>2 DEF Reached
    <3>4. Holds(keys, found)
      BY <1>2, <3>3, WhenList, ConcatHolds DEF keys, FailedLogins
    <3>5. Left(busy'["loop"], found)
      BY <1>1, <1>4, <3>4 DEF AnomaliesIInv, AnomaliesTyped
    <3>6. found = key'
      BY <2>2, <3>1 DEF bucket
    <3>7. PICK k : k = found
      OBVIOUS
    <3>8. \E u \in Threads : Left(busy[u], k)'
      BY <1>1, <3>5, <3>7 DEF Left
    <3> QED
      BY <3>6, <3>7, <3>8 DEF Owed
  <2> QED
    BY <2>1, <2>2
<1>8. ASSUME faults = 0 PROVE RepeatOwed'
  <2>1. \A j \in Jobs : busy[j].pc = "check" => busy'[j].pc = "check"
    BY <1>1 DEF LoginFailed, Free, AnomaliesIInv, AnomaliesTyped, Threads
  <2>2. \A j : Again(j)' <=> Again(j)
    BY <1>1 DEF Again
  <2> QED
    BY <1>1, <1>6, <1>8, <2>1, <2>2 DEF AnomaliesIInv, RepeatOwed
<1> QED
  BY <1>1, <1>5, <1>7, <1>8 DEF AnomaliesIInv

\* A job ends: if it completed, it is about to be checked.
LEMMA JobEnds ==
  ASSUME AnomaliesIInv, NEW j \in Jobs, Free(j), NEW new, busy' = [busy EXCEPT ![j] = new],
         Recorder(new), new.pc # "log", NEW ok \in BOOLEAN, ok => new.pc = "check",
         done' = Append(done, [job |-> j, ok |-> ok]), UNCHANGED <<anomalies, faults, failures>>
  PROVE  AnomaliesIInv'
<1> DEFINE ended == [job |-> j, ok |-> ok]
           n == Len(done) + 1
<1>1. /\ IsList(done) /\ IsList(failures) /\ faults \in Nat /\ faults' = faults /\ j \in Threads
      /\ \A i \in DOMAIN done : done[i].job \in Jobs
      /\ busy[j].pc = "idle"
  BY DEF AnomaliesIInv, AnomaliesTyped, Threads, Free
<1>2. /\ Len(done) \in Nat /\ DOMAIN done = 1..Len(done) /\ IsList(done') /\ DOMAIN done' = 1..n
      /\ done'[n] = ended /\ \A i \in DOMAIN done : done'[i] = done[i]
  BY <1>1, ListProperties, ListAppend
<1>3. \A i \in 1..n : done'[i].job \in Jobs
  BY <1>1, <1>2
<1>4. /\ UNCHANGED anomalies /\ faults' \in Nat /\ faults' >= faults /\ busy[j].pc # "log"
      /\ IsList(failures') /\ IsList(done') /\ \A i \in DOMAIN done' : done'[i].job \in Jobs
  BY <1>1, <1>2, <1>3
<1>5. AnomaliesTyped' /\ OneActive' /\ Announced'
  BY <1>1, <1>4, ThreadMoves
<1>6. \A key, moment : Owed(key, moment) => Owed(key, moment)'
  <2>1. ~\E key : Left(busy[j], key)
    BY <1>1 DEF Left, AnomaliesIInv, AnomaliesTyped, Recorder
  <2> QED
    BY <1>1, <2>1, OwedMoves
<1>7. ASSUME faults = 0 PROVE BruteForceOwed'
  <2>1. \A i : Reached(i)' <=> Reached(i)
    BY DEF Reached
  <2> SUFFICES ASSUME NEW i \in DOMAIN failures, Reached(i)
               PROVE  Owed(<<"brute_force", failures[i].email, failures[i].at \div WINDOW>>, i)'
    BY <2>1 DEF BruteForceOwed
  <2> QED
    BY <1>6, <1>7 DEF AnomaliesIInv, BruteForceOwed
<1>8. ASSUME faults = 0 PROVE RepeatOwed'
  <2> SUFFICES ASSUME NEW i \in 1..n, Again(i)', busy'[done'[i].job].pc # "check"
               PROVE  Owed(<<"repeat", serial_of[done[i].job], day>>, i)'
    BY <1>2 DEF RepeatOwed
  <2>1. /\ busy'[j] = new /\ \A u \in Threads : u # j => busy'[u] = busy[u]
    BY <1>1 DEF AnomaliesIInv, AnomaliesTyped
  <2>2. i # n
    BY <1>2, <2>1 DEF Again
  <2>3. i \in DOMAIN done /\ done'[i] = done[i] /\ done[i].job \in Threads
    BY <1>1, <1>2, <2>2 DEF Threads
  <2>4. Again(i)
    BY <1>2, <2>3 DEF Again
  <2>5. busy[done[i].job].pc # "check"
    BY <1>1, <2>1, <2>3
  <2>6. Owed(<<"repeat", serial_of[done[i].job], day>>, i)
    BY <1>8, <2>3, <2>4, <2>5 DEF AnomaliesIInv, RepeatOwed
  <2>7. PICK k : k = <<"repeat", serial_of[done[i].job], day>>
    OBVIOUS
  <2>8. Owed(k, i)' /\ k = <<"repeat", serial_of[done'[i].job], day'>>
    BY <1>6, <2>3, <2>6, <2>7 DEF day
  <2> QED
    BY <2>8
<1> QED
  BY <1>1, <1>5, <1>7, <1>8 DEF AnomaliesIInv

LEMMA JobCompletedStep == ASSUME AnomaliesIInv, NEW j \in Jobs, JobCompleted(j) PROVE AnomaliesIInv'
<1>1. PICK b : b = busy[j]
  OBVIOUS
<1>2. PICK new : new = [b EXCEPT !.pc = "check"]
  OBVIOUS
<1>3. Recorder(b) /\ b.pc = "idle"
  BY <1>1 DEF JobCompleted, Free, AnomaliesIInv, AnomaliesTyped, Threads
<1>4. Recorder(new) /\ new.pc = "check"
  BY <1>2, <1>3 DEF Recorder
<1> QED
  BY <1>1, <1>2, <1>4, JobEnds DEF JobCompleted, Goto

LEMMA JobFailedStep == ASSUME AnomaliesIInv, NEW j \in Jobs, JobFailed(j) PROVE AnomaliesIInv'
<1> DEFINE key == <<"verify_fail", j, 0>>
           new == Recording(<<key>>, TRUE)
<1>1. IsList(<<key>>)
  BY <<key>> \in Seq({key}) DEF IsList
<1>2. Recorder(new) /\ new.pc \in {"idle", "find"}
  BY <1>1, RecordingLeaves
<1>3. /\ Free(j) /\ done' = Append(done, [job |-> j, ok |-> FALSE])
      /\ busy' = [busy EXCEPT ![j] = new] /\ UNCHANGED <<anomalies, faults, failures>>
  BY DEF JobFailed
<1> HIDE DEF new, key
<1>4. new.pc # "log" /\ (FALSE => new.pc = "check") /\ FALSE \in BOOLEAN
  BY <1>2
<1> QED
  BY <1>2, <1>3, <1>4, JobEnds

\* Two completed wipes are a repetition.
LEMMA TwoWipes ==
  ASSUME AnomaliesTyped, NEW j \in DOMAIN done, Again(j)
  PROVE  Cardinality(Wipes(serial_of[done[j].job])) >= 2
<1> DEFINE W == Wipes(serial_of[done[j].job])
<1>1. PICK i \in DOMAIN done : i < j /\ i \in W /\ j \in W
  BY DEF Again, Wipes
<1>2. Len(done) \in Nat /\ DOMAIN done = 1..Len(done)
  BY ListProperties DEF AnomaliesTyped
<1>3. IsFiniteSet(W) /\ Cardinality(W) \in Nat
  <2>1. W \in SUBSET (1..Len(done))
    BY <1>2 DEF Wipes
  <2>2. IsFiniteSet(1..Len(done))
    BY <1>2, FS_Interval
  <2> QED
    BY <2>1, <2>2, FS_Subset, FS_CardinalityType
<1>4. i # j /\ {i, j} \subseteq W
  BY <1>1, <1>2
<1>5. Cardinality({i, j}) = 2
  <2>1. IsFiniteSet({i}) /\ Cardinality({i}) = 1
    BY FS_Singleton
  <2>2. {i} \cup {j} = {i, j} /\ j \notin {i}
    BY <1>4
  <2> QED
    BY <2>1, <2>2, FS_AddElement
<1>6. Cardinality({i, j}) <= Cardinality(W)
  BY <1>3, <1>4, FS_Subset
<1> QED
  BY <1>3, <1>5, <1>6

LEMMA JobCheckedStep == ASSUME AnomaliesIInv, NEW j \in Jobs, JobChecked(j) PROVE AnomaliesIInv'
<1>1. PICK fast \in BOOLEAN :
        busy' = [busy EXCEPT ![j] =
          Recording(RepeatWipe(serial_of[j]) \o When(fast, <<"throughput", j, 0>>), FALSE)]
  BY DEF JobChecked
<1> DEFINE keys == RepeatWipe(serial_of[j]) \o When(fast, <<"throughput", j, 0>>)
           new == Recording(keys, FALSE)
<1>2. IsList(RepeatWipe(serial_of[j])) /\ IsList(When(fast, <<"throughput", j, 0>>))
  BY WhenList DEF RepeatWipe
<1>3. IsList(keys)
  BY <1>2, ListConcat
<1>4. /\ Recorder(new) /\ new.pc \in {"idle", "find"}
      /\ \A x : Holds(keys, x) => Left(new, x)
  BY <1>3, RecordingLeaves
<1>5. /\ IsList(done) /\ IsList(failures) /\ faults \in Nat /\ faults' = faults /\ j \in Threads
      /\ \A i \in DOMAIN done : done[i].job \in Jobs
      /\ busy[j].pc = "check" /\ UNCHANGED <<anomalies, done, failures>>
      /\ busy' = [busy EXCEPT ![j] = new]
  BY <1>1 DEF JobChecked, AnomaliesIInv, AnomaliesTyped, Threads
<1>6. Cardinality(Wipes(serial_of[j])) >= 2 => Left(new, <<"repeat", serial_of[j], day>>)
  <2> SUFFICES ASSUME Cardinality(Wipes(serial_of[j])) >= 2
               PROVE  Left(new, <<"repeat", serial_of[j], day>>)
    OBVIOUS
  <2>1. Holds(RepeatWipe(serial_of[j]), <<"repeat", serial_of[j], day>>)
    BY WhenList DEF RepeatWipe
  <2>2. Holds(keys, <<"repeat", serial_of[j], day>>)
    BY <1>2, <2>1, ConcatHolds
  <2> QED
    BY <1>4, <2>2
<1> HIDE DEF new, keys
<1>7. /\ UNCHANGED anomalies /\ faults' \in Nat /\ faults' >= faults
      /\ busy[j].pc # "log" /\ new.pc # "log"
      /\ IsList(failures') /\ IsList(done') /\ \A i \in DOMAIN done' : done'[i].job \in Jobs
  BY <1>4, <1>5
<1>8. AnomaliesTyped' /\ OneActive' /\ Announced'
  BY <1>4, <1>5, <1>7, ThreadMoves
<1>9. \A key, moment : Owed(key, moment) => Owed(key, moment)'
  <2>1. ~\E key : Left(busy[j], key)
    BY <1>5 DEF Left, AnomaliesIInv, AnomaliesTyped, Recorder
  <2> QED
    BY <1>5, <2>1, OwedMoves
<1>10. ASSUME faults = 0 PROVE BruteForceOwed'
  <2>1. \A i : Reached(i)' <=> Reached(i)
    BY <1>5 DEF Reached
  <2> SUFFICES ASSUME NEW i \in DOMAIN failures, Reached(i)
               PROVE  Owed(<<"brute_force", failures[i].email, failures[i].at \div WINDOW>>, i)'
    BY <1>5, <2>1 DEF BruteForceOwed
  <2> QED
    BY <1>5, <1>9, <1>10 DEF AnomaliesIInv, BruteForceOwed
<1>11. ASSUME faults = 0 PROVE RepeatOwed'
  <2> SUFFICES ASSUME NEW i \in DOMAIN done, Again(i)', busy'[done[i].job].pc # "check"
               PROVE  Owed(<<"repeat", serial_of[done[i].job], day>>, i)'
    BY <1>5 DEF RepeatOwed
  <2>1. PICK k : k = <<"repeat", serial_of[done[i].job], day>>
    OBVIOUS
  <2>2. /\ busy'[j] = new /\ \A u \in Threads : u # j => busy'[u] = busy[u]
    BY <1>5 DEF AnomaliesIInv, AnomaliesTyped
  <2>3. Again(i)
    BY <1>5 DEF Again
  <2>4. CASE done[i].job = j
    <3>1. Left(busy'[j], k)
      BY <1>6, <2>1, <2>2, <2>3, <2>4, TwoWipes DEF AnomaliesIInv
    <3>2. Owed(k, i)'
      BY <1>5, <3>1 DEF Owed, Left
    <3> QED
      BY <1>5, <2>1, <3>2 DEF day
  <2>5. CASE done[i].job # j
    <3>1. Owed(k, i)
      BY <1>5, <1>11, <2>1, <2>2, <2>3, <2>5 DEF AnomaliesIInv, RepeatOwed, Threads
    <3> QED
      BY <1>5, <1>9, <2>1, <3>1 DEF day
  <2> QED
    BY <2>4, <2>5
<1> QED
  BY <1>5, <1>8, <1>10, <1>11 DEF AnomaliesIInv

\* A thread that leaves a key does so because the key has its row, or by an exception.
LEMMA Leaves ==
  ASSUME AnomaliesIInv, NEW t \in Threads, busy[t].keys # <<>>,
         NEW new, busy' = [busy EXCEPT ![t] = new],
         new \in {Idle, Recording(Tail(busy[t].keys), busy[t].strict)},
         UNCHANGED <<anomalies, failures, done>>, faults' \in {faults, faults + 1},
         faults' = faults => /\ new # Idle \/ new = Recording(Tail(busy[t].keys), busy[t].strict)
                             /\ busy[t].pc # "log"
                             /\ IsOwing(Key(t)) => \A moment : Raised(Key(t), moment)
  PROVE  AnomaliesIInv'
<1>1. /\ IsList(done) /\ IsList(failures) /\ faults \in Nat
      /\ \A i \in DOMAIN done : done[i].job \in Jobs
      /\ Recorder(busy[t]) /\ busy[t].pc \in {"find", "insert", "log"}
  BY DEF AnomaliesIInv, AnomaliesTyped, Recorder
<1>2. Recorder(Idle) /\ Idle.pc = "idle"
  BY <<>> \in Seq({}) DEF Recorder, Idle, IsList
<1>3. Recorder(new) /\ new.pc # "log"
  BY <1>1, <1>2, NextLeaves
<1>4. /\ UNCHANGED anomalies /\ faults' \in Nat /\ faults' >= faults
      /\ busy[t].pc = "log" => faults' > 0
      /\ IsList(failures') /\ IsList(done') /\ \A i \in DOMAIN done' : done'[i].job \in Jobs
  BY <1>1
<1>5. AnomaliesTyped' /\ OneActive' /\ Announced'
  BY <1>3, <1>4, ThreadMoves
<1>6. ASSUME faults' = 0 PROVE BruteForceOwed' /\ RepeatOwed'
  <2>1. faults = 0 /\ faults' = faults /\ new = Recording(Tail(busy[t].keys), busy[t].strict)
    BY <1>1, <1>6
  <2>2. ASSUME NEW key, NEW moment, IsOwing(key), Owed(key, moment) PROVE Owed(key, moment)'
    <3>1. Left(busy[t], key) => Left(new, key) \/ Raised(key, moment)
      BY <1>1, <2>1, <2>2, NextLeaves DEF Key
    <3> QED
      BY <2>2, <3>1, OwedMoves
  <2>3. \A j \in Jobs : busy[j].pc = "check" => busy'[j].pc = "check"
    BY <1>1 DEF AnomaliesIInv, AnomaliesTyped, Threads
  <2>4. BruteForceOwed /\ RepeatOwed /\ AnomaliesTyped
    BY <2>1 DEF AnomaliesIInv
  <2> QED
    BY <2>2, <2>3, <2>4, StillOwed
<1> QED
  BY <1>5, <1>6 DEF AnomaliesIInv

LEMMA HasKeys ==
  ASSUME AnomaliesTyped, NEW t \in Threads, busy[t].pc \in {"find", "insert", "log"}
  PROVE  busy[t].keys # <<>>
BY DEF AnomaliesTyped, Recorder

LEMMA PassStep ==
  ASSUME AnomaliesIInv, NEW t \in Threads,
         Keep(t) \/ Duplicate(t) \/ Raises(t) \/ (Find(t) /\ _existing(Key(t)))
  PROVE  AnomaliesIInv'
<1> DEFINE next == Recording(Tail(busy[t].keys), busy[t].strict)
<1>1. busy[t].keys # <<>> /\ faults \in Nat
  BY HasKeys DEF Keep, Duplicate, Raises, Find, AnomaliesIInv, AnomaliesTyped
<1>2. CASE Keep(t)
  <2>1. ~IsOwing(Key(t))
    BY <1>2 DEF Keep, IsOwing
  <2>2. /\ busy' = [busy EXCEPT ![t] = next] /\ busy[t].pc # "log"
        /\ faults' \in {faults, faults + 1} /\ UNCHANGED <<anomalies, failures, done>>
    BY <1>2 DEF Keep, NextKey
  <2> QED
    BY <1>1, <2>1, <2>2, Leaves
<1>3. CASE Duplicate(t)
  <2>1. \A moment : Raised(Key(t), moment)
    BY <1>3 DEF Duplicate, Clashes, Raised
  <2>2. /\ busy' = [busy EXCEPT ![t] = next] /\ busy[t].pc # "log"
        /\ faults' = faults /\ UNCHANGED <<anomalies, failures, done>>
    BY <1>3 DEF Duplicate, NextKey
  <2> QED
    BY <1>1, <2>1, <2>2, Leaves
<1>4. CASE Find(t) /\ _existing(Key(t))
  <2>1. \A moment : Raised(Key(t), moment)
    BY <1>4 DEF _existing, Raised
  <2>2. /\ busy' = [busy EXCEPT ![t] = next] /\ busy[t].pc # "log"
        /\ faults' = faults /\ UNCHANGED <<anomalies, failures, done>>
    BY <1>4 DEF Find, NextKey
  <2> QED
    BY <1>1, <2>1, <2>2, Leaves
<1>5. CASE Raises(t)
  <2>1. PICK new \in {Idle, next} : busy' = [busy EXCEPT ![t] = new]
    BY <1>5 DEF Raises, NextKey
  <2>2. faults' = faults + 1 /\ faults' # faults /\ UNCHANGED <<anomalies, failures, done>>
    BY <1>1, <1>5 DEF Raises
  <2> QED
    BY <1>1, <2>1, <2>2, Leaves
<1> QED
  BY <1>2, <1>3, <1>4, <1>5

\* From looking for a row to inserting one, a thread keeps its list.
LEMMA FindStep ==
  ASSUME AnomaliesIInv, NEW t \in Threads, Find(t), ~_existing(Key(t))
  PROVE  AnomaliesIInv'
<1>1. PICK b : b = busy[t]
  OBVIOUS
<1>2. PICK new : new = [b EXCEPT !.pc = "insert"]
  OBVIOUS
<1>3. /\ Recorder(b) /\ b.pc = "find" /\ IsList(failures) /\ IsList(done) /\ faults \in Nat
      /\ \A i \in DOMAIN done : done[i].job \in Jobs
      /\ busy' = [busy EXCEPT ![t] = new] /\ faults' = faults
      /\ UNCHANGED <<anomalies, failures, done>>
  BY <1>1, <1>2 DEF Find, Goto, AnomaliesIInv, AnomaliesTyped
<1>4. Recorder(new) /\ new.pc = "insert" /\ new.keys = b.keys
  BY <1>2, <1>3 DEF Recorder
<1>5. /\ UNCHANGED anomalies /\ faults' \in Nat /\ faults' >= faults /\ busy[t].pc # "log"
      /\ IsList(failures') /\ IsList(done') /\ \A i \in DOMAIN done' : done'[i].job \in Jobs
  BY <1>1, <1>3
<1>6. AnomaliesTyped' /\ OneActive' /\ Announced'
  BY <1>3, <1>4, <1>5, ThreadMoves
<1>7. \A key, moment : Owed(key, moment) => Owed(key, moment)'
  <2>1. \A key : Left(busy[t], key) => Left(new, key)
    BY <1>1, <1>4 DEF Left
  <2> QED
    BY <1>3, <2>1, OwedMoves
<1>8. \A j \in Jobs : busy[j].pc = "check" => busy'[j].pc = "check"
  BY <1>1, <1>3 DEF AnomaliesIInv, AnomaliesTyped, Threads
<1> QED
  BY <1>3, <1>6, <1>7, <1>8, StillOwed DEF AnomaliesIInv

\* The new row is the only active one of its key: the index has looked.
LEMMA InsertStep == ASSUME AnomaliesIInv, NEW t \in Threads, Insert(t) PROVE AnomaliesIInv'
<1>0. PICK n : n = Len(anomalies) + 1
  OBVIOUS
<1>1. PICK b : b = busy[t]
  OBVIOUS
<1>2. PICK row : row = [key |-> Key(t), status |-> "open", events |-> 0, closed |-> 0]
  OBVIOUS
<1>3. PICK new : new = [b EXCEPT !.pc = "log", !.row = n]
  OBVIOUS
<1>4. /\ Recorder(b) /\ b.pc = "insert" /\ faults \in Nat /\ ~Clashes(Key(t))
      /\ IsList(anomalies) /\ anomalies' = Append(anomalies, row)
      /\ UNCHANGED <<failures, done, faults>>
  BY <1>1, <1>2 DEF Insert, AnomaliesIInv, AnomaliesTyped
<1>5. /\ Len(anomalies) \in Nat /\ DOMAIN anomalies = 1..Len(anomalies)
      /\ IsList(anomalies') /\ DOMAIN anomalies' = 1..n /\ anomalies'[n] = row
      /\ \A i \in DOMAIN anomalies : anomalies'[i] = anomalies[i]
      /\ Len(anomalies') = n /\ n \in Nat
  BY <1>0, <1>4, ListProperties, ListAppend
<1>6. busy' = [busy EXCEPT ![t] = new]
  BY <1>1, <1>3, <1>5 DEF Insert
<1>7. Recorder(new) /\ new.pc = "log" /\ new.row = n /\ new.keys = b.keys
  BY <1>3, <1>4, <1>5 DEF Recorder
<1>8. /\ busy' = [u \in Threads |-> busy'[u]] /\ busy'[t] = new
      /\ \A u \in Threads : u # t => busy'[u] = busy[u]
  BY <1>6 DEF AnomaliesIInv, AnomaliesTyped
<1>9. IsRow(row) /\ row.key = Key(t) /\ row.events = 0 /\ row.status = "open"
  BY <1>2 DEF IsRow
<1>10. AnomaliesTyped'
  BY <1>0, <1>4, <1>5, <1>7, <1>8, <1>9 DEF AnomaliesIInv, AnomaliesTyped
<1>11. OneActive'
  <2>1. \A i \in DOMAIN anomalies :
          anomalies[i].key = Key(t) /\ Key(t) # NoKey => ~IsActive(i)
    BY <1>4 DEF Clashes, Same
  <2> SUFFICES ASSUME NEW i \in 1..n, NEW j \in 1..n, anomalies'[i].key = anomalies'[j].key,
                      anomalies'[i].key # NoKey, IsActive(i)', IsActive(j)'
               PROVE  i = j
    BY <1>5 DEF OneActive
  <2>2. \A k \in DOMAIN anomalies : IsActive(k)' <=> IsActive(k)
    BY <1>5 DEF IsActive
  <2>3. CASE i # n /\ j # n
    BY <1>0, <1>5, <2>2, <2>3 DEF AnomaliesIInv, OneActive
  <2>4. CASE i = n \/ j = n
    BY <1>0, <1>5, <1>9, <2>1, <2>2, <2>4
  <2> QED
    BY <2>3, <2>4
<1>12. Announced'
  <2>1. \A u \in Threads : \A i : Announcing(u, i)' <=> IF u = t THEN i = n ELSE Announcing(u, i)
    BY <1>7, <1>8 DEF Announcing
  <2>2. \A i : ~Announcing(t, i)
    BY <1>1, <1>4 DEF Announcing
  <2>3. \A u \in Threads : ~Announcing(u, n)
    BY <1>0, <1>5 DEF AnomaliesIInv, Announced, Announcing
  <2>4. ASSUME NEW i \in 1..n
        PROVE  /\ anomalies'[i].events <= 1
               /\ anomalies'[i].events = 0 => faults' > 0 \/ \E u \in Threads : Announcing(u, i)'
    BY <1>0, <1>4, <1>5, <1>9, <2>1, <2>2 DEF AnomaliesIInv, Announced
  <2>5. ASSUME NEW u \in Threads, busy'[u].pc = "log", NEW r, r = busy'[u].row
        PROVE  /\ r \in 1..n /\ anomalies'[r].events = 0
               /\ \A v \in Threads : Announcing(v, r)' => v = u
    <3>1. CASE u = t
      <4>1. r = n
        BY <1>7, <1>8, <2>5, <3>1
      <4> QED
        BY <1>0, <1>5, <1>9, <2>1, <2>3, <3>1, <4>1
    <3>2. CASE u # t
      <4>1. busy'[u] = busy[u] /\ r = busy[u].row /\ r \in DOMAIN anomalies
        BY <1>8, <2>5, <3>2 DEF AnomaliesIInv, Announced
      <4>2. r # n
        BY <1>0, <1>5, <4>1
      <4>3. anomalies[r].events = 0 /\ \A v \in Threads : Announcing(v, r) => v = u
        BY <2>5, <4>1 DEF AnomaliesIInv, Announced
      <4> QED
        BY <1>0, <1>5, <2>1, <2>2, <4>1, <4>2, <4>3
    <3> QED
      BY <3>1, <3>2
  <2> QED
    BY <1>5, <2>4, <2>5 DEF Announced
<1>13. ASSUME NEW key, NEW moment, Owed(key, moment) PROVE Owed(key, moment)'
  <2>1. \A i \in DOMAIN anomalies : IsActive(i)' <=> IsActive(i)
    BY <1>5 DEF IsActive
  <2>2. Raised(key, moment) => Raised(key, moment)'
    BY <1>0, <1>5, <2>1 DEF Raised, Same
  <2>3. key = Key(t) => Raised(key, moment)'
    <3>1. n \in DOMAIN anomalies' /\ anomalies'[n].key = Key(t) /\ IsActive(n)'
      BY <1>0, <1>5, <1>9 DEF IsActive, ACTIVE_STATUSES
    <3>2. PICK i \in DOMAIN anomalies' : anomalies'[i].key = Key(t) /\ IsActive(i)'
      BY <3>1
    <3> QED
      BY <3>2 DEF Raised, Same
  <2>4. \A u \in Threads : Left(busy[u], key) => Left(busy'[u], key) \/ key = Key(t)
    BY <1>1, <1>4, <1>7, <1>8 DEF Left, Key
  <2>5. (\E u \in Threads : Left(busy'[u], key)) => \E u \in Threads : Left(busy[u], key)'
    BY DEF Left
  <2> QED
    BY <1>13, <2>2, <2>3, <2>4, <2>5 DEF Owed
<1>14. \A j \in Jobs : busy[j].pc = "check" => busy'[j].pc = "check"
  BY <1>1, <1>4, <1>8 DEF Threads
<1> QED
  BY <1>4, <1>10, <1>11, <1>12, <1>13, <1>14, StillOwed DEF AnomaliesIInv

\* The announcement: the row's first, for nobody else is announcing it.
LEMMA LogStep == ASSUME AnomaliesIInv, NEW t \in Threads, Log(t) PROVE AnomaliesIInv'
<1>1. PICK b : b = busy[t]
  OBVIOUS
<1>2. PICK r : r = b.row
  OBVIOUS
<1>3. PICK row : row = anomalies[r]
  OBVIOUS
<1> DEFINE Plus == [anomalies[busy[t].row] EXCEPT !.events = @ + 1]
<1>4. PICK logged : logged = Plus
  OBVIOUS
<1>5. PICK new : new = Recording(Tail(b.keys), b.strict)
  OBVIOUS
<1>6. /\ Recorder(b) /\ b.pc = "log" /\ faults \in Nat /\ IsRow(row)
      /\ r \in DOMAIN anomalies /\ row.events = 0
      /\ busy' = [busy EXCEPT ![t] = new] /\ UNCHANGED <<failures, done, faults>>
      /\ anomalies' = [anomalies EXCEPT ![r] = logged] /\ IsList(anomalies)
      /\ \A u \in Threads : Announcing(u, r) => u = t
  <2>1. /\ r \in DOMAIN anomalies /\ row.events = 0
        /\ \A u \in Threads : Announcing(u, r) => u = t
    BY <1>1, <1>2, <1>3 DEF Log, AnomaliesIInv, Announced
  <2>2. IsRow(row) /\ Recorder(b) /\ IsList(anomalies) /\ faults \in Nat
    BY <1>1, <1>3, <2>1 DEF AnomaliesIInv, AnomaliesTyped
  <2>3. /\ b.pc = "log" /\ UNCHANGED <<failures, done, faults>>
        /\ busy' = [busy EXCEPT ![t] = new]
    BY <1>1, <1>5 DEF Log, NextKey
  <2>4. anomalies' = [anomalies EXCEPT ![busy[t].row] = Plus]
    BY DEF Log
  <2> HIDE DEF Plus
  <2>5. anomalies' = [anomalies EXCEPT ![r] = logged]
    BY <1>1, <1>2, <1>4, <2>4
  <2> QED
    BY <2>1, <2>2, <2>3, <2>5
<1>7. /\ logged.key = row.key /\ logged.status = row.status /\ logged.closed = row.closed
      /\ logged.events = 1 /\ IsRow(logged)
  BY <1>1, <1>2, <1>3, <1>4, <1>6 DEF IsRow
<1>8. /\ DOMAIN anomalies' = DOMAIN anomalies /\ anomalies'[r] = logged
      /\ \A i \in DOMAIN anomalies : i # r => anomalies'[i] = anomalies[i]
  BY <1>6
<1>9. IsList(anomalies')
  <2>1. PICK S : anomalies \in Seq(S)
    BY <1>6 DEF IsList
  <2>2. anomalies' \in Seq(S \cup {logged})
    BY <1>6, <2>1
  <2> QED
    BY <2>2 DEF IsList
<1>10. /\ Recorder(new) /\ new.pc \in {"idle", "find"}
       /\ \A x : Left(b, x) => Left(new, x)
  BY <1>5, <1>6, NextLeaves DEF Recorder
<1>11. /\ busy' = [u \in Threads |-> busy'[u]] /\ busy'[t] = new
       /\ \A u \in Threads : u # t => busy'[u] = busy[u]
  BY <1>6 DEF AnomaliesIInv, AnomaliesTyped
<1>12. AnomaliesTyped'
  BY <1>6, <1>7, <1>8, <1>9, <1>10, <1>11 DEF AnomaliesIInv, AnomaliesTyped
<1>13. \A i \in DOMAIN anomalies :
         /\ anomalies'[i].key = anomalies[i].key /\ anomalies'[i].closed = anomalies[i].closed
         /\ IsActive(i)' <=> IsActive(i)
  BY <1>3, <1>7, <1>8 DEF IsActive
<1>14. OneActive'
  BY <1>8, <1>13 DEF AnomaliesIInv, OneActive
<1>15. Announced'
  <2>1. \A u \in Threads : \A i : Announcing(u, i)' <=> u # t /\ Announcing(u, i)
    BY <1>10, <1>11 DEF Announcing
  <2>2. Announcing(t, r)
    BY <1>1, <1>2, <1>6 DEF Announcing
  <2>3. ASSUME NEW i \in DOMAIN anomalies
        PROVE  /\ anomalies'[i].events <= 1
               /\ anomalies'[i].events = 0 => faults' > 0 \/ \E u \in Threads : Announcing(u, i)'
    <3>1. CASE i = r
      BY <1>7, <1>8, <3>1
    <3>2. CASE i # r
      <4>1. ~Announcing(t, i)
        BY <1>1, <1>2, <3>2 DEF Announcing
      <4> QED
        BY <1>6, <1>8, <2>1, <3>2, <4>1 DEF AnomaliesIInv, Announced
    <3> QED
      BY <3>1, <3>2
  <2>4. ASSUME NEW u \in Threads, busy'[u].pc = "log", NEW q, q = busy'[u].row
        PROVE  /\ q \in DOMAIN anomalies /\ anomalies'[q].events = 0
               /\ \A v \in Threads : Announcing(v, q)' => v = u
    <3>1. u # t /\ busy'[u] = busy[u]
      BY <1>10, <1>11, <2>4
    <3>2. /\ q \in DOMAIN anomalies /\ anomalies[q].events = 0
          /\ \A v \in Threads : Announcing(v, q) => v = u
      BY <2>4, <3>1 DEF AnomaliesIInv, Announced
    <3>3. q # r
      BY <2>2, <3>1, <3>2
    <3> QED
      BY <1>8, <2>1, <3>2, <3>3
  <2> QED
    BY <1>8, <2>3, <2>4 DEF Announced
<1>16. ASSUME NEW key, NEW moment, Owed(key, moment) PROVE Owed(key, moment)'
  <2>1. Raised(key, moment) => Raised(key, moment)'
    BY <1>8, <1>13 DEF Raised, Same
  <2>2. \A u \in Threads : Left(busy[u], key) => Left(busy'[u], key)
    BY <1>1, <1>10, <1>11
  <2>3. (\E u \in Threads : Left(busy'[u], key)) => \E u \in Threads : Left(busy[u], key)'
    BY DEF Left
  <2> QED
    BY <1>16, <2>1, <2>2, <2>3 DEF Owed
<1>17. \A j \in Jobs : busy[j].pc = "check" => busy'[j].pc = "check"
  BY <1>1, <1>6, <1>11 DEF Threads
<1> QED
  BY <1>6, <1>12, <1>14, <1>15, <1>16, <1>17, StillOwed DEF AnomaliesIInv

\* What is closed is closed now, and what is reopened has its key for itself.
LEMMA AcknowledgeStep ==
  ASSUME AnomaliesIInv, NEW r \in DOMAIN anomalies, NEW resolved \in BOOLEAN,
         acknowledge_anomaly(r, resolved)
  PROVE  AnomaliesIInv'
<1>1. PICK row : row = anomalies[r]
  OBVIOUS
<1>2. PICK m : m = Moment
  OBVIOUS
<1>3. PICK new : new = Settled(row, resolved)
  OBVIOUS
<1>4. /\ IsRow(row) /\ faults \in Nat /\ IsList(anomalies)
      /\ anomalies' = [anomalies EXCEPT ![r] = new]
      /\ UNCHANGED <<failures, done, busy, faults>>
      /\ ~resolved /\ ~IsActive(r) => ~Clashes(row.key)
  <2>1. IsRow(row) /\ faults \in Nat /\ IsList(anomalies)
    BY <1>1 DEF AnomaliesIInv, AnomaliesTyped
  <2>2. /\ UNCHANGED <<failures, done, busy, faults>>
        /\ ~resolved /\ ~IsActive(r) => ~Clashes(row.key)
    BY <1>1 DEF acknowledge_anomaly
  <2>3. anomalies' = [anomalies EXCEPT ![r] = new]
    BY <1>1, <1>3 DEF acknowledge_anomaly
  <2> QED
    BY <2>1, <2>2, <2>3
<1>5. m \in Nat
  BY <1>2, ListProperties DEF AnomaliesIInv, AnomaliesTyped, Moment
<1>6. /\ new.key = row.key /\ new.events = row.events /\ IsRow(new)
      /\ IF resolved THEN new.status = "resolved" /\ new.closed = m
         ELSE new.status = "acknowledged" /\ new.closed = row.closed
  BY <1>2, <1>3, <1>4, <1>5 DEF IsRow, Settled
<1>7. /\ DOMAIN anomalies' = DOMAIN anomalies /\ anomalies'[r] = new
      /\ \A i \in DOMAIN anomalies : i # r => anomalies'[i] = anomalies[i]
  BY <1>4
<1>8. IsList(anomalies')
  <2>1. PICK S : anomalies \in Seq(S)
    BY <1>4 DEF IsList
  <2>2. anomalies' \in Seq(S \cup {new})
    BY <1>4, <2>1
  <2> QED
    BY <2>2 DEF IsList
<1>9. AnomaliesTyped'
  BY <1>4, <1>6, <1>7, <1>8 DEF AnomaliesIInv, AnomaliesTyped
<1>10. \A i \in DOMAIN anomalies :
         /\ anomalies'[i].key = anomalies[i].key /\ anomalies'[i].events = anomalies[i].events
         /\ i # r => (IsActive(i)' <=> IsActive(i))
  BY <1>1, <1>6, <1>7 DEF IsActive
<1>11. IsActive(r)' <=> ~resolved
  BY <1>6, <1>7 DEF IsActive, ACTIVE_STATUSES
<1>12. OneActive'
  <2>1. ~resolved /\ row.key # NoKey =>
          \A i \in DOMAIN anomalies : anomalies[i].key = row.key /\ IsActive(i) => i = r
    BY <1>1, <1>4 DEF AnomaliesIInv, OneActive, Clashes, Same
  <2> SUFFICES ASSUME NEW i \in DOMAIN anomalies, NEW j \in DOMAIN anomalies,
                      anomalies[i].key = anomalies[j].key, anomalies[i].key # NoKey,
                      IsActive(i)', IsActive(j)'
               PROVE  i = j
    BY <1>7, <1>10 DEF OneActive
  <2>2. CASE i # r /\ j # r
    BY <1>10, <2>2 DEF AnomaliesIInv, OneActive
  <2>3. CASE i = r \/ j = r
    BY <1>1, <1>10, <1>11, <2>1, <2>3
  <2> QED
    BY <2>2, <2>3
<1>13. Announced'
  BY <1>4, <1>7, <1>10 DEF AnomaliesIInv, Announced, Announcing
<1>14. ASSUME NEW key, NEW moment, moment \in 1..Moment, Owed(key, moment) PROVE Owed(key, moment)'
  <2>1. Raised(key, moment) => Raised(key, moment)'
    <3> SUFFICES ASSUME NEW i \in DOMAIN anomalies, anomalies[i].key = key,
                        IsActive(i) \/ anomalies[i].closed >= moment
                 PROVE  anomalies'[i].key = key /\ (IsActive(i)' \/ anomalies'[i].closed >= moment)
      BY <1>7 DEF Raised, Same
    <3>1. CASE i # r
      BY <1>7, <1>10, <3>1
    <3>2. CASE i = r
      BY <1>1, <1>2, <1>5, <1>6, <1>7, <1>10, <1>11, <1>14, <3>2
    <3> QED
      BY <3>1, <3>2
  <2>2. (\E u \in Threads : Left(busy[u], key)) => \E u \in Threads : Left(busy[u], key)'
    BY <1>4 DEF Left
  <2> QED
    BY <1>14, <2>1, <2>2 DEF Owed
<1> QED
  BY <1>4, <1>9, <1>12, <1>13, <1>14, StillOwed DEF AnomaliesIInv

LEMMA AnomaliesStep ==
  AnomaliesIInv /\ [AnomaliesNext]_<<clock, anomalyVars>> => AnomaliesIInv'
<1> SUFFICES ASSUME AnomaliesIInv, [AnomaliesNext]_<<clock, anomalyVars>>
             PROVE  AnomaliesIInv'
  OBVIOUS
<1>1. CASE Finds
  BY <1>1, LoginFailedStep, LoginSuccessStep, DeviceSeenStep, RoleRaisesStep, JobCompletedStep,
     JobCheckedStep, JobFailedStep, NightlyStep DEF Finds
<1>2. CASE Acknowledge
  BY <1>2, AcknowledgeStep DEF Acknowledge
<1>3. CASE Crash
  <2>1. Recorder(Idle) /\ Idle.pc = "idle"
    BY <<>> \in Seq({}) DEF Recorder, Idle, IsList
  <2>2. /\ faults \in Nat /\ faults' = faults + 1 /\ busy' = [t \in Threads |-> Idle]
        /\ UNCHANGED <<failures, done, anomalies>>
    BY <1>3 DEF Crash, AnomaliesIInv, AnomaliesTyped
  <2>3. busy' = [t \in Threads |-> busy'[t]] /\ \A t \in Threads : busy'[t] = Idle
    BY <2>2
  <2>4. AnomaliesTyped'
    BY <2>1, <2>2, <2>3 DEF AnomaliesIInv, AnomaliesTyped
  <2>5. OneActive' /\ Announced'
    BY <2>1, <2>2, <2>3 DEF AnomaliesIInv, OneActive, IsActive, Announced
  <2> QED
    BY <2>2, <2>4, <2>5 DEF AnomaliesIInv
<1>4. CASE Later \/ UNCHANGED <<clock, anomalyVars>>
  <2>1. UNCHANGED anomalyVars
    BY <1>4 DEF Later
  <2>2. AnomaliesTyped' /\ OneActive' /\ Announced'
    BY <2>1 DEF anomalyVars, AnomaliesIInv, AnomaliesTyped, OneActive, IsActive, Announced,
       Announcing
  <2>3. ASSUME NEW key, NEW moment, Owed(key, moment) PROVE Owed(key, moment)'
    BY <2>1, <2>3 DEF anomalyVars, Owed, Raised, Same, IsActive, Left
  <2> QED
    BY <2>1, <2>2, <2>3, StillOwed DEF anomalyVars, AnomaliesIInv
<1>5. ASSUME NEW t \in Threads, Record(t) PROVE AnomaliesIInv'
  BY <1>5, PassStep, FindStep, InsertStep, LogStep DEF Record
<1> QED
  BY <1>1, <1>2, <1>3, <1>4, <1>5 DEF AnomaliesNext

\* However many threads find an issue at one time and whatever is acknowledged between
\* their steps, it has one active row, and a row is announced once or by nobody for good
\* reason.
THEOREM OneOpenPerIssueHolds == AnomaliesSpec => []OneOpenPerIssue
<1>1. AnomaliesIInv => OneOpenPerIssue
  BY DEF AnomaliesIInv, OneActive, Announced, Announcing, OneOpenPerIssue
<1> QED
  BY <1>1, AnomaliesStart, AnomaliesStep, PTL DEF AnomaliesSpec

\* An issue that goes on after it was resolved is raised again: no thread finds a row
\* that was closed before, and none forgets what its check has found.
THEOREM RaisedAgainHolds == AnomaliesSpec => []RaisedAgain
<1>1. AnomaliesIInv => RaisedAgain
  <2> SUFFICES ASSUME AnomaliesIInv, faults = 0, \A t \in Threads : Free(t) PROVE RaisedAgain
    BY DEF RaisedAgain
  <2>1. \A key, moment : Owed(key, moment) => Raised(key, moment)
    BY DEF Owed, Left, Free, AnomaliesIInv, AnomaliesTyped, Recorder
  <2>2. \A i \in DOMAIN failures : Reached(i) =>
          Raised(<<"brute_force", failures[i].email, failures[i].at \div WINDOW>>, i)
    BY <2>1 DEF AnomaliesIInv, BruteForceOwed
  <2>3. ASSUME NEW serial, NEW j \in Wipes(serial), \E i \in Wipes(serial) : i < j
        PROVE  Raised(<<"repeat", serial, day>>, j)
    <3>1. j \in DOMAIN done /\ Again(j) /\ serial_of[done[j].job] = serial
      BY <2>3 DEF Wipes, Again
    <3>2. busy[done[j].job].pc # "check"
      BY <3>1 DEF AnomaliesIInv, AnomaliesTyped, Threads, Free
    <3> QED
      BY <2>1, <3>1, <3>2 DEF AnomaliesIInv, RepeatOwed
  <2> QED
    BY <2>2, <2>3 DEF RaisedAgain, Reached
<1> QED
  BY <1>1, AnomaliesStart, AnomaliesStep, PTL DEF AnomaliesSpec

-----------------------------------------------------------------------------
(***************************************************************************)
(* The traffic monitor.  Whatever happened within the last WINDOW_SECS is  *)
(* in the list that counts it, however often that was pruned; and whoever  *)
(* sent too much is blocked for BLOCK_SECS or that time has passed.        *)
(***************************************************************************)

Kinds  == {"admitted", "denied", "error"}
Events == [what : Kinds, at : Nat]

TrafficTyped ==
  /\ clock \in Nat /\ blocked \in Nat /\ trace \in Seq(Events)
  /\ requests \subseteq DOMAIN trace /\ errors \subseteq DOMAIN trace
  /\ \A i \in DOMAIN trace : trace[i].at <= clock

Listed ==
  \A j \in DOMAIN trace : trace[j].at + WINDOW_SECS > clock =>
    IF trace[j].what = "error" THEN j \in errors ELSE j \in requests

Blocked ==
  \A i \in DOMAIN trace : Overflow(i) =>
    trace[i].at + BLOCK_SECS <= blocked \/ trace[i].at + BLOCK_SECS <= clock

TrafficIInv == TrafficTyped /\ Listed /\ Blocked /\ AdmissionBounded

LEMMA TraceIs ==
  ASSUME TrafficIInv
  PROVE  /\ DOMAIN trace = 1..Len(trace) /\ Len(trace) \in Nat
         /\ \A i \in DOMAIN trace : trace[i].at \in Nat /\ trace[i].at <= clock
<1>1. trace \in Seq(Events)
  BY DEF TrafficIInv, TrafficTyped
<1>2. \A i \in 1..Len(trace) : trace[i] \in Events
  BY <1>1
<1>3. \A e \in Events : e.at \in Nat
  BY DEF Events
<1> QED
  BY <1>1, <1>2, <1>3 DEF TrafficIInv, TrafficTyped

LEMMA EventStep ==
  ASSUME TrafficIInv, NEW w \in Kinds, Happened(w), UNCHANGED clock, blocked' \in Nat,
         IF w = "error" THEN errors' = Counted(errors) /\ UNCHANGED requests
         ELSE requests' = Counted(requests) /\ UNCHANGED errors,
         w = "admitted" => Cardinality(requests') <= MAX_RPM /\ blocked <= clock,
         w # "admitted" => blocked' = blocked \/ blocked' = clock + BLOCK_SECS,
         w = "denied" => blocked' = clock + BLOCK_SECS,
         w = "error" /\ Cardinality(errors') > MAX_ERR_RPM => blocked' = clock + BLOCK_SECS
  PROVE  TrafficIInv'
<1>0. MAX_RPM \in Nat /\ MAX_ERR_RPM \in Nat /\ BLOCK_SECS \in Nat /\ WINDOW_SECS \in Nat
  BY TrafficAssumption
<1>1. PICK n : n = Len(trace) + 1
  OBVIOUS
<1>2. PICK e : e = [what |-> w, at |-> clock]
  OBVIOUS
<1>3. /\ n \in Nat /\ DOMAIN trace = 1..(n - 1) /\ DOMAIN trace' = 1..n /\ Len(trace') = n
      /\ trace' \in Seq(Events) /\ trace'[n] = e /\ \A i \in 1..(n - 1) : trace'[i] = trace[i]
      /\ e.what = w /\ e.at = clock /\ clock \in Nat
  <2>1. e \in Events /\ trace' = Append(trace, e) /\ trace \in Seq(Events)
    BY <1>2 DEF Happened, Events, TrafficIInv, TrafficTyped
  <2> QED
    BY <1>1, <1>2, <2>1 DEF TrafficIInv, TrafficTyped
<1>4. \A i \in 1..n : i = n \/ i \in 1..(n - 1)
  BY <1>3
<1>5. \A i \in 1..(n - 1) : trace[i].at \in Nat /\ trace[i].at <= clock
  BY <1>3, TraceIs
<1>6. TrafficTyped'
  <2>1. requests' \subseteq 1..n /\ errors' \subseteq 1..n
    BY <1>1, <1>3 DEF Counted, _prune, TrafficIInv, TrafficTyped
  <2>2. \A i \in 1..n : trace'[i].at <= clock'
    BY <1>3, <1>4, <1>5
  <2> QED
    BY <1>3, <2>1, <2>2 DEF TrafficTyped
<1>7. Listed'
  <2>1. ASSUME NEW j \in 1..n, trace'[j].at + WINDOW_SECS > clock'
        PROVE  IF trace'[j].what = "error" THEN j \in errors' ELSE j \in requests'
    <3>1. CASE j = n
      BY <1>1, <1>3, <3>1 DEF Counted
    <3>2. CASE j # n
      <4>1. j \in DOMAIN trace /\ trace'[j] = trace[j] /\ trace[j].at + WINDOW_SECS > clock
        BY <1>3, <1>4, <2>1, <3>2
      <4>2. IF trace[j].what = "error" THEN j \in errors ELSE j \in requests
        BY <4>1 DEF TrafficIInv, Listed
      <4> QED
        BY <4>1, <4>2 DEF Counted, _prune
    <3> QED
      BY <3>1, <3>2
  <2> QED
    BY <1>3, <2>1 DEF Listed
<1>8. \A i \in 1..(n - 1) : \A what : Within(what, i)' = Within(what, i)
  <2> TAKE i \in 1..(n - 1)
  <2> TAKE what
  <2>1. \A j \in 1..i : trace'[j] = trace[j]
    BY <1>3
  <2>2. trace'[i] = trace[i]
    BY <1>3
  <2> QED
    BY <2>1, <2>2 DEF Within
<1>9. /\ Within("admitted", n)' \subseteq requests' /\ Within("error", n)' \subseteq errors'
      /\ IsFiniteSet(requests') /\ IsFiniteSet(errors')
  <2>1. IsFiniteSet(1..n)
    BY <1>3, FS_Interval
  <2>2. requests' \subseteq 1..n /\ errors' \subseteq 1..n
    BY <1>3, <1>6 DEF TrafficTyped
  <2>3. IsFiniteSet(requests') /\ IsFiniteSet(errors')
    BY <2>1, <2>2, FS_Subset
  <2>4. trace'[n].at = clock'
    BY <1>3
  <2> QED
    BY <1>3, <1>7, <2>3, <2>4 DEF Within, Listed
<1>10. \A what : Cardinality(Within(what, n)') \in Nat
  <2> TAKE what
  <2>1. IsFiniteSet(1..n) /\ Within(what, n)' \in SUBSET (1..n)
    BY <1>3, FS_Interval DEF Within
  <2> QED
    BY <2>1, FS_Subset, FS_CardinalityType
<1>11. /\ Cardinality(Within("admitted", n)') <= Cardinality(requests')
       /\ Cardinality(Within("error", n)') <= Cardinality(errors')
       /\ Cardinality(requests') \in Nat /\ Cardinality(errors') \in Nat
  BY <1>9, FS_Subset, FS_CardinalityType
<1>12. Overflow(n)' => blocked' = clock + BLOCK_SECS
  <2>1. trace'[n].what = w
    BY <1>3
  <2>2. Cardinality(Within("error", n)') > MAX_ERR_RPM => Cardinality(errors') > MAX_ERR_RPM
    BY <1>0, <1>10, <1>11
  <2> QED
    BY <2>1, <2>2 DEF Overflow
<1>13. \A i \in 1..(n - 1) : Overflow(i)' <=> Overflow(i)
  BY <1>3, <1>8 DEF Overflow
<1>14. Blocked'
  <2>1. ASSUME NEW i \in 1..n, Overflow(i)'
        PROVE  trace'[i].at + BLOCK_SECS <= blocked' \/ trace'[i].at + BLOCK_SECS <= clock'
    <3>1. CASE i = n
      BY <1>0, <1>3, <1>12, <2>1, <3>1
    <3>2. CASE i # n
      <4>1. i \in 1..(n - 1) /\ trace'[i] = trace[i] /\ trace[i].at \in Nat /\ trace[i].at <= clock
        BY <1>3, <1>4, <1>5, <3>2
      <4>2. trace[i].at + BLOCK_SECS <= blocked \/ trace[i].at + BLOCK_SECS <= clock
        BY <1>3, <1>13, <2>1, <4>1 DEF TrafficIInv, Blocked
      <4>3. blocked \in Nat
        BY DEF TrafficIInv, TrafficTyped
      <4> QED
        BY <1>0, <1>3, <4>1, <4>2, <4>3
    <3> QED
      BY <3>1, <3>2
  <2> QED
    BY <1>3, <2>1 DEF Blocked
<1>15. AdmissionBounded'
  <2>1. ASSUME NEW i \in 1..n, trace'[i].what = "admitted"
        PROVE  Cardinality(Within("admitted", i)') <= MAX_RPM
    <3>1. CASE i = n
      BY <1>0, <1>3, <1>10, <1>11, <2>1, <3>1
    <3>2. CASE i # n
      BY <1>3, <1>4, <1>8, <2>1, <3>2 DEF TrafficIInv, AdmissionBounded
    <3> QED
      BY <3>1, <3>2
  <2>2. ASSUME NEW i \in 1..n, Overflow(i)', NEW j \in i..n, trace'[j].what = "admitted"
        PROVE  trace'[j].at >= trace'[i].at + BLOCK_SECS
    <3>1. i # n \/ j = n
      BY <1>3, <2>2
    <3>2. CASE i = n
      BY <1>3, <2>2, <3>1, <3>2 DEF Overflow
    <3>3. CASE i # n
      <4>1. i \in 1..(n - 1) /\ trace'[i] = trace[i] /\ trace[i].at \in Nat /\ trace[i].at <= clock /\ Overflow(i)
        BY <1>3, <1>4, <1>5, <1>13, <2>2, <3>3
      <4>2. CASE j = n
        <5>1. blocked <= clock /\ trace'[j].at = clock /\ blocked \in Nat
          BY <1>3, <2>2, <4>2 DEF TrafficIInv, TrafficTyped
        <5>2. trace[i].at + BLOCK_SECS <= blocked \/ trace[i].at + BLOCK_SECS <= clock
          BY <1>3, <4>1 DEF TrafficIInv, Blocked
        <5> QED
          BY <1>0, <1>3, <4>1, <5>1, <5>2
      <4>3. CASE j # n
        <5>1. j \in i..Len(trace) /\ j \in 1..(n - 1) /\ i \in DOMAIN trace /\ trace'[j] = trace[j]
          BY <1>1, <1>3, <2>2, <4>1, <4>3
        <5> QED
          BY <2>2, <4>1, <5>1 DEF TrafficIInv, AdmissionBounded
      <4> QED
        BY <4>2, <4>3
    <3> QED
      BY <3>2, <3>3
  <2> QED
    BY <1>3, <2>1, <2>2 DEF AdmissionBounded
<1> QED
  BY <1>6, <1>7, <1>14, <1>15 DEF TrafficIInv

\* Nothing happens, and time may pass.
LEMMA QuietStep ==
  ASSUME TrafficIInv, UNCHANGED <<requests, errors, blocked, trace>>, clock' \in Nat, clock' >= clock
  PROVE  TrafficIInv'
<1>0. WINDOW_SECS \in Nat /\ BLOCK_SECS \in Nat /\ clock \in Nat /\ blocked \in Nat
  BY TrafficAssumption DEF TrafficIInv, TrafficTyped
<1>1. \A i \in DOMAIN trace : trace[i].at \in Nat /\ trace[i].at <= clock
  BY TraceIs
<1>2. TrafficTyped'
  BY <1>0, <1>1 DEF TrafficIInv, TrafficTyped
<1>3. Listed'
  BY <1>0, <1>1 DEF TrafficIInv, Listed
<1>6. \A i, what : Within(what, i)' = Within(what, i)
  BY DEF Within
<1>7. \A i : Overflow(i)' <=> Overflow(i)
  BY <1>6 DEF Overflow
<1>4. AdmissionBounded' /\ \A i \in DOMAIN trace : Overflow(i)' <=> Overflow(i)
  BY <1>6, <1>7 DEF TrafficIInv, AdmissionBounded
<1>5. Blocked'
  BY <1>0, <1>1, <1>4 DEF TrafficIInv, Blocked
<1> QED
  BY <1>2, <1>3, <1>4, <1>5 DEF TrafficIInv

LEMMA TrafficStep == TrafficIInv /\ [TrafficNext]_<<clock, trafficVars>> => TrafficIInv'
<1> SUFFICES ASSUME TrafficIInv, [TrafficNext]_<<clock, trafficVars>> PROVE TrafficIInv'
  OBVIOUS
<1>0. clock \in Nat /\ blocked \in Nat /\ BLOCK_SECS \in Nat /\ MAX_RPM \in Nat /\ MAX_ERR_RPM \in Nat
  BY TrafficAssumption DEF TrafficIInv, TrafficTyped
<1>1. \A S : S \subseteq DOMAIN trace => Cardinality(Counted(S)) \in Nat
  <2> SUFFICES ASSUME NEW S, S \subseteq DOMAIN trace PROVE Cardinality(Counted(S)) \in Nat
    OBVIOUS
  <2>1. DOMAIN trace = 1..Len(trace) /\ Len(trace) \in Nat /\ Len(trace) + 1 \in Nat
    BY TraceIs
  <2>2. Counted(S) \subseteq 1..(Len(trace) + 1)
    BY <2>1 DEF Counted, _prune
  <2> QED
    <3>1. PICK n \in Nat : n = Len(trace) + 1
      BY <2>1
    <3>2. IsFiniteSet(1..n) /\ Counted(S) \in SUBSET (1..n)
      BY <2>2, <3>1, FS_Interval
    <3> QED
      BY <3>2, FS_Subset, FS_CardinalityType
<1>2. CASE Request
  <2>1. CASE is_blocked
    BY <1>0, <1>2, <2>1, QuietStep DEF Request, trafficVars
  <2>2. CASE ~is_blocked
    <3>1. requests' = Counted(requests) /\ UNCHANGED <<errors, clock>> /\ blocked <= clock
      BY <1>0, <1>2, <2>2 DEF Request, is_blocked
    <3>2. Cardinality(requests') \in Nat
      BY <1>1, <3>1 DEF TrafficIInv, TrafficTyped
    <3>3. CASE Cardinality(requests') > MAX_RPM
      <4>1. Happened("denied") /\ blocked' = clock + BLOCK_SECS
        BY <1>2, <2>2, <3>3 DEF Request, TooMany, _block
      <4> QED
        BY <1>0, <3>1, <4>1, EventStep DEF Kinds
    <3>4. CASE ~(Cardinality(requests') > MAX_RPM)
      <4>1. Happened("admitted") /\ blocked' = 0
        BY <1>2, <2>2, <3>4 DEF Request, TooMany
      <4>2. Cardinality(requests') <= MAX_RPM
        BY <1>0, <3>2, <3>4
      <4> QED
        BY <3>1, <4>1, <4>2, EventStep DEF Kinds
    <3> QED
      BY <3>3, <3>4
  <2> QED
    BY <2>1, <2>2
<1>3. ASSUME NEW is4xx \in BOOLEAN, record_error(is4xx) PROVE TrafficIInv'
  <2>1. UNCHANGED <<clock, requests>>
    BY <1>3 DEF record_error
  <2>2. CASE ~is4xx
    BY <1>0, <1>3, <2>1, <2>2, QuietStep DEF record_error
  <2>3. CASE is4xx
    <3>1. errors' = Counted(errors) /\ Happened("error")
      BY <1>3, <2>3 DEF record_error
    <3>2. IF Cardinality(errors') > MAX_ERR_RPM THEN blocked' = clock + BLOCK_SECS ELSE blocked' = blocked
      BY <1>3, <2>3 DEF record_error, TooMany, _block
    <3> QED
      BY <1>0, <2>1, <3>1, <3>2, EventStep DEF Kinds
  <2> QED
    BY <2>2, <2>3
<1>4. CASE (clock' = clock + 1 /\ UNCHANGED trafficVars) \/ UNCHANGED <<clock, trafficVars>>
  BY <1>0, <1>4, QuietStep DEF trafficVars
<1> QED
  BY <1>2, <1>3, <1>4 DEF TrafficNext, Monitor

\* For any limits, windows and requests in flight: no window admits more than MAX_RPM, and
\* nobody who sent one request or one error too many is let in for BLOCK_SECS.
THEOREM AdmissionBoundedHolds == TrafficSpec => []AdmissionBounded
<1>1. clock = 0 /\ TrafficInit => TrafficIInv
  BY DEF TrafficInit, TrafficIInv, TrafficTyped, Listed, Blocked, AdmissionBounded
<1>2. TrafficIInv /\ [TrafficNext]_<<clock, trafficVars>> => TrafficIInv'
  BY TrafficStep
<1>3. TrafficIInv => AdmissionBounded
  BY DEF TrafficIInv
<1> QED
  BY <1>1, <1>2, <1>3, PTL DEF TrafficSpec

-----------------------------------------------------------------------------
\* The scenes that are model-checked are behaviours of each of the four: what the theorems
\* say of them holds of every scene.
THEOREM ScenesAreTheMonitors ==
  MCSpec => AnomaliesSpec /\ RegistrySpec /\ CodesSpec /\ TrafficSpec
<1>1. MCInit => AnomaliesInit /\ RegistryInit /\ CodesInit /\ clock = 0 /\ TrafficInit
  BY DEF MCInit, AnomaliesInit
<1>2. ASSUME Callers PROVE Finds /\ UNCHANGED clock
  <2>1. Finds
    <3>1. PICK j \in Jobs : serial_of[j] = "disk"
      BY MCMonitoringAssumption
    <3>2. ASSUME NEW s \in Snapshots, DeviceSeen("disk", s) PROVE Finds
      BY <3>1, <3>2 DEF Finds
    <3> QED
      BY <1>2, <3>2, MCMonitoringAssumption DEF Callers, Finds
  <2>2. UNCHANGED clock
    BY <1>2 DEF Callers, LoginFailed, LoginSuccess, RoleRises, DeviceSeen, JobCompleted,
                JobChecked, JobFailed, Nightly
  <2> QED
    BY <2>1, <2>2
<1>3. ASSUME Recorders PROVE AnomaliesNext /\ (UNCHANGED clock \/ Later)
  <2>1. \A t : Record(t) => UNCHANGED clock
    BY DEF Record, Keep, Find, Insert, Duplicate, Log, Raises
  <2>2. Acknowledge \/ Crash => UNCHANGED clock
    BY DEF Acknowledge, acknowledge_anomaly, Crash
  <2> QED
    BY <1>3, <2>1, <2>2 DEF Recorders, Tick, AnomaliesNext
<1>4. Monitor => UNCHANGED clock
  BY DEF Monitor, Request, record_error
<1>5. Sockets \/ Pairing => UNCHANGED clock
  <2>1. \A k, j : issue_ticket(j) \/ job_websocket(k, j) \/ Disconnect(k, j) => UNCHANGED clock
    BY DEF issue_ticket, job_websocket, Disconnect
  <2>2. \A k, d : \/ create_pairing_code \/ register_agent(k) \/ revoke_agent(k) \/ heartbeat(k, d)
                  => UNCHANGED clock
    BY DEF create_pairing_code, register_agent, revoke_agent, heartbeat
  <2> QED
    BY <2>1, <2>2 DEF Sockets, Pairing
<1>6. Later => clock' = clock + 1 /\ UNCHANGED anomalyVars
  BY DEF Later
<1>7. Ticks => Later /\ UNCHANGED <<trafficVars, codeVars>>
  BY DEF Ticks, Later
<1>8. [MCNext]_vars => [AnomaliesNext]_<<clock, anomalyVars>>
  BY <1>2, <1>3, <1>4, <1>5, <1>7 DEF MCNext, AnomaliesNext, vars
<1>9. [MCNext]_vars => [Models]_registryVars /\ [Sockets \/ Pairing]_codeVars
  <2>1. [MCNext]_vars => [Models]_registryVars
    BY DEF MCNext, Others, vars
  <2>2. [MCNext]_vars => [Sockets \/ Pairing]_codeVars
    BY <1>7 DEF MCNext, Others, vars
  <2> QED
    BY <2>1, <2>2
<1>10. [MCNext]_vars => [TrafficNext]_<<clock, trafficVars>>
  BY <1>2, <1>3, <1>5, <1>6, <1>7 DEF MCNext, Others, TrafficNext, vars
<1> QED
  BY <1>1, <1>8, <1>9, <1>10, PTL DEF MCSpec, AnomaliesSpec, RegistrySpec, CodesSpec, TrafficSpec
=============================================================================

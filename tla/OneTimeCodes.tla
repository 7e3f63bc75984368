----------------------------- MODULE OneTimeCodes -----------------------------
(***************************************************************************)
(* What is good once: the tickets of backend/realtime.py that open the     *)
(* websocket of a job, and the pairing codes of backend/agent_api.py that  *)
(* make an agent, with what an agent then may do.  A route is one step of  *)
(* the event loop; only a crash parts its writes.                          *)
(***************************************************************************)
EXTENDS Clock, Naturals, Sequences, FiniteSets

CONSTANTS
  Watched,          \* jobs a socket may follow
  Drives,           \* serials of the drives an agent may report
  TICKET_TTL, PAIR_TTL,
  MaxCodes, MaxAgents, MaxBroken  \* bounds: tickets or codes, agents, crashes and lost answers

VARIABLES
  tickets,  \* _tickets, with those that were popped: job, expires, kept, and sockets opened
  rooms,    \* connected: the tickets of the sockets in the room of each job
  codes,    \* agent_pairing_codes: expires_at, used_at as a flag
  agents,   \* agents: the code that made it, revoked, the devices reported, who has the token
  broken

codeVars == <<tickets, rooms, codes, agents, broken>>

CodesInit ==
  /\ tickets = <<>> /\ rooms = [j \in Watched |-> {}]
  /\ codes = <<>> /\ agents = <<>> /\ broken = 0

Breaks == broken < MaxBroken /\ broken' = broken + 1

-----------------------------------------------------------------------------
(* Tickets. *)

issue_ticket(j) ==
  /\ Len(tickets) < MaxCodes
  /\ LET kept == [k \in DOMAIN tickets |->
                    [tickets[k] EXCEPT !.kept = @ /\ tickets[k].expires >= clock]]
     IN tickets' = Append(kept, [job |-> j, expires |-> clock + TICKET_TTL, kept |-> TRUE,
                                 opened |-> <<>>])
  /\ UNCHANGED <<clock, rooms, codes, agents, broken>>

Good(k, j) == tickets[k].kept /\ tickets[k].job = j /\ tickets[k].expires >= clock

Opened(k, j) ==
  IF Good(k, j) THEN Append(tickets[k].opened, j) ELSE tickets[k].opened

\* redeem_ticket and the socket it opens: the ticket is gone, good or not.
job_websocket(k, j) ==
  /\ tickets' = [tickets EXCEPT ![k] =
                   [@ EXCEPT !.kept = FALSE, !.opened = Opened(k, j)]]
  /\ rooms' = [rooms EXCEPT ![j] = IF Good(k, j) THEN @ \cup {k} ELSE @]
  /\ UNCHANGED <<clock, codes, agents, broken>>

Disconnect(k, j) ==
  /\ k \in rooms[j] /\ rooms' = [rooms EXCEPT ![j] = @ \ {k}]
  /\ UNCHANGED <<clock, tickets, codes, agents, broken>>

-----------------------------------------------------------------------------
(* Pairing. *)

create_pairing_code ==
  /\ Len(codes) < MaxCodes
  /\ codes' = Append(codes, [expires |-> clock + PAIR_TTL, used |-> FALSE])
  /\ UNCHANGED <<clock, tickets, rooms, agents, broken>>

Claim(k) ==
  /\ ~codes[k].used /\ codes[k].expires >= clock
  /\ codes' = [codes EXCEPT ![k] = [@ EXCEPT !.used = TRUE]]

Made(k, known) == Append(agents, [code |-> k, revoked |-> FALSE, devices |-> {}, known |-> known])

\* Mutant: the agent is made before its code is claimed.
register_agentFirst(k) ==
  /\ ~codes[k].used /\ codes[k].expires >= clock /\ Len(agents) < MaxAgents
  /\ \/ Claim(k) /\ agents' = Made(k, TRUE) /\ UNCHANGED broken
     \/ UNCHANGED codes /\ agents' = Made(k, FALSE) /\ Breaks
  /\ UNCHANGED <<clock, tickets, rooms>>

\* register_agent: the code is claimed before the agent is made; the answer with the
\* token may be lost, a crash may leave a used code and no agent.
register_agent(k) ==
  /\ Claim(k) /\ Len(agents) < MaxAgents
  /\ \/ agents' = Made(k, TRUE) /\ UNCHANGED broken
     \/ agents' = Made(k, FALSE) /\ Breaks
     \/ UNCHANGED agents /\ Breaks
  /\ UNCHANGED <<clock, tickets, rooms>>

revoke_agent(a) ==
  /\ agents' = [agents EXCEPT ![a] = [@ EXCEPT !.revoked = TRUE]]
  /\ UNCHANGED <<clock, tickets, rooms, codes, broken>>

\* current_agent.
Known(a) == agents[a].known /\ ~agents[a].revoked

\* heartbeat: the devices are deleted and inserted; a crash in between leaves none.
heartbeat(a, reported) ==
  /\ Known(a)
  /\ \/ agents' = [agents EXCEPT ![a] = [@ EXCEPT !.devices = reported]] /\ UNCHANGED broken
     \/ agents' = [agents EXCEPT ![a] = [@ EXCEPT !.devices = {}]] /\ Breaks
  /\ UNCHANGED <<clock, tickets, rooms, codes>>

\* visible_agents, and with them the drives that find_agent_device finds.
visible_agents == {a \in DOMAIN agents : ~agents[a].revoked}
agent_devices == UNION {agents[a].devices : a \in visible_agents}

Sockets == \/ \E j \in Watched : issue_ticket(j)
           \/ \E k \in DOMAIN tickets, j \in Watched : job_websocket(k, j) \/ Disconnect(k, j)
Pairing == \/ create_pairing_code
           \/ \E k \in DOMAIN codes : register_agent(k)
           \/ \E a \in DOMAIN agents :
                revoke_agent(a) \/ \E reported \in SUBSET Drives : heartbeat(a, reported)

\* The clock may show anything at any time, as a server's may.
CodesSpec == CodesInit /\ [][Sockets \/ Pairing]_codeVars

-----------------------------------------------------------------------------
\* A ticket opens one socket, of its own job, and every socket in a room has its own;
\* a pairing code makes one agent, wherever the server stops or an answer is lost; and
\* the drives on offer come from agents that hold their token.
SpentOnce ==
  /\ \A k \in DOMAIN tickets :
       /\ Len(tickets[k].opened) <= 1 /\ tickets[k].opened # <<>> => ~tickets[k].kept
       /\ \A j \in Watched : k \in rooms[j] => tickets[k].opened = <<j>> /\ tickets[k].job = j
  /\ \A a, b \in DOMAIN agents : agents[a].code = agents[b].code => a = b
  /\ \A a \in DOMAIN agents : codes[agents[a].code].used
  /\ \A d \in agent_devices : \E a \in DOMAIN agents : d \in agents[a].devices /\ Known(a)
=============================================================================

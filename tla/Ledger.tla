-------------------------------- MODULE Ledger ---------------------------------
(***************************************************************************)
(* What the audit log promises to whoever calls log_event: the call adds   *)
(* its event at the end of its chain in one step and returns, or its loss  *)
(* shows: a line in the log of the server, an exception, or the death of   *)
(* its process.  A chain is only ever added to.  An event whose answer was *)
(* lost may be in its chain although its loss was shown.  AuditChain       *)
(* implements it.                                                          *)
(***************************************************************************)
EXTENDS Sequences

CONSTANTS Chains, Events

VARIABLES
  entries,  \* the events of each chain, in order
  open,     \* the calls under way: pairs of an event and its chain
  called,   \* the events that log_event was ever called with
  missed    \* the calls whose loss showed

ledgerVars == <<entries, open, called, missed>>

LInit ==
  /\ entries = [c \in Chains |-> <<>>]
  /\ open = {} /\ called = {} /\ missed = {}

Call(e, c) ==
  /\ e \notin called
  /\ called' = called \cup {e} /\ open' = open \cup {<<e, c>>}
  /\ UNCHANGED <<entries, missed>>

Add(k) ==
  /\ entries' = [entries EXCEPT ![k[2]] = Append(@, k[1])]
  /\ open' = open \ {k} /\ UNCHANGED called

Log(k)       == Add(k) /\ UNCHANGED missed
LogUnseen(k) == Add(k) /\ missed' = missed \cup {k}

\* A call gives up, or all the calls of a process at once.
Miss(gone) ==
  /\ open' = open \ gone /\ missed' = missed \cup gone
  /\ UNCHANGED <<entries, called>>

LNext ==
  \/ \E e \in Events, c \in Chains : Call(e, c)
  \/ \E k \in open : Log(k) \/ LogUnseen(k)
  \/ \E gone \in SUBSET open : Miss(gone)

LSpec == LInit /\ [][LNext]_ledgerVars

-----------------------------------------------------------------------------
\* What an auditor may conclude: an event that was to be logged is in its chain, still
\* under way, or known to be missing; what is in a chain was logged, and only once.
Accounted ==
  /\ \A e \in called :
       \/ \E c \in Chains : \E i \in DOMAIN entries[c] : entries[c][i] = e
       \/ \E k \in open \cup missed : k[1] = e
  /\ \A c, d \in Chains : \A i \in DOMAIN entries[c], j \in DOMAIN entries[d] :
       /\ entries[c][i] \in called
       /\ entries[c][i] = entries[d][j] => c = d /\ i = j

\* No step removes, replaces or moves an event of a chain.
AppendOnly ==
  [][\A c \in Chains : \A i \in DOMAIN entries[c] :
       i \in DOMAIN entries'[c] /\ entries'[c][i] = entries[c][i]]_ledgerVars
=============================================================================

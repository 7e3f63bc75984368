---------------------------- MODULE PromiseProofs -----------------------------
(***************************************************************************)
(* What may be concluded from the promises: an operator from a job that    *)
(* obeys WipeJob, the owner of the data from an erasure that obeys         *)
(* Erasure, an auditor from a log that obeys Ledger.  With the refinements *)
(* these hold of the jobs the server or an agent executes, of a hardware   *)
(* wipe and of a file job, and of the audit log.                           *)
(***************************************************************************)
EXTENDS WipeJob, Erasure, Ledger, Naturals, TLAPS

Typed ==
  /\ DOMAIN state = Jobs /\ state = [j \in Jobs |-> state[j]]
  /\ erased \in [Jobs -> BOOLEAN] /\ certified \in [Jobs -> BOOLEAN]

WInv == Typed /\ Trustworthy

\* The steps of one job leave the others alone, and keep WInv of their own.
LEMMA LifeStep ==
  ASSUME WInv, contested \subseteq contested', NEW j \in Jobs,
         \/ Create(j) \/ Approve(j) \/ Claim(j) \/ Erase(j)
         \/ Complete(j) \/ Fail(j) \/ Cancel(j) \/ Certify(j) \/ Overwrite(j)
  PROVE  WInv'
<1> USE DEF WInv, Typed, Trustworthy, Becomes
<1>1. CASE Create(j)
  BY <1>1 DEF Create
<1>2. CASE Approve(j)
  BY <1>2 DEF Approve
<1>3. CASE Claim(j)
  BY <1>3 DEF Claim
<1>4. CASE Erase(j)
  BY <1>4 DEF Erase
<1>5. CASE Complete(j)
  BY <1>5 DEF Complete
<1>6. CASE Fail(j)
  BY <1>6 DEF Fail
<1>7. CASE Cancel(j)
  BY <1>7 DEF Cancel
<1>8. CASE Certify(j)
  BY <1>8 DEF Certify
<1>9. CASE Overwrite(j)
  BY <1>9 DEF Overwrite
<1> QED
  BY <1>1, <1>2, <1>3, <1>4, <1>5, <1>6, <1>7, <1>8, <1>9

\* A job that obeys WipeJob can be trusted.
THEOREM ObeyingIsTrustworthy == WSpec => []Trustworthy
<1>1. WInit => WInv
  BY DEF WInit, WInv, Typed, Trustworthy
<1>2. WInv /\ [WNext]_wipeVars => WInv'
  <2>1. ASSUME WInv, contested \subseteq contested', UNCHANGED <<state, erased, certified>>
        PROVE  WInv'
    BY <2>1 DEF WInv, Typed, Trustworthy
  <2>2. ASSUME WInv, UNCHANGED wipeVars PROVE WInv'
    BY <2>1, <2>2 DEF wipeVars
  <2> QED
    BY <2>1, <2>2, LifeStep DEF WNext
<1> QED
  BY <1>1, <1>2, PTL DEF WSpec, WInv

-----------------------------------------------------------------------------
\* A complete erasure holds nothing of what it answers for, now or later, and one that
\* reported its end leaves no device at work.
THEOREM ErasureIsConclusive == ESpec => []Conclusive
<1>1. EInit => Conclusive
  BY DEF EInit, Conclusive, Final
<1>2. ASSUME Conclusive, [ENext]_erasureVars PROVE Conclusive'
  <2>1. CASE UNCHANGED erasureVars
    BY <1>2, <2>1 DEF erasureVars, Conclusive, Final
  <2>2. CASE Work \/ Late
    BY <1>2, <2>2 DEF Work, Late, Conclusive, Final
  <2>3. ASSUME NEW how, End(how) PROVE Conclusive'
    BY <2>3 DEF End, Conclusive, Final
  <2> QED
    BY <1>2, <2>1, <2>2, <2>3 DEF ENext
<1> QED
  BY <1>1, <1>2, PTL DEF ESpec

\* Nothing outside the scope is lost, and nothing is lost after the last word.
THEOREM ErasureIsBounded == ESpec => Bounded
<1>1. [ENext]_erasureVars => [held \ held' \subseteq scope /\ (Final => held' = held)]_erasureVars
  BY DEF ENext, Work, Late, End, Takes, Final, erasureVars
<1> QED
  BY <1>1, PTL DEF ESpec, Bounded

-----------------------------------------------------------------------------
\* An event under way is in no chain, and stands for one call.
LedgerInv ==
  /\ entries \in [Chains -> Seq(Events)] /\ open \subseteq Events \X Chains
  /\ Accounted
  /\ \A k \in open :
       /\ k[1] \in called
       /\ \A c \in Chains : \A i \in DOMAIN entries[c] : entries[c][i] # k[1]
       /\ \A j \in open : j[1] = k[1] => j = k

LEMMA Added ==
  ASSUME LedgerInv, NEW k \in open, Add(k)
  PROVE  LET c == k[2]
             n == Len(entries[c]) + 1
         IN /\ c \in Chains /\ k[1] \in Events
            /\ entries' \in [Chains -> Seq(Events)]
            /\ DOMAIN entries'[c] = DOMAIN entries[c] \cup {n} /\ n \notin DOMAIN entries[c]
            /\ \A i \in DOMAIN entries[c] : entries'[c][i] = entries[c][i]
            /\ entries'[c][n] = k[1]
            /\ \A d \in Chains : d # c => entries'[d] = entries[d]
<1>1. PICK e \in Events, c \in Chains : k[1] = e /\ k[2] = c
  BY DEF LedgerInv
<1>2. PICK s \in Seq(Events) : s = entries[c]
  BY DEF LedgerInv
<1>3. entries' = [entries EXCEPT ![c] = Append(s, e)]
  BY <1>1, <1>2 DEF Add
<1>4. /\ Append(s, e) \in Seq(Events) /\ DOMAIN Append(s, e) = DOMAIN s \cup {Len(s) + 1}
      /\ Len(s) + 1 \notin DOMAIN s
      /\ \A i \in DOMAIN s : Append(s, e)[i] = s[i]
      /\ Append(s, e)[Len(s) + 1] = e
  OBVIOUS
<1>5. entries'[c] = Append(s, e) /\ \A d \in Chains : d # c => entries'[d] = entries[d]
  BY <1>3 DEF LedgerInv
<1>6. entries' \in [Chains -> Seq(Events)]
  BY <1>3, <1>4 DEF LedgerInv
<1> QED
  BY <1>1, <1>2, <1>4, <1>5, <1>6

LEMMA LedgerStep == LedgerInv /\ [LNext]_ledgerVars => LedgerInv'
<1> SUFFICES ASSUME LedgerInv, [LNext]_ledgerVars PROVE LedgerInv'
  OBVIOUS
<1>1. ASSUME NEW e \in Events, NEW c \in Chains, Call(e, c) PROVE LedgerInv'
  <2>1. /\ UNCHANGED <<entries, missed>> /\ e \notin called
        /\ called' = called \cup {e} /\ open' = open \cup {<<e, c>>}
    BY <1>1 DEF Call
  <2>2. \A d \in Chains : \A i \in DOMAIN entries[d] : entries[d][i] \in called
    BY DEF LedgerInv, Accounted
  <2>3. <<e, c>>[1] = e /\ <<e, c>> \in Events \X Chains
    OBVIOUS
  <2>4. Accounted'
    BY <2>1, <2>3 DEF LedgerInv, Accounted
  <2>5. ASSUME NEW k \in open'
        PROVE  /\ k[1] \in called'
               /\ \A d \in Chains : \A i \in DOMAIN entries[d] : entries[d][i] # k[1]
               /\ \A j \in open' : j[1] = k[1] => j = k
    <3>1. \A j \in open : j[1] # e
      BY <2>1 DEF LedgerInv
    <3>2. CASE k \in open
      BY <2>1, <2>3, <3>1, <3>2 DEF LedgerInv
    <3>3. CASE k = <<e, c>>
      BY <2>1, <2>2, <2>3, <3>1, <3>3
    <3> QED
      BY <2>1, <3>2, <3>3
  <2> QED
    BY <2>1, <2>3, <2>4, <2>5 DEF LedgerInv
<1>2. ASSUME NEW k \in open, Add(k), missed' = missed \/ missed' = missed \cup {k} PROVE LedgerInv'
  <2> DEFINE c == k[2]
             n == Len(entries[c]) + 1
  <2>1. /\ c \in Chains /\ entries' \in [Chains -> Seq(Events)]
        /\ DOMAIN entries'[c] = DOMAIN entries[c] \cup {n} /\ n \notin DOMAIN entries[c]
        /\ \A i \in DOMAIN entries[c] : entries'[c][i] = entries[c][i]
        /\ entries'[c][n] = k[1]
        /\ \A d \in Chains : d # c => entries'[d] = entries[d]
    BY <1>2, Added
  <2>2. open' = open \ {k} /\ called' = called
    BY <1>2 DEF Add
  <2> HIDE DEF c, n
  <2>3. \A d \in Chains : \A i \in DOMAIN entries'[d] :
          \/ i \in DOMAIN entries[d] /\ entries'[d][i] = entries[d][i]
          \/ d = c /\ i = n /\ entries'[d][i] = k[1]
    BY <2>1
  <2>4. \A d \in Chains : \A i \in DOMAIN entries[d] :
          i \in DOMAIN entries'[d] /\ entries'[d][i] = entries[d][i]
    BY <2>1
  <2>5. n \in DOMAIN entries'[c]
    BY <2>1
  <2>6. Accounted'
    <3>1. ASSUME NEW e \in called
          PROVE  \/ \E d \in Chains : \E i \in DOMAIN entries'[d] : entries'[d][i] = e
                 \/ \E j \in open' \cup missed' : j[1] = e
      <4>1. CASE e = k[1]
        BY <2>1, <2>5, <4>1
      <4>2. CASE \E d \in Chains : \E i \in DOMAIN entries[d] : entries[d][i] = e
        BY <2>4, <4>2
      <4>3. CASE e # k[1] /\ \E j \in open \cup missed : j[1] = e
        BY <1>2, <2>2, <4>3
      <4> QED
        BY <4>1, <4>2, <4>3 DEF LedgerInv, Accounted
    <3>2. \A d, f \in Chains : \A i \in DOMAIN entries'[d], j \in DOMAIN entries'[f] :
            /\ entries'[d][i] \in called
            /\ entries'[d][i] = entries'[f][j] => d = f /\ i = j
      <4> SUFFICES ASSUME NEW d \in Chains, NEW f \in Chains, NEW i \in DOMAIN entries'[d],
                          NEW j \in DOMAIN entries'[f]
                   PROVE  /\ entries'[d][i] \in called
                          /\ entries'[d][i] = entries'[f][j] => d = f /\ i = j
        OBVIOUS
      <4>1. k[1] \in called /\ \A h \in Chains : \A m \in DOMAIN entries[h] : entries[h][m] # k[1]
        BY DEF LedgerInv
      <4>2. \/ i \in DOMAIN entries[d] /\ entries'[d][i] = entries[d][i]
            \/ d = c /\ i = n /\ entries'[d][i] = k[1]
        BY <2>3
      <4>3. \/ j \in DOMAIN entries[f] /\ entries'[f][j] = entries[f][j]
            \/ f = c /\ j = n /\ entries'[f][j] = k[1]
        BY <2>3
      <4> QED
        BY <4>1, <4>2, <4>3 DEF LedgerInv, Accounted
    <3> QED
      BY <2>2, <3>1, <3>2 DEF Accounted
  <2>7. \A j \in open' : /\ j[1] \in called /\ j[1] # k[1]
                         /\ \A d \in Chains : \A i \in DOMAIN entries'[d] : entries'[d][i] # j[1]
    BY <2>2, <2>3 DEF LedgerInv
  <2> QED
    BY <2>1, <2>2, <2>6, <2>7 DEF LedgerInv
<1>3. ASSUME NEW gone \in SUBSET open, Miss(gone) PROVE LedgerInv'
  BY <1>3 DEF Miss, LedgerInv, Accounted
<1>4. ASSUME UNCHANGED ledgerVars PROVE LedgerInv'
  BY <1>4 DEF ledgerVars, LedgerInv, Accounted
<1> QED
  BY <1>1, <1>2, <1>3, <1>4 DEF LNext, Log, LogUnseen

\* Every event that was to be logged is in its chain, under way or known to be missing,
\* and nothing else is in a chain, nor anything twice.
THEOREM LedgerAccounts == LSpec => []Accounted
<1>1. LInit => LedgerInv
  BY DEF LInit, LedgerInv, Accounted
<1>2. LedgerInv => Accounted
  BY DEF LedgerInv
<1> QED
  BY <1>1, <1>2, LedgerStep, PTL DEF LSpec

\* A chain is only added to.
THEOREM LedgerIsAppendOnly == LSpec => AppendOnly
<1> DEFINE Kept == \A c \in Chains : \A i \in DOMAIN entries[c] :
                     i \in DOMAIN entries'[c] /\ entries'[c][i] = entries[c][i]
<1>1. LInit => LedgerInv
  BY DEF LInit, LedgerInv, Accounted
<1>2. LedgerInv /\ [LNext]_ledgerVars => [Kept]_ledgerVars
  <2>1. ASSUME LedgerInv, NEW k \in open, Add(k) PROVE Kept
    BY <2>1, Added
  <2>2. UNCHANGED entries => Kept
    OBVIOUS
  <2> QED
    BY <2>1, <2>2 DEF LNext, Log, LogUnseen, Call, Miss
<1> QED
  BY <1>1, <1>2, LedgerStep, PTL DEF LSpec, AppendOnly
=============================================================================

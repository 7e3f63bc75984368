--------------------------- MODULE AuditChainProofs ---------------------------
(***************************************************************************)
(* Proofs about AuditChain for any processes, threads, chains, hash        *)
(* function, number of rounds and bounds.                                  *)
(***************************************************************************)
EXTENDS AuditChain, TLAPS

-----------------------------------------------------------------------------
(* Sequences of rows, whose events and hashes have no type. *)

Elements(s) == {s[i] : i \in DOMAIN s}
IsSequence(s) == s \in Seq(Elements(s))

\* What Append does to such a sequence.
LEMMA AppendElement ==
  ASSUME NEW s, IsSequence(s), NEW e
  PROVE  /\ IsSequence(Append(s, e))
         /\ Len(s) \in Nat /\ DOMAIN s = 1..Len(s)
         /\ DOMAIN Append(s, e) = 1..(Len(s) + 1)
         /\ \A i \in 1..Len(s) : Append(s, e)[i] = s[i]
         /\ Append(s, e)[Len(s) + 1] = e
<1> DEFINE S == Elements(s) \cup {e}
           t == Append(s, e)
<1>1. s \in Seq(S)
  <2>1. s \in Seq(Elements(s))
    BY DEF IsSequence
  <2>2. Len(s) \in Nat /\ s \in [1..Len(s) -> Elements(s)]
    BY <2>1
  <2>3. s \in [1..Len(s) -> S]
    BY <2>2
  <2> QED
    BY <2>2, <2>3
<1>2. /\ t \in Seq(S) /\ Len(t) = Len(s) + 1 /\ Len(s) \in Nat
      /\ DOMAIN s = 1..Len(s) /\ DOMAIN t = 1..(Len(s) + 1)
      /\ \A i \in 1..Len(s) : t[i] = s[i]
      /\ t[Len(s) + 1] = e
  BY <1>1
<1>3. t \in [1..(Len(s) + 1) -> Elements(t)]
  <2> HIDE DEF t, S
  <2>1. t \in [1..Len(t) -> S]
    BY <1>2
  <2>2. t \in [1..(Len(s) + 1) -> S]
    BY <2>1, <1>2
  <2>3. \A i \in 1..(Len(s) + 1) : t[i] \in Elements(t)
    BY <1>2 DEF Elements
  <2> QED
    BY <2>2, <2>3
<1>4. IsSequence(t)
  <2> HIDE DEF t, S
  <2>1. t \in Seq(Elements(t))
    BY <1>2, <1>3
  <2> QED
    BY <2>1 DEF IsSequence
<1> QED
  BY <1>2, <1>4

-----------------------------------------------------------------------------
(* The inductive invariant *)

\* The hash that row k + 1 of chain c continues.
TipAt(c, k) == IF k = 0 THEN Genesis ELSE log[c][k].hash

\* Every row continues the row before it, under a number drawn later.
Chained(c) ==
  /\ IsSequence(log[c])
  /\ \A i \in 1..Len(log[c]) :
       /\ log[c][i].id \in 1..counter
       /\ log[c][i].prev = TipAt(c, i - 1)
       /\ log[c][i].hash = Hash(log[c][i].event, log[c][i].prev)
  /\ \A i, k \in 1..Len(log[c]) : i < k => log[c][i].id < log[c][k].id

\* What a thread has read is the hash of some row k, the last when it was
\* read, and its number is above those of the rows up to k.
Reading(w) ==
  /\ pc[w] \in {"number", "insert"} =>
       \E k \in 0..Len(log[chain[w]]) :
         /\ tip[w] = TipAt(chain[w], k)
         /\ pc[w] = "insert" =>
              \A i \in 1..k : log[chain[w]][i].id < id[w]
  /\ pc[w] = "insert" => id[w] \in 1..counter

\* A row holds a call of a thread; the thread has left its last one.
CallOf(e) ==
  \E w \in Writers, n \in 0..MaxEvents :
    /\ e = [by |-> w, n |-> n]
    /\ n <= calls[w]
    /\ n = calls[w] => pc[w] = "idle"

Called == \A c \in Chains : \A i \in DOMAIN log[c] : CallOf(log[c][i].event)

LogOK ==
  /\ DOMAIN log = Chains
  /\ DOMAIN tip = Writers
  /\ \A c \in Chains : Chained(c)

IInv ==
  /\ TypeOK /\ LogOK /\ Called /\ LoggedAtMostOnce
  /\ \A w \in Writers : Reading(w)

\* The chains are empty.
LEMMA InitIInv == Init => IInv
<1> SUFFICES ASSUME Init PROVE IInv
  OBVIOUS
<1>1. TypeOK
  BY AttemptsAssumption, BoundsAssumption, ChainsAssumption DEF Init, TypeOK, PCs
<1>2. \A c \in Chains : log[c] = <<>> /\ DOMAIN log[c] = {} /\ Len(log[c]) = 0
  BY DEF Init
<1>3. \A c \in Chains : IsSequence(log[c])
  <2>1. \A S : <<>> \in Seq(S)
    OBVIOUS
  <2> QED
    BY <1>2, <2>1 DEF IsSequence
<1>4. LogOK /\ Called /\ LoggedAtMostOnce
  BY <1>2, <1>3 DEF LogOK, Chained, Called, LoggedAtMostOnce, Init
<1>5. \A w \in Writers : Reading(w)
  BY DEF Init, Reading
<1> QED
  BY <1>1, <1>4, <1>5 DEF IInv

\* Every step keeps the types.
LEMMA TypeStep == TypeOK /\ [Next]_vars => TypeOK'
<1> SUFFICES ASSUME TypeOK, [Next]_vars PROVE TypeOK'
  OBVIOUS
<1> USE ProcessAssumption, AttemptsAssumption, BoundsAssumption DEF TypeOK, PCs, locals
<1>1. ASSUME NEW w \in Writers, NEW c \in Chains, Call(w, c) PROVE TypeOK'
  BY <1>1 DEF Call, Goto
<1>2. ASSUME NEW w \in Writers, Acquire(w) PROVE TypeOK'
  BY <1>2 DEF Acquire, Goto
<1>3. ASSUME NEW w \in Writers, ReadTip(w) PROVE TypeOK'
  BY <1>3 DEF ReadTip, Goto
<1>4. ASSUME NEW w \in Writers, DrawId(w) PROVE TypeOK'
  BY <1>4 DEF DrawId, Goto
<1>5. ASSUME NEW w \in Writers, Insert(w) PROVE TypeOK'
  BY <1>5 DEF Insert, Return, Goto
<1>6. ASSUME NEW w \in Writers, Refused(w) PROVE TypeOK'
  <2>1. tries[w] \in 0..(Attempts - 1)
    OBVIOUS
  <2>a. \/ tries[w] + 1 < Attempts /\ tries' = [tries EXCEPT ![w] = @ + 1]
        \/ tries' = tries
    BY <1>6, ZenonT(30) DEF Refused
  <2>2. tries' \in [Writers -> 0..(Attempts - 1)]
    BY <2>a, <2>1
  <2>b. lock' = lock \/ lock' = [lock EXCEPT ![Process[w]][chain[w]] = {}]
    BY <1>6, ZenonT(30) DEF Refused, Return
  <2>3. lock' \in [Processes -> [Chains -> SUBSET Writers]]
    <3>1. Process[w] \in Processes /\ chain[w] \in Chains
      OBVIOUS
    <3>2. CASE lock' = lock
      BY <3>2
    <3>3. CASE lock' = [lock EXCEPT ![Process[w]][chain[w]] = {}]
      BY <3>1, <3>3
    <3> QED
      BY <2>b, <3>2, <3>3
  <2>4. pc' \in [Writers -> PCs]
    BY <1>6 DEF Refused, Return, Goto
  <2> QED
    BY <1>6, <2>2, <2>3, <2>4 DEF Refused
<1>7. ASSUME NEW w \in Writers, ReadFault(w) PROVE TypeOK'
  BY <1>7 DEF ReadFault, Return, Goto, Fault
<1>8. ASSUME NEW w \in Writers, InsertFault(w) PROVE TypeOK'
  BY <1>8 DEF InsertFault, Return, Goto, Fault
<1>9. ASSUME NEW p \in Processes, Crash(p) PROVE TypeOK'
  BY <1>9 DEF Crash, Fault
<1>10. CASE UNCHANGED vars
  BY <1>10 DEF vars
<1> QED
  BY <1>1, <1>2, <1>3, <1>4, <1>5, <1>6, <1>7, <1>8, <1>9, <1>10 DEF Next, WriterStep


\* The last row by id is the last one inserted.
LEMMA LastIsNewest ==
  ASSUME TypeOK, LogOK, NEW c \in Chains
  PROVE  TipHash(c) = TipAt(c, Len(log[c])) /\ Len(log[c]) \in Nat
<1>1. Chained(c)
  BY DEF LogOK
<1>2. Len(log[c]) \in Nat /\ DOMAIN log[c] = 1..Len(log[c])
  BY <1>1, AppendElement DEF Chained
<1>3. CASE Len(log[c]) = 0
  BY <1>2, <1>3 DEF TipHash, TipAt
<1>4. CASE Len(log[c]) # 0
  <2> DEFINE n == Len(log[c])
             Newest(i) == \A k \in DOMAIN log[c] : log[c][k].id <= log[c][i].id
  <2>1. n \in DOMAIN log[c]
    BY <1>2, <1>4
  <2>2. \A i \in 1..n : log[c][i].id \in Nat
    BY <1>1 DEF Chained, TypeOK
  <2>3. Newest(n)
    <3> SUFFICES ASSUME NEW k \in DOMAIN log[c] PROVE log[c][k].id <= log[c][n].id
      OBVIOUS
    <3>1. k = n \/ k < n
      BY <1>2
    <3>2. k < n => log[c][k].id < log[c][n].id
      BY <1>1, <1>2, <2>1 DEF Chained
    <3>3. log[c][k].id \in Nat /\ log[c][n].id \in Nat
      BY <1>2, <2>1, <2>2
    <3> QED
      BY <3>1, <3>2, <3>3
  <2>4. ASSUME NEW i \in DOMAIN log[c], Newest(i) PROVE i = n
    <3>1. i = n \/ i < n
      BY <1>2
    <3>2. i < n => log[c][i].id < log[c][n].id
      BY <1>1, <1>2, <2>1 DEF Chained
    <3>3. log[c][n].id <= log[c][i].id
      BY <2>1, <2>4
    <3>4. log[c][i].id \in Nat /\ log[c][n].id \in Nat
      BY <1>2, <2>1, <2>2
    <3> QED
      BY <3>1, <3>2, <3>3, <3>4
  <2>5. Last(c) = n
    <3>1. Last(c) = CHOOSE i \in DOMAIN log[c] : Newest(i)
      BY DEF Last
    <3>2. Last(c) \in DOMAIN log[c] /\ Newest(Last(c))
      <4> HIDE DEF Newest, n
      <4> QED
        BY <2>1, <2>3, <3>1
    <3> QED
      BY <3>2, <2>4
  <2> QED
    BY <1>2, <1>4, <2>1, <2>5 DEF TipHash, TipAt
<1> QED
  BY <1>2, <1>3, <1>4

\* Nothing is appended: the chains stay as they are while the counter grows.
LEMMA KeepLog ==
  ASSUME TypeOK, LogOK, UNCHANGED log, counter' \in Nat, counter' >= counter,
         DOMAIN tip' = Writers
  PROVE  LogOK'
<1> SUFFICES ASSUME NEW c \in Chains PROVE Chained(c)'
  BY DEF LogOK
<1>1. Chained(c) /\ counter \in Nat
  BY DEF LogOK, TypeOK
<1>2. \A k : TipAt(c, k)' = TipAt(c, k)
  BY DEF TipAt
<1> QED
  BY <1>1, <1>2 DEF Chained

\* Nothing is appended, and no thread calls again: a thread that has left its
\* call stays out of it.
LEMMA KeepCalls ==
  ASSUME TypeOK, Called, LoggedAtMostOnce, UNCHANGED <<log, calls>>,
         \A w \in Writers : pc[w] = "idle" => pc'[w] = "idle"
  PROVE  Called' /\ LoggedAtMostOnce'
<1>1. \A e : CallOf(e) => CallOf(e)'
  BY DEF CallOf
<1>2. Called'
  BY <1>1 DEF Called
<1> QED
  BY <1>2 DEF LoggedAtMostOnce

\* A thread that does nothing keeps what it has read, whatever is appended
\* behind it.
LEMMA KeepReading ==
  ASSUME TypeOK, LogOK, NEW w \in Writers, Reading(w),
         pc'[w] = pc[w], tip'[w] = tip[w], id'[w] = id[w], chain'[w] = chain[w],
         counter' \in Nat, counter' >= counter,
         LET c == chain[w]
         IN  /\ Len(log'[c]) \in Nat /\ Len(log'[c]) >= Len(log[c])
             /\ \A i \in 1..Len(log[c]) : log'[c][i] = log[c][i]
  PROVE  Reading(w)'
<1> DEFINE c == chain[w]
<1>1. c \in Chains /\ counter \in Nat
  BY DEF TypeOK
<1>2. Len(log[c]) \in Nat
  BY <1>1, LastIsNewest
<1>3. ASSUME pc[w] \in {"number", "insert"},
             NEW k \in 0..Len(log[c]),
             tip[w] = TipAt(c, k),
             pc[w] = "insert" => \A i \in 1..k : log[c][i].id < id[w]
      PROVE  /\ k \in 0..Len(log'[c])
             /\ tip'[w] = TipAt(c, k)'
             /\ pc'[w] = "insert" => \A i \in 1..k : log'[c][i].id < id'[w]
  <2>1. k \in 0..Len(log'[c])
    BY <1>2
  <2>2. \A i \in 1..k : log'[c][i] = log[c][i]
    BY <1>2
  <2>3. TipAt(c, k)' = TipAt(c, k)
    BY <1>2, <2>2 DEF TipAt
  <2> QED
    BY <1>3, <2>1, <2>2, <2>3
<1>4. pc[w] = "insert" => id'[w] \in 1..counter'
  BY <1>1 DEF Reading
<1> QED
  BY <1>3, <1>4 DEF Reading, TipAt


\* The unique index: a row is appended only if its thread has read the hash of
\* the last row, and then it continues the chain.
LEMMA AppendKeepsChain ==
  ASSUME TypeOK, LogOK, NEW w \in Writers, Reading(w), pc[w] = "insert",
         AppendRow(w), UNCHANGED <<counter, tip>>,
         NEW c \in Chains, c = chain[w]
  PROVE  LogOK'
<1> DEFINE n == Len(log[c])
<1>1. c \in Chains /\ counter \in Nat /\ Chained(c)
  BY DEF TypeOK, LogOK
<1>2. /\ IsSequence(log'[c]) /\ n \in Nat /\ DOMAIN log[c] = 1..n
      /\ DOMAIN log'[c] = 1..(n + 1) /\ Len(log'[c]) = n + 1
      /\ \A i \in 1..n : log'[c][i] = log[c][i]
      /\ log'[c][n + 1] = Row(w)
  <2>1. IsSequence(log[c])
    BY <1>1 DEF Chained
  <2>2. log'[c] = Append(log[c], Row(w))
    BY <1>1 DEF AppendRow, LogOK
  <2>3. Len(log'[c]) = n + 1
    BY <2>1, <2>2 DEF IsSequence
  <2> QED
    BY <2>1, <2>2, <2>3, AppendElement
<1>3. tip[w] = TipAt(c, n) /\ \A i \in 1..n : log[c][i].id < id[w]
  <2>1. PICK k \in 0..n : tip[w] = TipAt(c, k) /\ \A i \in 1..k : log[c][i].id < id[w]
    BY DEF Reading
  <2>2. ASSUME k # n PROVE FALSE
    <3>1. k + 1 \in 1..n /\ (k + 1) - 1 = k
      BY <1>2, <2>2
    <3>2. log[c][k + 1].prev = TipAt(c, k)
      BY <1>1, <3>1 DEF Chained
    <3> QED
      BY <1>2, <2>1, <3>1, <3>2 DEF AppendRow, Taken
  <2> QED
    BY <2>1, <2>2
<1>4. \A k \in 0..n : TipAt(c, k)' = TipAt(c, k)
  BY <1>2 DEF TipAt
<1>5. Chained(c)'
  <2>1. /\ Row(w).id = id[w] /\ Row(w).prev = tip[w]
        /\ Row(w).hash = Hash(Row(w).event, Row(w).prev)
    BY DEF Row
  <2>2. id[w] \in 1..counter
    BY DEF Reading
  <2>3. ASSUME NEW i \in 1..(n + 1)
        PROVE  /\ log'[c][i].id \in 1..counter
               /\ log'[c][i].prev = TipAt(c, i - 1)'
               /\ log'[c][i].hash = Hash(log'[c][i].event, log'[c][i].prev)
    <3>1. CASE i \in 1..n
      <4>1. TipAt(c, i - 1)' = TipAt(c, i - 1)
        BY <1>2, <1>4, <3>1
      <4> QED
        BY <1>1, <1>2, <3>1, <4>1 DEF Chained
    <3>2. CASE i = n + 1
      <4>1. i - 1 = n /\ n \in 0..n
        BY <1>2, <3>2
      <4> QED
        BY <1>2, <1>3, <1>4, <2>1, <2>2, <3>2, <4>1
    <3> QED
      BY <1>2, <3>1, <3>2
  <2>4. ASSUME NEW i \in 1..(n + 1), NEW k \in 1..(n + 1), i < k
        PROVE  log'[c][i].id < log'[c][k].id
    <3>1. i \in 1..n
      BY <1>2, <2>4
    <3>2. CASE k \in 1..n
      BY <1>1, <1>2, <2>4, <3>1, <3>2 DEF Chained
    <3>3. CASE k = n + 1
      BY <1>2, <1>3, <2>1, <3>1, <3>3
    <3> QED
      BY <1>2, <3>2, <3>3
  <2>5. \A i \in 1..(n + 1) :
          /\ log'[c][i].id \in 1..counter'
          /\ log'[c][i].prev = TipAt(c, i - 1)'
          /\ log'[c][i].hash = Hash(log'[c][i].event, log'[c][i].prev)
    BY <2>3
  <2> HIDE DEF n
  <2> QED
    BY <1>2, <2>4, <2>5 DEF Chained, TipAt
<1>6. ASSUME NEW d \in Chains, d # c PROVE Chained(d)'
  <2>1. log'[d] = log[d]
    BY <1>6 DEF AppendRow, LogOK
  <2>2. \A k : TipAt(d, k)' = TipAt(d, k)
    BY <2>1 DEF TipAt
  <2>3. Chained(d)
    BY DEF LogOK
  <2> QED
    BY <2>1, <2>2, <2>3 DEF Chained
<1>7. DOMAIN log' = Chains /\ DOMAIN tip' = Writers
  BY DEF AppendRow, LogOK
<1>8. \A d \in Chains : Chained(d)'
  BY <1>5, <1>6
<1> QED
  BY <1>7, <1>8 DEF LogOK


\* The row's call is the thread's own, under way until now: it is in no row yet.
LEMMA AppendIsNew ==
  ASSUME TypeOK, LogOK, Called, LoggedAtMostOnce, NEW w \in Writers,
         pc[w] = "insert", AppendRow(w), UNCHANGED calls,
         pc' = [pc EXCEPT ![w] = "idle"]
  PROVE  Called' /\ LoggedAtMostOnce'
<1> DEFINE new == [by |-> w, n |-> calls[w]]
<1>1. PICK c \in Chains : c = chain[w]
  BY DEF TypeOK
<1>2. /\ Len(log[c]) \in Nat
      /\ DOMAIN log[c] = 1..Len(log[c])
      /\ DOMAIN log'[c] = 1..(Len(log[c]) + 1)
      /\ \A i \in DOMAIN log[c] : log'[c][i] = log[c][i]
      /\ log'[c][Len(log[c]) + 1].event = new
  <2>1. IsSequence(log[c])
    BY DEF LogOK, Chained
  <2>2. log'[c] = Append(log[c], Row(w))
    BY <1>1 DEF AppendRow, LogOK
  <2>3. Row(w).event = new
    BY DEF Row, Event
  <2> QED
    BY <2>1, <2>2, <2>3, AppendElement
<1>3. \A d \in Chains : d # c => log'[d] = log[d]
  BY <1>1 DEF AppendRow, LogOK
<1>4. \A e : CallOf(e) => CallOf(e)' /\ e # new
  <2> SUFFICES ASSUME NEW e, NEW v \in Writers, NEW n \in 0..MaxEvents,
                      e = [by |-> v, n |-> n],
                      n <= calls[v], n = calls[v] => pc[v] = "idle"
               PROVE  CallOf(e)' /\ e # new
    BY DEF CallOf
  <2>1. CallOf(e)'
    BY DEF CallOf, TypeOK
  <2>2. e # new
    <3> SUFFICES ASSUME e = new PROVE FALSE
      OBVIOUS
    <3>1. e.by = v /\ e.n = n /\ new.by = w /\ new.n = calls[w]
      OBVIOUS
    <3> QED
      BY <3>1
  <2> QED
    BY <2>1, <2>2
<1>5. CallOf(new)'
  <2>1. calls[w] \in 0..MaxEvents /\ pc'[w] = "idle"
    BY DEF TypeOK
  <2> QED
    BY <2>1, BoundsAssumption DEF CallOf
<1>6. Called'
  BY <1>2, <1>3, <1>4, <1>5 DEF Called
<1>7. LoggedAtMostOnce'
  <2> SUFFICES ASSUME NEW d \in Chains, NEW e \in Chains,
                      NEW i \in DOMAIN log'[d], NEW k \in DOMAIN log'[e],
                      log'[d][i].event = log'[e][k].event
               PROVE  d = e /\ i = k
    BY DEF LoggedAtMostOnce
  <2> DEFINE Old(f, m) == m \in DOMAIN log[f] /\ log'[f][m] = log[f][m]
             New(f, m) == f = c /\ m = Len(log[c]) + 1 /\ log'[f][m].event = new
  <2>1. \A f \in Chains : \A m \in DOMAIN log'[f] : Old(f, m) \/ New(f, m)
    BY <1>2, <1>3
  <2>2. \A f \in Chains : \A m : Old(f, m) => log'[f][m].event # new
    BY <1>4 DEF Called
  <2>3. CASE Old(d, i) /\ Old(e, k)
    BY <2>3 DEF LoggedAtMostOnce
  <2>4. CASE New(d, i) /\ New(e, k)
    BY <2>4
  <2> QED
    BY <2>1, <2>2, <2>3, <2>4
<1> QED
  BY <1>6, <1>7


\* Nothing is appended, and every thread keeps what it has read or has no use
\* for it.
LEMMA QuietReading ==
  ASSUME TypeOK, TypeOK', LogOK, NEW w \in Writers, Reading(w),
         UNCHANGED log, counter' >= counter,
         \/ /\ pc'[w] = pc[w] /\ tip'[w] = tip[w]
            /\ id'[w] = id[w] /\ chain'[w] = chain[w]
         \/ pc'[w] \notin {"number", "insert"}
  PROVE  Reading(w)'
<1>1. CASE pc'[w] \notin {"number", "insert"}
  BY <1>1 DEF Reading
<1>2. CASE /\ pc'[w] = pc[w] /\ tip'[w] = tip[w]
           /\ id'[w] = id[w] /\ chain'[w] = chain[w]
  <2>1. chain[w] \in Chains /\ counter' \in Nat
    BY DEF TypeOK
  <2>2. Len(log[chain[w]]) \in Nat
    BY <2>1, LastIsNewest
  <2>3. /\ Len(log'[chain[w]]) \in Nat /\ Len(log'[chain[w]]) >= Len(log[chain[w]])
        /\ \A i \in 1..Len(log[chain[w]]) : log'[chain[w]][i] = log[chain[w]][i]
    BY <2>2
  <2> QED
    BY <1>2, <2>1, <2>3, KeepReading
<1> QED
  BY <1>1, <1>2

\* A thread other than the one that appends.
LEMMA AppendKeepsReading ==
  ASSUME TypeOK, LogOK, NEW w \in Writers, AppendRow(w), NEW v \in Writers,
         Reading(v), v # w, UNCHANGED <<counter, tip, id, chain>>,
         pc' = [pc EXCEPT ![w] = "idle"]
  PROVE  Reading(v)'
<1>1. PICK c \in Chains : c = chain[w]
  BY DEF TypeOK
<1>2. PICK d \in Chains : d = chain[v]
  BY DEF TypeOK
<1>3. Len(log[d]) \in Nat /\ counter \in Nat
  BY LastIsNewest DEF TypeOK
<1>4. /\ Len(log'[d]) \in Nat /\ Len(log'[d]) >= Len(log[d])
      /\ \A i \in 1..Len(log[d]) : log'[d][i] = log[d][i]
  <2>1. CASE d = c
    <3>1. IsSequence(log[c])
      BY DEF LogOK, Chained
    <3>2. log'[c] = Append(log[c], Row(w))
      BY <1>1 DEF AppendRow, LogOK
    <3>3. Len(log'[c]) = Len(log[c]) + 1
      BY <3>1, <3>2 DEF IsSequence
    <3> QED
      BY <1>3, <2>1, <3>1, <3>2, <3>3, AppendElement
  <2>2. CASE d # c
    <3>1. log'[d] = log[d]
      BY <1>1, <2>2 DEF AppendRow, LogOK
    <3> QED
      BY <1>3, <3>1
  <2> QED
    BY <2>1, <2>2
<1>5. pc'[v] = pc[v]
  BY DEF TypeOK
<1> QED
  BY <1>2, <1>3, <1>4, <1>5, KeepReading

\* An append, seen or not by its thread, keeps the invariant.
LEMMA AppendStep ==
  ASSUME IInv, TypeOK', NEW w \in Writers, pc[w] = "insert", AppendRow(w),
         UNCHANGED <<counter, calls, chain, tip, id>>,
         pc' = [pc EXCEPT ![w] = "idle"]
  PROVE  IInv'
<1> USE DEF IInv
<1>1. PICK c \in Chains : c = chain[w]
  BY DEF TypeOK
<1>2. LogOK'
  BY <1>1, AppendKeepsChain
<1>3. Called' /\ LoggedAtMostOnce'
  BY AppendIsNew
<1>4. Reading(w)'
  BY DEF Reading, TypeOK
<1>5. ASSUME NEW v \in Writers, v # w PROVE Reading(v)'
  BY <1>5, AppendKeepsReading
<1> QED
  BY <1>2, <1>3, <1>4, <1>5

\* Every step keeps the invariant.
LEMMA InvStep == IInv /\ [Next]_vars => IInv'
<1> SUFFICES ASSUME IInv, [Next]_vars PROVE IInv'
  OBVIOUS
<1>a. /\ TypeOK /\ TypeOK' /\ LogOK /\ Called /\ LoggedAtMostOnce
      /\ counter \in Nat /\ counter' \in Nat /\ DOMAIN tip = Writers
      /\ \A w \in Writers : Reading(w)
  BY TypeStep DEF IInv, TypeOK, LogOK
<1>1. ASSUME NEW w \in Writers, NEW c \in Chains, Call(w, c) PROVE IInv'
  <2>1. LogOK'
    BY <1>1, <1>a, KeepLog DEF Call
  <2>2. \A e : CallOf(e) => CallOf(e)'
    <3> SUFFICES ASSUME NEW v \in Writers, NEW n \in 0..MaxEvents,
                        n <= calls[v], n = calls[v] => pc[v] = "idle"
                 PROVE  n <= calls'[v] /\ (n = calls'[v] => pc'[v] = "idle")
      BY DEF CallOf
    <3> QED
      BY <1>1, <1>a, BoundsAssumption DEF Call, Goto, TypeOK
  <2>3. Called' /\ LoggedAtMostOnce'
    BY <1>1, <1>a, <2>2 DEF Call, Called, LoggedAtMostOnce
  <2>4. ASSUME NEW v \in Writers PROVE Reading(v)'
    <3>1. \/ pc'[v] = pc[v] /\ chain'[v] = chain[v]
          \/ pc'[v] \notin {"number", "insert"}
      BY <1>1, <1>a DEF Call, Goto, TypeOK
    <3> QED
      BY <1>1, <1>a, <3>1, QuietReading DEF Call
  <2> QED
    BY <1>a, <2>1, <2>3, <2>4 DEF IInv
<1>2. ASSUME NEW w \in Writers, ReadTip(w) PROVE IInv'
  <2>1. LogOK'
    BY <1>2, <1>a, KeepLog DEF ReadTip
  <2>2. Called' /\ LoggedAtMostOnce'
    BY <1>2, <1>a, KeepCalls DEF ReadTip, Goto, TypeOK
  <2>3. Reading(w)'
    <3>1. PICK c \in Chains : c = chain[w]
      BY <1>a DEF TypeOK
    <3>2. tip'[w] = TipAt(c, Len(log[c])) /\ Len(log[c]) \in 0..Len(log[c])
      BY <1>2, <1>a, <3>1, LastIsNewest DEF ReadTip
    <3>3. log' = log /\ chain' = chain /\ pc'[w] = "number"
      BY <1>2, <1>a DEF ReadTip, Goto, TypeOK
    <3> QED
      BY <3>1, <3>2, <3>3 DEF Reading, TipAt
  <2>4. ASSUME NEW v \in Writers, v # w PROVE Reading(v)'
    <3>1. pc'[v] = pc[v] /\ tip'[v] = tip[v] /\ id'[v] = id[v] /\ chain'[v] = chain[v]
      BY <1>2, <1>a, <2>4 DEF ReadTip, Goto, TypeOK
    <3> QED
      BY <1>2, <1>a, <3>1, QuietReading DEF ReadTip
  <2> QED
    BY <1>a, <2>1, <2>2, <2>3, <2>4 DEF IInv
<1>3. ASSUME NEW w \in Writers, DrawId(w) PROVE IInv'
  <2>1. LogOK'
    BY <1>3, <1>a, KeepLog DEF DrawId
  <2>2. Called' /\ LoggedAtMostOnce'
    BY <1>3, <1>a, KeepCalls DEF DrawId, Goto, TypeOK
  <2>3. Reading(w)'
    <3>1. PICK c \in Chains : c = chain[w]
      BY <1>a DEF TypeOK
    <3>2. PICK k \in 0..Len(log[c]) : tip[w] = TipAt(c, k)
      BY <1>3, <1>a, <3>1 DEF Reading, DrawId
    <3>3. Len(log[c]) \in Nat /\ \A i \in 1..Len(log[c]) : log[c][i].id \in 1..counter
      BY <1>a, LastIsNewest DEF LogOK, Chained
    <3>4. id'[w] = counter + 1 /\ log' = log /\ chain' = chain /\ tip' = tip
          /\ counter' = counter + 1 /\ pc'[w] = "insert"
      BY <1>3, <1>a DEF DrawId, Goto, TypeOK
    <3>5. \A i \in 1..k : log[c][i].id < id'[w]
      BY <1>a, <3>3, <3>4
    <3> QED
      BY <1>a, <3>1, <3>2, <3>4, <3>5 DEF Reading, TipAt
  <2>4. ASSUME NEW v \in Writers, v # w PROVE Reading(v)'
    <3>1. pc'[v] = pc[v] /\ tip'[v] = tip[v] /\ id'[v] = id[v] /\ chain'[v] = chain[v]
      BY <1>3, <1>a, <2>4 DEF DrawId, Goto, TypeOK
    <3> QED
      BY <1>3, <1>a, <3>1, QuietReading DEF DrawId
  <2> QED
    BY <1>a, <2>1, <2>2, <2>3, <2>4 DEF IInv
<1>4. ASSUME NEW w \in Writers, Insert(w) PROVE IInv'
  BY <1>4, <1>a, AppendStep DEF Insert, Return, Goto, locals
<1>5. ASSUME NEW w \in Writers, InsertFault(w) PROVE IInv'
  <2>1. pc' = [pc EXCEPT ![w] = "idle"] /\ UNCHANGED <<counter, calls, chain, tip, id>>
    BY <1>5 DEF InsertFault, Return, Goto, locals
  <2>2. CASE pc[w] = "insert" /\ AppendRow(w)
    BY <1>a, <2>1, <2>2, AppendStep
  <2>3. CASE UNCHANGED log
    <3>1. LogOK'
      BY <1>a, <2>1, <2>3, KeepLog
    <3>2. Called' /\ LoggedAtMostOnce'
      BY <1>a, <2>1, <2>3, KeepCalls DEF TypeOK
    <3>3. ASSUME NEW v \in Writers PROVE Reading(v)'
      <4>1. pc'[v] = pc[v] \/ pc'[v] \notin {"number", "insert"}
        BY <1>a, <2>1 DEF TypeOK
      <4> QED
        BY <1>a, <2>1, <2>3, <4>1, QuietReading
    <3> QED
      BY <1>a, <3>1, <3>2, <3>3 DEF IInv
  <2> QED
    BY <1>5, <2>2, <2>3 DEF InsertFault
<1>6. ASSUME UNCHANGED <<log, counter, calls, chain, tip, id>>,
             \A v \in Writers : \/ pc'[v] = pc[v]
                                \/ pc[v] # "idle" /\ pc'[v] \notin {"number", "insert"}
      PROVE  IInv'
  <2>1. LogOK'
    BY <1>6, <1>a, KeepLog
  <2>2. Called' /\ LoggedAtMostOnce'
    <3>1. \A w \in Writers : pc[w] = "idle" => pc'[w] = "idle"
      BY <1>6
    <3> QED
      BY <1>6, <1>a, <3>1, KeepCalls
  <2>3. ASSUME NEW v \in Writers PROVE Reading(v)'
    BY <1>6, <1>a, QuietReading
  <2> QED
    BY <1>a, <2>1, <2>2, <2>3 DEF IInv
<1>7. ASSUME NEW w \in Writers, Acquire(w) PROVE IInv'
  BY <1>6, <1>7, <1>a DEF Acquire, Goto, TypeOK, locals
<1>8. ASSUME NEW w \in Writers, Refused(w) PROVE IInv'
  <2>1. pc' = [pc EXCEPT ![w] = "read"] \/ pc' = [pc EXCEPT ![w] = "idle"]
    BY <1>8, ZenonT(30) DEF Refused, Return, Goto
  <2> QED
    BY <1>6, <1>8, <1>a, <2>1 DEF Refused, TypeOK
<1>9. ASSUME NEW w \in Writers, ReadFault(w) PROVE IInv'
  BY <1>6, <1>9, <1>a DEF ReadFault, Return, Goto, TypeOK, locals
<1>10. ASSUME NEW p \in Processes, Crash(p) PROVE IInv'
  BY <1>6, <1>10, <1>a DEF Crash, TypeOK, locals
<1>11. CASE UNCHANGED vars
  BY <1>6, <1>11 DEF vars, locals
<1> QED
  BY <1>1, <1>2, <1>3, <1>4, <1>5, <1>7, <1>8, <1>9, <1>10, <1>11 DEF Next, WriterStep


-----------------------------------------------------------------------------
(* The theorems *)

\* IInv holds in every state.
THEOREM Invariance == Spec => []IInv
<1> QED
  BY InitIInv, InvStep, PTL DEF Spec

\* Every variable keeps its type, and a thread's id is one the counter gave.
THEOREM TypeCorrect == Spec => []TypeOK
<1>1. IInv => TypeOK
  BY DEF IInv
<1> QED
  BY <1>1, Invariance, PTL

\* Rows become visible in the order of their ids.
THEOREM InsertedInIdOrderHolds == Spec => []InsertedInIdOrder
<1>1. IInv => InsertedInIdOrder
  <2> SUFFICES ASSUME IInv, NEW c \in Chains PROVE
                 \A i, k \in DOMAIN log[c] : i < k => log[c][i].id < log[c][k].id
    BY DEF InsertedInIdOrder
  <2>1. Chained(c) /\ DOMAIN log[c] = 1..Len(log[c])
    BY AppendElement DEF IInv, LogOK, Chained
  <2> QED
    BY <2>1 DEF Chained
<1> QED
  BY <1>1, Invariance, PTL

\* No event is in the log twice.
THEOREM LoggedAtMostOnceHolds == Spec => []LoggedAtMostOnce
<1>1. IInv => LoggedAtMostOnce
  BY DEF IInv
<1> QED
  BY <1>1, Invariance, PTL

\* verify_chain recomputes what log_event has hashed: the row before in the
\* order of the ids is the row whose hash the next one continues.
LEMMA ChainedIsIntact ==
  ASSUME IInv, NEW c \in Chains
  PROVE  Intact(c)
<1>1. Chained(c) /\ Len(log[c]) \in Nat /\ DOMAIN log[c] = 1..Len(log[c])
  BY AppendElement DEF IInv, LogOK, Chained
<1>2. \A i \in 1..Len(log[c]) : log[c][i].id \in Nat
  BY <1>1 DEF Chained, IInv, TypeOK
<1> SUFFICES ASSUME NEW i \in 1..Len(log[c])
             PROVE  HashBefore(c, i) = TipAt(c, i - 1)
  BY <1>1 DEF Intact, Chained
<1>3. Before(c, i) = 1..(i - 1)
  <2>1. ASSUME NEW k \in 1..Len(log[c]) PROVE log[c][k].id < log[c][i].id <=> k < i
    <3>1. k < i => log[c][k].id < log[c][i].id
      BY <1>1 DEF Chained
    <3>2. i < k => log[c][i].id < log[c][k].id
      BY <1>1 DEF Chained
    <3>3. k < i \/ k = i \/ i < k
      BY <1>1
    <3>4. log[c][i].id \in Nat /\ log[c][k].id \in Nat
      BY <1>2
    <3> QED
      BY <1>1, <3>1, <3>2, <3>3, <3>4
  <2> QED
    BY <1>1, <2>1 DEF Before
<1>4. CASE i = 1
  BY <1>1, <1>3, <1>4 DEF HashBefore, TipAt
<1>5. CASE i # 1
  <2> DEFINE Newest(k) == \A m \in Before(c, i) : log[c][m].id <= log[c][k].id
  <2>1. i - 1 \in Before(c, i) /\ i - 1 \in 1..Len(log[c])
    BY <1>1, <1>3, <1>5
  <2>2. Newest(i - 1)
    <3> SUFFICES ASSUME NEW m \in 1..(i - 1) PROVE log[c][m].id <= log[c][i - 1].id
      BY <1>3
    <3>1. m \in 1..Len(log[c]) /\ (m = i - 1 \/ m < i - 1)
      BY <1>1
    <3>2. m < i - 1 => log[c][m].id < log[c][i - 1].id
      BY <1>1, <2>1, <3>1 DEF Chained
    <3>3. log[c][m].id \in Nat /\ log[c][i - 1].id \in Nat
      BY <1>2, <2>1, <3>1
    <3> QED
      BY <3>1, <3>2, <3>3
  <2>3. ASSUME NEW k \in Before(c, i), Newest(k) PROVE k = i - 1
    <3>1. k \in 1..Len(log[c]) /\ (k = i - 1 \/ k < i - 1)
      BY <1>1, <1>3
    <3>2. k < i - 1 => log[c][k].id < log[c][i - 1].id
      BY <1>1, <2>1, <3>1 DEF Chained
    <3>3. log[c][i - 1].id <= log[c][k].id
      BY <2>1, <2>3
    <3>4. log[c][k].id \in Nat /\ log[c][i - 1].id \in Nat
      BY <1>2, <2>1, <3>1
    <3> QED
      BY <3>1, <3>2, <3>3, <3>4
  <2>4. (CHOOSE k \in Before(c, i) : Newest(k)) = i - 1
    <3> HIDE DEF Newest
    <3> QED
      BY <2>1, <2>2, <2>3
  <2>5. HashBefore(c, i) = log[c][i - 1].hash
    BY <2>1, <2>4 DEF HashBefore
  <2> QED
    BY <1>5, <2>5 DEF TipAt
<1> QED
  BY <1>4, <1>5

\* verify_chain finds every chain intact in every state.
THEOREM AlwaysIntactHolds == Spec => []AlwaysIntact
<1>1. IInv => AlwaysIntact
  BY ChainedIsIntact DEF AlwaysIntact
<1> QED
  BY <1>1, Invariance, PTL

-----------------------------------------------------------------------------
(* The log implements Ledger: a row is appended in the step in which its     *)
(* call returns, or in which its thread is told that it failed.              *)

LEMMA SameWritten ==
  ASSUME UNCHANGED log
  PROVE  Written' = Written
BY DEF Written

LEMMA AppendWritten ==
  ASSUME TypeOK, LogOK, NEW w \in Writers, AppendRow(w)
  PROVE  Written' = [Written EXCEPT ![chain[w]] = Append(Written[chain[w]], Event(w))]
<1>1. PICK c \in Chains : c = chain[w]
  BY DEF TypeOK
<1> DEFINE n == Len(log[c])
           old == [i \in DOMAIN log[c] |-> log[c][i].event]
           new == [i \in DOMAIN log'[c] |-> log'[c][i].event]
<1>2. /\ n \in Nat /\ DOMAIN log[c] = 1..n /\ DOMAIN log'[c] = 1..(n + 1)
      /\ \A i \in 1..n : log'[c][i] = log[c][i]
      /\ log'[c][n + 1].event = Event(w)
  <2>1. IsSequence(log[c]) /\ log'[c] = Append(log[c], Row(w)) /\ Row(w).event = Event(w)
    BY <1>1 DEF LogOK, Chained, AppendRow, Row
  <2> QED
    BY <2>1, AppendElement
<1>3. \A d \in Chains : d # c => log'[d] = log[d]
  BY <1>1 DEF AppendRow, LogOK
<1>4. new = Append(old, Event(w))
  <2> DEFINE S == Elements(old)
  <2>1. DOMAIN old = 1..n /\ old = [i \in 1..n |-> old[i]] /\ \A i \in 1..n : old[i] \in S
    BY <1>2 DEF Elements
  <2>2. new = [i \in 1..(n + 1) |-> IF i = n + 1 THEN Event(w) ELSE old[i]]
    BY <1>2
  <2> HIDE DEF old, new, n, S
  <2>3. old \in [1..n -> S]
    BY <2>1
  <2>4. old \in Seq(S) /\ Len(old) = n
    BY <1>2, <2>3
  <2>5. IsSequence(old)
    BY <2>4 DEF IsSequence, S
  <2>6. PICK t : t = Append(old, Event(w))
    OBVIOUS
  <2>7. /\ IsSequence(t) /\ DOMAIN t = 1..(n + 1)
        /\ \A i \in 1..n : t[i] = old[i]
        /\ t[n + 1] = Event(w)
    BY <2>4, <2>5, <2>6, AppendElement
  <2>8. t = [i \in 1..(n + 1) |-> t[i]]
    BY <2>7 DEF IsSequence
  <2>9. \A i \in 1..(n + 1) : t[i] = IF i = n + 1 THEN Event(w) ELSE old[i]
    BY <1>2, <2>7
  <2> QED
    BY <2>2, <2>6, <2>8, <2>9
<1>5. Written[c] = old /\ Written'[c] = new
  BY DEF Written
<1> HIDE DEF old, new
<1>6. /\ Written = [d \in Chains |-> Written[d]] /\ Written' = [d \in Chains |-> Written'[d]]
      /\ \A d \in Chains : d # c => Written'[d] = Written[d]
  BY <1>3 DEF Written
<1> QED
  BY <1>1, <1>4, <1>5, <1>6

\* The calls of the threads ws end.
LEMMA CallsEnd ==
  ASSUME UNCHANGED <<calls, chain>>, NEW ws \in SUBSET Writers,
         \A w \in ws : pc[w] # "idle",
         \A w \in Writers : pc'[w] = "idle" <=> pc[w] = "idle" \/ w \in ws
  PROVE  CallsOf(ws) \subseteq UnderWay /\ UnderWay' = UnderWay \ CallsOf(ws) /\ Asked' = Asked
<1>1. \A w \in Writers : Event(w)' = Event(w) /\ Event(w).by = w
  BY DEF Event
<1>2. \A v, w \in Writers : <<Event(v), chain[v]>> = <<Event(w), chain[w]>> => v = w
  BY <1>1
<1>3. UnderWay' = UnderWay \ CallsOf(ws)
  BY <1>1, <1>2 DEF UnderWay, CallsOf
<1> QED
  BY <1>3 DEF UnderWay, CallsOf, Asked

LEMMA OneMissed ==
  ASSUME NEW w \in Writers, NEW why, Lose(w, why)
  PROVE  Missed' = Missed \cup {<<Event(w), chain[w]>>}
<1>1. PICK l : l = Loss(w, why) /\ lost' = lost \cup {l}
  BY DEF Lose
<1>2. l.event = Event(w) /\ l.chain = chain[w]
  BY <1>1 DEF Loss
<1> QED
  BY <1>1, <1>2 DEF Missed

\* A thread calls: its event differs from every one before.
LEMMA CallBegins ==
  ASSUME TypeOK, NEW w \in Writers, NEW c \in Chains, Call(w, c)
  PROVE  \E e \in [by : Writers, n : 1..MaxEvents] : L!Call(e, c)
<1> DEFINE e == [by |-> w, n |-> calls[w] + 1]
<1>1. /\ pc[w] = "idle" /\ calls[w] \in Nat /\ calls[w] + 1 \in 1..MaxEvents
      /\ calls' = [calls EXCEPT ![w] = calls[w] + 1] /\ chain' = [chain EXCEPT ![w] = c]
      /\ pc' = [pc EXCEPT ![w] = "lock"] /\ UNCHANGED <<log, lost>>
  BY BoundsAssumption DEF Call, Goto, TypeOK
<1>2. e \notin Asked
  <2> SUFFICES ASSUME NEW v \in Writers, NEW n \in 1..calls[v], e = [by |-> v, n |-> n]
               PROVE  FALSE
    BY DEF Asked
  <2>1. e.by = v /\ e.n = n /\ e.by = w /\ e.n = calls[w] + 1
    OBVIOUS
  <2> QED
    BY <1>1, <2>1
<1>3. Asked' = Asked \cup {e}
  <2>1. \A v \in Writers : v # w => calls'[v] = calls[v]
    BY <1>1 DEF TypeOK
  <2>2. calls'[w] = calls[w] + 1
    BY <1>1 DEF TypeOK
  <2>3. \A m \in Nat : 1..(m + 1) = 1..m \cup {m + 1}
    OBVIOUS
  <2>4. 1..calls'[w] = 1..calls[w] \cup {calls[w] + 1}
    BY <1>1, <2>2, <2>3
  <2> QED
    BY <2>1, <2>4 DEF Asked
<1>4. UnderWay' = UnderWay \cup {<<e, c>>}
  <2>1. \A v \in Writers : v # w =>
          /\ pc'[v] = pc[v] /\ Event(v)' = Event(v) /\ chain'[v] = chain[v]
    BY <1>1 DEF TypeOK, Event
  <2>2. pc'[w] # "idle" /\ Event(w)' = e /\ chain'[w] = c
    BY <1>1 DEF TypeOK, Event
  <2> HIDE DEF e
  <2> QED
    BY <1>1, <2>1, <2>2 DEF UnderWay, CallsOf
<1>5. Written' = Written /\ Missed' = Missed
  BY <1>1, SameWritten DEF Missed
<1>6. e \in [by : Writers, n : 1..MaxEvents]
  BY <1>1
<1> HIDE DEF e
<1> QED
  BY <1>2, <1>3, <1>4, <1>5, <1>6 DEF L!Call

\* A call of one thread ends, with its row or without it.
LEMMA CallEnds ==
  ASSUME IInv, NEW w \in Writers, pc[w] # "idle", UNCHANGED <<calls, chain>>,
         pc' = [pc EXCEPT ![w] = "idle"],
         \/ AppendRow(w) /\ UNCHANGED lost
         \/ (UNCHANGED log \/ AppendRow(w)) /\ \E why : Lose(w, why)
  PROVE  L!LNext
<1> DEFINE k == <<Event(w), chain[w]>>
<1>1. TypeOK /\ LogOK /\ CallsOf({w}) = {k}
  BY DEF IInv, CallsOf
<1>2. k \in UnderWay /\ UnderWay' = UnderWay \ {k} /\ Asked' = Asked
  BY <1>1, CallsEnd DEF TypeOK
<1>3. k[1] = Event(w) /\ k[2] = chain[w]
  OBVIOUS
<1> HIDE DEF k
<1>4. AppendRow(w) => L!Add(k)
  BY <1>1, <1>2, <1>3, AppendWritten DEF L!Add
<1>5. CASE AppendRow(w) /\ UNCHANGED lost
  <2>1. Missed' = Missed
    BY <1>5 DEF Missed
  <2> QED
    BY <1>2, <1>4, <1>5, <2>1 DEF L!LNext, L!Log
<1>6. ASSUME \E why : Lose(w, why) PROVE Missed' = Missed \cup {k}
  BY <1>6, OneMissed DEF k
<1>7. CASE AppendRow(w) /\ \E why : Lose(w, why)
  BY <1>2, <1>4, <1>6, <1>7 DEF L!LNext, L!LogUnseen
<1>8. CASE UNCHANGED log /\ \E why : Lose(w, why)
  <2>1. L!Miss({k})
    BY <1>2, <1>6, <1>8, SameWritten DEF L!Miss
  <2> QED
    BY <1>2, <2>1 DEF L!LNext
<1> QED
  BY <1>5, <1>7, <1>8

\* The threads ws die together, and with them their calls.
LEMMA CallsDie ==
  ASSUME NEW p \in Processes, Crash(p)
  PROVE  L!LNext
<1> DEFINE ws == {w \in Writers : Process[w] = p /\ pc[w] # "idle"}
<1>1. /\ pc' = [w \in Writers |-> IF Process[w] = p THEN "idle" ELSE pc[w]]
      /\ lost' = lost \cup {Loss(w, "crash") : w \in ws}
      /\ UNCHANGED <<log, calls, chain>>
  BY DEF Crash, locals
<1>2. CallsOf(ws) \subseteq UnderWay /\ UnderWay' = UnderWay \ CallsOf(ws) /\ Asked' = Asked
  <2>1. /\ ws \in SUBSET Writers /\ \A w \in ws : pc[w] # "idle"
        /\ \A w \in Writers : pc'[w] = "idle" <=> pc[w] = "idle" \/ w \in ws
    BY <1>1
  <2> HIDE DEF ws
  <2> QED
    BY <1>1, <2>1, CallsEnd
<1>3. \A w : Loss(w, "crash").event = Event(w) /\ Loss(w, "crash").chain = chain[w]
  BY DEF Loss
<1> HIDE DEF ws
<1>4. Missed' = Missed \cup CallsOf(ws)
  BY <1>1, <1>3 DEF Missed, CallsOf
<1>5. L!Miss(CallsOf(ws))
  BY <1>1, <1>2, <1>4, SameWritten DEF L!Miss
<1> QED
  BY <1>2, <1>5 DEF L!LNext

\* For any processes, threads, chains and rounds, every insert and every read failing: the
\* log keeps the promise of a ledger.
THEOREM ImplementsLedgerHolds == Spec => ImplementsLedger
<1>1. Init => L!LInit
  BY BoundsAssumption
     DEF Init, L!LInit, Written, CallsOf, UnderWay, Asked, Missed
<1>2. ASSUME UNCHANGED <<log, calls, chain, lost>>, \A w \in Writers : pc'[w] = "idle" <=> pc[w] = "idle"
      PROVE  UNCHANGED L!ledgerVars
  <2>1. UnderWay' = UnderWay /\ Asked' = Asked
    <3>1. CallsOf({}) = {}
      BY DEF CallsOf
    <3> QED
      BY <1>2, <3>1, CallsEnd
  <2> QED
    BY <1>2, <2>1, SameWritten DEF L!ledgerVars, Missed
<1>3. IInv /\ [Next]_vars => [L!LNext]_(L!ledgerVars)
  <2> SUFFICES ASSUME IInv, [Next]_vars PROVE L!LNext \/ UNCHANGED L!ledgerVars
    OBVIOUS
  <2>a. TypeOK
    BY DEF IInv
  <2>1. ASSUME NEW w \in Writers, NEW c \in Chains, Call(w, c) PROVE L!LNext
    BY <2>1, <2>a, CallBegins DEF L!LNext
  <2>2. ASSUME NEW w \in Writers, Acquire(w) \/ ReadTip(w) \/ DrawId(w)
        PROVE  UNCHANGED L!ledgerVars
    BY <1>2, <2>2, <2>a DEF Acquire, ReadTip, DrawId, Goto, locals, TypeOK
  <2>3. ASSUME NEW w \in Writers, Insert(w) PROVE L!LNext
    BY <2>3, CallEnds DEF Insert, Return, Goto, locals
  <2>4. ASSUME NEW w \in Writers, Refused(w) PROVE L!LNext \/ UNCHANGED L!ledgerVars
    <3>1. /\ pc[w] = "insert" /\ UNCHANGED <<log, calls, chain>>
          /\ \/ pc' = [pc EXCEPT ![w] = "read"] /\ UNCHANGED lost
             \/ pc' = [pc EXCEPT ![w] = "idle"] /\ \E why : Lose(w, why)
      BY <2>4, ZenonT(30) DEF Refused, Return, Goto
    <3>2. CASE pc' = [pc EXCEPT ![w] = "read"] /\ UNCHANGED lost
      BY <1>2, <2>a, <3>1, <3>2 DEF TypeOK
    <3> QED
      BY <3>1, <3>2, CallEnds
  <2>5. ASSUME NEW w \in Writers, ReadFault(w) PROVE L!LNext
    BY <2>5, CallEnds DEF ReadFault, Return, Goto, locals
  <2>6. ASSUME NEW w \in Writers, InsertFault(w) PROVE L!LNext
    <3>1. /\ pc[w] # "idle" /\ UNCHANGED <<calls, chain>> /\ pc' = [pc EXCEPT ![w] = "idle"]
          /\ UNCHANGED log \/ AppendRow(w)
          /\ \E why : Lose(w, why)
      BY <2>6 DEF InsertFault, Return, Goto, locals
    <3> QED
      BY <3>1, CallEnds
  <2>7. ASSUME UNCHANGED vars PROVE UNCHANGED L!ledgerVars
    BY <1>2, <2>7 DEF vars, locals
  <2> QED
    BY <2>1, <2>2, <2>3, <2>4, <2>5, <2>6, <2>7, CallsDie DEF Next, WriterStep
<1> QED
  BY <1>1, <1>3, Invariance, PTL DEF Spec, ImplementsLedger, L!LSpec
=============================================================================

---------------------------- MODULE PipelineProofs ----------------------------
(***************************************************************************)
(* Proofs about the wipe of a drive (Pipeline): what a plan looks like,    *)
(* and what its execution leaves behind, for any drives, jobs and hosts,   *)
(* any size of chunks and blocks, and any number of faults.                *)
(***************************************************************************)
EXTENDS MCErasure, FilesProofs

(***************************************************************************)
(* What the planner returns.                                               *)
(***************************************************************************)

FirmwareKinds ==
  {"nvme_sanitize", "nvme_format", "ata_sanitize", "ata_secure_erase", "scsi_sanitize",
   "sed_psid_revert"}
AreaKinds == {"remove_hpa", "restore_dco"}
StepKinds == FirmwareKinds \cup AreaKinds \cup {"overwrite", "verify"}

TechArgs == {"crypto", "block", "overwrite", "psid", "enhanced", "plain"}
StepArgs == TechArgs \cup Patterns \cup {"pattern", "changed", "dco", "hpa"}

Techniques == [kind : FirmwareKinds, arg : TechArgs]
Steps == [kind : StepKinds, arg : StepArgs, n : Nat]

\* A step before the check: a hidden area is touched only if the capabilities show one.
BodySteps(c) ==
  {s \in Steps : /\ s.kind # "verify"
                 /\ s.kind = "remove_hpa" => hpa_enabled(c) /\ s.n = c.hpa_native
                 /\ s.kind = "restore_dco" => dco_hidden(c)}

\* The steps s of a plan end with a check of what the step before it did: the check of a
\* pattern follows a pass, the check that something changed a technique of the firmware.
ChecksLastStep(s, c, full) ==
  LET n == Len(s) IN
  /\ n \in Nat \ {0, 1}
  /\ s[n].kind = "verify" /\ (full => s[n].n = 1)
  /\ \A i \in 1..(n - 1) : s[i] \in BodySteps(c)
  /\ \/ s[n].arg = "pattern" /\ s[n - 1].kind = "overwrite"
     \/ s[n].arg = "changed" /\ s[n - 1].kind \in FirmwareKinds

WellPlanned(p, c, full) ==
  /\ p.steps \in Seq(Steps)
  /\ ChecksLastStep(p.steps, c, full)
  /\ p.category = "purge" => \E i \in DOMAIN p.steps : p.steps[i].kind \in FirmwareKinds

(***************************************************************************)
(* The inductive invariant.                                                *)
(***************************************************************************)

AtCommand == pc \in {"poll", "erase", "disable", "identify"}
Working   == AtCommand \/ pc \in {"step", "write"}
Unplanned == pc \in {"check", "again", "plan"}

\* The worker ends with one outcome; where it is agrees with the kind of its step; idle
\* answers are counted in a poll, and units in a pass.
Course ==
  /\ Ended <=> record # "none"
  /\ pc = "write" => ~job.dry /\ index <= Len(todo.steps) /\ step.kind = "overwrite"
  /\ AtCommand => ~job.dry /\ index <= Len(todo.steps) /\ step.kind \in FirmwareKinds
  /\ record = "complete" => index = Len(todo.steps) + 1
  /\ pc = "poll" => idle < IDLE_LIMIT
  /\ ~Ended /\ pc # "poll" => idle = 0
  /\ ~Ended /\ pc # "write" => written = 0

\* The plan is one for what the probe could learn of this drive.
Learnt ==
  /\ caps.hpa_current \in {0, disk.caps.hpa_current}
  /\ caps.hpa_native \in {0, disk.caps.hpa_native}
  /\ job.dry \/ job.system # "Linux" => ~hpa_enabled(caps) /\ ~dco_hidden(caps)
Planned ==
  /\ Unplanned => todo = PlanError /\ index = 1
  /\ todo = PlanError \/ WellPlanned(todo, caps, job.full)
  /\ Working \/ record \in {"complete", "cancelled"} => todo # PlanError /\ Learnt

Areas ==
  /\ Unplanned => visible = FirstVisible(disk)
  /\ Working \/ record = "complete" => size = visible /\ FirstVisible(disk) <= size

Control == TypeOK /\ Course /\ Planned /\ Areas

(***************************************************************************)
(* The planner.                                                            *)
(***************************************************************************)

\* Every technique of an order is one of the firmware's.
LEMMA CryptoOrder ==
  CRYPTO_TECHNIQUES \in Seq(Techniques) /\ Len(CRYPTO_TECHNIQUES) = 5
<1>1. /\ PSID \in Techniques /\ Format \in Techniques
      /\ Tech("nvme_sanitize", "crypto") \in Techniques
      /\ Tech("ata_sanitize", "crypto") \in Techniques
      /\ Tech("scsi_sanitize", "crypto") \in Techniques
  BY DEF PSID, Format, Tech, Techniques, FirmwareKinds, TechArgs
<1> QED
  BY <1>1 DEF CRYPTO_TECHNIQUES

LEMMA PurgeOrder ==
  ASSUME NEW type
  PROVE  PURGE_ORDER(type) \in Seq(Techniques) /\ Len(PURGE_ORDER(type)) \in 0..7
<1>1. /\ PSID \in Techniques /\ Format \in Techniques
      /\ \A a \in {"crypto", "block", "overwrite"} :
           /\ Tech("nvme_sanitize", a) \in Techniques
           /\ Tech("ata_sanitize", a) \in Techniques
           /\ Tech("scsi_sanitize", a) \in Techniques
      /\ Secure("enhanced") \in Techniques /\ Secure("plain") \in Techniques
  BY DEF PSID, Format, Secure, Tech, Techniques, FirmwareKinds, TechArgs
<1>2. CASE type = "nvme"
  BY <1>1, <1>2 DEF PURGE_ORDER
<1>3. CASE type = "ssd"
  BY <1>1, <1>3 DEF PURGE_ORDER
<1>4. CASE type = "hdd"
  BY <1>1, <1>4 DEF PURGE_ORDER
<1>5. CASE type \notin {"nvme", "ssd", "hdd"}
  BY <1>5 DEF PURGE_ORDER
<1> QED
  BY <1>2, <1>3, <1>4, <1>5

\* A set of positions of an order has a first one.
LEMMA FirstPosition ==
  ASSUME NEW S \in SUBSET (1..7), S # {}
  PROVE  \E i \in S : \A j \in S : i <= j
<1>1. CASE \E k \in S : k <= 3
  <2>1. CASE 1 \in S
    BY <2>1
  <2>2. CASE 1 \notin S /\ 2 \in S
    BY <2>2
  <2>3. CASE 1 \notin S /\ 2 \notin S
    BY <1>1, <2>3
  <2> QED
    BY <2>1, <2>2, <2>3
<1>2. CASE \A k \in S : k > 3
  <2>1. CASE 4 \in S
    BY <1>2, <2>1
  <2>2. CASE 4 \notin S /\ 5 \in S
    BY <1>2, <2>2
  <2>3. CASE 4 \notin S /\ 5 \notin S /\ 6 \in S
    BY <1>2, <2>3
  <2>4. CASE 4 \notin S /\ 5 \notin S /\ 6 \notin S
    <3>1. \A k \in S : k = 7
      BY <1>2, <2>4
    <3>2. 7 \in S
      BY <3>1
    <3> QED
      BY <3>1, <3>2
  <2> QED
    BY <2>1, <2>2, <2>3, <2>4
<1> QED
  BY <1>1, <1>2

LEMMA PickInOrder ==
  ASSUME NEW order \in Seq(Techniques), Len(order) \in 0..7, NEW c, NEW psid
  PROVE  pick(order, c, psid) \in Techniques \cup {NoTech}
<1> DEFINE able == {i \in DOMAIN order : supported(order[i], c, psid)}
<1>1. able \in SUBSET (1..7) /\ able \subseteq DOMAIN order
  OBVIOUS
<1>2. pick(order, c, psid)
        = IF able = {} THEN NoTech ELSE order[CHOOSE i \in able : \A j \in able : i <= j]
  BY DEF pick
<1> HIDE DEF able
<1>3. CASE able = {}
  BY <1>2, <1>3
<1>4. CASE able # {}
  <2>1. \E i \in able : \A j \in able : i <= j
    BY <1>1, <1>4, FirstPosition
  <2>2. PICK k : k = CHOOSE i \in able : \A j \in able : i <= j
    OBVIOUS
  <2>3. k \in able
    BY <2>1, <2>2
  <2>4. k \in DOMAIN order
    BY <1>1, <2>3
  <2>5. order[k] \in Techniques
    BY <2>4
  <2>6. pick(order, c, psid) = order[k]
    BY <1>2, <1>4, <2>2
  <2> QED
    BY <2>5, <2>6
<1> QED
  BY <1>3, <1>4

\* The hidden areas come first, and only if they were seen.
LEMMA PrepSteps ==
  ASSUME NEW transport, NEW c, c.hpa_native \in Nat
  PROVE  ata_prep(transport, c) \in Seq(BodySteps(c)) /\ Len(ata_prep(transport, c)) \in Nat
<1> DEFINE dco == IF dco_hidden(c) THEN <<Step("restore_dco", "dco", 0)>> ELSE <<>>
           hpa == IF hpa_enabled(c) THEN <<Step("remove_hpa", "hpa", c.hpa_native)>> ELSE <<>>
<1>1. dco_hidden(c) => Step("restore_dco", "dco", 0) \in BodySteps(c)
  BY DEF BodySteps, Step, Steps, StepKinds, AreaKinds, StepArgs
<1>2. hpa_enabled(c) => Step("remove_hpa", "hpa", c.hpa_native) \in BodySteps(c)
  BY DEF BodySteps, Step, Steps, StepKinds, AreaKinds, StepArgs
<1>3. dco \in Seq(BodySteps(c)) /\ hpa \in Seq(BodySteps(c))
  BY <1>1, <1>2
<1>4. ata_prep(transport, c) = IF transport # "sata" THEN <<>> ELSE dco \o hpa
  BY DEF ata_prep
<1> HIDE DEF dco, hpa
<1>5. dco \o hpa \in Seq(BodySteps(c))
  BY <1>3, ConcatProperties, Zenon
<1>6. <<>> \in Seq(BodySteps(c))
  OBVIOUS
<1>7. ata_prep(transport, c) \in Seq(BodySteps(c))
  BY <1>4, <1>5, <1>6, Zenon
<1>8. PICK s : s = ata_prep(transport, c)
  OBVIOUS
<1>9. s \in Seq(BodySteps(c)) /\ Len(s) \in Nat
  BY <1>7, <1>8
<1> QED
  BY <1>8, <1>9

LEMMA OverwriteSteps ==
  ASSUME NEW standard, NEW c
  PROVE  /\ overwrite_steps(standard) \in Seq(BodySteps(c))
         /\ Len(overwrite_steps(standard)) \in Nat \ {0}
         /\ \A i \in 1..Len(overwrite_steps(standard)) :
              overwrite_steps(standard)[i].kind = "overwrite"
<1>1. PICK p : p = passes_for(standard)
  OBVIOUS
<1>2. p \in Seq(Patterns) /\ Len(p) \in Nat \ {0} /\ DOMAIN p = 1..Len(p)
  BY <1>1, PassesSeq
<1>3. PICK s : s = [i \in 1..Len(p) |-> Step("overwrite", p[i], i)]
  OBVIOUS
<1>4. \A i \in 1..Len(p) : s[i] = Step("overwrite", p[i], i) /\ p[i] \in Patterns /\ i \in Nat
  BY <1>2, <1>3
<1>5. ASSUME NEW i \in 1..Len(p)
      PROVE  s[i] \in BodySteps(c) /\ s[i].kind = "overwrite"
  <2>1. PICK r : r = Step("overwrite", p[i], i)
    OBVIOUS
  <2>2. r.kind = "overwrite" /\ r \in Steps
    BY <1>4, <2>1 DEF Step, Steps, StepKinds, StepArgs
  <2>3. r \in BodySteps(c)
    BY <2>2 DEF BodySteps
  <2>4. s[i] = r
    BY <1>4, <2>1
  <2> QED
    BY <2>2, <2>3, <2>4
<1>6. s \in Seq(BodySteps(c)) /\ Len(s) = Len(p)
  BY <1>2, <1>3, <1>5
<1>7. overwrite_steps(standard) = s
  BY <1>1, <1>2, <1>3 DEF overwrite_steps
<1> QED
  BY <1>2, <1>5, <1>6, <1>7

LEMMA FirmwareStep ==
  ASSUME NEW t \in Techniques, NEW c
  PROVE  /\ firmware_step(t) \in Seq(BodySteps(c)) /\ Len(firmware_step(t)) = 1
         /\ firmware_step(t)[1].kind \in FirmwareKinds
<1>1. Step(t.kind, t.arg, 0) \in BodySteps(c) /\ Step(t.kind, t.arg, 0).kind \in FirmwareKinds
  BY DEF BodySteps, Step, Steps, StepKinds, StepArgs, Techniques, FirmwareKinds
<1> QED
  BY <1>1 DEF firmware_step

\* The steps so far, and the check of the last one.
LEMMA WithCheck ==
  ASSUME NEW c, NEW full, NEW body \in Seq(BodySteps(c)), Len(body) \in Nat \ {0},
         NEW arg \in {"pattern", "changed"}, NEW check,
         check = Step("verify", arg, IF full THEN 1 ELSE 0),
         \/ arg = "pattern" /\ body[Len(body)].kind = "overwrite"
         \/ arg = "changed" /\ body[Len(body)].kind \in FirmwareKinds
  PROVE  /\ body \o <<check>> \in Seq(Steps)
         /\ ChecksLastStep(body \o <<check>>, c, full)
         /\ \A i \in 1..Len(body) : i \in DOMAIN (body \o <<check>>)
                                    /\ (body \o <<check>>)[i] = body[i]
<1>1. check \in Steps /\ check.kind = "verify" /\ check.arg = arg /\ (full => check.n = 1)
  BY DEF Step, Steps, StepKinds, StepArgs
<1>2. body \in Seq(Steps) /\ DOMAIN body = 1..Len(body)
  BY DEF BodySteps
<1>3. PICK last : last = <<check>>
  OBVIOUS
<1>4. last \in Seq(Steps) /\ Len(last) = 1 /\ last[1] = check
  BY <1>1, <1>3
<1>5. PICK s : s = body \o last
  OBVIOUS
<1>6. /\ s \in Seq(Steps) /\ Len(s) = Len(body) + Len(last)
      /\ \A i \in 1..Len(body) + Len(last) :
           s[i] = IF i <= Len(body) THEN body[i] ELSE last[i - Len(body)]
  BY <1>2, <1>4, <1>5, ConcatProperties, Zenon
<1>7. Len(s) = Len(body) + 1 /\ s[Len(s)] = check
  BY <1>4, <1>6
<1>8. \A i \in 1..Len(body) : s[i] = body[i]
  BY <1>4, <1>6
<1>9. \A i \in 1..Len(body) : body[i] \in BodySteps(c)
  BY <1>2
<1>10. Len(s) \in Nat \ {0, 1} /\ Len(s) - 1 = Len(body) /\ DOMAIN s = 1..Len(s)
  BY <1>6, <1>7
<1>11. s[Len(s) - 1] = body[Len(body)]
  BY <1>8, <1>10
<1>12. ChecksLastStep(s, c, full)
  BY <1>1, <1>7, <1>8, <1>9, <1>10, <1>11 DEF ChecksLastStep
<1>13. \A i \in 1..Len(body) : i \in DOMAIN s
  BY <1>10
<1> QED
  BY <1>3, <1>5, <1>6, <1>8, <1>12, <1>13

\* Joining steps keeps them what they are, and their last one.
LEMMA Joined ==
  ASSUME NEW c, NEW a \in Seq(BodySteps(c)), NEW b \in Seq(BodySteps(c)),
         Len(b) \in Nat \ {0}
  PROVE  /\ a \o b \in Seq(BodySteps(c)) /\ Len(a \o b) \in Nat \ {0}
         /\ (a \o b)[Len(a \o b)] = b[Len(b)]
         /\ Len(a \o b) = Len(a) + Len(b)
         /\ \A i \in 1..Len(a) : (a \o b)[i] = a[i]
<1>1. PICK s : s = a \o b
  OBVIOUS
<1>2. /\ s \in Seq(BodySteps(c)) /\ Len(s) = Len(a) + Len(b)
      /\ \A i \in 1..Len(a) + Len(b) : s[i] = IF i <= Len(a) THEN a[i] ELSE b[i - Len(a)]
  BY <1>1, ConcatProperties, Zenon
<1>3. Len(a) \in Nat
  OBVIOUS
<1>4. Len(s) \in Nat \ {0} /\ s[Len(s)] = b[Len(b)] /\ \A i \in 1..Len(a) : s[i] = a[i]
  BY <1>2, <1>3
<1> QED
  BY <1>1, <1>2, <1>4

\* What _plan returns, for any drive, job and capabilities.
LEMMA PlanShape ==
  ASSUME NEW d, NEW c, NEW j, NEW allowed, c.hpa_native \in Nat
  PROVE  plan(d, c, j, allowed) = PlanError \/ WellPlanned(plan(d, c, j, allowed), c, j.full)
<1> DEFINE prep  == ata_prep(d.transport, c)
           order == IF j.method = "crypto_erase" THEN CRYPTO_TECHNIQUES
                    ELSE PURGE_ORDER(d.type)
           t     == IF allowed THEN pick(order, c, j.psid) ELSE NoTech
           check(arg) == Step("verify", arg, IF j.full THEN 1 ELSE 0)
           clear == Plan(NoTech, "clear",
                         (prep \o overwrite_steps(j.standard)) \o <<check("pattern")>>)
           crypto == Plan(t, "purge", (prep \o firmware_step(t)) \o <<check("changed")>>)
           both  == Plan(t, "purge", ((prep \o firmware_step(t)) \o overwrite_steps("nist_800_88"))
                                       \o <<check("pattern")>>)
<1>1. plan(d, c, j, allowed) \in {PlanError, clear} \/ (t # NoTech /\ plan(d, c, j, allowed) \in {crypto, both})
  BY DEF plan
<1>2. t \in Techniques \cup {NoTech}
  <2>1. order \in Seq(Techniques) /\ Len(order) \in 0..7
    BY CryptoOrder, PurgeOrder
  <2> HIDE DEF order
  <2> QED
    BY <2>1, PickInOrder
<1>3. prep \in Seq(BodySteps(c))
  BY PrepSteps
<1>4. PICK std : std = overwrite_steps(j.standard)
  OBVIOUS
<1>5. PICK nist : nist = overwrite_steps("nist_800_88")
  OBVIOUS
<1>6. /\ std \in Seq(BodySteps(c)) /\ Len(std) \in Nat \ {0} /\ std[Len(std)].kind = "overwrite"
      /\ nist \in Seq(BodySteps(c)) /\ Len(nist) \in Nat \ {0} /\ nist[Len(nist)].kind = "overwrite"
  <2>1. \A n \in Nat \ {0} : n \in 1..n
    OBVIOUS
  <2> QED
    BY <1>4, <1>5, <2>1, OverwriteSteps
<1> HIDE DEF prep, order, t
<1>7. WellPlanned(clear, c, j.full)
  <2>1. PICK body : body = prep \o std
    OBVIOUS
  <2>2. body \in Seq(BodySteps(c)) /\ Len(body) \in Nat \ {0} /\ body[Len(body)].kind = "overwrite"
    BY <1>3, <1>6, <2>1, Joined
  <2>3. body \o <<check("pattern")>> \in Seq(Steps) /\ ChecksLastStep(body \o <<check("pattern")>>, c, j.full)
    BY <2>2, WithCheck
  <2>4. clear.steps = body \o <<check("pattern")>> /\ clear.category = "clear"
    BY <1>4, <2>1 DEF Plan
  <2> HIDE DEF clear
  <2> QED
    BY <2>3, <2>4 DEF WellPlanned
<1>8. ASSUME t # NoTech
      PROVE  WellPlanned(crypto, c, j.full) /\ WellPlanned(both, c, j.full)
  <2>1. PICK fw1 : fw1 = firmware_step(t)
    OBVIOUS
  <2>2. fw1 \in Seq(BodySteps(c)) /\ Len(fw1) = 1 /\ fw1[1].kind \in FirmwareKinds
    BY <1>2, <1>8, <2>1, FirmwareStep
  <2>3. PICK body : body = prep \o fw1
    OBVIOUS
  <2>4. /\ body \in Seq(BodySteps(c)) /\ Len(body) \in Nat \ {0}
        /\ body[Len(body)].kind \in FirmwareKinds
    <3>1. Len(fw1) \in Nat \ {0}
      BY <2>2
    <3>2. /\ body \in Seq(BodySteps(c)) /\ Len(body) \in Nat \ {0}
          /\ body[Len(body)] = fw1[Len(fw1)]
      BY <1>3, <2>2, <2>3, <3>1, Joined
    <3> QED
      BY <2>2, <3>2
  <2>5. WellPlanned(crypto, c, j.full)
    <3>1. PICK s : s = body \o <<check("changed")>>
      OBVIOUS
    <3>2. /\ s \in Seq(Steps) /\ ChecksLastStep(s, c, j.full)
          /\ Len(body) \in DOMAIN s /\ s[Len(body)] = body[Len(body)]
      <4>1. Len(body) \in 1..Len(body)
        BY <2>4
      <4> QED
        BY <2>4, <3>1, <4>1, WithCheck
    <3>3. crypto.steps = s
      BY <2>1, <2>3, <3>1 DEF Plan
    <3> HIDE DEF crypto
    <3> QED
      BY <2>4, <3>2, <3>3 DEF WellPlanned
  <2>6. WellPlanned(both, c, j.full)
    <3>1. PICK whole : whole = body \o nist
      OBVIOUS
    <3>2. /\ whole \in Seq(BodySteps(c)) /\ Len(whole) \in Nat \ {0}
          /\ whole[Len(whole)].kind = "overwrite"
          /\ Len(body) \in 1..Len(whole) /\ whole[Len(body)] = body[Len(body)]
      <4>1. /\ whole \in Seq(BodySteps(c)) /\ Len(whole) \in Nat \ {0}
            /\ whole[Len(whole)] = nist[Len(nist)] /\ Len(whole) = Len(body) + Len(nist)
            /\ \A i \in 1..Len(body) : whole[i] = body[i]
        BY <1>6, <2>4, <3>1, Joined
      <4> QED
        BY <1>6, <2>4, <4>1
    <3>3. PICK s : s = whole \o <<check("pattern")>>
      OBVIOUS
    <3>4. /\ s \in Seq(Steps) /\ ChecksLastStep(s, c, j.full)
          /\ \A i \in 1..Len(whole) : i \in DOMAIN s /\ s[i] = whole[i]
      BY <3>2, <3>3, WithCheck
    <3>5. both.steps = s
      BY <1>5, <2>1, <2>3, <3>1, <3>3 DEF Plan
    <3> HIDE DEF both
    <3> QED
      BY <2>4, <3>2, <3>4, <3>5 DEF WellPlanned
  <2> QED
    BY <2>5, <2>6
<1> HIDE DEF clear, crypto, both
<1> QED
  BY <1>1, <1>7, <1>8

(***************************************************************************)
(* The control of the worker.                                              *)
(***************************************************************************)

LEMMA NoPlanSteps == PlanError.steps = <<>> /\ Len(PlanError.steps) = 0
BY DEF PlanError, Plan

\* A plan has steps, each with a kind of its own.
LEMMA StepsOfPlan ==
  ASSUME Planned
  PROVE  /\ todo.steps \in Seq(Steps) /\ Len(todo.steps) \in Nat
         /\ index \in 1..Len(todo.steps) => step \in Steps
         /\ todo # PlanError => Len(todo.steps) \in Nat \ {0, 1}
<1>1. CASE todo = PlanError
  BY <1>1, NoPlanSteps
<1>2. CASE WellPlanned(todo, caps, job.full)
  <2>1. PICK s : s = todo.steps
    OBVIOUS
  <2>2. s \in Seq(Steps) /\ Len(s) \in Nat \ {0, 1}
    BY <1>2, <2>1 DEF WellPlanned, ChecksLastStep
  <2>3. index \in 1..Len(s) => s[index] \in Steps
    BY <2>2
  <2> QED
    BY <2>1, <2>2, <2>3 DEF step
<1> QED
  BY <1>1, <1>2 DEF Planned

\* A step on a hidden area is one that the capabilities call for.
LEMMA AreaStep ==
  ASSUME Planned, todo # PlanError, index \in 1..Len(todo.steps)
  PROVE  /\ step.kind = "remove_hpa" => hpa_enabled(caps) /\ step.n = caps.hpa_native
         /\ step.kind = "restore_dco" => dco_hidden(caps)
         /\ step.kind = "verify" => /\ index = Len(todo.steps)
                                    /\ step.arg \in {"pattern", "changed"}
                                    /\ job.full => step.n = 1
<1>1. PICK s : s = todo.steps
  OBVIOUS
<1>2. ChecksLastStep(s, caps, job.full)
  BY <1>1 DEF Planned, WellPlanned
<1>3. Len(s) \in Nat \ {0, 1}
  BY <1>2 DEF ChecksLastStep
<1>4. CASE index = Len(s)
  <2>1. s[index].kind = "verify" /\ s[index].arg \in {"pattern", "changed"} /\ (job.full => s[index].n = 1)
    BY <1>2, <1>4 DEF ChecksLastStep
  <2> QED
    BY <1>1, <1>4, <2>1 DEF step
<1>5. CASE index # Len(s)
  <2>1. index \in 1..(Len(s) - 1)
    BY <1>1, <1>3, <1>5
  <2>2. s[index] \in BodySteps(caps)
    BY <1>2, <2>1 DEF ChecksLastStep
  <2> QED
    BY <1>1, <2>2 DEF step, BodySteps
<1> QED
  BY <1>4, <1>5

\* What a probe can learn is true of the drive, and nothing is learnt but on Linux.
LEMMA ProbeLearns ==
  ASSUME NEW c \in Probed, disk \in Drives
  PROVE  /\ c.hpa_current \in {0, disk.caps.hpa_current}
         /\ c.hpa_native \in {0, disk.caps.hpa_native}
         /\ c.hpa_native \in Nat
         /\ job.dry \/ job.system # "Linux" => ~hpa_enabled(c) /\ ~dco_hidden(c)
<1>1. NoCaps.hpa_current = 0 /\ NoCaps.hpa_native = 0 /\ NoCaps.dco_real = 0
  BY DEF NoCaps
<1>2. disk.caps.hpa_native \in Nat
  BY DriveAssumption
<1>3. CASE job.dry
  <2>1. c = simulated_caps(disk.type)
    BY <1>3 DEF Probed
  <2>2. c.hpa_current = 0 /\ c.hpa_native = 0
    <3>1. CASE disk.type = "nvme"
      BY <2>1, <3>1 DEF simulated_caps, NoCaps
    <3>2. CASE disk.type = "ssd"
      BY <2>1, <3>2 DEF simulated_caps, NoCaps
    <3>3. CASE disk.type = "hdd"
      BY <2>1, <3>3 DEF simulated_caps, NoCaps
    <3>4. CASE disk.type \notin {"nvme", "ssd", "hdd"}
      BY <2>1, <3>4 DEF simulated_caps, NoCaps
    <3> QED
      BY <3>1, <3>2, <3>3, <3>4
  <2> QED
    BY <2>2 DEF hpa_enabled, dco_hidden
<1>4. CASE ~job.dry /\ job.system = "Linux"
  <2>1. PICK answered : c = probe(disk, answered)
    BY <1>4 DEF Probed
  <2>2. /\ c["hpa_current"] \in {NoCaps["hpa_current"], disk.caps["hpa_current"]}
        /\ c["hpa_native"] \in {NoCaps["hpa_native"], disk.caps["hpa_native"]}
    <3>1. "hpa_current" \in DOMAIN NoCaps /\ "hpa_native" \in DOMAIN NoCaps
      BY DEF NoCaps
    <3> HIDE DEF NoCaps
    <3> QED
      BY <2>1, <3>1 DEF probe
  <2> QED
    BY <1>1, <1>2, <1>4, <2>2
<1>5. CASE ~job.dry /\ job.system # "Linux"
  BY <1>1, <1>5 DEF Probed, hpa_enabled, dco_hidden
<1> QED
  BY <1>3, <1>4, <1>5


\* Only _plan writes the plan and the capabilities, and no step changes the drive's kind
\* or the job.
LEMMA PlannedOnce ==
  ASSUME Next
  PROVE  /\ UNCHANGED <<disk, job>>
         /\ MakePlan \/ UNCHANGED <<todo, caps>>
<1> USE DEF drive, sampling, untouched, driveless
<1>1. CASE PreflightRefuses
  BY <1>1 DEF PreflightRefuses
<1>2. CASE Unmount
  BY <1>2 DEF Unmount
<1>3. CASE LookAgain
  BY <1>3 DEF LookAgain
<1>4. CASE DryRun
  BY <1>4 DEF DryRun
<1>5. CASE MakePlan
  BY <1>5 DEF MakePlan
<1>6. CASE StepCancelled
  BY <1>6 DEF StepCancelled
<1>7. CASE Simulate
  BY <1>7 DEF Simulate
<1>8. CASE StartPass
  BY <1>8 DEF StartPass
<1>9. CASE WriteChunk
  BY <1>9 DEF WriteChunk
<1>10. CASE WriteFails
  BY <1>10 DEF WriteFails
<1>11. CASE Sync
  BY <1>11 DEF Sync
<1>12. CASE Verify
  BY <1>12 DEF Verify
<1>13. CASE StepFails
  BY <1>13 DEF StepFails
<1>14. CASE remove_hpa
  BY <1>14 DEF remove_hpa, Reveal, AreaKinds, Begins
<1>15. CASE restore_dco
  BY <1>15 DEF restore_dco, Reveal, AreaKinds, Begins
<1>16. CASE EraseNow
  BY <1>16 DEF EraseNow, Firmware
<1>17. CASE StartSanitize
  BY <1>17 DEF StartSanitize, Firmware
<1>18. CASE PollDone
  BY <1>18 DEF PollDone, Polled
<1>19. CASE PollFailed
  BY <1>19 DEF PollFailed, Polled
<1>20. CASE PollGivesUp
  BY <1>20 DEF PollGivesUp, Polled
<1>21. CASE SetPassword
  BY <1>21 DEF SetPassword, Firmware, Security
<1>22. CASE SecureErase
  BY <1>22 DEF SecureErase, Security
<1>23. CASE DisablePassword
  BY <1>23 DEF DisablePassword, Security
<1>24. CASE Identify
  BY <1>24 DEF Identify, Security
<1>25. CASE Finish
  BY <1>25 DEF Finish
<1>26. CASE PollIdle
  BY <1>26 DEF PollIdle, Polled
<1>27. CASE FirmwareFinishes
  BY <1>27 DEF FirmwareFinishes
<1>28. CASE Cancel
  BY <1>28 DEF Cancel
<1>29. CASE HostChanges
  BY <1>29 DEF HostChanges
<1>30. CASE Crash
  BY <1>30 DEF Crash
<1> QED
  BY <1>1, <1>2, <1>3, <1>4, <1>5, <1>6, <1>7, <1>8, <1>9, <1>10, <1>11, <1>12, <1>13,
     <1>14, <1>15, <1>16, <1>17, <1>18, <1>19, <1>20, <1>21, <1>22, <1>23, <1>24, <1>25,
     <1>26, <1>27, <1>28, <1>29, <1>30
     DEF Next, Worker, Prepare, TakeStep

\* A plan is made, with its samples, or the worker ends.
LEMMA PlanMade ==
  ASSUME MakePlan
  PROVE  /\ pc = "plan" /\ UNCHANGED <<disk, job, visible, index>>
         /\ \E c \in Probed :
              caps' = c /\ todo' = plan(disk, c, job, job.dry \/ job.system = "Linux")
         /\ \/ pc' = "ended" /\ record' = "failed"
            \/ /\ todo' # PlanError /\ pc' = "step" /\ UNCHANGED <<record, last_source>>
               /\ size' = visible /\ offsets' \in sample_offsets(visible, COUNT)
               /\ \E direct \in BOOLEAN :
                    before' = IF job.dry THEN <<>>
                              ELSE snapshot(media, visible, visible, offsets', direct)
<1>1. PICK c \in Probed, direct \in BOOLEAN :
        LET p == plan(disk, c, job, job.dry \/ job.system = "Linux") IN
        /\ caps' = c /\ todo' = p
        /\ IF p = PlanError
           THEN Fails /\ UNCHANGED <<sampling, faults>>
           ELSE \/ /\ size' = visible
                   /\ offsets' \in sample_offsets(visible, COUNT)
                   /\ before' = IF job.dry THEN <<>>
                                ELSE snapshot(media, visible, visible, offsets', direct)
                   /\ Goto("step") /\ UNCHANGED faults
                \/ ~job.dry /\ Fault /\ Fails /\ UNCHANGED sampling
  BY Zenon DEF MakePlan
<1> DEFINE p == plan(disk, c, job, job.dry \/ job.system = "Linux")
           Sampled == /\ size' = visible
                      /\ offsets' \in sample_offsets(visible, COUNT)
                      /\ before' = IF job.dry THEN <<>>
                                   ELSE snapshot(media, visible, visible, offsets', direct)
<1>2. caps' = c /\ todo' = p
  BY <1>1
<1>3. \/ p # PlanError /\ Sampled /\ Goto("step")
      \/ Fails
  BY <1>1
<1>4. pc = "plan" /\ UNCHANGED <<disk, job, visible, index>>
  BY DEF MakePlan, drive, progress
<1>5. CASE Fails
  <2>1. pc' = "ended" /\ record' = "failed"
    BY <1>5 DEF Fails, End
  <2> QED
    BY <1>2, <1>4, <2>1
<1>6. CASE p # PlanError /\ Sampled /\ Goto("step")
  <2>1. pc' = "step" /\ UNCHANGED <<record, last_source>>
    BY <1>6 DEF Goto, keys
  <2>2. todo' # PlanError
    BY <1>2, <1>6
  <2> HIDE DEF p
  <2> QED
    BY <1>1, <1>2, <1>4, <1>6, <2>1, <2>2 DEF p
<1> QED
  BY <1>3, <1>5, <1>6

LEMMA CourseStep ==
  ASSUME Control, [Next]_vars
  PROVE  Course'
<1> USE DEF drive, progress, sampling, keys, untouched, driveless
<1>a. TypeOK /\ Course
  BY DEF Control
<1>b. Len(todo.steps) \in Nat
  BY StepsOfPlan DEF Control
<1>c. index \in 1..(Len(todo.steps) + 1) /\ index \in Nat /\ IDLE_LIMIT \in Nat \ {0}
  BY <1>a, <1>b, DriveAssumption DEF TypeOK
<1>d. AreaKinds \cap FirmwareKinds = {} /\ "verify" \notin FirmwareKinds /\ "overwrite" \notin FirmwareKinds
  BY DEF AreaKinds, FirmwareKinds
<1>1. CASE PreflightRefuses
  BY <1>a, <1>b, <1>c, <1>1 DEF Course, Ended, AtCommand, step, PreflightRefuses, Fails, End
<1>2. CASE Unmount
  BY <1>a, <1>b, <1>c, <1>2 DEF Course, Ended, AtCommand, step, Unmount, Goto, Fault, Fails, End
<1>3. CASE LookAgain
  BY <1>a, <1>b, <1>c, <1>3 DEF Course, Ended, AtCommand, step, LookAgain, Goto, Fails, End
<1>4. CASE DryRun
  BY <1>a, <1>b, <1>c, <1>4 DEF Course, Ended, AtCommand, step, DryRun, Goto
<1>5. CASE MakePlan
  BY <1>a, <1>b, <1>c, <1>5 DEF Course, Ended, AtCommand, step, MakePlan, Goto, Fails, End, Fault
<1>6. CASE StepCancelled
  BY <1>a, <1>b, <1>c, <1>6 DEF Course, Ended, AtCommand, step, StepCancelled, End, Stay
<1>7. CASE Simulate
  BY <1>a, <1>b, <1>c, <1>7 DEF Course, Ended, AtCommand, step, Simulate, Begins, StepDone, Goto
<1>8. CASE StartPass
  BY <1>a, <1>b, <1>c, <1>8 DEF Course, Ended, AtCommand, step, StartPass, Begins, Fails, End, Stay
<1>9. CASE WriteChunk
  BY <1>a, <1>b, <1>c, <1>9 DEF Course, Ended, AtCommand, step, WriteChunk
<1>10. CASE WriteFails
  BY <1>a, <1>b, <1>c, <1>10 DEF Course, Ended, AtCommand, step, WriteFails, Fault, Fails, End, Stay
<1>11. CASE Sync
  BY <1>a, <1>b, <1>c, <1>11 DEF Course, Ended, AtCommand, step, Sync, StepDone, Goto
<1>12. CASE Verify
  BY <1>a, <1>12 DEF Course, Ended, AtCommand, Verify, Begins, Fails, End, StepDone, Goto
<1>13. CASE StepFails
  BY <1>13 DEF Course, Ended, AtCommand, StepFails, Fails, End
<1>14. CASE remove_hpa
  BY <1>a, <1>14 DEF Course, Ended, AtCommand, remove_hpa, Reveal, Begins, StepDone, Goto
<1>15. CASE restore_dco
  BY <1>a, <1>15 DEF Course, Ended, AtCommand, restore_dco, Reveal, Begins, StepDone, Goto
<1>16. CASE EraseNow
  BY <1>a, <1>16
     DEF Course, Ended, AtCommand, EraseNow, Firmware, Begins, StepDone, Fails, End, Goto
<1>17. CASE StartSanitize
  BY <1>a, <1>c, <1>17
     DEF Course, Ended, step, StartSanitize, Firmware, Begins, Goto, Fails, End, Stay,
         FirmwareKinds
<1>18. CASE PollDone
  BY <1>a, <1>b, <1>c, <1>18 DEF Course, Ended, AtCommand, step, PollDone, Polled, StepDone, Goto
<1>19. CASE PollFailed
  BY <1>19 DEF Course, Ended, AtCommand, PollFailed, Fails, End
<1>20. CASE PollGivesUp
  BY <1>20 DEF Course, Ended, AtCommand, PollGivesUp, Fails, End
<1>21. CASE SetPassword
  BY <1>a, <1>21
     DEF Course, Ended, step, SetPassword, Firmware, Begins, Security, Goto, Fails, End,
         Stay, FirmwareKinds
<1>22. CASE SecureErase
  BY <1>a, <1>22 DEF Course, Ended, AtCommand, step, SecureErase, Security, Goto, Stay
<1>23. CASE DisablePassword
  BY <1>23 DEF Course, Ended, AtCommand, DisablePassword, Fails, End
<1>24. CASE Identify
  BY <1>a, <1>24
     DEF Course, Ended, AtCommand, step, Identify, Security, StepDone, Goto, Stay, Fails,
         End
<1>25. CASE Finish
  BY <1>a, <1>b, <1>c, <1>25 DEF Course, Ended, AtCommand, step, Finish, End, Stay
<1>26. CASE PollIdle
  BY <1>a, <1>b, <1>c, <1>26 DEF Course, Ended, AtCommand, step, PollIdle, Polled, Goto, Fails, End
<1>27. CASE FirmwareFinishes
  BY <1>a, <1>b, <1>c, <1>27 DEF Course, Ended, AtCommand, step, FirmwareFinishes, EraseAll, Fault
<1>28. CASE Cancel
  BY <1>a, <1>b, <1>c, <1>28 DEF Course, Ended, AtCommand, step, Cancel
<1>29. CASE HostChanges
  BY <1>a, <1>b, <1>c, <1>29 DEF Course, Ended, AtCommand, step, HostChanges, Fault
<1>30. CASE Crash
  BY <1>a, <1>b, <1>c, <1>30 DEF Course, Ended, AtCommand, step, Crash, Fault, End
<1>31. CASE UNCHANGED vars
  BY <1>a, <1>b, <1>c, <1>31 DEF Course, Ended, AtCommand, step, vars
<1> QED
  BY <1>1, <1>2, <1>3, <1>4, <1>5, <1>6, <1>7, <1>8, <1>9, <1>10, <1>11, <1>12, <1>13,
     <1>14, <1>15, <1>16, <1>17, <1>18, <1>19, <1>20, <1>21, <1>22, <1>23, <1>24, <1>25,
     <1>26, <1>27, <1>28, <1>29, <1>30, <1>31
     DEF Next, Worker, Prepare, TakeStep

LEMMA PlannedStep ==
  ASSUME Control, [Next]_vars
  PROVE  Planned'
<1> USE DEF drive, progress, sampling, keys, untouched, driveless
<1>a. Planned /\ Course
  BY DEF Control
<1>1. CASE PreflightRefuses
  BY <1>a, <1>1 DEF Planned, Unplanned, Working, AtCommand, PreflightRefuses, Fails, End
<1>2. CASE Unmount
  BY <1>a, <1>2 DEF Planned, Unplanned, Working, AtCommand, Unmount, Goto, Fails, End
<1>3. CASE LookAgain
  BY <1>a, <1>3 DEF Planned, Unplanned, Working, AtCommand, LookAgain, Goto, Fails, End
<1>4. CASE DryRun
  BY <1>a, <1>4 DEF Planned, Learnt, Unplanned, Working, AtCommand, Course, Ended, DryRun, Goto
<1>5. CASE MakePlan
  <2> DEFINE p(x) == plan(disk, x, job, job.dry \/ job.system = "Linux")
  <2>1. PICK c \in Probed :
          /\ caps' = c /\ todo' = p(c)
          /\ \/ p(c) # PlanError /\ pc' = "step" /\ UNCHANGED record
             \/ pc' = "ended" /\ record' = "failed"
    BY <1>5, PlanMade
  <2>2. disk' = disk /\ job' = job /\ index' = index /\ pc = "plan"
    BY <1>5 DEF MakePlan
  <2>3. disk \in Drives
    BY DEF Control, TypeOK
  <2>4. /\ c.hpa_current \in {0, disk.caps.hpa_current}
        /\ c.hpa_native \in {0, disk.caps.hpa_native}
        /\ c.hpa_native \in Nat
        /\ job.dry \/ job.system # "Linux" => ~hpa_enabled(c) /\ ~dco_hidden(c)
    BY <2>1, <2>3, ProbeLearns
  <2>5. todo' = PlanError \/ WellPlanned(todo', caps', job'.full)
    BY <2>1, <2>2, <2>4, PlanShape
  <2>6. Learnt'
    BY <2>1, <2>2, <2>4 DEF Learnt
  <2>7. record = "none"
    BY <1>a, <2>2 DEF Course, Ended
  <2>8. ~Unplanned' /\ (Working' \/ record' \in {"complete", "cancelled"} => todo' # PlanError)
    BY <2>1, <2>7 DEF Unplanned, Working, AtCommand
  <2> QED
    BY <2>5, <2>6, <2>8 DEF Planned
<1>6. CASE StepCancelled
  BY <1>a, <1>6 DEF Planned, Learnt, Unplanned, Working, StepCancelled, End
<1>7. CASE Simulate
  BY <1>a, <1>7 DEF Planned, Learnt, Unplanned, Working, Simulate, Begins, StepDone, Goto
<1>8. CASE StartPass
  BY <1>a, <1>8 DEF Planned, Learnt, Unplanned, Working, StartPass, Begins, Fails, End
<1>9. CASE WriteChunk
  BY <1>a, <1>9 DEF Planned, Learnt, Unplanned, Working, AtCommand, Course, Ended, WriteChunk
<1>10. CASE WriteFails
  BY <1>a, <1>10 DEF Planned, Unplanned, Working, AtCommand, WriteFails, Fails, End
<1>11. CASE Sync
  BY <1>a, <1>11 DEF Planned, Learnt, Unplanned, Working, Sync, StepDone, Goto
<1>12. CASE Verify
  BY <1>a, <1>12
     DEF Planned, Learnt, Unplanned, Working, Verify, Begins, Fails, End, StepDone, Goto
<1>13. CASE StepFails
  BY <1>a, <1>13 DEF Planned, Unplanned, Working, AtCommand, StepFails, Fails, End
<1>14. CASE remove_hpa
  BY <1>a, <1>14
     DEF Planned, Learnt, Unplanned, Working, remove_hpa, Reveal, Begins, StepDone, Goto
<1>15. CASE restore_dco
  BY <1>a, <1>15
     DEF Planned, Learnt, Unplanned, Working, restore_dco, Reveal, Begins, StepDone, Goto
<1>16. CASE EraseNow
  BY <1>a, <1>16
     DEF Planned, Learnt, Unplanned, Working, EraseNow, Firmware, Begins, StepDone, Fails,
         End, Goto
<1>17. CASE StartSanitize
  BY <1>a, <1>17
     DEF Planned, Learnt, Unplanned, Working, StartSanitize, Firmware, Begins, Goto, Fails,
         End
<1>18. CASE PollDone
  BY <1>a, <1>18
     DEF Planned, Learnt, Unplanned, Working, AtCommand, PollDone, Polled, StepDone, Goto
<1>19. CASE PollFailed
  BY <1>a, <1>19 DEF Planned, Unplanned, Working, AtCommand, PollFailed, Polled, Fails, End
<1>20. CASE PollGivesUp
  BY <1>a, <1>20 DEF Planned, Unplanned, Working, AtCommand, PollGivesUp, Polled, Fails, End
<1>21. CASE SetPassword
  BY <1>a, <1>21
     DEF Planned, Learnt, Unplanned, Working, SetPassword, Firmware, Begins, Security, Goto,
         Fails, End
<1>22. CASE SecureErase
  BY <1>a, <1>22
     DEF Planned, Learnt, Unplanned, Working, AtCommand, SecureErase, Security, Goto
<1>23. CASE DisablePassword
  BY <1>a, <1>23
     DEF Planned, Unplanned, Working, AtCommand, DisablePassword, Security, Fails, End
<1>24. CASE Identify
  BY <1>a, <1>24
     DEF Planned, Learnt, Unplanned, Working, AtCommand, Identify, Security, StepDone, Goto,
         Fails, End
<1>25. CASE Finish
  BY <1>a, <1>25 DEF Planned, Learnt, Unplanned, Working, Finish, End
<1>26. CASE PollIdle
  BY <1>a, <1>26
     DEF Planned, Learnt, Unplanned, Working, AtCommand, PollIdle, Polled, Goto, Fails, End
<1>27. CASE FirmwareFinishes
  BY <1>a, <1>27 DEF Planned, Learnt, Unplanned, Working, AtCommand, FirmwareFinishes
<1>28. CASE Cancel
  BY <1>a, <1>28 DEF Planned, Learnt, Unplanned, Working, AtCommand, Course, Ended, Cancel
<1>29. CASE HostChanges
  BY <1>a, <1>29 DEF Planned, Unplanned, Working, AtCommand, HostChanges
<1>30. CASE Crash
  BY <1>a, <1>30 DEF Planned, Unplanned, Working, AtCommand, Crash, End
<1>31. CASE UNCHANGED vars
  BY <1>a, <1>31 DEF Planned, Learnt, Unplanned, Working, AtCommand, Course, Ended, vars
<1> QED
  BY <1>1, <1>2, <1>3, <1>4, <1>5, <1>6, <1>7, <1>8, <1>9, <1>10, <1>11, <1>12, <1>13,
     <1>14, <1>15, <1>16, <1>17, <1>18, <1>19, <1>20, <1>21, <1>22, <1>23, <1>24, <1>25,
     <1>26, <1>27, <1>28, <1>29, <1>30, <1>31
     DEF Next, Worker, Prepare, TakeStep

LEMMA AreasStep ==
  ASSUME Control, [Next]_vars
  PROVE  Areas'
<1> USE DEF drive, progress, sampling, keys, untouched, driveless
<1>a. Areas /\ Course /\ TypeOK
  BY DEF Control
<1>1. CASE PreflightRefuses
  BY <1>1 DEF Areas, Unplanned, Working, AtCommand, PreflightRefuses, Fails, End
<1>2. CASE Unmount
  BY <1>a, <1>2 DEF Areas, Unplanned, Working, AtCommand, Unmount, Goto, Fails, End
<1>3. CASE LookAgain
  BY <1>a, <1>3 DEF Areas, Unplanned, Working, AtCommand, LookAgain, Goto, Fails, End
<1>4. CASE DryRun
  BY <1>a, <1>4 DEF Areas, FirstVisible, Unplanned, Working, AtCommand, Course, Ended, DryRun, Goto
<1>5. CASE MakePlan
  <2>1. visible = FirstVisible(disk) /\ record = "none" /\ pc = "plan"
    BY <1>a, <1>5 DEF Areas, Unplanned, MakePlan, Course, Ended
  <2>2. \/ pc' = "ended" /\ record' = "failed"
        \/ pc' = "step" /\ size' = visible
    BY <1>5, PlanMade
  <2>3. UNCHANGED <<disk, visible>>
    BY <1>5 DEF MakePlan
  <2>4. visible \in Nat
    BY <1>a, DriveAssumption DEF TypeOK
  <2>5. FirstVisible(disk)' = FirstVisible(disk)
    BY <2>3 DEF FirstVisible
  <2> QED
    BY <2>1, <2>2, <2>3, <2>4, <2>5 DEF Areas, Unplanned, Working, AtCommand
<1>6. CASE StepCancelled
  BY <1>a, <1>6 DEF Areas, Unplanned, Working, StepCancelled, End
<1>7. CASE Simulate
  BY <1>a, <1>7 DEF Areas, Unplanned, Working, Simulate, Begins, StepDone, Goto
<1>8. CASE StartPass
  BY <1>a, <1>8 DEF Areas, Unplanned, Working, StartPass, Begins, Fails, End
<1>9. CASE WriteChunk
  BY <1>a, <1>9 DEF Areas, FirstVisible, Unplanned, Working, AtCommand, Course, Ended, WriteChunk
<1>10. CASE WriteFails
  BY <1>a, <1>10 DEF Areas, Unplanned, Working, WriteFails, Fails, End
<1>11. CASE Sync
  BY <1>a, <1>11 DEF Areas, Unplanned, Working, Sync, StepDone, Goto
<1>12. CASE Verify
  BY <1>a, <1>12 DEF Areas, Unplanned, Working, Verify, Begins, Fails, End, StepDone, Goto
<1>13. CASE StepFails
  BY <1>a, <1>13 DEF Areas, Unplanned, Working, StepFails, Begins, Fails, End
<1>14. CASE remove_hpa
  <2>1. /\ Begins /\ ~job.dry /\ step.kind = "remove_hpa" /\ visible' = step.n
        /\ size' = IF job.system = "Linux" THEN step.n ELSE size
        /\ pc' = "step" /\ record' = record /\ disk' = disk
    BY <1>14 DEF remove_hpa, Reveal, StepDone, Goto
  <2>2. Learnt /\ todo # PlanError /\ Planned
    BY <2>1 DEF Control, Planned, Begins, Working
  <2>3. index \in 1..Len(todo.steps)
    BY <1>a, <2>1, <2>2, StepsOfPlan DEF TypeOK, Begins
  <2>4. hpa_enabled(caps) /\ step.n = caps.hpa_native
    BY <2>1, <2>2, <2>3, AreaStep
  <2>5. job.system = "Linux"
    BY <2>2, <2>4 DEF Learnt
  <2>6. /\ disk.units \in Nat /\ disk.caps.hpa_current \in 0..disk.units
        /\ disk.caps.hpa_native \in 0..disk.units
    BY <1>a, DriveAssumption DEF TypeOK
  <2>7. FirstVisible(disk) = caps.hpa_current /\ caps.hpa_current <= caps.hpa_native
    BY <2>2, <2>4, <2>6 DEF Learnt, hpa_enabled, FirstVisible
  <2>8. size' = visible' /\ FirstVisible(disk) <= size'
    BY <2>1, <2>4, <2>5, <2>7
  <2>9. FirstVisible(disk)' = FirstVisible(disk)
    BY <2>1 DEF FirstVisible
  <2> QED
    BY <2>1, <2>8, <2>9 DEF Areas, Unplanned
<1>15. CASE restore_dco
  <2> DEFINE now == IF hpa_enabled(caps) THEN visible ELSE disk.units
  <2>1. /\ Begins /\ ~job.dry /\ step.kind = "restore_dco" /\ visible' = now
        /\ size' = IF job.system = "Linux" THEN now ELSE size
        /\ pc' = "step" /\ record' = record /\ disk' = disk
    BY <1>15 DEF restore_dco, Reveal, StepDone, Goto
  <2>2. Learnt /\ todo # PlanError /\ Planned
    BY <2>1 DEF Control, Planned, Begins, Working
  <2>3. index \in 1..Len(todo.steps)
    BY <1>a, <2>1, <2>2, StepsOfPlan DEF TypeOK, Begins
  <2>4. dco_hidden(caps)
    BY <2>1, <2>2, <2>3, AreaStep
  <2>5. job.system = "Linux"
    BY <2>2, <2>4 DEF Learnt
  <2>6. disk.units \in Nat /\ disk.caps.hpa_current \in 0..disk.units
    BY <1>a, DriveAssumption DEF TypeOK
  <2>7. FirstVisible(disk) <= disk.units
    BY <2>6 DEF FirstVisible
  <2>8. FirstVisible(disk) <= visible
    BY <1>a, <2>1 DEF Areas, Begins, Working
  <2>9. size' = visible' /\ FirstVisible(disk) <= size'
    BY <2>1, <2>5, <2>7, <2>8
  <2>10. FirstVisible(disk)' = FirstVisible(disk)
    BY <2>1 DEF FirstVisible
  <2> HIDE DEF now
  <2> QED
    BY <2>1, <2>9, <2>10 DEF Areas, Unplanned
<1>16. CASE EraseNow
  BY <1>a, <1>16
     DEF Areas, Unplanned, Working, EraseNow, Firmware, Begins, StepDone, Fails, End, Goto
<1>17. CASE StartSanitize
  BY <1>a, <1>17
     DEF Areas, Unplanned, Working, StartSanitize, Firmware, Begins, Goto, Fails, End
<1>18. CASE PollDone
  BY <1>a, <1>18 DEF Areas, Unplanned, Working, AtCommand, PollDone, Polled, StepDone, Goto
<1>19. CASE PollFailed
  BY <1>19 DEF Areas, Unplanned, Working, AtCommand, PollFailed, Fails, End
<1>20. CASE PollGivesUp
  BY <1>20 DEF Areas, Unplanned, Working, AtCommand, PollGivesUp, Fails, End
<1>21. CASE SetPassword
  BY <1>a, <1>21
     DEF Areas, Unplanned, Working, SetPassword, Firmware, Begins, Security, Goto, Fails,
         End
<1>22. CASE SecureErase
  BY <1>a, <1>22 DEF Areas, Unplanned, Working, AtCommand, SecureErase, Security, Goto
<1>23. CASE DisablePassword
  BY <1>23 DEF Areas, Unplanned, Working, AtCommand, DisablePassword, Fails, End
<1>24. CASE Identify
  BY <1>a, <1>24
     DEF Areas, Unplanned, Working, AtCommand, Identify, Security, StepDone, Goto, Fails,
         End
<1>25. CASE Finish
  BY <1>a, <1>25 DEF Areas, Unplanned, Working, Finish, End
<1>26. CASE PollIdle
  BY <1>a, <1>26
     DEF Areas, Unplanned, Working, AtCommand, PollIdle, Polled, Goto, Fails, End
<1>27. CASE FirmwareFinishes
  BY <1>a, <1>27 DEF Areas, Unplanned, Working, AtCommand, FirmwareFinishes
<1>28. CASE Cancel
  BY <1>a, <1>28 DEF Areas, FirstVisible, Unplanned, Working, AtCommand, Course, Ended, Cancel
<1>29. CASE HostChanges
  BY <1>a, <1>29 DEF Areas, Unplanned, Working, AtCommand, HostChanges
<1>30. CASE Crash
  BY <1>30 DEF Areas, Unplanned, Working, AtCommand, Crash, End
<1>31. CASE UNCHANGED vars
  BY <1>a, <1>31 DEF Areas, FirstVisible, Unplanned, Working, AtCommand, Course, Ended, vars
<1> QED
  BY <1>1, <1>2, <1>3, <1>4, <1>5, <1>6, <1>7, <1>8, <1>9, <1>10, <1>11, <1>12, <1>13,
     <1>14, <1>15, <1>16, <1>17, <1>18, <1>19, <1>20, <1>21, <1>22, <1>23, <1>24, <1>25,
     <1>26, <1>27, <1>28, <1>29, <1>30, <1>31
     DEF Next, Worker, Prepare, TakeStep

LEMMA Verdicts ==
  ASSUME NEW m, NEW end, NEW sz, NEW x, NEW source, NEW direct
  PROVE  /\ check_pattern(m, end, sz, x, source, direct).passed \in {"yes", "no"}
         /\ check_changed(m, end, sz, x, direct).passed \in {"yes", "no", "none"}
<1>1. \A a, b, v : Verdict(a, b, v).passed = v
  BY DEF Verdict
<1>2. \E b, s : check_pattern(m, end, sz, x, source, direct)
                  = Verdict("pattern", x, IF b = {} /\ s # {} THEN "yes" ELSE "no")
  BY Zenon DEF check_pattern
<1>3. \E s, k : check_changed(m, end, sz, x, direct)
                  = Verdict("changed", DOMAIN x,
                            IF k # {} THEN "no" ELSE IF s # DOMAIN x THEN "yes" ELSE "none")
  BY Zenon DEF check_changed
<1> QED
  BY <1>1, <1>2, <1>3

LEMMA ControlledType ==
  ASSUME Control
  PROVE  /\ Len(todo.steps) \in Nat /\ index \in 1..(Len(todo.steps) + 1)
         /\ disk.units \in Nat /\ size \in 0..disk.units /\ visible \in 0..disk.units
         /\ written \in 0..size /\ MaxFaults \in Nat /\ IDLE_LIMIT \in Nat \ {0}
         /\ CHUNK \in Nat \ {0} /\ faults \in 0..MaxFaults /\ idle \in 0..IDLE_LIMIT
         /\ disk.caps.hpa_native \in 0..disk.units
         /\ FirstVisible(disk) \in 0..disk.units
BY StepsOfPlan, DriveAssumption DEF Control, TypeOK, FirstVisible

\* An action that keeps the drive, the plan and the sizes, and ends or goes on.
LEMMA TypeStep ==
  ASSUME Control, [Next]_vars
  PROVE  TypeOK'
<1> USE DEF drive, progress, sampling, keys, untouched, driveless
<1>a. TypeOK /\ Course
  BY DEF Control
<1>b. /\ Len(todo.steps) \in Nat /\ index \in 1..(Len(todo.steps) + 1)
      /\ disk.units \in Nat /\ size \in 0..disk.units /\ visible \in 0..disk.units
      /\ written \in 0..size /\ MaxFaults \in Nat /\ IDLE_LIMIT \in Nat \ {0}
      /\ CHUNK \in Nat \ {0} /\ faults \in 0..MaxFaults /\ idle \in 0..IDLE_LIMIT
  BY ControlledType
<1>c. \A h \in HostStates : /\ [h EXCEPT !.mounted = TRUE] \in HostStates
                           /\ [h EXCEPT !.mounted = FALSE] \in HostStates
                           /\ [h EXCEPT !.attached = FALSE] \in HostStates
  BY DEF HostStates
<1>1. CASE PreflightRefuses
  BY <1>a, <1>1 DEF TypeOK, PreflightRefuses, Fails, End
<1>2. CASE Unmount
  <2>1. host' \in HostStates
    BY <1>a, <1>c, <1>2 DEF Unmount, TypeOK
  <2>2. UNCHANGED <<disk, job, media, visible, password, fw, cancelled, todo, size, index,
                    written, idle, verification, purged, refused>>
    BY <1>2 DEF Unmount
  <2>3. faults' = faults \/ Fault
    BY <1>2 DEF Unmount
  <2>4. pc' \in {pc, "again", "ended"} /\ record' \in {record, "failed"}
    BY <1>2 DEF Unmount, Goto, Fails, End
  <2>5. faults' \in 0..MaxFaults
    BY <1>b, <2>3 DEF Fault
  <2> QED
    BY <1>a, <2>1, <2>2, <2>4, <2>5 DEF TypeOK
<1>3. CASE LookAgain
  BY <1>a, <1>3 DEF TypeOK, LookAgain, Goto, Fails, End
<1>4. CASE DryRun
  BY <1>a, <1>4 DEF TypeOK, DryRun, Goto
<1>5. CASE MakePlan
  <2>1. /\ UNCHANGED <<disk, job, host, media, visible, password, fw, index, written, idle,
                      verification, cancelled, purged, refused>>
        /\ pc = "plan"
    BY <1>5 DEF MakePlan
  <2>2. \/ pc' = "ended" /\ record' = "failed"
        \/ pc' = "step" /\ record' = record
    BY <1>5, PlanMade
  <2>3. size' \in {size, visible} /\ faults' \in 0..MaxFaults
    <3>1. \/ UNCHANGED <<size, faults>>
          \/ size' = visible /\ UNCHANGED faults
          \/ Fault /\ UNCHANGED size
      BY <1>5, Zenon DEF MakePlan
    <3> QED
      BY <1>b, <3>1 DEF Fault
  <2>4. Len(todo'.steps) \in Nat
    <3>1. Planned'
      BY PlannedStep
    <3>2. todo' = PlanError \/ WellPlanned(todo', caps', job'.full)
      BY <3>1 DEF Planned
    <3> QED
      BY <3>2, NoPlanSteps DEF WellPlanned, ChecksLastStep
  <2>5. index = 1 /\ written = 0
    BY <1>a, <2>1 DEF Control, Planned, Unplanned, Course, Ended
  <2>6. index' \in 1..(Len(todo'.steps) + 1)
    BY <2>1, <2>4, <2>5
  <2>7. written' \in 0..size' /\ size' \in 0..disk'.units
    BY <1>b, <2>1, <2>3, <2>5
  <2> QED
    BY <1>a, <1>b, <2>1, <2>2, <2>3, <2>6, <2>7 DEF TypeOK
<1>6. CASE StepCancelled
  BY <1>a, <1>6 DEF TypeOK, StepCancelled, End, Stay
<1>7. CASE Simulate
  BY <1>a, <1>b, <1>7 DEF TypeOK, Verdict, Simulate, Begins, StepDone, Goto
<1>8. CASE StartPass
  BY <1>a, <1>8 DEF TypeOK, StartPass, Fails, End, Stay
<1>9. CASE WriteChunk
  BY <1>a, <1>b, <1>9 DEF TypeOK, Filled, Least, WriteChunk
<1>10. CASE WriteFails
  BY <1>a, <1>b, <1>10 DEF TypeOK, Filled, WriteFails, Fault, Fails, End, Stay
<1>11. CASE Sync
  BY <1>a, <1>b, <1>11 DEF TypeOK, Course, Sync, StepDone, Goto
<1>12. CASE Verify
  <2>1. /\ Begins /\ UNCHANGED <<disk, job, host, media, visible, password, fw, todo, size,
                                  purged, refused, faults, cancelled>>
        /\ verification'.passed \in {"none", "yes", "no"}
    <3>a. PICK direct \in BOOLEAN :
            verification' = IF step.arg = "changed"
                            THEN check_changed(media, visible, size, before, direct)
                            ELSE check_pattern(media, visible, size,
                                               IF step.n = 1 THEN AllOffsets(size) ELSE offsets,
                                               last_source, direct)
      BY <1>12, Zenon DEF Verify
    <3>1. PICK v :
            /\ v = IF step.arg = "changed"
                   THEN check_changed(media, visible, size, before, direct)
                   ELSE check_pattern(media, visible, size,
                                      IF step.n = 1 THEN AllOffsets(size) ELSE offsets,
                                      last_source, direct)
            /\ verification' = v
      BY <3>a, Zenon
    <3>2. v.passed \in {"none", "yes", "no"}
      BY <3>1, Verdicts
    <3> QED
      BY <1>12, <3>1, <3>2 DEF Verify
  <2>2. \/ pc' = "ended" /\ record' = "failed" /\ UNCHANGED <<index, written, idle>>
        \/ pc' = "step" /\ record' = record /\ index' = index + 1 /\ written' = 0 /\ idle' = 0
    BY <1>12 DEF Verify, Fails, End, Stay, StepDone, Goto
  <2> QED
    BY <1>a, <1>b, <2>1, <2>2 DEF TypeOK, Begins
<1>13. CASE StepFails
  BY <1>a, <1>b, <1>13 DEF TypeOK, StepFails, Fault, Fails, End, Stay
<1>14. CASE remove_hpa
  <2>1. /\ Begins /\ step.kind = "remove_hpa" /\ pc' = "step" /\ index' = index + 1
        /\ written' = 0 /\ idle' = 0 /\ size' \in {visible', size}
        /\ UNCHANGED <<disk, job, host, media, password, fw, todo, verification, record,
                      purged, refused, faults, cancelled>>
    BY <1>14 DEF remove_hpa, Reveal, StepDone, Goto
  <2>2. visible' \in 0..disk.units
    <3>1. todo # PlanError /\ Planned /\ Learnt
      BY <2>1 DEF Control, Planned, Begins, Working
    <3>2. step.n = caps.hpa_native /\ visible' = step.n
      BY <1>14, <1>b, <2>1, <3>1, AreaStep DEF remove_hpa, Reveal, Begins
    <3> QED
      BY <1>b, <3>1, <3>2, ControlledType DEF Learnt
  <2>3. size' \in 0..disk.units
    BY <1>b, <2>1, <2>2
  <2> QED
    BY <1>a, <1>b, <2>1, <2>2, <2>3 DEF TypeOK, Begins
<1>15. CASE restore_dco
  <2>1. /\ Begins /\ step.kind = "restore_dco" /\ pc' = "step" /\ index' = index + 1
        /\ written' = 0 /\ idle' = 0 /\ size' \in {visible', size}
        /\ UNCHANGED <<disk, job, host, media, password, fw, todo, verification, record,
                      purged, refused, faults, cancelled>>
    BY <1>15 DEF restore_dco, Reveal, StepDone, Goto
  <2>2. visible' \in 0..disk.units
    <3>1. visible' = IF hpa_enabled(caps) THEN visible ELSE disk.units
      BY <1>15 DEF restore_dco, Reveal
    <3> QED
      BY <1>b, <3>1
  <2>3. size' \in 0..disk.units
    BY <1>b, <2>1, <2>2
  <2> QED
    BY <1>a, <1>b, <2>1, <2>2, <2>3 DEF TypeOK, Begins
<1>16. CASE EraseNow
  <2>1. /\ Begins
        /\ UNCHANGED <<disk, job, host, visible, password, fw, cancelled, todo, size,
                       verification, refused>>
    BY <1>16 DEF EraseNow, Firmware
  <2>2. DOMAIN media' = DOMAIN media /\ purged' \in {purged, 1..disk.units}
    BY <1>16 DEF EraseNow, EraseAll, Erased, Filled
  <2>3. faults' = faults \/ Fault
    BY <1>16 DEF EraseNow
  <2>4. pc' \in {"step", "ended"} /\ record' \in {record, "failed"}
    BY <1>16 DEF EraseNow, Fails, End, StepDone, Goto
  <2>5. \/ UNCHANGED <<index, written, idle>>
        \/ index' = index + 1 /\ written' = 0 /\ idle' = 0
    BY <1>16 DEF EraseNow, Stay, StepDone
  <2>6. faults' \in 0..MaxFaults
    BY <1>b, <2>3 DEF Fault
  <2> QED
    BY <1>a, <1>b, <2>1, <2>2, <2>4, <2>5, <2>6 DEF TypeOK, Begins
<1>17. CASE StartSanitize
  BY <1>a, <1>b, <1>17 DEF TypeOK, StartSanitize, Goto, Fails, End, Fault, Stay
<1>18. CASE PollDone
  BY <1>a, <1>b, <1>18 DEF TypeOK, Course, AtCommand, PollDone, Polled, StepDone, Goto
<1>19. CASE PollFailed
  BY <1>a, <1>19 DEF TypeOK, PollFailed, Polled, Fails, End, Stay
<1>20. CASE PollGivesUp
  BY <1>a, <1>20 DEF TypeOK, PollGivesUp, Polled, Fails, End, Stay
<1>21. CASE SetPassword
  <2>1. UNCHANGED <<disk, job, host, visible, fw, cancelled, todo, size, verification>>
    BY <1>21 DEF SetPassword, Security
  <2>2. password' \in BOOLEAN
    BY <1>a, <1>21, Zenon DEF SetPassword, TypeOK
  <2>3. DOMAIN media' = DOMAIN media /\ purged' \in {purged, 1..disk.units}
    BY <1>21 DEF SetPassword, EraseAll, Erased, Filled
  <2>4. refused' \subseteq {"set-pass", "disable", "identify"} /\ faults' \in 0..MaxFaults
    <3>1. refused' = refused \/ refused' = refused \cup {"set-pass"}
      BY <1>21 DEF SetPassword
    <3>2. faults' = faults \/ Fault
      BY <1>21 DEF SetPassword
    <3>3. faults' \in 0..MaxFaults
      BY <1>b, <3>2 DEF Fault
    <3> QED
      BY <1>a, <3>1, <3>3 DEF TypeOK
  <2>5. /\ pc' \in {"erase", "disable", "identify", "step", "ended"}
        /\ record' \in {record, "failed"}
    BY <1>21 DEF SetPassword, Goto, Fails, End, StepDone
  <2>6. index' \in 1..(Len(todo.steps) + 1) /\ written' \in {0, written} /\ idle' \in {0, idle}
    BY <1>a, <1>b, <1>21 DEF SetPassword, Stay, StepDone, Course, AtCommand
  <2> QED
    BY <1>a, <1>b, <2>1, <2>2, <2>3, <2>4, <2>5, <2>6 DEF TypeOK
<1>22. CASE SecureErase
  <2>1. UNCHANGED <<disk, job, host, visible, fw, cancelled, todo, size, verification>>
    BY <1>22 DEF SecureErase, Security
  <2>2. password' \in BOOLEAN
    BY <1>a, <1>22, Zenon DEF SecureErase, TypeOK
  <2>3. DOMAIN media' = DOMAIN media /\ purged' \in {purged, 1..disk.units}
    BY <1>22 DEF SecureErase, EraseAll, Erased, Filled
  <2>4. refused' \subseteq {"set-pass", "disable", "identify"} /\ faults' \in 0..MaxFaults
    BY <1>a, <1>b, <1>22 DEF SecureErase, TypeOK, Fault
  <2>5. /\ pc' \in {"erase", "disable", "identify", "step", "ended"}
        /\ record' \in {record, "failed"}
    BY <1>22 DEF SecureErase, Goto, Fails, End, StepDone
  <2>6. index' \in 1..(Len(todo.steps) + 1) /\ written' \in {0, written} /\ idle' \in {0, idle}
    BY <1>a, <1>b, <1>22 DEF SecureErase, Stay, StepDone, Course, AtCommand
  <2> QED
    BY <1>a, <1>b, <2>1, <2>2, <2>3, <2>4, <2>5, <2>6 DEF TypeOK
<1>23. CASE DisablePassword
  <2>1. UNCHANGED <<disk, job, host, visible, fw, cancelled, todo, size, verification>>
    BY <1>23 DEF DisablePassword, Security
  <2>2. password' \in BOOLEAN
    BY <1>a, <1>23, Zenon DEF DisablePassword, TypeOK
  <2>3. DOMAIN media' = DOMAIN media /\ purged' \in {purged, 1..disk.units}
    BY <1>23 DEF DisablePassword, EraseAll, Erased, Filled
  <2>4. refused' \subseteq {"set-pass", "disable", "identify"} /\ faults' \in 0..MaxFaults
    <3>1. refused' = refused \/ refused' = refused \cup {"disable"}
      BY <1>23 DEF DisablePassword
    <3>2. faults' = faults \/ Fault
      BY <1>23 DEF DisablePassword
    <3>3. faults' \in 0..MaxFaults
      BY <1>b, <3>2 DEF Fault
    <3> QED
      BY <1>a, <3>1, <3>3 DEF TypeOK
  <2>5. /\ pc' \in {"erase", "disable", "identify", "step", "ended"}
        /\ record' \in {record, "failed"}
    BY <1>23 DEF DisablePassword, Goto, Fails, End, StepDone
  <2>6. index' \in 1..(Len(todo.steps) + 1) /\ written' \in {0, written} /\ idle' \in {0, idle}
    BY <1>a, <1>b, <1>23 DEF DisablePassword, Stay, StepDone, Course, AtCommand
  <2> QED
    BY <1>a, <1>b, <2>1, <2>2, <2>3, <2>4, <2>5, <2>6 DEF TypeOK
<1>24. CASE Identify
  <2>1. UNCHANGED <<disk, job, host, visible, fw, cancelled, todo, size, verification>>
    BY <1>24 DEF Identify, Security
  <2>2. password' \in BOOLEAN
    BY <1>a, <1>24, Zenon DEF Identify, TypeOK
  <2>3. DOMAIN media' = DOMAIN media /\ purged' \in {purged, 1..disk.units}
    BY <1>24 DEF Identify, EraseAll, Erased, Filled
  <2>4. refused' \subseteq {"set-pass", "disable", "identify"} /\ faults' \in 0..MaxFaults
    <3>1. refused' = refused \/ refused' = refused \cup {"identify"}
      BY <1>24 DEF Identify
    <3>2. faults' = faults \/ Fault
      BY <1>24 DEF Identify
    <3>3. faults' \in 0..MaxFaults
      BY <1>b, <3>2 DEF Fault
    <3> QED
      BY <1>a, <3>1, <3>3 DEF TypeOK
  <2>5. /\ pc' \in {"erase", "disable", "identify", "step", "ended"}
        /\ record' \in {record, "failed"}
    BY <1>24 DEF Identify, Goto, Fails, End, StepDone
  <2>6. index' \in 1..(Len(todo.steps) + 1) /\ written' \in {0, written} /\ idle' \in {0, idle}
    BY <1>a, <1>b, <1>24 DEF Identify, Stay, StepDone, Course, AtCommand
  <2> QED
    BY <1>a, <1>b, <2>1, <2>2, <2>3, <2>4, <2>5, <2>6 DEF TypeOK
<1>25. CASE Finish
  BY <1>a, <1>25 DEF TypeOK, Finish, End, Stay
<1>26. CASE PollIdle
  BY <1>a, <1>b, <1>26 DEF TypeOK, Course, PollIdle, Polled, Goto, Fails, End
<1>27. CASE FirmwareFinishes
  BY <1>a, <1>b, <1>27
     DEF TypeOK, Course, Filled, Erased, Ended, FirmwareFinishes, EraseAll, Fault
<1>28. CASE Cancel
  BY <1>a, <1>b, <1>28 DEF TypeOK, Course, AtCommand, Filled, Least, Erased, Verdict, Ended, Cancel
<1>29. CASE HostChanges
  <2>1. host' \in HostStates
    BY <1>a, <1>c, <1>29 DEF HostChanges, TypeOK
  <2>2. UNCHANGED <<disk, job, media, visible, password, fw, cancelled, todo, size, index,
                    written, idle, verification, purged, refused>>
    BY <1>29 DEF HostChanges
  <2>3. faults' = faults \/ Fault
    BY <1>29 DEF HostChanges
  <2>4. pc' \in {pc, "again", "ended"} /\ record' \in {record, "failed"}
    BY <1>29 DEF HostChanges, Goto, Fails, End
  <2>5. faults' \in 0..MaxFaults
    BY <1>b, <2>3 DEF Fault
  <2> QED
    BY <1>a, <2>1, <2>2, <2>4, <2>5 DEF TypeOK
<1>30. CASE Crash
  BY <1>a, <1>b, <1>30 DEF TypeOK, Crash, Fault, End
<1>31. CASE UNCHANGED vars
  BY <1>a, <1>b, <1>31 DEF TypeOK, Course, AtCommand, Filled, Least, Erased, Verdict, Ended, vars
<1> QED
  BY <1>1, <1>2, <1>3, <1>4, <1>5, <1>6, <1>7, <1>8, <1>9, <1>10, <1>11, <1>12, <1>13,
     <1>14, <1>15, <1>16, <1>17, <1>18, <1>19, <1>20, <1>21, <1>22, <1>23, <1>24, <1>25,
     <1>26, <1>27, <1>28, <1>29, <1>30, <1>31
     DEF Next, Worker, Prepare, TakeStep

\* A job for a drive starts, or there is none to do.
LEMMA FreshType ==
  ASSUME NEW d \in Drives, NEW j \in Jobs, NEW h \in Hosts, NEW label \in {"check", "ended"},
         Start(d, j, h, label)
  PROVE  TypeOK
<1>1. /\ d.units \in Nat /\ DOMAIN d.data = 1..d.units
      /\ d.caps.hpa_current \in 0..d.units /\ h \in HostStates
  BY DriveAssumption
<1>2. FirstVisible(d) \in 0..d.units
  BY <1>1 DEF FirstVisible
<1>3. /\ disk = d /\ job = j /\ host = h /\ media = d.data /\ visible = FirstVisible(d)
      /\ password = FALSE /\ fw = "none" /\ cancelled = FALSE /\ pc = label
      /\ todo = PlanError /\ size = 0 /\ index = 1 /\ written = 0 /\ idle = 0
      /\ verification = NoVerdict /\ record = "none" /\ purged = {} /\ refused = {}
      /\ faults = 0
  BY DEF Start
<1>4. Len(todo.steps) = 0 /\ verification.passed = "none"
  BY <1>3, NoPlanSteps DEF NoVerdict, Verdict
<1>5. 0 \in 0..MaxFaults /\ 0 \in 0..IDLE_LIMIT /\ 0 \in 0..d.units
  BY <1>1, DriveAssumption
<1>6. disk \in Drives /\ job \in Jobs /\ host \in HostStates
  BY <1>1, <1>3
<1>7. DOMAIN media = 1..disk.units /\ visible \in 0..disk.units
  BY <1>1, <1>2, <1>3
<1>8. index \in 1..(Len(todo.steps) + 1) /\ written \in 0..size /\ size \in 0..disk.units
  BY <1>3, <1>4, <1>5
<1>9. purged \subseteq 1..disk.units /\ refused \subseteq {"set-pass", "disable", "identify"}
  BY <1>3
<1>10. password \in BOOLEAN /\ cancelled \in BOOLEAN
  BY <1>3
<1> QED
  BY <1>3, <1>4, <1>5, <1>6, <1>7, <1>8, <1>9, <1>10 DEF TypeOK

LEMMA ControlStarts == Init => Control
<1> SUFFICES ASSUME NEW d \in Drives, NEW j \in Jobs, NEW h \in Hosts, Start(d, j, h, "check")
             PROVE  Control
  BY DEF Init
<1>1. TypeOK
  BY FreshType
<1>2. pc = "check" /\ todo = PlanError /\ visible = FirstVisible(disk)
  BY DEF Start
<1>3. record = "none" /\ index = 1 /\ written = 0 /\ idle = 0
  BY DEF Start
<1>4. Course
  BY <1>2, <1>3 DEF Course, Ended, AtCommand
<1>5. Planned
  BY <1>2, <1>3 DEF Planned, Unplanned, Working, AtCommand
<1>6. Areas
  BY <1>2, <1>3 DEF Areas, Unplanned, Working, AtCommand
<1> QED
  BY <1>1, <1>4, <1>5, <1>6 DEF Control

LEMMA ControlStep == Control /\ [Next]_vars => Control'
BY TypeStep, CourseStep, PlannedStep, AreasStep DEF Control

\* Whatever a drive answers, fails to do or does late, the worker's state keeps its type:
\* its position stays within the plan and the pass within the size it was given.
THEOREM PipelineTypeCorrect == Spec => []TypeOK
<1>1. Control => TypeOK
  BY DEF Control
<1> QED
  BY <1>1, ControlStarts, ControlStep, PTL DEF Spec

(***************************************************************************)
(* Passwords and keystreams.                                               *)
(***************************************************************************)

\* A password is set only between the command that sets it and the one that erases, or
\* the job ends failed after a security command failed.
Secrets ==
  /\ Ended <=> record # "none"
  /\ pc \notin {"erase", "disable", "identify", "ended"} => ~password
  /\ NoSecretLeft

LEMMA SecretsStart == Init => Secrets
<1> SUFFICES ASSUME NEW d \in Drives, NEW j \in Jobs, NEW h \in Hosts, Start(d, j, h, "check")
             PROVE  Secrets
  BY DEF Init
<1> QED
  BY DEF Start, Secrets, NoSecretLeft, Ended

LEMMA SecretsStep == Secrets /\ [Next]_vars => Secrets'
<1> SUFFICES ASSUME Secrets, [Next]_vars PROVE Secrets'
  OBVIOUS
<1> USE DEF drive, keys, untouched, driveless
<1>1. CASE PreflightRefuses
  BY <1>1 DEF Secrets, NoSecretLeft, Ended, PreflightRefuses, Fails, End
<1>2. CASE Unmount
  BY <1>2 DEF Secrets, NoSecretLeft, Ended, Unmount, Goto, Fault, Fails, End
<1>3. CASE LookAgain
  BY <1>3 DEF Secrets, NoSecretLeft, Ended, LookAgain, Goto, Fails, End
<1>4. CASE DryRun
  BY <1>4 DEF Secrets, NoSecretLeft, Ended, DryRun, Goto
<1>5. CASE MakePlan
  BY <1>5 DEF Secrets, NoSecretLeft, Ended, MakePlan, Goto, Fails, End, Fault
<1>6. CASE StepCancelled
  BY <1>6 DEF Secrets, NoSecretLeft, Ended, StepCancelled, End, Stay
<1>7. CASE Simulate
  BY <1>7 DEF Secrets, NoSecretLeft, Ended, Simulate, Begins, StepDone, Goto
<1>8. CASE StartPass
  BY <1>8 DEF Secrets, NoSecretLeft, Ended, StartPass, Begins, Fails, End, Stay
<1>9. CASE WriteChunk
  BY <1>9 DEF Secrets, NoSecretLeft, Ended, WriteChunk
<1>10. CASE WriteFails
  BY <1>10 DEF Secrets, NoSecretLeft, Ended, WriteFails, Fault, Fails, End, Stay
<1>11. CASE Sync
  BY <1>11 DEF Secrets, NoSecretLeft, Ended, Sync, StepDone, Goto
<1>12. CASE Verify
  BY <1>12 DEF Secrets, NoSecretLeft, Ended, Verify, Begins, Fails, End, Stay, StepDone, Goto
<1>13. CASE StepFails
  BY <1>13 DEF Secrets, NoSecretLeft, Ended, StepFails, Begins, Fault, Fails, End, Stay
<1>14. CASE remove_hpa
  BY <1>14 DEF Secrets, NoSecretLeft, Ended, remove_hpa, Reveal, Begins, StepDone, Goto
<1>15. CASE restore_dco
  BY <1>15 DEF Secrets, NoSecretLeft, Ended, restore_dco, Reveal, Begins, StepDone, Goto
<1>16. CASE EraseNow
  BY <1>16
     DEF Secrets, NoSecretLeft, Ended, EraseNow, Firmware, Begins, StepDone, Fails, End,
         Goto
<1>17. CASE StartSanitize
  BY <1>17
     DEF Secrets, NoSecretLeft, Ended, StartSanitize, Firmware, Begins, Goto, Fails, End
<1>18. CASE PollDone
  BY <1>18 DEF Secrets, NoSecretLeft, Ended, PollDone, Polled, StepDone, Goto
<1>19. CASE PollFailed
  BY <1>19 DEF Secrets, NoSecretLeft, Ended, PollFailed, Polled, Fails, End, Stay
<1>20. CASE PollGivesUp
  BY <1>20 DEF Secrets, NoSecretLeft, Ended, PollGivesUp, Polled, Fails, End, Stay
<1>21. CASE SetPassword
  BY <1>21 DEF Secrets, NoSecretLeft, Ended, SetPassword, Firmware, Begins, Goto, Fails, End
<1>22. CASE SecureErase
  BY <1>22 DEF Secrets, NoSecretLeft, Ended, SecureErase, Security, EraseAll, Goto, Fault, Stay
<1>23. CASE DisablePassword
  BY <1>23 DEF Secrets, NoSecretLeft, Ended, DisablePassword, Security, Fails, End, Fault, Stay
<1>24. CASE Identify
  BY <1>24 DEF Secrets, NoSecretLeft, Ended, Identify, StepDone, Goto, Fails, End
<1>25. CASE Finish
  BY <1>25 DEF Secrets, NoSecretLeft, Ended, Finish, End, Stay
<1>26. CASE PollIdle
  BY <1>26 DEF Secrets, NoSecretLeft, Ended, PollIdle, Polled, Goto, Fails, End
<1>27. CASE FirmwareFinishes
  BY <1>27 DEF Secrets, NoSecretLeft, Ended, FirmwareFinishes, EraseAll, Fault
<1>28. CASE Cancel
  BY <1>28 DEF Secrets, NoSecretLeft, Ended, Cancel
<1>29. CASE HostChanges
  BY <1>29 DEF Secrets, NoSecretLeft, Ended, HostChanges, Fault
<1>30. CASE Crash
  BY <1>30 DEF Secrets, NoSecretLeft, Ended, Crash, Fault, End
<1>31. CASE UNCHANGED vars
  BY <1>31 DEF Secrets, NoSecretLeft, Ended, vars
<1> QED
  BY <1>1, <1>2, <1>3, <1>4, <1>5, <1>6, <1>7, <1>8, <1>9, <1>10, <1>11, <1>12, <1>13,
     <1>14, <1>15, <1>16, <1>17, <1>18, <1>19, <1>20, <1>21, <1>22, <1>23, <1>24, <1>25,
     <1>26, <1>27, <1>28, <1>29, <1>30, <1>31
     DEF Next, Worker, Prepare, TakeStep

\* No job that reports success or a cancellation leaves the drive with the password of its
\* erase, a failed one does only if a security command failed, and no keystream outlives
\* a job, for any drive and any number of faults.
THEOREM NoSecretLeftHolds == Spec => []NoSecretLeft
<1>1. Secrets => NoSecretLeft
  BY DEF Secrets
<1> QED
  BY <1>1, SecretsStart, SecretsStep, PTL DEF Spec

(***************************************************************************)
(* Erasure by the firmware.                                                *)
(***************************************************************************)

AllPurged == purged = 1..disk.units

\* A sanitize is done, an erase is identified and a firmware step is past only if every
\* unit was erased by the firmware.
Purging ==
  /\ fw = "done" => AllPurged
  /\ pc = "identify" => AllPurged
  /\ ~job.dry =>
       \A i \in 1..(index - 1) : todo.steps[i].kind \in FirmwareKinds => AllPurged

LEMMA PurgingStarts == Init => Purging
BY DEF Init, Start, Purging

LEMMA PurgingStep ==
  ASSUME Control, Purging, [Next]_vars
  PROVE  Purging'
<1> USE DEF drive, progress, sampling, keys, untouched, driveless
<1>a. Course /\ Planned
  BY DEF Control
<1>b. index \in Nat \ {0}
  BY ControlledType
<1>c. \A k \in {"remove_hpa", "restore_dco", "verify", "overwrite"} : k \notin FirmwareKinds
  BY DEF FirmwareKinds
<1>1. CASE PreflightRefuses
  BY <1>1 DEF Purging, AllPurged, PreflightRefuses, Fails, End
<1>2. CASE Unmount
  BY <1>2 DEF Purging, AllPurged, Unmount, Goto, Fails, End
<1>3. CASE LookAgain
  BY <1>3 DEF Purging, AllPurged, LookAgain, Goto, Fails, End
<1>4. CASE DryRun
  BY <1>a, <1>b, <1>c, <1>4 DEF Purging, AllPurged, Course, Ended, AtCommand, step, DryRun, Goto
<1>5. CASE MakePlan
  <2>1. index' = 1
    BY <1>a, <1>5, PlanMade DEF Planned, Unplanned
  <2>2. UNCHANGED <<disk, fw, purged>> /\ pc' # "identify"
    BY <1>5, PlanMade DEF MakePlan
  <2> QED
    BY <2>1, <2>2 DEF Purging, AllPurged
<1>6. CASE StepCancelled
  BY <1>6 DEF Purging, AllPurged, StepCancelled, End, Stay
<1>7. CASE Simulate
  BY <1>7 DEF Purging, AllPurged, Simulate, StepDone, Goto
<1>8. CASE StartPass
  BY <1>8 DEF Purging, AllPurged, StartPass, Fails, End, Stay
<1>9. CASE WriteChunk
  BY <1>a, <1>b, <1>c, <1>9 DEF Purging, AllPurged, Course, Ended, AtCommand, step, WriteChunk
<1>10. CASE WriteFails
  BY <1>10 DEF Purging, AllPurged, WriteFails, Fails, End, Stay
<1>11. CASE Sync
  BY <1>a, <1>b, <1>c, <1>11 DEF Purging, AllPurged, Course, step, Sync, StepDone, Goto
<1>12. CASE Verify
  BY <1>b, <1>c, <1>12
     DEF Purging, AllPurged, step, Verify, Fails, End, Stay, StepDone, Goto
<1>13. CASE StepFails
  BY <1>13 DEF Purging, AllPurged, StepFails, Fails, End, Stay
<1>14. CASE remove_hpa
  BY <1>b, <1>c, <1>14 DEF Purging, AllPurged, step, remove_hpa, Reveal, StepDone, Goto
<1>15. CASE restore_dco
  BY <1>b, <1>c, <1>15 DEF Purging, AllPurged, step, restore_dco, Reveal, StepDone, Goto
<1>16. CASE EraseNow
  BY <1>16 DEF Purging, AllPurged, EraseNow, EraseAll, Stay, Fails, End
<1>17. CASE StartSanitize
  BY <1>17 DEF Purging, AllPurged, StartSanitize, Goto, Fails, End, Stay
<1>18. CASE PollDone
  BY <1>18 DEF Purging, AllPurged, PollDone, Polled
<1>19. CASE PollFailed
  BY <1>19 DEF Purging, AllPurged, PollFailed, Polled, Fails, End, Stay
<1>20. CASE PollGivesUp
  BY <1>20 DEF Purging, AllPurged, PollGivesUp, Polled, Fails, End, Stay
<1>21. CASE SetPassword
  BY <1>21 DEF Purging, AllPurged, SetPassword, Security, Goto, Fails, End, Stay
<1>22. CASE SecureErase
  BY <1>22 DEF Purging, AllPurged, SecureErase, Security, EraseAll, Goto, Stay
<1>23. CASE DisablePassword
  BY <1>23 DEF Purging, AllPurged, DisablePassword, Security, Fails, End, Stay
<1>24. CASE Identify
  BY <1>24 DEF Purging, AllPurged, Identify, Security
<1>25. CASE Finish
  BY <1>25 DEF Purging, AllPurged, Finish, End, Stay
<1>26. CASE PollIdle
  BY <1>26 DEF Purging, AllPurged, PollIdle, Polled, Goto, Fails, End
<1>27. CASE FirmwareFinishes
  BY <1>27 DEF Purging, AllPurged, FirmwareFinishes, EraseAll
<1>28. CASE Cancel
  BY <1>a, <1>b, <1>c, <1>28 DEF Purging, AllPurged, Course, Ended, AtCommand, step, Cancel
<1>29. CASE HostChanges
  BY <1>29 DEF Purging, AllPurged, HostChanges
<1>30. CASE Crash
  BY <1>30 DEF Purging, AllPurged, Crash, End
<1>31. CASE UNCHANGED vars
  BY <1>a, <1>b, <1>c, <1>31 DEF Purging, AllPurged, Course, Ended, AtCommand, step, vars
<1> QED
  BY <1>1, <1>2, <1>3, <1>4, <1>5, <1>6, <1>7, <1>8, <1>9, <1>10, <1>11, <1>12, <1>13,
     <1>14, <1>15, <1>16, <1>17, <1>18, <1>19, <1>20, <1>21, <1>22, <1>23, <1>24, <1>25,
     <1>26, <1>27, <1>28, <1>29, <1>30, <1>31
     DEF Next, Worker, Prepare, TakeStep

\* A record says "purge" only if the firmware erased every unit of the drive, hidden ones
\* included, for any drive, technique and number of faults: no poll, identification or
\* fallback lets a step of the firmware pass that did not erase.
THEOREM PurgeIsFirmwareHolds == Spec => []PurgeIsFirmware
<1>1. Control /\ Purging => PurgeIsFirmware
  <2> SUFFICES ASSUME Control, Purging, Completed, todo.category = "purge"
               PROVE  AllPurged
    BY DEF PurgeIsFirmware, AllPurged
  <2>1. ~job.dry /\ index = Len(todo.steps) + 1 /\ WellPlanned(todo, caps, job.full)
    BY DEF Completed, Control, Course, Planned
  <2>2. PICK i \in DOMAIN todo.steps : todo.steps[i].kind \in FirmwareKinds
    BY <2>1 DEF WellPlanned
  <2>3. i \in 1..(index - 1)
    BY <2>1, <2>2 DEF WellPlanned
  <2> QED
    BY <2>1, <2>2, <2>3 DEF Purging
<1>2. Control /\ Purging /\ [Next]_vars => (Control /\ Purging)'
  BY ControlStep, PurgingStep
<1> QED
  BY <1>1, <1>2, ControlStarts, PurgingStarts, PTL DEF Spec

(***************************************************************************)
(* What is left on the drive.                                              *)
(***************************************************************************)

\* A dry run is never at a command or a write.
DryRuns ==
  job.dry => /\ media = disk.data /\ fw = "none" /\ ~password
             /\ pc \in {"check", "plan", "step", "ended"}

LEMMA DryStarts == Init => DryRuns
BY DEF Init, Start, DryRuns

LEMMA DryStep == DryRuns /\ [Next]_vars => DryRuns'
<1> SUFFICES ASSUME DryRuns, [Next]_vars PROVE DryRuns'
  OBVIOUS
<1> USE DEF drive, keys, untouched, driveless
<1>1. CASE PreflightRefuses
  BY <1>1 DEF DryRuns, PreflightRefuses, Fails, End
<1>2. CASE Unmount
  BY <1>2 DEF DryRuns, Unmount, Goto, Fault, Fails, End
<1>3. CASE LookAgain
  BY <1>3 DEF DryRuns, LookAgain, Goto, Fails, End
<1>4. CASE DryRun
  BY <1>4 DEF DryRuns, DryRun, Goto
<1>5. CASE MakePlan
  BY <1>5, PlanMade DEF DryRuns, MakePlan
<1>6. CASE StepCancelled
  BY <1>6 DEF DryRuns, StepCancelled, End, Stay
<1>7. CASE Simulate
  BY <1>7 DEF DryRuns, Simulate, Begins, StepDone, Goto
<1>8. CASE StartPass
  BY <1>8 DEF DryRuns, StartPass, Begins, Fails, End, Stay
<1>9. CASE WriteChunk
  BY <1>9 DEF DryRuns, WriteChunk
<1>10. CASE WriteFails
  BY <1>10 DEF DryRuns, WriteFails, Fault, Fails, End, Stay
<1>11. CASE Sync
  BY <1>11 DEF DryRuns, Sync, StepDone, Goto
<1>12. CASE Verify
  BY <1>12 DEF DryRuns, Verify, Begins, Fails, End, Stay, StepDone, Goto
<1>13. CASE StepFails
  BY <1>13 DEF DryRuns, StepFails, Begins, Fault, Fails, End, Stay
<1>14. CASE remove_hpa
  BY <1>14 DEF DryRuns, remove_hpa, Reveal, Begins, StepDone, Goto
<1>15. CASE restore_dco
  BY <1>15 DEF DryRuns, restore_dco, Reveal, Begins, StepDone, Goto
<1>16. CASE EraseNow
  BY <1>16 DEF DryRuns, EraseNow, Firmware
<1>17. CASE StartSanitize
  BY <1>17 DEF DryRuns, StartSanitize, Firmware, Begins, Goto, Fails, End, Fault, Stay
<1>18. CASE PollDone
  BY <1>18 DEF DryRuns, PollDone, Polled, StepDone, Goto
<1>19. CASE PollFailed
  BY <1>19 DEF DryRuns, PollFailed, Polled, Fails, End, Stay
<1>20. CASE PollGivesUp
  BY <1>20 DEF DryRuns, PollGivesUp, Polled, Fails, End, Stay
<1>21. CASE SetPassword
  BY <1>21 DEF DryRuns, SetPassword, Firmware, Begins, Security, Goto, Fails, End, Fault, Stay
<1>22. CASE SecureErase
  BY <1>22 DEF DryRuns, SecureErase, Security, EraseAll, Goto, Fault, Stay
<1>23. CASE DisablePassword
  BY <1>23 DEF DryRuns, DisablePassword, Security, Fails, End, Fault, Stay
<1>24. CASE Identify
  BY <1>24 DEF DryRuns, Identify, Security, StepDone, Goto, Stay, Fault, Fails, End
<1>25. CASE Finish
  BY <1>25 DEF DryRuns, Finish, End, Stay
<1>26. CASE PollIdle
  BY <1>26 DEF DryRuns, PollIdle, Polled, Goto, Fails, End
<1>27. CASE FirmwareFinishes
  BY <1>27 DEF DryRuns, FirmwareFinishes, EraseAll, Fault
<1>28. CASE Cancel
  BY <1>28 DEF DryRuns, Cancel, Ended
<1>29. CASE HostChanges
  BY <1>29 DEF DryRuns, HostChanges, Fault
<1>30. CASE Crash
  BY <1>30 DEF DryRuns, Crash, Ended, Fault, End
<1>31. CASE UNCHANGED vars
  BY <1>31 DEF DryRuns, vars
<1> QED
  BY <1>1, <1>2, <1>3, <1>4, <1>5, <1>6, <1>7, <1>8, <1>9, <1>10, <1>11, <1>12, <1>13,
     <1>14, <1>15, <1>16, <1>17, <1>18, <1>19, <1>20, <1>21, <1>22, <1>23, <1>24, <1>25,
     <1>26, <1>27, <1>28, <1>29, <1>30, <1>31
     DEF Next, Worker, Prepare, TakeStep

Firm == \A u \in 1..disk.units : media[u] = <<"fw", 0>>
Laid == \A u \in 1..visible :
          media[u] = IF LastCheck = "pattern" THEN last_source ELSE <<"fw", 0>>
LastStepPast == ~job.dry /\ (record = "complete" \/ (pc = "step" /\ index >= Len(todo.steps)))

\* On a drive that does what it acknowledges: a pass has written what it counts, the
\* firmware has erased what it reports, and once the step before the check is done the
\* units that can be addressed hold what the check will look for.  No sanitize that was
\* left to itself can still erase what a pass wrote.
Erasing ==
  /\ record = "complete" \/ pc \notin {"poll", "ended"} => fw = "none"
  /\ Sound /\ pc = "write" => \A u \in 1..written : media[u] = last_source
  /\ Sound /\ (fw = "done" \/ pc = "identify") => Firm
  /\ Sound /\ LastStepPast => Laid

\* The step before the check is a pass or one of the firmware's, as the check says.
LEMMA BeforeCheck ==
  ASSUME Planned, todo # PlanError, index = Len(todo.steps) - 1
  PROVE  \/ LastCheck = "pattern" /\ step.kind = "overwrite"
         \/ LastCheck = "changed" /\ step.kind \in FirmwareKinds
<1>1. PICK s : s = todo.steps
  OBVIOUS
<1>2. ChecksLastStep(s, caps, job.full)
  BY <1>1 DEF Planned, WellPlanned
<1> QED
  BY <1>1, <1>2 DEF ChecksLastStep, LastCheck, step

\* Where a step stands in the plan.
LEMMA StepPlace ==
  ASSUME Planned, todo # PlanError, index \in 1..Len(todo.steps)
  PROVE  /\ step.kind = "verify" <=> index = Len(todo.steps)
         /\ step.kind \in AreaKinds => index + 1 < Len(todo.steps)
         /\ step.kind \in FirmwareKinds /\ index + 1 >= Len(todo.steps) => LastCheck = "changed"
         /\ step.kind = "overwrite" /\ index + 1 >= Len(todo.steps) => LastCheck = "pattern"
<1>1. Len(todo.steps) \in Nat /\ ChecksLastStep(todo.steps, caps, job.full)
  BY StepsOfPlan DEF Planned, WellPlanned
<1>2. step.kind = "verify" <=> index = Len(todo.steps)
  BY <1>1, AreaStep DEF ChecksLastStep, step
<1>3. \A k \in AreaKinds : k \notin FirmwareKinds /\ k # "overwrite" /\ k # "verify"
  BY DEF AreaKinds, FirmwareKinds
<1>4. "verify" \notin FirmwareKinds /\ "overwrite" \notin FirmwareKinds
  BY DEF FirmwareKinds
<1>5. CASE index = Len(todo.steps) - 1
  BY <1>1, <1>2, <1>3, <1>4, <1>5, BeforeCheck
<1>6. CASE index = Len(todo.steps)
  BY <1>2, <1>3, <1>4, <1>6
<1>7. CASE index + 1 < Len(todo.steps)
  BY <1>1, <1>2, <1>7
<1> QED
  BY <1>1, <1>5, <1>6, <1>7

\* An honest drive's firmware erases all of it.
LEMMA FirmErased ==
  ASSUME Control, Sound, EraseAll, UNCHANGED disk
  PROVE  Firm'
<1>1. DOMAIN media = 1..disk.units
  BY DEF Control, TypeOK
<1>2. media' = Filled(media, 1..disk.units, <<"fw", 0>>)
  BY DEF EraseAll, Erased, Sound
<1> QED
  BY <1>1, <1>2 DEF Firm, Filled

\* After a step of the firmware that erased, its check will find it.
LEMMA LaidByFirmware ==
  ASSUME Control, todo # PlanError, index \in 1..Len(todo.steps), step.kind \in FirmwareKinds,
         Firm', UNCHANGED <<disk, visible, todo>>, index + 1 >= Len(todo.steps)
  PROVE  Laid'
<1>1. LastCheck = "changed"
  BY StepPlace DEF Control
<1>2. LastCheck' = "changed"
  BY <1>1 DEF LastCheck
<1>3. visible \in 0..disk.units /\ disk.units \in Nat
  BY ControlledType
<1> QED
  BY <1>2, <1>3 DEF Laid, Firm

LEMMA ErasingStarts == Init => Erasing
<1> SUFFICES ASSUME Init PROVE Erasing
  OBVIOUS
<1>1. pc = "check" /\ record = "none" /\ fw = "none"
  BY DEF Init, Start
<1> QED
  BY <1>1 DEF Erasing, LastStepPast

LEMMA ErasingStep ==
  ASSUME Control, Erasing, [Next]_vars
  PROVE  Erasing'
<1> USE DEF drive, progress, sampling, untouched, driveless
<1>a. Course /\ Planned /\ Areas
  BY DEF Control
<1>b. /\ Len(todo.steps) \in Nat /\ index \in 1..(Len(todo.steps) + 1)
      /\ disk.units \in Nat /\ size \in 0..disk.units /\ visible \in 0..disk.units
      /\ written \in 0..size /\ CHUNK \in Nat \ {0} /\ DOMAIN media = 1..disk.units
  BY ControlledType DEF Control, TypeOK
<1>1. CASE PreflightRefuses
  BY <1>1 DEF Erasing, LastStepPast, PreflightRefuses, Fails, End
<1>2. CASE Unmount
  BY <1>a, <1>2 DEF Erasing, LastStepPast, Course, Ended, Unmount, Goto, Fails, End
<1>3. CASE LookAgain
  BY <1>a, <1>3 DEF Erasing, LastStepPast, Course, Ended, LookAgain, Goto, Fails, End
<1>4. CASE DryRun
  BY <1>4 DEF Erasing, LastStepPast, DryRun, Goto
<1>5. CASE MakePlan
  <2>1. /\ UNCHANGED <<disk, fw, job>> /\ pc = "plan" /\ index' = index
        /\ \/ pc' = "ended" /\ record' = "failed"
           \/ pc' = "step" /\ UNCHANGED record /\ todo' # PlanError
    BY <1>5, PlanMade DEF MakePlan
  <2>2. index = 1 /\ fw = "none" /\ record = "none"
    BY <1>a, <2>1 DEF Planned, Unplanned, Erasing, Course, Ended
  <2>3. todo' # PlanError => Len(todo'.steps) \in Nat \ {0, 1}
    <3>1. Planned'
      BY PlannedStep
    <3> QED
      BY <3>1 DEF Planned, WellPlanned, ChecksLastStep
  <2>4. index' = 1 /\ record' # "complete" /\ (pc' = "step" => todo' # PlanError)
    BY <2>1, <2>2
  <2>5. ~LastStepPast'
    <3>1. PICK n : n = Len(todo'.steps)
      OBVIOUS
    <3>2. pc' = "step" => n \in Nat \ {0, 1}
      BY <2>3, <2>4, <3>1
    <3>3. pc' = "step" => ~(index' >= n)
      BY <2>4, <3>2
    <3> QED
      BY <2>4, <3>1, <3>3 DEF LastStepPast
  <2> QED
    BY <2>1, <2>2, <2>5 DEF Erasing
<1>6. CASE StepCancelled
  BY <1>6 DEF Erasing, LastStepPast, StepCancelled, End
<1>7. CASE Simulate
  BY <1>7 DEF Erasing, LastStepPast, Simulate, Begins, StepDone, Goto
<1>8. CASE StartPass
  BY <1>a, <1>8
     DEF Erasing, LastStepPast, Course, Ended, StartPass, Begins, Fails, End, Stay
<1>9. CASE WriteChunk
  <2>1. /\ pc = "write" /\ written < size /\ written' = written + Least(CHUNK, size - written)
        /\ media' = Filled(media, ChunkAfter(written, size) \ disk.stuck, last_source)
        /\ UNCHANGED <<disk, fw, pc, last_source, record>>
    BY <1>9 DEF WriteChunk, keys
  <2>2. ASSUME Sound, NEW u \in 1..written' PROVE media'[u] = last_source
    <3>1. disk.stuck = {} /\ u \in DOMAIN media
      BY <1>b, <2>1, <2>2 DEF Sound, Least
    <3>2. u \in 1..written \/ u \in ChunkAfter(written, size)
      BY <1>b, <2>1 DEF ChunkAfter, Least
    <3>3. u \in 1..written => media[u] = last_source
      BY <2>1, <2>2 DEF Erasing
    <3> QED
      BY <2>1, <3>1, <3>2, <3>3 DEF Filled
  <2>3. Sound' => Sound
    BY <2>1 DEF Sound
  <2>4. fw' = "none" /\ ~LastStepPast' /\ pc' = "write"
    BY <1>a, <2>1 DEF Erasing, LastStepPast, Course, Ended
  <2> QED
    BY <2>1, <2>2, <2>3, <2>4 DEF Erasing
<1>10. CASE WriteFails
  BY <1>10 DEF Erasing, LastStepPast, WriteFails, Fails, End
<1>11. CASE Sync
  <2>1. /\ pc = "write" /\ written = size /\ pc' = "step" /\ index' = index + 1
        /\ UNCHANGED <<disk, job, todo, media, visible, fw, last_source, record>>
    BY <1>11 DEF Sync, StepDone, Goto, keys
  <2>2. step.kind = "overwrite" /\ index <= Len(todo.steps) /\ size = visible /\ todo # PlanError
    BY <1>a, <2>1 DEF Course, Areas, Planned, Working
  <2>3. index + 1 >= Len(todo.steps) => LastCheck = "pattern"
    BY <1>a, <1>b, <2>2, StepPlace
  <2>4. Sound => \A u \in 1..visible : media[u] = last_source
    BY <2>1, <2>2 DEF Erasing
  <2>5. ASSUME Sound', LastStepPast' PROVE Laid'
    <3>1. Sound /\ LastCheck' = "pattern"
      <4>1. record' # "complete"
        BY <1>a, <2>1 DEF Course, Ended
      <4>2. LastCheck = "pattern"
        BY <2>1, <2>3, <2>5, <4>1 DEF LastStepPast
      <4> QED
        BY <2>1, <2>5, <4>2 DEF Sound, LastCheck
    <3> QED
      BY <2>1, <2>4, <3>1 DEF Laid
  <2>6. fw' = "none"
    BY <2>1 DEF Erasing
  <2> QED
    BY <2>1, <2>5, <2>6 DEF Erasing
<1>12. CASE Verify
  <2>1. /\ Begins /\ step.kind = "verify"
        /\ UNCHANGED <<disk, job, todo, media, visible, fw, last_source>>
        /\ \/ pc' = "ended" /\ record' = "failed"
           \/ pc' = "step" /\ UNCHANGED record
    BY <1>12 DEF Verify, Fails, End, StepDone, Goto, keys
  <2>2. todo # PlanError /\ index \in 1..Len(todo.steps) /\ record = "none" /\ fw = "none"
    BY <1>a, <1>b, <2>1 DEF Begins, Planned, Working, Course, Ended, Erasing
  <2>3. index = Len(todo.steps)
    BY <1>a, <2>1, <2>2, StepPlace
  <2>4. ~job.dry
    BY <1>12 DEF Verify
  <2>5. Sound => Laid
    BY <1>b, <2>1, <2>3, <2>4 DEF Erasing, LastStepPast, Begins
  <2>6. (Sound' => Sound) /\ (Laid => Laid')
    BY <2>1 DEF Sound, Laid, LastCheck
  <2> QED
    BY <2>1, <2>2, <2>5, <2>6 DEF Erasing
<1>13. CASE StepFails
  BY <1>13 DEF Erasing, LastStepPast, StepFails, Begins, Fails, End
<1>14. CASE remove_hpa
  <2>1. /\ Begins /\ step.kind = "remove_hpa" /\ pc' = "step" /\ index' = index + 1
        /\ UNCHANGED <<disk, todo, fw, record>>
    BY <1>14 DEF remove_hpa, Reveal, StepDone, Goto
  <2>2. todo # PlanError /\ index \in 1..Len(todo.steps) /\ record = "none" /\ fw = "none"
    BY <1>a, <1>b, <2>1 DEF Begins, Planned, Working, Course, Ended, Erasing
  <2>3. index + 1 < Len(todo.steps)
    BY <1>a, <2>1, <2>2, StepPlace DEF AreaKinds
  <2> QED
    BY <1>b, <2>1, <2>2, <2>3 DEF Erasing, LastStepPast
<1>15. CASE restore_dco
  <2>1. /\ Begins /\ step.kind = "restore_dco" /\ pc' = "step" /\ index' = index + 1
        /\ UNCHANGED <<disk, todo, fw, record>>
    BY <1>15 DEF restore_dco, Reveal, StepDone, Goto
  <2>2. todo # PlanError /\ index \in 1..Len(todo.steps) /\ record = "none" /\ fw = "none"
    BY <1>a, <1>b, <2>1 DEF Begins, Planned, Working, Course, Ended, Erasing
  <2>3. index + 1 < Len(todo.steps)
    BY <1>a, <2>1, <2>2, StepPlace DEF AreaKinds
  <2> QED
    BY <1>b, <2>1, <2>2, <2>3 DEF Erasing, LastStepPast
<1>16. CASE EraseNow
  <2>1. /\ Begins /\ step.kind \in FirmwareKinds /\ UNCHANGED <<disk, todo, visible, fw>>
        /\ \/ EraseAll /\ pc' = "step" /\ index' = index + 1 /\ UNCHANGED record
           \/ pc' = "ended" /\ record' = "failed"
    BY <1>16 DEF EraseNow, Firmware, FirmwareKinds, StepDone, Goto, Fails, End
  <2>2. todo # PlanError /\ index \in 1..Len(todo.steps) /\ record = "none" /\ fw = "none"
    BY <1>a, <1>b, <2>1 DEF Begins, Planned, Working, Course, Ended, Erasing
  <2>3. Sound' => Sound
    BY <2>1 DEF Sound
  <2>4. ASSUME Sound', LastStepPast' PROVE Laid'
    <3>1. Sound /\ EraseAll /\ index + 1 >= Len(todo.steps)
      BY <2>1, <2>2, <2>3, <2>4 DEF LastStepPast
    <3>2. Firm'
      BY <2>1, <3>1, FirmErased
    <3> QED
      BY <2>1, <2>2, <3>1, <3>2, LaidByFirmware
  <2> QED
    BY <2>1, <2>2, <2>4 DEF Erasing
<1>17. CASE StartSanitize
  BY <1>a, <1>17
     DEF Erasing, LastStepPast, Course, StartSanitize, Firmware, Begins, Goto, Fails, End
<1>18. CASE PollDone
  <2>1. /\ pc = "poll" /\ fw = "done" /\ fw' = "none" /\ pc' = "step" /\ index' = index + 1
        /\ UNCHANGED <<disk, todo, visible, media, record>>
    BY <1>18 DEF PollDone, Polled, StepDone, Goto
  <2>2. /\ todo # PlanError /\ index \in 1..Len(todo.steps) /\ step.kind \in FirmwareKinds
        /\ record = "none"
    BY <1>a, <1>b, <2>1 DEF AtCommand, Planned, Working, Course, Ended
  <2>3. ASSUME Sound', LastStepPast' PROVE Laid'
    <3>1. Sound /\ index + 1 >= Len(todo.steps)
      BY <2>1, <2>2, <2>3 DEF LastStepPast, Sound
    <3>2. Firm
      BY <2>1, <3>1 DEF Erasing
    <3>3. Firm'
      BY <2>1, <3>2 DEF Firm
    <3> QED
      BY <2>1, <2>2, <3>1, <3>3, LaidByFirmware
  <2> QED
    BY <2>1, <2>2, <2>3 DEF Erasing
<1>19. CASE PollFailed
  BY <1>19 DEF Erasing, LastStepPast, PollFailed, Fails, End
<1>20. CASE PollGivesUp
  BY <1>20 DEF Erasing, LastStepPast, Firm, Sound, PollGivesUp, Polled, Fails, End
<1>21. CASE SetPassword
  BY <1>a, <1>21
     DEF Erasing, LastStepPast, Course, SetPassword, Firmware, Begins, Security, Goto,
         Fails, End
<1>22. CASE SecureErase
  <2>1. /\ pc = "erase" /\ UNCHANGED <<disk, fw, record>>
        /\ (pc' = "identify" /\ EraseAll) \/ pc' = "disable"
    BY <1>22 DEF SecureErase, Security, Goto
  <2>2. record = "none" /\ fw = "none"
    BY <1>a, <2>1 DEF Course, Ended, Erasing
  <2>3. Sound' /\ pc' = "identify" => Firm'
    BY <2>1, FirmErased DEF Sound
  <2> QED
    BY <2>1, <2>2, <2>3 DEF Erasing, LastStepPast
<1>23. CASE DisablePassword
  BY <1>23 DEF Erasing, LastStepPast, DisablePassword, Security, Fails, End
<1>24. CASE Identify
  <2>1. /\ pc = "identify" /\ UNCHANGED <<disk, todo, visible, media, fw>>
        /\ \/ pc' = "step" /\ index' = index + 1 /\ UNCHANGED record
           \/ pc' = "disable" /\ UNCHANGED record
           \/ pc' = "ended" /\ record' = "failed"
    BY <1>24 DEF Identify, Security, StepDone, Goto, Fails, End
  <2>2. /\ todo # PlanError /\ index \in 1..Len(todo.steps) /\ step.kind \in FirmwareKinds
        /\ record = "none" /\ fw = "none"
    BY <1>a, <1>b, <2>1 DEF AtCommand, Planned, Working, Course, Ended, Erasing
  <2>3. ASSUME Sound', LastStepPast' PROVE Laid'
    <3>1. Sound /\ index + 1 >= Len(todo.steps)
      BY <2>1, <2>2, <2>3 DEF LastStepPast, Sound
    <3>2. Firm
      BY <2>1, <3>1 DEF Erasing
    <3>3. Firm'
      BY <2>1, <3>2 DEF Firm
    <3> QED
      BY <2>1, <2>2, <3>1, <3>3, LaidByFirmware
  <2> QED
    BY <2>1, <2>2, <2>3 DEF Erasing
<1>25. CASE Finish
  BY <1>b, <1>25 DEF Erasing, LastStepPast, Laid, LastCheck, Sound, Finish, End
<1>26. CASE PollIdle
  BY <1>26 DEF Erasing, LastStepPast, PollIdle, Goto, Fails, End
<1>27. CASE FirmwareFinishes
  <2>1. /\ fw = "running" /\ UNCHANGED <<disk, pc, index, job, todo, record>>
        /\ \/ fw' = "done" /\ EraseAll
           \/ fw' = "failed"
    BY <1>27 DEF FirmwareFinishes
  <2>2. pc \in {"poll", "ended"} /\ record # "complete"
    BY <2>1 DEF Erasing
  <2>3. Sound' /\ fw' = "done" => Firm'
    BY <2>1, FirmErased DEF Sound
  <2> QED
    BY <2>1, <2>2, <2>3 DEF Erasing, LastStepPast
<1>28. CASE Cancel
  BY <1>28 DEF Erasing, LastStepPast, Laid, Firm, LastCheck, Sound, keys, Cancel
<1>29. CASE HostChanges
  BY <1>a, <1>29 DEF Erasing, LastStepPast, Course, Ended, HostChanges
<1>30. CASE Crash
  BY <1>30 DEF Erasing, LastStepPast, Firm, Sound, Crash, End
<1>31. CASE UNCHANGED vars
  BY <1>31 DEF Erasing, LastStepPast, Laid, Firm, LastCheck, Sound, keys, vars
<1> QED
  BY <1>1, <1>2, <1>3, <1>4, <1>5, <1>6, <1>7, <1>8, <1>9, <1>10, <1>11, <1>12, <1>13,
     <1>14, <1>15, <1>16, <1>17, <1>18, <1>19, <1>20, <1>21, <1>22, <1>23, <1>24, <1>25,
     <1>26, <1>27, <1>28, <1>29, <1>30, <1>31
     DEF Next, Worker, Prepare, TakeStep

\* A wipe that completes on a drive that does what it acknowledges has left every unit
\* that can be addressed with the last pass or with the firmware's erase, for any drive,
\* plan, size of chunks and number of faults; and a dry run has changed nothing.
THEOREM ErasedWhenCompleteHolds == Spec => []ErasedWhenComplete
<1>1. Control /\ Erasing /\ DryRuns => ErasedWhenComplete
  BY DEF ErasedWhenComplete, Completed, Erasing, LastStepPast, Laid, DryRuns
<1>2. Control /\ Erasing /\ [Next]_vars => (Control /\ Erasing)'
  BY ControlStep, ErasingStep
<1> QED
  BY <1>1, <1>2, ControlStarts, ErasingStarts, DryStarts, DryStep, PTL DEF Spec

(***************************************************************************)
(* What a verdict says.                                                    *)
(***************************************************************************)

LEMMA Products ==
  ASSUME NEW a \in Nat, NEW b \in Nat, NEW k \in Nat \ {0}
  PROVE  /\ a * k \in Nat /\ b * k \in Nat
         /\ a <= b => a * k <= b * k
         /\ a * k < b * k + k => a <= b
         /\ a < b => a * k + k <= b * k
OBVIOUS

\* A block ends within the medium.
LEMMA BlockInside ==
  ASSUME BLOCK \in Nat \ {0}, NEW sz \in Nat, NEW b \in 0..(Blocks(sz) - 1)
  PROVE  /\ b * BLOCK \in Nat /\ b * BLOCK <= sz
         /\ sz # 0 => b * BLOCK < sz
<1>1. CASE sz = 0
  BY <1>1 DEF Blocks
<1>2. CASE sz # 0
  <2> DEFINE n == Blocks(sz)
  <2>1. n \in Nat \ {0} /\ (n - 1) * BLOCK < sz /\ (n - 1) * BLOCK \in Nat
    BY <1>2, LastBlock
  <2> HIDE DEF n
  <2>2. b \in Nat /\ n - 1 \in Nat /\ b <= n - 1
    BY <2>1 DEF n
  <2>3. b * BLOCK \in Nat /\ b * BLOCK <= (n - 1) * BLOCK
    BY <2>2, Products
  <2> QED
    BY <2>1, <2>3
<1> QED
  BY <1>1, <1>2

\* The blocks of the full mode cover the medium, and no more.
LEMMA AllCovered ==
  ASSUME BLOCK \in Nat \ {0}, NEW sz \in Nat \ {0}
  PROVE  UNION {(o + 1)..(o + LengthAt(sz, o)) : o \in AllOffsets(sz)} = 1..sz
<1> DEFINE n == Blocks(sz)
<1>1. n \in Nat \ {0}
  BY LastBlock
<1>2. AllOffsets(sz) = {b * BLOCK : b \in 0..(n - 1)}
  BY DEF AllOffsets, Offsets
<1>3. ASSUME NEW b \in 0..(n - 1), NEW u \in (b * BLOCK + 1)..(b * BLOCK + LengthAt(sz, b * BLOCK))
      PROVE  u \in 1..sz
  <2>1. b * BLOCK \in Nat /\ b * BLOCK <= sz
    BY BlockInside
  <2> QED
    BY <2>1 DEF LengthAt, Least
<1>4. ASSUME NEW u \in 1..sz
      PROVE  \E b \in 0..(n - 1) : u \in (b * BLOCK + 1)..(b * BLOCK + LengthAt(sz, b * BLOCK))
  <2> DEFINE q == (u - 1) \div BLOCK
             m == (sz + BLOCK - 1) \div BLOCK
  <2>1. q \in Nat /\ q * BLOCK <= u - 1 /\ u - 1 < q * BLOCK + BLOCK
    <3>1. u - 1 \in Nat
      OBVIOUS
    <3> QED
      BY <3>1, DivBounds
  <2>2. m \in Nat /\ sz + BLOCK - 1 < m * BLOCK + BLOCK /\ n = m
    <3>1. sz + BLOCK - 1 \in Nat
      OBVIOUS
    <3> QED
      BY <3>1, DivBounds DEF Blocks
  <2> HIDE DEF q, m, n
  <2>3. q * BLOCK \in Nat /\ m * BLOCK \in Nat
    BY <2>1, <2>2, Products
  <2>4. q * BLOCK < m * BLOCK
    BY <2>1, <2>2, <2>3
  <2>5. q < m
    <3>1. m <= q => m * BLOCK <= q * BLOCK
      BY <2>1, <2>2, Products
    <3> QED
      BY <2>1, <2>2, <2>3, <2>4, <3>1
  <2>6. q \in 0..(n - 1)
    BY <1>1, <2>1, <2>2, <2>5
  <2>7. u \in (q * BLOCK + 1)..(q * BLOCK + LengthAt(sz, q * BLOCK))
    BY <2>1, <2>3 DEF LengthAt, Least
  <2> QED
    BY <2>6, <2>7
<1> HIDE DEF n
<1>5. \A o \in AllOffsets(sz) : (o + 1)..(o + LengthAt(sz, o)) \subseteq 1..sz
  BY <1>2, <1>3
<1>6. \A u \in 1..sz : \E o \in AllOffsets(sz) : u \in (o + 1)..(o + LengthAt(sz, o))
  BY <1>2, <1>4
<1> QED
  BY <1>5, <1>6

BlockOf(m, sz, o) == [i \in 1..LengthAt(sz, o) |-> m[o + i]]

\* A block that is there is read whole, however the reader was opened.
LEMMA ReadWhole ==
  ASSUME BLOCK \in Nat \ {0}, NEW m, NEW sz \in Nat, NEW o \in Nat, o <= sz, NEW direct
  PROVE  Read(m, sz, o, LengthAt(sz, o), direct) = BlockOf(m, sz, o)
<1> DEFINE l == LengthAt(sz, o)
           q == (l + BLOCK - 1) \div BLOCK
           asked == IF direct THEN q * BLOCK ELSE l
           got   == IF sz < o THEN 0 ELSE Least(asked, sz - o)
<1>1. l \in Nat /\ l <= sz - o
  BY DEF LengthAt, Least
<1>2. q \in Nat /\ l + BLOCK - 1 < q * BLOCK + BLOCK
  <2>1. l + BLOCK - 1 \in Nat
    BY <1>1
  <2> HIDE DEF l
  <2> QED
    BY <2>1, DivBounds
<1>3. Read(m, sz, o, l, direct) = [i \in 1..Least(got, l) |-> m[o + i]]
  BY DEF Read
<1> HIDE DEF l, q
<1>4. q * BLOCK \in Nat
  BY <1>2, Products
<1>5. asked \in Nat /\ l <= asked
  BY <1>1, <1>2, <1>4
<1> HIDE DEF asked
<1>6. Least(got, l) = l
  BY <1>1, <1>5 DEF Least
<1> HIDE DEF got
<1> QED
  BY <1>3, <1>6 DEF l, BlockOf

\* What the offsets and the snapshot are: drawn for the drive as it was found.
Samples ==
  /\ Unplanned => media = disk.data
  /\ ~job.dry /\ Working =>
       /\ offsets \in sample_offsets(FirstVisible(disk), COUNT)
       /\ \E direct \in BOOLEAN :
            before = snapshot(disk.data, FirstVisible(disk), FirstVisible(disk), offsets, direct)
  /\ pc = "write" => size > 0
  /\ LastStepPast /\ LastCheck = "pattern" => size > 0

LEMMA SamplesStart == Init => Samples
<1> SUFFICES ASSUME Init PROVE Samples
  OBVIOUS
<1>1. pc = "check" /\ record = "none" /\ media = disk.data
  BY DEF Init, Start
<1> QED
  BY <1>1 DEF Samples, Working, AtCommand, LastStepPast

\* A step other than a pass or a check is not followed by the check of a pattern.
LEMMA NoPassBefore ==
  ASSUME Control, Begins \/ AtCommand, step.kind \in FirmwareKinds \cup AreaKinds,
         UNCHANGED <<todo, record>>, index' = index + 1
  PROVE  LastStepPast' => LastCheck' = "changed"
<1>1. todo # PlanError /\ index \in 1..Len(todo.steps) /\ record = "none"
  BY ControlledType DEF Control, Planned, Working, AtCommand, Course, Ended, Begins
<1>2. \/ index + 1 < Len(todo.steps)
      \/ index + 1 >= Len(todo.steps) => LastCheck = "changed"
  BY <1>1, StepPlace DEF Control
<1>3. LastStepPast' => index + 1 >= Len(todo.steps)
  BY <1>1 DEF LastStepPast
<1>4. LastCheck' = LastCheck
  BY DEF LastCheck
<1> QED
  BY <1>1, <1>2, <1>3, <1>4, ControlledType

LEMMA SamplesStep ==
  ASSUME Control, Erasing, Samples, [Next]_vars
  PROVE  Samples'
<1> USE DEF drive, progress, sampling, keys, untouched, driveless
<1>a. Course /\ Planned /\ Areas
  BY DEF Control
<1>b. /\ Len(todo.steps) \in Nat /\ index \in 1..(Len(todo.steps) + 1)
      /\ size \in Nat /\ disk.units \in Nat
  BY ControlledType
<1>c. /\ Unplanned \/ Working \/ Ended
      /\ Unplanned \/ Working => record = "none"
  <2>1. pc \in {"check", "again", "plan", "step", "write", "poll", "erase", "disable",
                 "identify", "ended"}
    BY DEF Control, TypeOK
  <2>2. Unplanned \/ Working \/ Ended
    BY <2>1 DEF Unplanned, Working, AtCommand, Ended
  <2> QED
    BY <1>a, <2>2 DEF Course, Unplanned, Working, AtCommand, Ended
<1>d. UNCHANGED disk /\ FirstVisible(disk)' = FirstVisible(disk)
  BY PlannedOnce DEF vars, FirstVisible
<1>1. CASE PreflightRefuses
  BY <1>c, <1>1
     DEF Samples, LastStepPast, Working, AtCommand, Ended, PreflightRefuses, Fails, End
<1>2. CASE Unmount
  BY <1>c, <1>2
     DEF Samples, LastStepPast, Working, AtCommand, Ended, Unmount, Goto, Fails, End
<1>3. CASE LookAgain
  BY <1>c, <1>3
     DEF Samples, LastStepPast, Working, AtCommand, Ended, LookAgain, Goto, Fails, End
<1>4. CASE DryRun
  BY <1>a, <1>c, <1>4 DEF Samples, LastStepPast, Working, Course, Ended, DryRun, Goto
<1>5. CASE MakePlan
  <2>1. /\ UNCHANGED <<disk, job, media, visible>> /\ pc = "plan" /\ index' = index
        /\ \/ pc' = "ended" /\ record' = "failed"
           \/ /\ pc' = "step" /\ UNCHANGED record /\ todo' # PlanError
              /\ offsets' \in sample_offsets(visible, COUNT)
              /\ \E direct \in BOOLEAN :
                   before' = IF job.dry THEN <<>>
                             ELSE snapshot(media, visible, visible, offsets', direct)
    BY <1>5, PlanMade DEF MakePlan
  <2>2. /\ index = 1 /\ record = "none" /\ media = disk.data /\ visible = FirstVisible(disk)
    BY <1>a, <2>1 DEF Planned, Unplanned, Samples, Course, Ended, Areas
  <2>3. ~LastStepPast'
    <3>1. PICK n : n = Len(todo'.steps)
      OBVIOUS
    <3>2. Planned'
      BY PlannedStep
    <3>3. pc' = "step" => n \in Nat \ {0, 1}
      BY <2>1, <3>1, <3>2 DEF Planned, WellPlanned, ChecksLastStep
    <3>4. pc' = "step" => ~(index' >= n)
      BY <2>1, <2>2, <3>3
    <3> QED
      BY <2>1, <2>2, <3>1, <3>4 DEF LastStepPast
  <2>4. ~Unplanned' /\ pc' # "write" /\ (Working' => pc' = "step")
    BY <2>1 DEF Unplanned, Working, AtCommand
  <2> QED
    BY <1>d, <2>1, <2>2, <2>3, <2>4 DEF Samples
<1>6. CASE StepCancelled
  BY <1>c, <1>6 DEF Samples, LastStepPast, Unplanned, Ended, StepCancelled, End
<1>7. CASE Simulate
  BY <1>7 DEF Samples, LastStepPast, Unplanned, Simulate, StepDone, Goto
<1>8. CASE StartPass
  BY <1>b, <1>c, <1>8
     DEF Samples, LastStepPast, Unplanned, Ended, StartPass, Begins, Fails, End
<1>9. CASE WriteChunk
  BY <1>c, <1>9 DEF Samples, Unplanned, Ended, WriteChunk
<1>10. CASE WriteFails
  BY <1>c, <1>10 DEF Samples, Unplanned, Ended, WriteFails, Fails, End
<1>11. CASE Sync
  BY <1>c, <1>11 DEF Samples, Unplanned, Ended, Sync, StepDone, Goto
<1>12. CASE Verify
  <2>1. /\ Begins /\ step.kind = "verify" /\ ~job.dry
        /\ UNCHANGED <<disk, job, todo, media, visible, size, offsets, before>>
        /\ \/ pc' = "ended" /\ record' = "failed"
           \/ pc' = "step" /\ UNCHANGED record
    BY <1>12 DEF Verify, Fails, End, StepDone, Goto
  <2>2. Working /\ todo # PlanError /\ index \in 1..Len(todo.steps) /\ record = "none"
    BY <1>a, <1>b, <1>c, <2>1 DEF Begins, Planned, Working
  <2>3. index = Len(todo.steps)
    BY <1>a, <2>1, <2>2, StepPlace
  <2>4. LastStepPast /\ LastCheck' = LastCheck
    BY <1>b, <2>1, <2>3 DEF LastStepPast, Begins, LastCheck
  <2> QED
    BY <1>d, <2>1, <2>2, <2>4 DEF Samples, Unplanned
<1>13. CASE StepFails
  BY <1>c, <1>13 DEF Samples, LastStepPast, Unplanned, Ended, StepFails, Begins, Fails, End
<1>14. CASE remove_hpa
  <2>1. /\ pc \notin {"check", "again", "plan", "write", "ended"} /\ UNCHANGED <<disk, job, todo, offsets, before>>
        /\ \/ pc' = "ended" /\ record' = "failed"
           \/ pc' \notin {"check", "again", "plan", "step", "write"} /\ UNCHANGED record
           \/ pc' = "step" /\ UNCHANGED record /\ index' = index + 1
    BY <1>14 DEF remove_hpa, Reveal, Begins, StepDone, Goto
  <2>2. Working /\ record = "none"
    BY <1>c, <2>1 DEF Unplanned, Ended
  <2>3. (Begins \/ AtCommand) /\ step.kind \in FirmwareKinds \cup AreaKinds
    BY <1>a, <1>14 DEF remove_hpa, AreaKinds
  <2>4. pc' = "step" => (LastStepPast' => LastCheck' = "changed")
    BY <2>1, <2>3, NoPassBefore
  <2>5. pc' # "step" => ~LastStepPast'
    BY <2>1, <2>2 DEF LastStepPast
  <2> QED
    BY <1>d, <2>1, <2>2, <2>4, <2>5 DEF Samples, Unplanned, Working
<1>15. CASE restore_dco
  <2>1. /\ pc \notin {"check", "again", "plan", "write", "ended"} /\ UNCHANGED <<disk, job, todo, offsets, before>>
        /\ \/ pc' = "ended" /\ record' = "failed"
           \/ pc' \notin {"check", "again", "plan", "step", "write"} /\ UNCHANGED record
           \/ pc' = "step" /\ UNCHANGED record /\ index' = index + 1
    BY <1>15 DEF restore_dco, Reveal, Begins, StepDone, Goto
  <2>2. Working /\ record = "none"
    BY <1>c, <2>1 DEF Unplanned, Ended
  <2>3. (Begins \/ AtCommand) /\ step.kind \in FirmwareKinds \cup AreaKinds
    BY <1>a, <1>15 DEF restore_dco, AreaKinds
  <2>4. pc' = "step" => (LastStepPast' => LastCheck' = "changed")
    BY <2>1, <2>3, NoPassBefore
  <2>5. pc' # "step" => ~LastStepPast'
    BY <2>1, <2>2 DEF LastStepPast
  <2> QED
    BY <1>d, <2>1, <2>2, <2>4, <2>5 DEF Samples, Unplanned, Working
<1>16. CASE EraseNow
  <2>1. /\ pc \notin {"check", "again", "plan", "write", "ended"} /\ UNCHANGED <<disk, job, todo, offsets, before>>
        /\ \/ pc' = "ended" /\ record' = "failed"
           \/ pc' \notin {"check", "again", "plan", "step", "write"} /\ UNCHANGED record
           \/ pc' = "step" /\ UNCHANGED record /\ index' = index + 1
    BY <1>16 DEF EraseNow, Firmware, Begins, StepDone, Stay, Fails, End, Goto
  <2>2. Working /\ record = "none"
    BY <1>c, <2>1 DEF Unplanned, Ended
  <2>3. (Begins \/ AtCommand) /\ step.kind \in FirmwareKinds \cup AreaKinds
    BY <1>a, <1>16 DEF EraseNow, Firmware, FirmwareKinds
  <2>4. pc' = "step" => (LastStepPast' => LastCheck' = "changed")
    BY <2>1, <2>3, NoPassBefore
  <2>5. pc' # "step" => ~LastStepPast'
    BY <2>1, <2>2 DEF LastStepPast
  <2> QED
    BY <1>d, <2>1, <2>2, <2>4, <2>5 DEF Samples, Unplanned, Working
<1>17. CASE StartSanitize
  BY <1>c, <1>17
     DEF Samples, LastStepPast, Unplanned, Ended, StartSanitize, Firmware, Begins, Goto,
         Fails, End
<1>18. CASE PollDone
  <2>1. /\ pc \notin {"check", "again", "plan", "write", "ended"} /\ UNCHANGED <<disk, job, todo, offsets, before>>
        /\ \/ pc' = "ended" /\ record' = "failed"
           \/ pc' \notin {"check", "again", "plan", "step", "write"} /\ UNCHANGED record
           \/ pc' = "step" /\ UNCHANGED record /\ index' = index + 1
    BY <1>18 DEF PollDone, Polled, StepDone, Goto
  <2>2. Working /\ record = "none"
    BY <1>c, <2>1 DEF Unplanned, Ended
  <2>3. (Begins \/ AtCommand) /\ step.kind \in FirmwareKinds \cup AreaKinds
    BY <1>a, <1>18 DEF PollDone, AtCommand, Course
  <2>4. pc' = "step" => (LastStepPast' => LastCheck' = "changed")
    BY <2>1, <2>3, NoPassBefore
  <2>5. pc' # "step" => ~LastStepPast'
    BY <2>1, <2>2 DEF LastStepPast
  <2> QED
    BY <1>d, <2>1, <2>2, <2>4, <2>5 DEF Samples, Unplanned, Working
<1>19. CASE PollFailed
  BY <1>c, <1>19 DEF Samples, LastStepPast, Unplanned, Ended, PollFailed, Polled, Fails, End
<1>20. CASE PollGivesUp
  BY <1>c, <1>20
     DEF Samples, LastStepPast, Unplanned, Ended, PollGivesUp, Polled, Fails, End
<1>21. CASE SetPassword
  BY <1>c, <1>21
     DEF Samples, LastStepPast, Unplanned, Ended, SetPassword, Firmware, Begins, Security,
         Goto, Fails, End
<1>22. CASE SecureErase
  BY <1>c, <1>22 DEF Samples, LastStepPast, Unplanned, Ended, SecureErase, Security, Goto
<1>23. CASE DisablePassword
  BY <1>c, <1>23
     DEF Samples, LastStepPast, Unplanned, Ended, DisablePassword, Security, Fails, End
<1>24. CASE Identify
  <2>1. /\ pc \notin {"check", "again", "plan", "write", "ended"} /\ UNCHANGED <<disk, job, todo, offsets, before>>
        /\ \/ pc' = "ended" /\ record' = "failed"
           \/ pc' \notin {"check", "again", "plan", "step", "write"} /\ UNCHANGED record
           \/ pc' = "step" /\ UNCHANGED record /\ index' = index + 1
    BY <1>24 DEF Identify, Security, StepDone, Goto, Fails, End
  <2>2. Working /\ record = "none"
    BY <1>c, <2>1 DEF Unplanned, Ended
  <2>3. (Begins \/ AtCommand) /\ step.kind \in FirmwareKinds \cup AreaKinds
    BY <1>a, <1>24 DEF Identify, AtCommand, Course
  <2>4. pc' = "step" => (LastStepPast' => LastCheck' = "changed")
    BY <2>1, <2>3, NoPassBefore
  <2>5. pc' # "step" => ~LastStepPast'
    BY <2>1, <2>2 DEF LastStepPast
  <2> QED
    BY <1>d, <2>1, <2>2, <2>4, <2>5 DEF Samples, Unplanned, Working
<1>25. CASE Finish
  BY <1>b, <1>c, <1>25 DEF Samples, LastStepPast, LastCheck, Unplanned, Ended, Finish, End
<1>26. CASE PollIdle
  BY <1>c, <1>26
     DEF Samples, LastStepPast, Unplanned, Ended, PollIdle, Polled, Goto, Fails, End
<1>27. CASE FirmwareFinishes
  <2>1. /\ fw = "running" /\ UNCHANGED <<disk, pc, index, job, todo, record, size, offsets, before>>
    BY <1>27 DEF FirmwareFinishes
  <2>2. ~Unplanned /\ pc # "write"
    BY <2>1 DEF Erasing, Unplanned
  <2> QED
    BY <1>d, <2>1, <2>2 DEF Samples, Unplanned, Working, AtCommand, LastStepPast, LastCheck
<1>28. CASE Cancel
  BY <1>28 DEF Samples, LastStepPast, LastCheck, Unplanned, Working, AtCommand, Cancel
<1>29. CASE HostChanges
  BY <1>c, <1>29 DEF Samples, LastStepPast, Working, AtCommand, Ended, HostChanges
<1>30. CASE Crash
  BY <1>30 DEF Samples, LastStepPast, Unplanned, Working, AtCommand, Crash, End
<1>31. CASE UNCHANGED vars
  BY <1>31 DEF Samples, LastStepPast, LastCheck, Unplanned, Working, AtCommand, vars
<1> QED
  BY <1>1, <1>2, <1>3, <1>4, <1>5, <1>6, <1>7, <1>8, <1>9, <1>10, <1>11, <1>12, <1>13,
     <1>14, <1>15, <1>16, <1>17, <1>18, <1>19, <1>20, <1>21, <1>22, <1>23, <1>24, <1>25,
     <1>26, <1>27, <1>28, <1>29, <1>30, <1>31
     DEF Next, Worker, Prepare, TakeStep

\* What HonestVerdict says of a positive verdict, and the plans that have one.
VerdictHolds ==
  LET first == FirstVisible(disk) IN
  /\ verification.check = "pattern" =>
       /\ \A o \in verification.checked : \A u \in UnitsOf(o) : media[u] = last_source
       /\ {1, first} \subseteq UNION {UnitsOf(o) : o \in verification.checked}
       /\ job.full => UNION {UnitsOf(o) : o \in verification.checked} = 1..size
  /\ verification.check = "changed" /\ (size = first \/ first % BLOCK = 0) =>
       \E o \in verification.checked : \E u \in UnitsOf(o) : media[u] # disk.data[u]

Judged == ~job.dry /\ (record = "complete" \/ (pc = "step" /\ index > Len(todo.steps)))

Honest == Judged /\ verification.passed = "yes" => VerdictHolds

\* A positive verdict on a pattern.
LEMMA PatternVerdict ==
  ASSUME Control, NEW offs, NEW direct, NEW first, first = FirstVisible(disk),
         first <= size, size > 0,
         offs \in sample_offsets(first, COUNT) \cup {AllOffsets(size)},
         check_pattern(media, visible, size, offs, last_source, direct).passed = "yes"
  PROVE  /\ \A o \in offs : \A u \in UnitsOf(o) : media[u] = last_source
         /\ {1, first} \subseteq UNION {UnitsOf(o) : o \in offs}
         /\ offs = AllOffsets(size) => UNION {UnitsOf(o) : o \in offs} = 1..size
<1>1. BLOCK \in Nat \ {0} /\ size \in Nat \ {0} /\ first \in Nat \ {0}
  <2>1. disk \in Drives /\ size \in 0..disk.units
    BY DEF Control, TypeOK
  <2>2. disk.units \in Nat /\ disk.caps.hpa_current \in 0..disk.units
    BY <2>1, DriveAssumption
  <2> QED
    BY <2>1, <2>2, DriveAssumption DEF FirstVisible
<1>2. \A o \in offs : BlockHolds(media, size, o, last_source)
  BY <1>1, ReadsBack
<1>3. \A o \in offs : o \in Nat
  <2>1. CASE offs = AllOffsets(size)
    <3>1. \A b \in 0..(Blocks(size) - 1) : b * BLOCK \in Nat
      BY <1>1, BlockInside
    <3> QED
      BY <2>1, <3>1 DEF AllOffsets, Offsets
  <2>2. CASE offs \in sample_offsets(first, COUNT)
    <3>1. PICK p \in SUBSET (0..(Blocks(first) - 1)) : offs = Offsets(p)
      BY <2>2, Zenon DEF sample_offsets
    <3>2. \A b \in 0..(Blocks(first) - 1) : b * BLOCK \in Nat
      BY <1>1, BlockInside
    <3> QED
      BY <3>1, <3>2 DEF Offsets
  <2> QED
    BY <2>1, <2>2
<1>4. ASSUME NEW o \in offs, NEW u \in UnitsOf(o) PROVE media[u] = last_source
  <2>1. o \in Nat /\ LengthAt(size, o) \in Int /\ u \in (o + 1)..(o + LengthAt(size, o))
    BY <1>1, <1>3 DEF UnitsOf, LengthAt, Least
  <2>2. u - o \in 1..LengthAt(size, o) /\ o + (u - o) = u
    BY <2>1
  <2>3. media[o + (u - o)] = last_source
    BY <1>2, <2>2 DEF BlockHolds
  <2> QED
    BY <2>2, <2>3
<1>5. offs = AllOffsets(size) => UNION {UnitsOf(o) : o \in offs} = 1..size
  BY <1>1, AllCovered DEF UnitsOf
<1>6. {1, first} \subseteq UNION {UnitsOf(o) : o \in offs}
  <2>1. CASE offs = AllOffsets(size)
    BY <1>1, <1>5, <2>1
  <2>2. CASE offs \in sample_offsets(first, COUNT)
    <3> DEFINE n == Blocks(first)
               last == (n - 1) * BLOCK
    <3>1. n \in Nat \ {0} /\ last \in Nat /\ last < first /\ first - last <= BLOCK
      BY <1>1, LastBlock
    <3>2. PICK p : {0, n - 1} \subseteq p /\ offs = Offsets(p)
      BY <2>2, Zenon DEF sample_offsets
    <3>3. 0 * BLOCK \in offs /\ last \in offs
      BY <3>2 DEF Offsets
    <3> HIDE DEF n, last
    <3>4. 0 \in offs /\ 1 \in UnitsOf(0)
      BY <1>1, <3>3 DEF UnitsOf, LengthAt, Least
    <3>5. first \in UnitsOf(last)
      BY <1>1, <3>1 DEF UnitsOf, LengthAt, Least
    <3> QED
      BY <3>3, <3>4, <3>5
  <2> QED
    BY <2>1, <2>2
<1> QED
  BY <1>4, <1>5, <1>6

\* A positive verdict on what changed.
LEMMA ChangedVerdict ==
  ASSUME Control, NEW direct, NEW first, first = FirstVisible(disk), first <= size,
         visible = size, size = first \/ first % BLOCK = 0,
         offsets \in sample_offsets(first, COUNT),
         NEW early, before = snapshot(disk.data, first, first, offsets, early),
         check_changed(media, visible, size, before, direct).passed = "yes"
  PROVE  \E o \in DOMAIN before : \E u \in UnitsOf(o) : media[u] # disk.data[u]
<1>1. BLOCK \in Nat \ {0} /\ size \in Nat /\ first \in Nat /\ (first = 0 => size = 0)
  <2>1. disk \in Drives /\ size \in 0..disk.units
    BY DEF Control, TypeOK
  <2>2. disk.units \in Nat /\ disk.caps.hpa_current \in 0..disk.units
    BY <2>1, DriveAssumption
  <2> QED
    BY <2>1, <2>2, DriveAssumption DEF FirstVisible
<1>2. DOMAIN before = offsets
      /\ \A o \in offsets : before[o] = Read(disk.data, first, o, LengthAt(first, o), early)
  BY DEF snapshot
<1>3. PICK o \in DOMAIN before :
        Read(media, visible, o, LengthAt(size, o), direct) # before[o]
  <2> DEFINE same == {x \in DOMAIN before :
                        Read(media, visible, x, LengthAt(size, x), direct) = before[x]}
             unlost == {x \in same : ~Uniform(before[x])}
  <2>1. check_changed(media, visible, size, before, direct)
          = Verdict("changed", DOMAIN before,
                    IF unlost # {} THEN "no" ELSE IF same # DOMAIN before THEN "yes" ELSE "none")
    BY DEF check_changed
  <2>2. same # DOMAIN before
    <3> HIDE DEF same, unlost
    <3> QED
      BY <2>1 DEF Verdict
  <2> QED
    BY <2>2
<1>4. PICK p \in SUBSET (0..(Blocks(first) - 1)) : offsets = Offsets(p)
  BY Zenon DEF sample_offsets
<1>5. PICK b \in 0..(Blocks(first) - 1) : o = b * BLOCK
  BY <1>2, <1>4 DEF Offsets
<1>6. o \in Nat /\ o <= first /\ (first # 0 => o < first)
  BY <1>1, <1>5, BlockInside
<1>7. LengthAt(size, o) = LengthAt(first, o)
  <2>1. CASE size = first
    BY <2>1
  <2>2. CASE size # first
    <3> DEFINE q == first \div BLOCK
    <3>1. q \in Nat /\ first = q * BLOCK
      BY <1>1, <2>2
    <3>2. b \in Nat
      BY <1>5
    <3> HIDE DEF q
    <3>3. o < q * BLOCK
      BY <1>1, <1>6, <2>2, <3>1
    <3>4. b < q
      <4>1. q <= b => q * BLOCK <= b * BLOCK
        BY <1>1, <3>1, <3>2, Products
      <4> QED
        BY <1>1, <1>5, <1>6, <3>1, <3>2, <3>3, <4>1
    <3>5. o + BLOCK <= first
      BY <1>1, <1>5, <3>1, <3>2, <3>4, Products
    <3> QED
      BY <1>1, <1>6, <3>5 DEF LengthAt, Least
  <2> QED
    BY <2>1, <2>2
<1>8. /\ Read(media, visible, o, LengthAt(size, o), direct) = BlockOf(media, size, o)
      /\ before[o] = BlockOf(disk.data, first, o)
  <2>1. o <= size
    BY <1>1, <1>6
  <2>2. PICK data : data = disk.data
    OBVIOUS
  <2>3. Read(media, size, o, LengthAt(size, o), direct) = BlockOf(media, size, o)
    BY <1>1, <1>6, <2>1, ReadWhole
  <2>4. Read(data, first, o, LengthAt(first, o), early) = BlockOf(data, first, o)
    BY <1>1, <1>6, ReadWhole
  <2> QED
    BY <1>2, <2>2, <2>3, <2>4
<1>9. \E i \in 1..LengthAt(size, o) : media[o + i] # disk.data[o + i]
  BY <1>3, <1>7, <1>8 DEF BlockOf
<1>10. PICK i \in 1..LengthAt(size, o) : media[o + i] # disk.data[o + i]
  BY <1>9
<1>11. o + i \in UnitsOf(o)
  BY <1>1, <1>6 DEF UnitsOf, LengthAt, Least
<1> QED
  BY <1>10, <1>11

LEMMA VerdictFields ==
  ASSUME NEW m, NEW end, NEW sz, NEW x, NEW source, NEW direct
  PROVE  /\ check_pattern(m, end, sz, x, source, direct).check = "pattern"
         /\ check_pattern(m, end, sz, x, source, direct).checked = x
         /\ check_changed(m, end, sz, x, direct).check = "changed"
         /\ check_changed(m, end, sz, x, direct).checked = DOMAIN x
<1>1. \A a, b, v : Verdict(a, b, v).check = a /\ Verdict(a, b, v).checked = b
  BY DEF Verdict
<1>2. \E v : check_pattern(m, end, sz, x, source, direct) = Verdict("pattern", x, v)
  BY Zenon DEF check_pattern
<1>3. \E v : check_changed(m, end, sz, x, direct) = Verdict("changed", DOMAIN x, v)
  BY Zenon DEF check_changed
<1> QED
  BY <1>1, <1>2, <1>3

\* The check at the end of the plan says what it says of the drive it read.
LEMMA VerifyIsHonest ==
  ASSUME Control, Samples, Verify, verification'.passed = "yes"
  PROVE  VerdictHolds'
<1>1. /\ Begins /\ ~job.dry /\ step.kind = "verify"
      /\ UNCHANGED <<disk, job, todo, media, visible, size, offsets, before, last_source>>
  BY DEF Verify, Fails, End, StepDone, Goto, untouched, driveless, drive, keys
<1>2. Working /\ todo # PlanError /\ index \in 1..Len(todo.steps) /\ record = "none"
  BY <1>1, ControlledType DEF Control, Begins, Planned, Working, Course, Ended
<1>3. /\ index = Len(todo.steps) /\ step.arg = LastCheck
      /\ step.arg \in {"pattern", "changed"} /\ (job.full => step.n = 1)
  <2>1. Planned
    BY DEF Control
  <2> QED
    BY <1>1, <1>2, <2>1, AreaStep, StepPlace DEF step, LastCheck
<1>4. size = visible /\ FirstVisible(disk) <= size
  BY <1>2 DEF Control, Areas
<1>5. LastStepPast
  BY <1>1, <1>3, ControlledType DEF LastStepPast, Begins
<1>6. PICK first : first = FirstVisible(disk)
  OBVIOUS
<1>7. offsets \in sample_offsets(first, COUNT)
  BY <1>1, <1>2, <1>6 DEF Samples
<1>8. PICK early \in BOOLEAN : before = snapshot(disk.data, first, first, offsets, early)
  BY <1>1, <1>2, <1>6 DEF Samples
<1>9. first = FirstVisible(disk)'
  BY <1>1, <1>6 DEF FirstVisible
<1>10. \A x : UnitsOf(x)' = UnitsOf(x)
  BY <1>1 DEF UnitsOf, LengthAt, Least
<1>11. PICK direct \in BOOLEAN :
         verification' = IF step.arg = "changed"
                         THEN check_changed(media, visible, size, before, direct)
                         ELSE check_pattern(media, visible, size,
                                            IF step.n = 1 THEN AllOffsets(size) ELSE offsets,
                                            last_source, direct)
  BY Zenon DEF Verify
<1>12. CASE step.arg = "changed"
  <2>1. verification' = check_changed(media, visible, size, before, direct)
    BY <1>11, <1>12
  <2>2. verification'.check = "changed" /\ verification'.checked = DOMAIN before
    BY <2>1, VerdictFields
  <2>3. ASSUME size = first \/ first % BLOCK = 0
        PROVE  \E o \in DOMAIN before : \E u \in UnitsOf(o) : media[u] # disk.data[u]
    BY <1>4, <1>6, <1>7, <1>8, <2>1, <2>3, ChangedVerdict
  <2> QED
    BY <1>1, <1>9, <1>10, <2>2, <2>3 DEF VerdictHolds
<1>13. CASE step.arg = "pattern"
  <2>1. PICK offs : offs = IF step.n = 1 THEN AllOffsets(size) ELSE offsets
    OBVIOUS
  <2>2. verification' = check_pattern(media, visible, size, offs, last_source, direct)
    BY <1>11, <1>13, <2>1
  <2>3. verification'.check = "pattern" /\ verification'.checked = offs
    BY <2>2, VerdictFields
  <2>4. size > 0
    BY <1>3, <1>5, <1>13 DEF Samples
  <2>5. /\ \A o \in offs : \A u \in UnitsOf(o) : media[u] = last_source
        /\ {1, first} \subseteq UNION {UnitsOf(o) : o \in offs}
        /\ offs = AllOffsets(size) => UNION {UnitsOf(o) : o \in offs} = 1..size
    BY <1>4, <1>6, <1>7, <2>1, <2>2, <2>4, PatternVerdict
  <2>6. UNION {UnitsOf(o)' : o \in offs} = UNION {UnitsOf(o) : o \in offs}
    BY <1>10
  <2> QED
    BY <1>1, <1>3, <1>9, <1>10, <2>1, <2>3, <2>5, <2>6 DEF VerdictHolds
<1> QED
  BY <1>3, <1>12, <1>13

LEMMA HonestStarts == Init => Honest
<1> SUFFICES ASSUME Init PROVE Honest
  OBVIOUS
<1>1. pc = "check" /\ record = "none"
  BY DEF Init, Start
<1> QED
  BY <1>1 DEF Honest, Judged

\* Only the check is the last step.
LEMMA NotJudged ==
  ASSUME Control, Begins \/ AtCommand \/ pc = "write", step.kind # "verify",
         UNCHANGED <<todo, record>>, index' = index + 1
  PROVE  ~Judged'
<1>1. todo # PlanError /\ index \in 1..Len(todo.steps) /\ record = "none"
  BY ControlledType DEF Control, Planned, Working, AtCommand, Course, Ended, Begins
<1>2. Planned
  BY DEF Control
<1>3. index # Len(todo.steps)
  BY <1>1, <1>2, StepPlace
<1> QED
  BY <1>1, <1>3, ControlledType DEF Judged

LEMMA HonestStep ==
  ASSUME Control, Erasing, Samples, Honest, [Next]_vars
  PROVE  Honest'
<1> USE DEF drive, progress, sampling, keys, untouched, driveless
<1>a. Course /\ Planned
  BY DEF Control
<1>b. Len(todo.steps) \in Nat /\ index \in 1..(Len(todo.steps) + 1)
  BY ControlledType
<1>c. ASSUME UNCHANGED <<disk, job, media, visible, size, verification, last_source>>
      PROVE  VerdictHolds <=> VerdictHolds'
  <2>1. FirstVisible(disk)' = FirstVisible(disk) /\ \A x : UnitsOf(x)' = UnitsOf(x)
    BY <1>c DEF FirstVisible, UnitsOf, LengthAt, Least
  <2> QED
    BY <1>c, <2>1 DEF VerdictHolds
<1>1. CASE PreflightRefuses
  BY <1>a, <1>b, <1>c, <1>1 DEF Honest, Judged, Course, Ended, PreflightRefuses, Fails, End
<1>2. CASE Unmount
  BY <1>a, <1>b, <1>c, <1>2 DEF Honest, Judged, Course, Ended, Unmount, Goto, Fault, Fails, End
<1>3. CASE LookAgain
  BY <1>a, <1>b, <1>c, <1>3 DEF Honest, Judged, Course, Ended, LookAgain, Goto, Fails, End
<1>4. CASE DryRun
  BY <1>a, <1>b, <1>c, <1>4 DEF Honest, Judged, Course, Ended, DryRun, Goto
<1>5. CASE MakePlan
  <2>1. /\ pc = "plan" /\ index' = index
        /\ \/ pc' = "ended" /\ record' = "failed"
           \/ pc' = "step" /\ UNCHANGED record /\ todo' # PlanError
    BY <1>5, PlanMade
  <2>2. index = 1 /\ record = "none"
    BY <1>a, <2>1 DEF Planned, Unplanned, Course, Ended
  <2>3. PICK n : n = Len(todo'.steps)
    OBVIOUS
  <2>4. Planned'
    BY PlannedStep
  <2>5. pc' = "step" => n \in Nat \ {0, 1}
    BY <2>1, <2>3, <2>4 DEF Planned, WellPlanned, ChecksLastStep
  <2>6. pc' = "step" => ~(index' > n)
    BY <2>1, <2>2, <2>5
  <2> QED
    BY <2>1, <2>2, <2>3, <2>6 DEF Honest, Judged
<1>6. CASE StepCancelled
  BY <1>a, <1>b, <1>c, <1>6 DEF Honest, Judged, Course, Ended, StepCancelled, End, Stay
<1>7. CASE Simulate
  BY <1>a, <1>b, <1>c, <1>7 DEF Honest, Judged, Course, Ended, Simulate, Begins, StepDone, Goto
<1>8. CASE StartPass
  BY <1>a, <1>b, <1>c, <1>8 DEF Honest, Judged, Course, Ended, StartPass, Begins, Fails, End, Stay
<1>9. CASE WriteChunk
  BY <1>a, <1>b, <1>c, <1>9 DEF Honest, Judged, Course, Ended, WriteChunk
<1>10. CASE WriteFails
  BY <1>a, <1>b, <1>c, <1>10 DEF Honest, Judged, Course, Ended, WriteFails, Fault, Fails, End, Stay
<1>11. CASE Sync
  <2>1. /\ pc # "ended" /\ UNCHANGED todo
        /\ \/ pc' = "ended" /\ record' = "failed"
           \/ pc' \notin {"ended", "step"} /\ UNCHANGED record
           \/ pc' = "step" /\ UNCHANGED record /\ index' = index + 1
    BY <1>11 DEF Sync, StepDone, Goto
  <2>2. (Begins \/ AtCommand \/ pc = "write") /\ step.kind # "verify"
    BY <1>a, <1>11 DEF Sync, Course
  <2>3. pc' = "step" => ~Judged'
    BY <2>1, <2>2, NotJudged
  <2>4. record = "none"
    BY <1>a, <2>1 DEF Course, Ended
  <2> QED
    BY <2>1, <2>3, <2>4 DEF Honest, Judged
<1>12. CASE Verify
  <2>1. verification'.passed = "yes" => VerdictHolds'
    BY <1>12, VerifyIsHonest
  <2> QED
    BY <2>1 DEF Honest
<1>13. CASE StepFails
  BY <1>13 DEF Honest, Judged, StepFails, Fails, End
<1>14. CASE remove_hpa
  <2>1. /\ pc # "ended" /\ UNCHANGED todo
        /\ \/ pc' = "ended" /\ record' = "failed"
           \/ pc' \notin {"ended", "step"} /\ UNCHANGED record
           \/ pc' = "step" /\ UNCHANGED record /\ index' = index + 1
    BY <1>14 DEF remove_hpa, Reveal, Begins, StepDone, Goto
  <2>2. (Begins \/ AtCommand \/ pc = "write") /\ step.kind # "verify"
    BY <1>a, <1>14 DEF remove_hpa, Begins
  <2>3. pc' = "step" => ~Judged'
    BY <2>1, <2>2, NotJudged
  <2>4. record = "none"
    BY <1>a, <2>1 DEF Course, Ended
  <2> QED
    BY <2>1, <2>3, <2>4 DEF Honest, Judged
<1>15. CASE restore_dco
  <2>1. /\ pc # "ended" /\ UNCHANGED todo
        /\ \/ pc' = "ended" /\ record' = "failed"
           \/ pc' \notin {"ended", "step"} /\ UNCHANGED record
           \/ pc' = "step" /\ UNCHANGED record /\ index' = index + 1
    BY <1>15 DEF restore_dco, Reveal, Begins, StepDone, Goto
  <2>2. (Begins \/ AtCommand \/ pc = "write") /\ step.kind # "verify"
    BY <1>a, <1>15 DEF restore_dco, Begins
  <2>3. pc' = "step" => ~Judged'
    BY <2>1, <2>2, NotJudged
  <2>4. record = "none"
    BY <1>a, <2>1 DEF Course, Ended
  <2> QED
    BY <2>1, <2>3, <2>4 DEF Honest, Judged
<1>16. CASE EraseNow
  <2>1. /\ pc # "ended" /\ UNCHANGED todo
        /\ \/ pc' = "ended" /\ record' = "failed"
           \/ pc' \notin {"ended", "step"} /\ UNCHANGED record
           \/ pc' = "step" /\ UNCHANGED record /\ index' = index + 1
    BY <1>16 DEF EraseNow, Firmware, Begins, StepDone, Stay, Fails, End, Goto
  <2>2. (Begins \/ AtCommand \/ pc = "write") /\ step.kind # "verify"
    BY <1>a, <1>16 DEF EraseNow, Firmware
  <2>3. pc' = "step" => ~Judged'
    BY <2>1, <2>2, NotJudged
  <2>4. record = "none"
    BY <1>a, <2>1 DEF Course, Ended
  <2> QED
    BY <2>1, <2>3, <2>4 DEF Honest, Judged
<1>17. CASE StartSanitize
  BY <1>c, <1>17 DEF Honest, Judged, StartSanitize, Goto, Fails, End
<1>18. CASE PollDone
  <2>1. /\ pc # "ended" /\ UNCHANGED todo
        /\ \/ pc' = "ended" /\ record' = "failed"
           \/ pc' \notin {"ended", "step"} /\ UNCHANGED record
           \/ pc' = "step" /\ UNCHANGED record /\ index' = index + 1
    BY <1>18 DEF PollDone, Polled, StepDone, Goto
  <2>2. (Begins \/ AtCommand \/ pc = "write") /\ step.kind # "verify"
    BY <1>a, <1>18 DEF PollDone, AtCommand, Course, FirmwareKinds
  <2>3. pc' = "step" => ~Judged'
    BY <2>1, <2>2, NotJudged
  <2>4. record = "none"
    BY <1>a, <2>1 DEF Course, Ended
  <2> QED
    BY <2>1, <2>3, <2>4 DEF Honest, Judged
<1>19. CASE PollFailed
  BY <1>a, <1>b, <1>c, <1>19 DEF Honest, Judged, Course, Ended, PollFailed, Polled, Fails, End, Stay
<1>20. CASE PollGivesUp
  BY <1>20 DEF Honest, Judged, PollGivesUp, Fails, End
<1>21. CASE SetPassword
  BY <1>c, <1>21 DEF Honest, Judged, SetPassword, Security, Goto, Fails, End
<1>22. CASE SecureErase
  BY <1>a, <1>22 DEF Honest, Judged, Course, Ended, SecureErase, Goto
<1>23. CASE DisablePassword
  BY <1>23 DEF Honest, Judged, DisablePassword, Fails, End
<1>24. CASE Identify
  <2>1. /\ pc # "ended" /\ UNCHANGED todo
        /\ \/ pc' = "ended" /\ record' = "failed"
           \/ pc' \notin {"ended", "step"} /\ UNCHANGED record
           \/ pc' = "step" /\ UNCHANGED record /\ index' = index + 1
    BY <1>24 DEF Identify, Security, StepDone, Goto, Fails, End
  <2>2. (Begins \/ AtCommand \/ pc = "write") /\ step.kind # "verify"
    BY <1>a, <1>24 DEF Identify, AtCommand, Course, FirmwareKinds
  <2>3. pc' = "step" => ~Judged'
    BY <2>1, <2>2, NotJudged
  <2>4. record = "none"
    BY <1>a, <2>1 DEF Course, Ended
  <2> QED
    BY <2>1, <2>3, <2>4 DEF Honest, Judged
<1>25. CASE Finish
  BY <1>a, <1>b, <1>c, <1>25 DEF Honest, Judged, Course, Ended, Finish, End, Stay
<1>26. CASE PollIdle
  BY <1>a, <1>b, <1>c, <1>26 DEF Honest, Judged, Course, Ended, PollIdle, Polled, Goto, Fails, End
<1>27. CASE FirmwareFinishes
  <2>1. fw = "running" /\ UNCHANGED <<pc, index, job, todo, record>>
    BY <1>27 DEF FirmwareFinishes
  <2>2. ~Judged
    BY <2>1 DEF Erasing, Judged
  <2> QED
    BY <2>1, <2>2 DEF Honest, Judged
<1>28. CASE Cancel
  BY <1>a, <1>b, <1>c, <1>28 DEF Honest, Judged, Course, Ended, Cancel
<1>29. CASE HostChanges
  BY <1>a, <1>b, <1>c, <1>29 DEF Honest, Judged, Course, Ended, HostChanges, Fault
<1>30. CASE Crash
  BY <1>a, <1>b, <1>c, <1>30 DEF Honest, Judged, Course, Ended, Crash, Fault, End
<1>31. CASE UNCHANGED vars
  BY <1>a, <1>b, <1>c, <1>31 DEF Honest, Judged, Course, Ended, vars
<1> QED
  BY <1>1, <1>2, <1>3, <1>4, <1>5, <1>6, <1>7, <1>8, <1>9, <1>10, <1>11, <1>12, <1>13,
     <1>14, <1>15, <1>16, <1>17, <1>18, <1>19, <1>20, <1>21, <1>22, <1>23, <1>24, <1>25,
     <1>26, <1>27, <1>28, <1>29, <1>30, <1>31
     DEF Next, Worker, Prepare, TakeStep

\* A positive verdict is what it says, for any drive (one that lies about its erase or
\* loses writes included), any size, sample and reader: what it names holds the pass, or
\* did change, and the full mode names all of the drive.
THEOREM HonestVerdictHolds == Spec => []HonestVerdict
<1>1. Control /\ Honest => HonestVerdict
  BY DEF HonestVerdict, Honest, Judged, Completed, VerdictHolds
<1>2. Control /\ Erasing /\ Samples /\ Honest /\ [Next]_vars
        => (Control /\ Erasing /\ Samples /\ Honest)'
  BY ControlStep, ErasingStep, SamplesStep, HonestStep
<1> QED
  BY <1>1, <1>2, ControlStarts, ErasingStarts, SamplesStart, HonestStarts, PTL DEF Spec

(***************************************************************************)
(* A hardware wipe implements Erasure.  Five steps write to the medium,    *)
(* and none of them before the preflight; what they write is not what the  *)
(* drive held.                                                             *)
(***************************************************************************)

Preparing == PreflightRefuses \/ Unmount \/ LookAgain \/ DryRun \/ MakePlan \/ HostChanges
Passing   == StartPass \/ WriteChunk \/ WriteFails \/ Sync \/ Verify
Asking    == remove_hpa \/ restore_dco \/ EraseNow \/ StartSanitize \/ StepFails \/ Simulate
Waiting   == PollDone \/ PollFailed \/ PollGivesUp \/ PollIdle
Securing  == SetPassword \/ SecureErase \/ DisablePassword \/ Identify
Leaving   == StepCancelled \/ Finish \/ Cancel \/ Crash

LEMMA NextGroups ==
  Next <=> Preparing \/ Passing \/ Asking \/ Waiting \/ Securing \/ Leaving \/ FirmwareFinishes
BY DEF Next, Worker, Prepare, TakeStep, Preparing, Passing, Asking, Waiting, Securing, Leaving

Writes == WriteChunk \/ WriteFails
Erases == EraseNow \/ SecureErase \/ FirmwareFinishes

\* What a step may do to the medium and to the disk it is on.
LEMMA OnlyThese ==
  ASSUME Next
  PROVE  /\ Writes \/ Erases \/ UNCHANGED <<media, purged>>
         /\ UNCHANGED <<disk, job>>
         /\ Preparing \/ UNCHANGED host
<1> USE DEF drive, untouched, driveless
<1>1. CASE Preparing
  <2>1. UNCHANGED <<media, purged>>
    BY <1>1 DEF Preparing, PreflightRefuses, Unmount, LookAgain, DryRun, MakePlan, HostChanges
  <2> QED
    BY <1>1, <2>1, PlannedOnce
<1>2. CASE Passing
  BY <1>2, PlannedOnce DEF Passing, Writes, StartPass, WriteChunk, WriteFails, Sync, Verify
<1>3. CASE Asking
  BY <1>3, PlannedOnce DEF Asking, Erases, remove_hpa, restore_dco, Reveal, EraseNow, StartSanitize,
                           StepFails, Simulate
<1>4. CASE Waiting
  BY <1>4, PlannedOnce DEF Waiting, PollDone, PollFailed, PollGivesUp, PollIdle, Polled
<1>5. CASE Securing
  BY <1>5, PlannedOnce DEF Securing, Erases, SetPassword, SecureErase, DisablePassword, Identify,
                           Security
<1>6. CASE Leaving
  BY <1>6, PlannedOnce DEF Leaving, StepCancelled, Finish, Cancel, Crash
<1>7. CASE FirmwareFinishes
  BY <1>7, PlannedOnce DEF Erases, FirmwareFinishes
<1> QED
  BY <1>1, <1>2, <1>3, <1>4, <1>5, <1>6, <1>7, NextGroups

\* A preflight lets the disk pass: it is none that Refuses would keep from the worker.
Allowed == host.root /\ ~host.boot /\ (job.system = "Windows" \/ ~host.held)

LEMMA HostKeeps ==
  ASSUME TypeOK, Next
  PROVE  host'.root = host.root /\ host'.boot = host.boot /\ host'.held = host.held
<1>1. host \in HostStates
  BY DEF TypeOK
<1>2. \/ UNCHANGED host
      \/ host' = [host EXCEPT !.mounted = FALSE]
      \/ host' = [host EXCEPT !.mounted = TRUE]
      \/ host' = [host EXCEPT !.attached = FALSE]
  BY OnlyThese
     DEF Preparing, PreflightRefuses, Unmount, LookAgain, DryRun, MakePlan, HostChanges
<1> QED
  BY <1>1, <1>2 DEF HostStates

\* What the promise rests on.
Keeping ==
  /\ record = "cancelled" => fw = "none"
  /\ last_source[1] # "data"
  /\ ~job.dry /\ (pc \notin {"check", "ended"} \/ fw = "running") => Allowed
  /\ ~disk.lies /\ AllPurged => Kept = {}

LEMMA KeepingStarts == Init => Keeping
<1> SUFFICES ASSUME Init PROVE Keeping
  OBVIOUS
<1>1. /\ disk \in Drives /\ pc = "check" /\ record = "none" /\ fw = "none" /\ purged = {}
      /\ last_source = <<"none", 0>>
  BY DEF Init, Start
<1>2. AllPurged => Kept = {}
  BY <1>1 DEF AllPurged, Kept
<1> QED
  BY <1>1, <1>2 DEF Keeping

\* Where the worker and the firmware can go from here.
Outcomes ==
  /\ pc = "ended" => FirmwareFinishes
  /\ record' = record \/ record' \in {"failed", "crashed"} \/ StepCancelled \/ Finish
  /\ fw' = fw \/ pc \in {"step", "poll"} \/ FirmwareFinishes
  /\ fw' = "running" => fw = "running" \/ pc = "step"

Going ==
  /\ pc = "check" => pc' \in {"check", "ended"} \/ job.dry \/ Allowed
  /\ last_source' = last_source \/ StartPass

LEMMA Moves ==
  ASSUME Next
  PROVE  Outcomes /\ Going
<1> USE DEF drive, keys, untouched, driveless, Fails, End, Goto, StepDone, Begins, Ended, Outcomes,
            Going
<1>1. CASE Preparing
  <2>1. CASE MakePlan
    BY <2>1, PlanMade DEF MakePlan
  <2>2. CASE PreflightRefuses \/ Unmount \/ LookAgain \/ DryRun \/ HostChanges
    BY <2>2 DEF PreflightRefuses, Unmount, LookAgain, DryRun, HostChanges, Refuses, Allowed
  <2> QED
    BY <1>1, <2>1, <2>2 DEF Preparing
<1>2. CASE Passing
  BY <1>2 DEF Passing, StartPass, WriteChunk, WriteFails, Sync, Verify
<1>3. CASE Asking
  BY <1>3 DEF Asking, remove_hpa, restore_dco, Reveal, Firmware, EraseNow, StartSanitize, StepFails,
              Simulate
<1>4. CASE Waiting
  BY <1>4 DEF Waiting, PollDone, PollFailed, PollGivesUp, PollIdle, Polled
<1>5. CASE Securing
  BY <1>5 DEF Securing, Firmware, SetPassword, SecureErase, DisablePassword, Identify, Security
<1>6. CASE Leaving
  BY <1>6 DEF Leaving, StepCancelled, Finish, Cancel, Crash
<1>7. CASE FirmwareFinishes
  BY <1>7 DEF FirmwareFinishes
<1> QED
  BY <1>1, <1>2, <1>3, <1>4, <1>5, <1>6, <1>7, NextGroups

\* What is filled with something else is no longer kept.
LEMMA FillingTakes ==
  ASSUME TypeOK, NEW s, NEW c, c[1] # "data", media' = Filled(media, s, c), UNCHANGED disk
  PROVE  Kept' \subseteq Kept /\ (1..disk.units \subseteq s => Kept' = {})
<1>1. DOMAIN media = 1..disk.units
  BY DEF TypeOK
<1>2. \A u \in 1..disk.units : media'[u] = IF u \in s THEN c ELSE media[u]
  BY <1>1 DEF Filled
<1> QED
  BY <1>2 DEF Kept

LEMMA ErasingTakes ==
  ASSUME TypeOK, EraseAll, UNCHANGED disk
  PROVE  Kept' \subseteq Kept /\ (~disk.lies => Kept' = {})
<1>1. CASE disk.lies
  BY <1>1 DEF EraseAll, Erased, Kept
<1>2. CASE ~disk.lies
  <2>1. media' = Filled(media, 1..disk.units, <<"fw", 0>>)
    BY <1>2 DEF EraseAll, Erased
  <2>2. PICK s, c : s = 1..disk.units /\ c = <<"fw", 0>> /\ media' = Filled(media, s, c)
    BY <2>1
  <2>3. c[1] # "data" /\ 1..disk.units \subseteq s
    BY <2>2
  <2> QED
    BY <2>2, <2>3, FillingTakes
<1> QED
  BY <1>1, <1>2

\* A step takes units of a disk that it may take, and gives none back.
LEMMA DriveTakes ==
  ASSUME Control, DryRuns, Keeping, Next
  PROVE  /\ Kept' \subseteq Kept /\ (Kept' = Kept \/ Reach = 1..disk.units)
         /\ ~disk.lies /\ AllPurged' => Kept' = {}
<1>1. TypeOK /\ Course /\ UNCHANGED <<disk, job>>
  BY OnlyThese DEF Control
<1>2. ASSUME UNCHANGED <<media, purged>>
      PROVE  Kept' = Kept /\ (AllPurged' <=> AllPurged)
  BY <1>1, <1>2 DEF Kept, AllPurged
<1>3. ASSUME Writes \/ Erases PROVE Reach = 1..disk.units
  <2>1. ~job.dry /\ (pc \notin {"check", "ended"} \/ fw = "running")
    BY <1>1, <1>3
       DEF Writes, Erases, WriteChunk, WriteFails, EraseNow, Firmware, Begins, SecureErase,
           FirmwareFinishes, Course, AtCommand, DryRuns
  <2> QED
    BY <2>1 DEF Keeping, Allowed, Reach
<1>4. ASSUME Writes PROVE Kept' \subseteq Kept /\ UNCHANGED purged
  <2>1. UNCHANGED purged /\ \E s : media' = Filled(media, s, last_source)
    BY <1>4 DEF Writes, WriteChunk, WriteFails
  <2> QED
    BY <1>1, <2>1, FillingTakes DEF Keeping
<1>5. ASSUME Erases, ~UNCHANGED <<media, purged>> PROVE EraseAll
  BY <1>5 DEF Erases, EraseNow, SecureErase, FirmwareFinishes
<1>6. CASE Writes
  <2>1. AllPurged' <=> AllPurged
    BY <1>1, <1>4, <1>6 DEF AllPurged
  <2> QED
    BY <1>1, <1>3, <1>4, <1>6, <2>1 DEF Keeping
<1>7. CASE Erases /\ ~UNCHANGED <<media, purged>>
  BY <1>1, <1>3, <1>5, <1>7, ErasingTakes
<1>8. CASE UNCHANGED <<media, purged>>
  BY <1>1, <1>2, <1>8 DEF Keeping
<1> QED
  BY <1>6, <1>7, <1>8, OnlyThese

\* A pass writes what no drive holds as data.
LEMMA PassIsNew ==
  ASSUME Control, StartPass, last_source' # last_source
  PROVE  last_source'[1] # "data"
<1>1. /\ pc = "step" /\ index <= Len(todo.steps) /\ step.kind = "overwrite"
      /\ last_source' = Content(step.arg, step.n)
  BY DEF StartPass, Begins, Fails, End
<1>2. step \in Steps
  BY <1>1, StepsOfPlan, ControlledType DEF Control
<1>3. step.arg # "data"
  BY <1>2 DEF Steps, StepArgs, TechArgs, Patterns
<1> QED
  BY <1>1, <1>3 DEF Content

LEMMA KeepingStep ==
  ASSUME Control, Erasing, DryRuns, Keeping, [Next]_vars
  PROVE  Keeping'
<1>1. CASE UNCHANGED vars
  BY <1>1 DEF vars, drive, keys, Keeping, Allowed, AllPurged, Kept
<1>2. CASE Next
  <2>1. UNCHANGED <<disk, job>> /\ (Allowed' <=> Allowed)
    BY <1>2, OnlyThese, HostKeeps DEF Control, Allowed
  <2>2. Outcomes /\ Going
    BY <1>2, Moves
  <2>3. record' = "cancelled" => fw' = "none"
    <3>1. CASE StepCancelled
      BY <3>1 DEF StepCancelled, driveless, drive, Erasing
    <3>2. CASE ~StepCancelled /\ record' = "cancelled"
      <4>1. record = "cancelled"
        BY <2>2, <3>2 DEF Outcomes, Finish, End
      <4>2. pc = "ended" /\ fw = "none"
        BY <4>1 DEF Control, Course, Ended, Keeping
      <4> QED
        BY <2>2, <4>2 DEF Outcomes, FirmwareFinishes
    <3> QED
      BY <3>1, <3>2
  <2>4. last_source'[1] # "data"
    BY <2>2, PassIsNew DEF Going, Keeping
  <2>5. ~job'.dry /\ (pc' \notin {"check", "ended"} \/ fw' = "running") => Allowed'
    <3> SUFFICES ASSUME ~job.dry, pc' \notin {"check", "ended"} \/ fw' = "running", ~Allowed
                 PROVE  FALSE
      BY <2>1
    <3>1. pc \in {"check", "ended"} /\ fw # "running"
      BY DEF Keeping
    <3>2. fw' # "running"
      BY <2>2, <3>1 DEF Outcomes
    <3>3. pc = "ended" => pc' = pc
      BY <2>2 DEF Outcomes, FirmwareFinishes
    <3> QED
      BY <2>2, <3>1, <3>2, <3>3 DEF Going
  <2> QED
    BY <1>2, <2>1, <2>3, <2>4, <2>5, DriveTakes DEF Keeping
<1> QED
  BY <1>1, <1>2

\* Success leaves nothing of what its record answers for, and no sanitize behind.
DriveAnswered ==
  /\ record \in {"complete", "cancelled"} => fw # "running"
  /\ record = "complete" => Kept \cap Answered = {}

LEMMA DriveAnswers ==
  Erasing /\ Keeping /\ ErasedWhenComplete /\ PurgeIsFirmware /\ HonestVerdict => DriveAnswered
<1> SUFFICES ASSUME Erasing, Keeping, ErasedWhenComplete, PurgeIsFirmware, HonestVerdict
             PROVE  DriveAnswered
  OBVIOUS
<1>1. record \in {"complete", "cancelled"} => fw # "running"
  BY DEF Erasing, Keeping
<1>2. ASSUME record = "complete", NEW u \in Kept, u \in Answered PROVE FALSE
  <2>1. /\ Completed /\ u \in 1..disk.units /\ media[u][1] = "data"
    BY <1>2 DEF Answered, Completed, Kept
  <2>2. CASE Sound /\ u \in 1..visible
    BY <2>1, <2>2 DEF ErasedWhenComplete, Keeping
  <2>3. CASE ~disk.lies /\ todo.category = "purge"
    BY <1>2, <2>1, <2>3 DEF PurgeIsFirmware, Keeping, AllPurged
  <2>4. CASE /\ verification.check = "pattern" /\ verification.passed = "yes"
             /\ u \in UNION {UnitsOf(o) : o \in verification.checked}
    <3>1. PICK o \in verification.checked : u \in UnitsOf(o)
      BY <2>4
    <3>2. media[u] = last_source
      BY <2>1, <2>4, <3>1 DEF HonestVerdict
    <3> QED
      BY <2>1, <3>2 DEF Keeping
  <2> QED
    BY <1>2, <2>1, <2>2, <2>3, <2>4 DEF Answered, Completed
<1> QED
  BY <1>1, <1>2 DEF DriveAnswered

\* A hardware wipe keeps the promise of an erasure: for any drives, jobs and hosts, with
\* every command failing and the process dying at any step.
THEOREM DriveKeepsPromiseHolds == Spec => DriveKeepsPromise
<1> DEFINE I == Control /\ Erasing /\ DryRuns /\ Keeping
<1>1. Init => I /\ DriveErasure!EInit
  BY ControlStarts, ErasingStarts, DryStarts, KeepingStarts DEF Init, Start, DriveErasure!EInit
<1>2. I /\ [Next]_vars => I'
  BY ControlStep, ErasingStep, DryStep, KeepingStep
<1>3. I /\ I' /\ DriveAnswered' /\ [Next]_vars => [DriveErasure!ENext]_(DriveErasure!erasureVars)
  <2>1. ASSUME UNCHANGED vars PROVE UNCHANGED DriveErasure!erasureVars
    BY <2>1 DEF vars, drive, progress, sampling, DriveErasure!erasureVars, Kept, Reach, Answered,
                Sound, UnitsOf, LengthAt, Least
  <2>2. ASSUME I, I', DriveAnswered', Next PROVE DriveErasure!ENext
    <3>1. UNCHANGED <<disk, job>> /\ Reach' = Reach
      BY <2>2, OnlyThese, HostKeeps DEF Control, Reach
    <3>2. DriveErasure!Takes
      <4>1. Kept \ Kept' \subseteq 1..disk.units
        BY DEF Kept
      <4> QED
        BY <2>2, <3>1, <4>1, DriveTakes DEF DriveErasure!Takes
    <3>3. Outcomes /\ record' \in {"none", "complete", "cancelled", "failed", "crashed"}
      BY <2>2, Moves DEF Control, TypeOK
    <3>4. CASE record = "none" /\ record' = "none"
      BY <3>2, <3>4 DEF DriveErasure!ENext, DriveErasure!Work
    <3>5. CASE record = "none" /\ record' # "none"
      <4>1. record' \in {"complete", "cancelled"} => Kept' = Kept /\ fw' # "running"
        <5>1. StepCancelled \/ Finish => UNCHANGED media
          BY DEF StepCancelled, Finish, driveless, drive
        <5>2. UNCHANGED media => Kept' = Kept
          BY <3>1 DEF Kept
        <5> QED
          BY <2>2, <3>3, <3>5, <5>1, <5>2 DEF Outcomes, DriveAnswered
      <4>2. DriveErasure!End(record')
        BY <2>2, <3>2, <3>5, <4>1 DEF DriveErasure!End, DriveAnswered
      <4> QED
        BY <3>3, <3>5, <4>2 DEF DriveErasure!ENext
    <3>6. CASE record # "none"
      <4>1. FirmwareFinishes
        BY <2>2, <3>3, <3>6 DEF Outcomes, Control, Course, Ended
      <4>2. /\ fw = "running" /\ fw' # "running"
            /\ UNCHANGED <<record, visible, job, todo, verification, size>>
        BY <4>1 DEF FirmwareFinishes, progress, sampling
      <4>3. record \in {"failed", "crashed"}
        BY <2>2, <3>6, <4>2 DEF Control, TypeOK, Erasing, Keeping
      <4>4. Answered' = Answered
        BY <3>1, <4>2 DEF Answered, Sound, UnitsOf, LengthAt, Least
      <4> QED
        BY <3>2, <4>2, <4>3, <4>4 DEF DriveErasure!ENext, DriveErasure!Late
    <3> QED
      BY <3>4, <3>5, <3>6
  <2> QED
    BY <2>1, <2>2
<1> QED
  BY <1>1, <1>2, <1>3, DriveAnswers, ErasedWhenCompleteHolds, PurgeIsFirmwareHolds,
     HonestVerdictHolds, PTL DEF Spec, DriveKeepsPromise, DriveErasure!ESpec

(***************************************************************************)
(* The instance that the model checker runs.  A job erases a drive, files  *)
(* or free space; the two it does not erase are over before they start.    *)
(***************************************************************************)

\* No job for a drive, or one that is over with no firmware at work: nothing moves but a
\* sanitize that goes on after its worker.
DriveOver == TypeOK /\ Ended /\ fw # "running"
DriveIInv == Control \/ DriveOver

LEMMA DriveOverStays == DriveOver /\ [Next]_vars => DriveOver'
<1> SUFFICES ASSUME DriveOver, [Next]_vars PROVE DriveOver'
  OBVIOUS
<1>1. CASE Next
  BY <1>1, Moves DEF DriveOver, Ended, Outcomes, FirmwareFinishes
<1>2. CASE UNCHANGED vars
  BY <1>2 DEF vars, drive, progress, sampling, keys, DriveOver, Ended, TypeOK
<1> QED
  BY <1>1, <1>2

LEMMA DriveStep == DriveIInv /\ [Next]_vars => DriveIInv'
BY ControlStep, DriveOverStays DEF DriveIInv

LEMMA NoneStart ==
  /\ NoDrive => DriveIInv
  /\ NoFiles => FileIInv
  /\ NoFill => FillIInv
<1>1. /\ Pick(Drives) \in Drives /\ Pick(Jobs) \in Jobs /\ Pick(Hosts) \in Hosts
      /\ Pick(Selections) \in Selections /\ Pick(Volumes) \in Volumes
  BY ErasureAssumption DEF Pick
<1>2. ASSUME NoDrive PROVE DriveIInv
  <2>1. TypeOK
    BY <1>1, <1>2, FreshType DEF NoDrive
  <2>2. pc = "ended" /\ fw = "none"
    BY <1>2 DEF NoDrive, Start
  <2> QED
    BY <2>1, <2>2 DEF DriveIInv, DriveOver, Ended
<1>3. ASSUME NoFiles PROVE FileIInv
  BY <1>1, <1>3, FilesStartAt DEF NoFiles
<1>4. ASSUME NoFill PROVE FillIInv
  BY <1>1, <1>4, FillStartsAt DEF NoFill
<1> QED
  BY <1>2, <1>3, <1>4

\* Whatever the job erases, and whatever fails meanwhile, each of the three ways keeps the
\* type of its state, the two that the job does not take too.
THEOREM ErasureTypeCorrect == MCSpec => []ErasureTypeOK
<1>1. MCInit => DriveIInv /\ FileIInv /\ FillIInv
  BY NoneStart, ControlStarts, FilesStart, FillStarts DEF MCInit, DriveIInv
<1>2. ASSUME DriveIInv, FileIInv, FillIInv, [MCNext]_<<vars, fvars, svars>>
      PROVE  DriveIInv' /\ FileIInv' /\ FillIInv'
  <2>1. [Next]_vars /\ [FNext]_fvars /\ [SNext]_svars
    BY <1>2, Zenon DEF MCNext
  <2> QED
    BY <1>2, <2>1, DriveStep, FilesStep, FillStep
<1>3. DriveIInv /\ FileIInv /\ FillIInv => ErasureTypeOK
  BY DEF DriveIInv, Control, DriveOver, FileIInv, FillIInv, ErasureTypeOK
<1> QED
  BY <1>1, <1>2, <1>3, PTL DEF MCSpec
==============================================================================

------------------------------ MODULE FilesProofs ------------------------------
(***************************************************************************)
(* Proofs about the two ways to erase that go through a file system: the   *)
(* files of a job (FileWipe) and the free space of a volume (SpaceFill).   *)
(***************************************************************************)
EXTENDS FileWipe, SpaceFill, FiniteSetTheorems, SequenceTheorems, TLAPS

(***************************************************************************)
(* What the operators of Planner and ReadBack do.                          *)
(***************************************************************************)

Patterns == {"zero", "ones", "random", "bytes"}

LEMMA ConstSeq ==
  ASSUME NEW p \in Patterns, NEW n \in Nat
  PROVE  Const(p, n) \in Seq(Patterns) /\ Len(Const(p, n)) = n
<1>1. PICK c : c = Const(p, n)
  OBVIOUS
<1>2. c \in [1..n -> Patterns]
  BY <1>1 DEF Const
<1>3. c \in Seq(Patterns) /\ DOMAIN c = 1..n
  BY <1>2
<1>4. Len(c) = n
  BY <1>3
<1> QED
  BY <1>1, <1>3, <1>4

LEMMA GutmannSeq == GUTMANN_PASSES \in Seq(Patterns) /\ Len(GUTMANN_PASSES) = 35
<1> DEFINE a == Const("random", 4)
           b == Const("bytes", 27)
<1>1. "random" \in Patterns /\ "bytes" \in Patterns /\ 4 \in Nat /\ 27 \in Nat
  BY DEF Patterns
<1>2. a \in Seq(Patterns) /\ Len(a) = 4 /\ b \in Seq(Patterns) /\ Len(b) = 27
  BY <1>1, ConstSeq
<1> HIDE DEF a, b
<1>3. (a \o b) \in Seq(Patterns) /\ Len(a \o b) = Len(a) + Len(b)
  BY <1>2, ConcatProperties, Zenon
<1>4. ((a \o b) \o a) \in Seq(Patterns) /\ Len((a \o b) \o a) = Len(a \o b) + Len(a)
  BY <1>2, <1>3, ConcatProperties, Zenon
<1>5. Len((a \o b) \o a) = 35
  BY <1>2, <1>3, <1>4
<1> QED
  BY <1>4, <1>5 DEF GUTMANN_PASSES, a, b

\* Every standard has a pass.
LEMMA PassesSeq ==
  ASSUME NEW s
  PROVE  passes_for(s) \in Seq(Patterns) /\ Len(passes_for(s)) \in Nat \ {0}
<1>1. NIST_PASSES \in Seq(Patterns) /\ Len(NIST_PASSES) = 1
  BY DEF NIST_PASSES, Patterns
<1>2. DOD_PASSES \in Seq(Patterns) /\ Len(DOD_PASSES) = 3
  BY DEF DOD_PASSES, Patterns
<1>3. passes_for(s) = NIST_PASSES \/ passes_for(s) = DOD_PASSES \/ passes_for(s) = GUTMANN_PASSES
  BY DEF passes_for
<1>4. 1 \in Nat \ {0} /\ 3 \in Nat \ {0} /\ 35 \in Nat \ {0}
  OBVIOUS
<1> QED
  BY <1>1, <1>2, <1>3, <1>4, GutmannSeq, Zenon

LEMMA DivBounds ==
  ASSUME NEW a \in Nat, NEW b \in Nat \ {0}
  PROVE  a \div b \in Nat /\ (a \div b) * b <= a /\ a < (a \div b) * b + b
  OBVIOUS

\* The last block is not empty, and ends with the medium.
LEMMA LastBlock ==
  ASSUME BLOCK \in Nat \ {0}, NEW size \in Nat \ {0}
  PROVE  /\ Blocks(size) \in Nat \ {0}
         /\ (Blocks(size) - 1) * BLOCK \in Nat
         /\ (Blocks(size) - 1) * BLOCK < size
         /\ size - (Blocks(size) - 1) * BLOCK <= BLOCK
<1> DEFINE n == (size + BLOCK - 1) \div BLOCK
<1>1. n \in Nat /\ n * BLOCK <= size + BLOCK - 1 /\ size + BLOCK - 1 < n * BLOCK + BLOCK
  BY DivBounds
<1> HIDE DEF n
<1>2. n # 0 /\ n * BLOCK \in Nat /\ (n - 1) * BLOCK = n * BLOCK - BLOCK
  BY <1>1
<1> QED
  BY <1>1, <1>2 DEF Blocks, n

BlockHolds(m, size, o, c) == \A i \in 1..LengthAt(size, o) : m[o + i] = c

\* A verdict that is not "no": every unit of every block that was read holds the pass.
LEMMA ReadsBack ==
  ASSUME NEW m, NEW end, NEW size \in Nat, NEW blocks, NEW c, NEW direct,
         check_pattern(m, end, size, blocks, c, direct).passed # "no"
  PROVE  \A o \in blocks : BlockHolds(m, size, o, c)
<1> SUFFICES ASSUME NEW o \in blocks, NEW i \in 1..LengthAt(size, o) PROVE m[o + i] = c
  BY DEF BlockHolds
<1> DEFINE Expected(n) == [j \in 1..n |-> c]
           bad == {x \in blocks :
                     Read(m, end, x, LengthAt(size, x), direct) # Expected(LengthAt(size, x))}
<1>1. check_pattern(m, end, size, blocks, c, direct)
        = Verdict("pattern", blocks, IF bad = {} /\ blocks # {} THEN "yes" ELSE "no")
  BY DEF check_pattern
<1>2. bad = {}
  <2> HIDE DEF bad
  <2> QED
    BY <1>1 DEF Verdict
<1>3. Read(m, end, o, LengthAt(size, o), direct) = Expected(LengthAt(size, o))
  BY <1>2
<1>4. PICK r : r = Read(m, end, o, LengthAt(size, o), direct)
  OBVIOUS
<1>5. i \in DOMAIN r /\ r[i] = c
  BY <1>3, <1>4
<1> QED
  BY <1>4, <1>5 DEF Read

\* The blocks of a sample, and those of the full mode, have the first unit and the last.
LEMMA EndsReadBack ==
  ASSUME BLOCK \in Nat \ {0}, NEW size \in Nat \ {0}, NEW m, NEW end, NEW c, NEW direct,
         NEW count, NEW blocks \in sample_offsets(size, count) \cup {AllOffsets(size)},
         check_pattern(m, end, size, blocks, c, direct).passed # "no"
  PROVE  m[1] = c /\ m[size] = c
<1> DEFINE n == Blocks(size)
           o == (n - 1) * BLOCK
<1>1. n \in Nat \ {0} /\ o \in Nat /\ o < size /\ size - o <= BLOCK
  BY LastBlock
<1>2. \E p : {0, n - 1} \subseteq p /\ blocks = Offsets(p)
  <2>1. CASE blocks = AllOffsets(size)
    <3>1. {0, n - 1} \subseteq 0..(n - 1) /\ blocks = Offsets(0..(n - 1))
      BY <1>1, <2>1 DEF AllOffsets
    <3> QED
      BY <3>1
  <2>2. CASE blocks \in sample_offsets(size, count)
    BY <2>2, Zenon DEF sample_offsets
  <2> QED
    BY <2>1, <2>2
<1>3. 0 * BLOCK \in blocks /\ o \in blocks
  BY <1>2 DEF Offsets
<1> HIDE DEF n, o
<1>4. 0 \in blocks /\ 1 \in 1..LengthAt(size, 0) /\ size - o \in 1..LengthAt(size, o)
  BY <1>1, <1>3 DEF LengthAt, Least
<1>5. \A b \in blocks : BlockHolds(m, size, b, c)
  BY ReadsBack
<1>6. m[0 + 1] = c /\ m[o + (size - o)] = c
  BY <1>3, <1>4, <1>5 DEF BlockHolds
<1> QED
  BY <1>1, <1>6

(***************************************************************************)
(* The free-space fill.  A block that is in wipe.tmp no longer holds what  *)
(* was deleted, so it does not matter when, or whether, the file goes;     *)
(* what is recoverable shrinks until a pass measures that the volume is    *)
(* full, and from then on it is within the reserve.  wipe.tmp itself holds *)
(* no block before the fill, nor after it unless the last removal failed   *)
(* or the process died.                                                    *)
(***************************************************************************)

MeasuredFull == fillPass > 1 \/ fstage \in {"flush", "remove"}

FillIInv ==
  /\ FillTypeOK
  /\ fstage # "ended" => fillPass <= FillPasses
  /\ fdone = "complete" => fillPass > 1
  /\ old \cap Holding("temp") = {}
  /\ fstage \in {"locate", "usage"} => Holding("temp") = {}
  /\ fstage = "ended" => Holding("temp") = {} \/ kept \/ fdone = "crashed"
  /\ MeasuredFull /\ ~cutShort => Cardinality(Recoverable) <= RESERVE

\* The bound survives a step that makes nothing recoverable.
LEMMA RecoverableShrinks ==
  ASSUME FillIInv, Recoverable' \subseteq Recoverable, MeasuredFull' => MeasuredFull,
         cutShort' = cutShort
  PROVE  MeasuredFull' /\ ~cutShort' => Cardinality(Recoverable') <= RESERVE
<1>1. IsFiniteSet(Recoverable)
  <2>1. Recoverable \subseteq Volume
    BY DEF Recoverable, FillIInv, FillTypeOK
  <2> QED
    BY <2>1, FillAssumption, FS_Subset
<1>2. /\ Cardinality(Recoverable) \in Nat /\ Cardinality(Recoverable') \in Nat
      /\ Cardinality(Recoverable') <= Cardinality(Recoverable)
  BY <1>1, FS_Subset, FS_CardinalityType
<1> QED
  BY <1>2, FillAssumption DEF FillIInv

\* A fill starts, or there is none to do: the job is over from the start.
LEMMA FillStartsAt ==
  ASSUME NEW v \in Volumes, NEW label \in {"locate", "ended"}, SStart(v, label)
  PROVE  FillIInv
<1>1. use \in [Volume -> {"free", "other"}] /\ Holding("temp") = {}
  BY DEF SStart, Holding
<1>2. FillTypeOK
  <2>1. use \in [Volume -> {"free", "other", "temp"}]
    BY DEF SStart
  <2>2. kept \in BOOLEAN /\ cutShort \in BOOLEAN
    BY DEF SStart
  <2>3. fillPass \in 1..(FillPasses + 1) /\ changes \in 0..MaxChanges
    BY FillAssumption DEF SStart
  <2>4. vol \in Volumes /\ old \subseteq Volume /\ late \subseteq Volume
    BY DEF SStart
  <2>5. fstage = label /\ fdone = "none"
    BY DEF SStart
  <2> QED
    BY <2>1, <2>2, <2>3, <2>4, <2>5 DEF FillTypeOK
<1> QED
  BY <1>1, <1>2, FillAssumption DEF SStart, FillIInv, MeasuredFull

LEMMA FillStarts == SInit => FillIInv
BY FillStartsAt DEF SInit

\* A write takes free blocks for wipe.tmp, and what they held is gone.
LEMMA FillMeasures ==
  ASSUME FillIInv, Fill
  PROVE  FillIInv'
<1>1. CASE ToWrite = 0
  <2>1. /\ fstage = "measure" /\ fstage' = "flush" /\ late' = {}
        /\ UNCHANGED <<vol, use, old, fillPass, fdone, kept, cutShort, changes>>
    BY <1>1 DEF Fill, FillTo
  <2>2. IsFiniteSet(Holding("free")) /\ Free \in Nat
    <3>1. Holding("free") \subseteq Volume
      BY DEF Holding
    <3> QED
      BY <3>1, FillAssumption, FS_Subset, FS_CardinalityType DEF Free
  <2>3. Free <= RESERVE
    BY <1>1, <2>2, FillAssumption DEF ToWrite
  <2>4. Recoverable' \subseteq Holding("free")
    BY <2>1 DEF Recoverable, Holding, FillIInv, FillTypeOK
  <2>5. Cardinality(Recoverable') \in Nat /\ Cardinality(Recoverable') <= Free
    BY <2>2, <2>4, FS_Subset, FS_CardinalityType DEF Free
  <2>6. Cardinality(Recoverable') <= RESERVE
    BY <2>2, <2>3, <2>5, FillAssumption
  <2> QED
    BY <2>1, <2>6 DEF FillIInv, FillTypeOK, MeasuredFull, Holding
<1>2. CASE ToWrite # 0
  <2>1. PICK bs \in SUBSET Holding("free") :
          /\ use' = [b \in Volume |-> IF b \in bs THEN "temp" ELSE use[b]]
          /\ old' = old \ bs
          /\ fstage = "measure"
          /\ UNCHANGED <<vol, late, fillPass, fstage, fdone, kept, cutShort, changes>>
    BY <1>2 DEF Fill
  <2>2. Recoverable' \subseteq Recoverable
    BY <2>1 DEF Recoverable, Holding, FillIInv, FillTypeOK
  <2>3. FillTypeOK' /\ (old \cap Holding("temp") = {})'
    BY <2>1 DEF FillIInv, FillTypeOK, Holding
  <2>4. MeasuredFull' => MeasuredFull
    BY <2>1 DEF MeasuredFull
  <2> QED
    BY <2>1, <2>2, <2>3, <2>4, RecoverableShrinks DEF FillIInv
<1> QED
  BY <1>1, <1>2

\* wipe.tmp without its blocks: they hold a pattern, so nothing becomes recoverable.
LEMMA TempEmptied ==
  ASSUME FillIInv, use' = Emptied, UNCHANGED <<old, late>>
  PROVE  /\ use' \in [Volume -> {"free", "other", "temp"}]
         /\ Holding("temp")' = {} /\ Recoverable' \subseteq Recoverable
<1>1. \A b \in Volume : use'[b] = IF use[b] = "temp" THEN "free" ELSE use[b]
  BY DEF Emptied
<1> QED
  BY <1>1 DEF Emptied, FillIInv, FillTypeOK, Recoverable, Holding

LEMMA TempOpened ==
  ASSUME FillIInv, OpenTemp
  PROVE  FillIInv'
<1>1. /\ fstage = "open" /\ fstage' = "measure" /\ use' = Emptied
      /\ UNCHANGED <<vol, old, late, fillPass, fdone, kept, cutShort, changes>>
  BY DEF OpenTemp, FillTo
<1>2. MeasuredFull' => MeasuredFull
  BY <1>1 DEF MeasuredFull
<1> QED
  BY <1>1, <1>2, TempEmptied, RecoverableShrinks DEF FillIInv, FillTypeOK

\* The removal of wipe.tmp, whether or not it succeeds.
LEMMA TempRemoved ==
  ASSUME FillIInv, RemoveTemp
  PROVE  FillIInv'
<1>1. /\ fstage \in {"remove", "fail"} /\ UNCHANGED <<vol, old, late, cutShort>>
      /\ \/ use' = Emptied /\ kept' = FALSE /\ changes' = changes
         \/ kept' = TRUE /\ use' = use /\ changes < MaxChanges /\ changes' = changes + 1
  BY DEF RemoveTemp, Change
<1>2. /\ use' \in [Volume -> {"free", "other", "temp"}] /\ kept' \in BOOLEAN
      /\ changes' \in 0..MaxChanges
      /\ Holding("temp")' = {} \/ kept'
      /\ (old \cap Holding("temp"))' = {} /\ Recoverable' \subseteq Recoverable
  <2>1. CASE use' = Emptied /\ kept' = FALSE /\ changes' = changes
    BY <1>1, <2>1, TempEmptied DEF FillIInv, FillTypeOK
  <2>2. CASE kept' = TRUE /\ use' = use /\ changes < MaxChanges /\ changes' = changes + 1
    BY <1>1, <2>2, FillAssumption DEF FillIInv, FillTypeOK, Recoverable, Holding
  <2> QED
    BY <1>1, <2>1, <2>2
<1>3. \/ fstage = "fail" /\ fstage' = "ended" /\ fdone' = "failed" /\ fillPass' = fillPass
      \/ /\ fstage = "remove" /\ fillPass = FillPasses /\ fillPass' = fillPass + 1
         /\ fstage' = "ended" /\ fdone' = "complete"
      \/ /\ fstage = "remove" /\ fillPass # FillPasses /\ fillPass' = fillPass + 1
         /\ fstage' = "open" /\ fdone' = fdone
  BY <1>1 DEF RemoveTemp, FillEnd, FillTo
<1>4. fillPass \in Nat \ {0} /\ fillPass <= FillPasses
  BY <1>1, FillAssumption DEF FillIInv, FillTypeOK
<1>5. MeasuredFull' => MeasuredFull
  BY <1>1, <1>3, <1>4 DEF MeasuredFull
<1>6. FillTypeOK'
  BY <1>1, <1>2, <1>3, <1>4, FillAssumption DEF FillIInv, FillTypeOK
<1>7. /\ fstage' # "ended" => fillPass' <= FillPasses
      /\ fdone' = "complete" => fillPass' > 1
  BY <1>1, <1>3, <1>4, FillAssumption DEF FillIInv
<1> QED
  BY <1>1, <1>2, <1>3, <1>5, <1>6, <1>7, RecoverableShrinks DEF FillIInv

\* What other programs do to a block makes nothing recoverable but what they gave back
\* since the last measure.
LEMMA OthersShare ==
  ASSUME FillIInv, Others
  PROVE  FillIInv'
<1>1. PICK b \in Volume : OthersWrite(b) \/ OthersDelete(b)
  BY DEF Others
<1>2. /\ fstage # "ended" /\ changes' \in 0..MaxChanges
      /\ UNCHANGED <<vol, fillPass, fstage, fdone, kept, cutShort>>
  BY <1>1, FillAssumption DEF OthersWrite, OthersDelete, Change, FillIInv, FillTypeOK
<1>3. \/ use[b] = "free" /\ use' = [use EXCEPT ![b] = "other"] /\ old' = old \cup {b} /\ late' = late
      \/ use[b] = "other" /\ use' = [use EXCEPT ![b] = "free"] /\ old' = old /\ late' = late \cup {b}
  BY <1>1 DEF OthersWrite, OthersDelete
<1>4. /\ FillTypeOK' /\ Holding("temp")' = Holding("temp")
      /\ old' \cap Holding("temp") = {} /\ Recoverable' \subseteq Recoverable
  BY <1>2, <1>3 DEF FillIInv, FillTypeOK, Recoverable, Holding
<1>5. MeasuredFull' => MeasuredFull
  BY <1>2 DEF MeasuredFull
<1> QED
  BY <1>2, <1>4, <1>5, RecoverableShrinks DEF FillIInv

\* The steps that touch no block.
LEMMA FillWalks ==
  ASSUME FillIInv, Locate \/ Baseline \/ Flush \/ FillFails \/ FillCrash
  PROVE  FillIInv'
<1>1. /\ UNCHANGED <<vol, use, old, late, fillPass, kept, cutShort>>
      /\ changes' \in 0..MaxChanges
  BY FillAssumption DEF FillIInv, FillTypeOK, Locate, Baseline, Flush, FillFails, FillCrash, Change
<1>2. \/ fstage \in {"locate", "usage"} /\ fstage' = "ended" /\ fdone' = "failed"
      \/ fstage # "ended" /\ fstage' = "ended" /\ fdone' = "crashed"
      \/ fstage = "locate" /\ fstage' = "usage" /\ fdone' = fdone
      \/ fstage = "usage" /\ fstage' = "open" /\ fdone' = fdone
      \/ fstage = "flush" /\ fstage' = "remove" /\ fdone' = fdone
      \/ fstage \in {"open", "measure", "flush"} /\ fstage' = "fail" /\ fdone' = fdone
  BY DEF Locate, Baseline, Flush, FillFails, FillCrash, FillTo, FillEnd
<1>3. MeasuredFull' => MeasuredFull
  BY <1>1, <1>2 DEF MeasuredFull
<1>4. Recoverable' \subseteq Recoverable /\ Holding("temp")' = Holding("temp")
  BY <1>1 DEF Recoverable, Holding
<1> QED
  BY <1>1, <1>2, <1>3, <1>4, RecoverableShrinks DEF FillIInv, FillTypeOK

LEMMA FillStep == FillIInv /\ [SNext]_svars => FillIInv'
<1> SUFFICES ASSUME FillIInv, [SNext]_svars PROVE FillIInv'
  OBVIOUS
<1>1. CASE CutShort
  BY <1>1, FillAssumption DEF CutShort, Change, FillTo, FillIInv, FillTypeOK, Holding
<1>2. CASE UNCHANGED svars
  BY <1>2 DEF svars, FillIInv, FillTypeOK, MeasuredFull, Recoverable, Holding
<1> QED
  BY <1>1, <1>2, FillMeasures, TempOpened, TempRemoved, OthersShare, FillWalks DEF SNext, Filler

\* The types of the fill, for volumes of any size.
THEOREM FillTypeCorrect == FillSpec => []FillTypeOK
<1>1. FillIInv => FillTypeOK
  BY DEF FillIInv
<1> QED
  BY <1>1, FillStarts, FillStep, PTL DEF FillSpec

\* Whatever the size of the volume, the chunks, the reserve and the standard, and
\* whatever other programs do meanwhile, a complete fill leaves no more than the reserve,
\* removals that fail or not; and wipe.tmp stays only after a last removal that failed or a
\* crash.
THEOREM FilledWhenCompleteHolds == FillSpec => []FilledWhenComplete
<1>1. FillIInv => FilledWhenComplete
  BY DEF FillIInv, FilledWhenComplete, MeasuredFull
<1> QED
  BY <1>1, FillStarts, FillStep, PTL DEF FillSpec

-----------------------------------------------------------------------------
(***************************************************************************)
(* The files of a job.  A file is left alone until it is the current one;  *)
(* it is overwritten while it still has its name; the read-back parts the  *)
(* two, and only a file that passed it, or was empty, loses its name.      *)
(***************************************************************************)

Destroying == {"rename", "truncate", "remove"}
Busy == {"open", "write", "verify"} \cup Destroying

Wanted(f) == \E p \in selection.paths : p.inside /\ [file |-> f, link |-> FALSE] \in p.entries

\* The units that take a write hold what pass i writes, as far as n.
Written(f, i, n) == \A u \in 1..n : u \notin FileStuck[f] => content[f][u] = Source(i)

Overwritten(f) ==
  \A u \in 1..FileUnits[f] :
    u \notin FileStuck[f] \/ u \in {1, FileUnits[f]} => content[f][u] = Source(Len(Passes))

ContentTyped ==
  /\ DOMAIN content = Files /\ \A f \in Files : DOMAIN content[f] = 1..FileUnits[f]
  /\ \A f \in listed : Wanted(f)

AtFile ==
  stage \in Busy =>
    /\ cur \in listed \ left /\ ~selection.dry /\ pass \in 1..Len(Passes)
    /\ stage \notin Destroying =>
         FileUnits[cur] # 0 /\ cur \notin readBack /\ Written(cur, pass, at)
    /\ stage = "verify" => at = FileUnits[cur] /\ pass = Len(Passes)
    /\ stage \in Destroying => cur \in readBack \/ FileUnits[cur] = 0

Spared ==
  \A f \in Files : f \in left \/ f \notin listed \/ selection.dry => content[f] = Original(f)

Destroyed ==
  /\ readBack \cap left = {} /\ \A f \in readBack : Overwritten(f)
  /\ \A f \in Files : name[f] # "own" /\ f \notin vanished =>
       /\ f \in listed \ left /\ ~selection.dry
       /\ f \in readBack \/ FileUnits[f] = 0

Gone ==
  /\ skipped \subseteq vanished
  /\ ~selection.dry =>
       \A f \in listed \ left :
         name[f] = "gone" \/ (f = cur /\ stage # "next" /\ outcome # "complete")
  /\ outcome = "complete" => stage = "ended" /\ left = {}
  /\ stage = "list" => listed = {}

FileIInv == FTypeOK /\ ContentTyped /\ AtFile /\ Spared /\ Destroyed /\ Gone

LEMMA PassesCount == Passes \in Seq(Patterns) /\ Len(Passes) \in Nat \ {0}
<1>1. NIST_PASSES \in Seq(Patterns) /\ Len(NIST_PASSES) = 1
  BY DEF NIST_PASSES, Patterns
<1>2. 1 \in Nat \ {0}
  OBVIOUS
<1> QED
  BY <1>1, <1>2, PassesSeq, Zenon DEF Passes

\* A file job starts, or there is none to do.
LEMMA FilesStartAt ==
  ASSUME NEW s \in Selections, NEW label \in {"list", "ended"}, FStart(s, label)
  PROVE  FileIInv
<1>1. FTypeOK
  BY PassesCount, FileAssumption DEF FStart, FTypeOK, Files
<1>2. ContentTyped /\ Spared
  BY DEF FStart, ContentTyped, Spared, Original
<1>3. AtFile /\ Destroyed /\ Gone
  BY DEF FStart, AtFile, Destroyed, Gone, Busy, Destroying
<1> QED
  BY <1>1, <1>2, <1>3 DEF FileIInv

LEMMA FilesStart == FInit => FileIInv
BY FilesStartAt DEF FInit

\* The files of the paths are files that the job asked for.
LEMMA FilesListed ==
  ASSUME FileIInv, List
  PROVE  FileIInv'
<1>1. /\ stage = "list" /\ listed = {} /\ left = {} /\ left' = listed'
      /\ stage' \in {"next", "ended"} /\ outcome' \in {outcome, "failed"}
      /\ UNCHANGED <<selection, cur, pass, at, content, name, skipped, readBack, stop, vanished>>
  BY DEF List, FileIInv, FTypeOK, Gone, FileEnd, To
<1>2. selection \in Selections
  BY DEF FileIInv, FTypeOK
<1>3. \A f \in listed' : f \in Files /\ Wanted(f)
  <2> SUFFICES ASSUME NEW f \in listed' PROVE f \in Files /\ Wanted(f)
    OBVIOUS
  <2>1. /\ \A p \in selection.paths : check_path(p)
        /\ f \in expand(selection.paths)
    BY DEF List
  <2>a. PICK e \in UNION {p.entries : p \in selection.paths} : ~e.link /\ f = e.file
    BY <2>1 DEF expand
  <2>2. PICK p \in selection.paths : e \in p.entries
    BY <2>a
  <2>3. e \in [file : Files, link : BOOLEAN]
    BY <1>2, <2>2, FileAssumption DEF Files
  <2>4. e = [file |-> f, link |-> FALSE]
    BY <2>a, <2>3
  <2> QED
    BY <2>a, <2>1, <2>2, <2>3, <2>4 DEF Wanted, check_path
<1>4. FTypeOK' /\ ContentTyped'
  BY <1>1, <1>3 DEF FileIInv, FTypeOK, ContentTyped, Wanted, Passes
<1>5. AtFile' /\ Spared' /\ Destroyed' /\ Gone'
  BY <1>1
     DEF FileIInv, FTypeOK, AtFile, Spared, Original, Destroyed, Overwritten, Gone, Busy,
         Destroying, Source, Passes
<1> QED
  BY <1>4, <1>5 DEF FileIInv

\* A file becomes the current one, unless it is gone or the run is dry.
LEMMA FileTaken ==
  ASSUME FileIInv, NextFile
  PROVE  FileIInv'
<1>1. PICK f \in left :
        /\ left' = left \ {f}
        /\ IF name[f] = "gone" \/ selection.dry
           THEN /\ skipped' = IF name[f] = "gone" THEN skipped \cup {f} ELSE skipped
                /\ stage' = "next" /\ UNCHANGED <<cur, pass, at, outcome>>
           ELSE /\ cur' = f /\ pass' = 1 /\ at' = 0 /\ outcome' = outcome
                /\ stage' = IF FileUnits[f] = 0 THEN "rename" ELSE "open"
                /\ UNCHANGED skipped
  BY DEF NextFile, To
<1>2. /\ stage = "next" /\ f \in Files /\ f \in listed /\ f \notin readBack /\ FileUnits[f] \in Nat
      /\ UNCHANGED <<selection, listed, content, name, readBack, stop, vanished, fileFaults>>
  BY <1>1, FileAssumption DEF NextFile, FileIInv, FTypeOK, Destroyed, Files
<1>3. name[f] = "own" \/ f \in vanished
  BY <1>1, <1>2 DEF FileIInv, Destroyed
<1>4. FTypeOK' /\ ContentTyped'
  BY <1>1, <1>2, PassesCount DEF FileIInv, FTypeOK, ContentTyped, Wanted, Passes
<1>5. AtFile'
  BY <1>1, <1>2, PassesCount DEF AtFile, Written, Busy, Destroying, Passes
<1>6. Spared' /\ Destroyed'
  BY <1>1, <1>2 DEF FileIInv, Spared, Original, Destroyed, Overwritten, Source, Passes
<1>7. Gone'
  BY <1>1, <1>2, <1>3 DEF FileIInv, Gone
<1> QED
  BY <1>4, <1>5, <1>6, <1>7 DEF FileIInv

\* A chunk of a pass; the units that take a write hold it then.
LEMMA ChunkWritten ==
  ASSUME FileIInv, WriteFile
  PROVE  FileIInv'
<1> DEFINE size == FileUnits[cur]
           more == Least(CHUNK, size - at)
           units == ChunkAfter(at, size) \ FileStuck[cur]
<1>1. /\ stage = "write" /\ at < size
      /\ content' = [content EXCEPT ![cur] = Filled(content[cur], units, Source(pass))]
      /\ at' = at + more
      /\ UNCHANGED <<selection, listed, left, cur, pass, name, skipped, readBack, stage, outcome,
                     stop, vanished>>
  BY DEF WriteFile
<1>2. /\ cur \in listed \ left /\ cur \in Files /\ cur # 0 /\ cur \notin readBack /\ ~selection.dry
      /\ size \in Nat /\ at \in 0..size /\ Written(cur, pass, at)
  BY <1>1, FileAssumption DEF FileIInv, FTypeOK, AtFile, Busy, Destroying, Files
<1>3. more \in Nat /\ at + more <= size /\ ChunkAfter(at, size) = (at + 1)..(at + more)
  BY <1>1, <1>2, FileAssumption DEF Least, ChunkAfter
<1> HIDE DEF size, more, units
<1>4. /\ DOMAIN content' = Files /\ \A f \in Files : f # cur => content'[f] = content[f]
      /\ content'[cur] = [u \in 1..size |-> IF u \in units THEN Source(pass) ELSE content[cur][u]]
  BY <1>1, <1>2 DEF FileIInv, ContentTyped, Filled, size
<1>5. Written(cur, pass, at)'
  <2> SUFFICES ASSUME NEW u \in 1..(at + more), u \notin FileStuck[cur]
               PROVE  content'[cur][u] = Source(pass)
    BY <1>1 DEF Written, Source, Passes
  <2>1. u \in 1..size
    BY <1>2, <1>3
  <2>2. CASE u \in 1..at
    BY <1>2, <1>4, <2>1, <2>2 DEF Written
  <2>3. CASE u \notin 1..at
    <3>1. u \in units
      BY <1>2, <1>3, <2>3 DEF units
    <3> QED
      BY <1>4, <2>1, <3>1
  <2> QED
    BY <2>2, <2>3
<1>6. FTypeOK' /\ ContentTyped'
  BY <1>1, <1>2, <1>3, <1>4 DEF FileIInv, FTypeOK, ContentTyped, Wanted, Passes, size
<1>7. AtFile'
  BY <1>1, <1>2, <1>5 DEF FileIInv, AtFile, Busy, Destroying, Passes
<1>8. Spared' /\ Destroyed' /\ Gone'
  <2>1. \A f \in readBack : Overwritten(f)'
    BY <1>1, <1>2, <1>4 DEF FileIInv, FTypeOK, Destroyed, Overwritten, Source, Passes
  <2> QED
    BY <1>1, <1>2, <1>4, <2>1 DEF FileIInv, Spared, Original, Destroyed, Gone
<1> QED
  BY <1>6, <1>7, <1>8 DEF FileIInv

\* The read-back: the units that lose their writes are seen at both ends.
LEMMA FileVerified ==
  ASSUME FileIInv, VerifyFile
  PROVE  FileIInv'
<1> DEFINE size == FileUnits[cur]
           want == Source(Len(Passes))
<1>1. /\ stage = "verify"
      /\ UNCHANGED <<selection, listed, left, cur, pass, at, content, name, skipped, stop, vanished>>
  BY DEF VerifyFile
<1>2. /\ cur \in listed \ left /\ cur \in Files /\ size \in Nat \ {0} /\ at = size
      /\ pass = Len(Passes) /\ Written(cur, pass, at)
  BY <1>1, FileAssumption DEF FileIInv, FTypeOK, AtFile, Busy, Destroying, Files
<1>3. \/ stage' = "ended" /\ outcome' = "failed" /\ readBack' = readBack
      \/ /\ stage' = "rename" /\ outcome' = outcome /\ readBack' = readBack \cup {cur}
         /\ \E direct \in BOOLEAN,
               blocks \in sample_offsets(size, FileCount) \cup {AllOffsets(size)} :
              check_pattern(content[cur], size, size, blocks, want, direct).passed # "no"
  BY DEF VerifyFile, FileEnd, To
<1>4. CASE stage' = "ended" /\ outcome' = "failed" /\ readBack' = readBack
  BY <1>1, <1>4 DEF FileIInv, FTypeOK, ContentTyped, Wanted, AtFile, Spared, Original, Destroyed,
                    Overwritten, Gone, Busy, Destroying, Source, Passes
<1>5. CASE stage' = "rename"
  <2>1. readBack' = readBack \cup {cur} /\ outcome' = outcome
    BY <1>3, <1>5
  <2> HIDE DEF size, want
  <2>2. PICK direct \in BOOLEAN, blocks \in sample_offsets(size, FileCount) \cup {AllOffsets(size)} :
          check_pattern(content[cur], size, size, blocks, want, direct).passed # "no"
    BY <1>3, <1>5
  <2>3. content[cur][1] = want /\ content[cur][size] = want
    BY <1>2, <2>2, EndsReadBack, FileAssumption
  <2>4. Overwritten(cur)
    BY <1>2, <2>3 DEF Overwritten, Written, size, want
  <2>5. \A f \in readBack' : Overwritten(f)'
    BY <1>1, <2>1, <2>4 DEF FileIInv, Destroyed, Overwritten, Source, Passes
  <2>6. FTypeOK' /\ ContentTyped'
    BY <1>1, <1>2, <1>5, <2>1 DEF FileIInv, FTypeOK, ContentTyped, Wanted, Passes
  <2>7. AtFile'
    BY <1>1, <1>2, <1>5, <2>1 DEF FileIInv, AtFile, Busy, Destroying, Passes
  <2>8. Spared' /\ Destroyed' /\ Gone'
    BY <1>1, <1>2, <1>5, <2>1, <2>5 DEF FileIInv, Spared, Original, Destroyed, Gone
  <2> QED
    BY <2>6, <2>7, <2>8 DEF FileIInv
<1> QED
  BY <1>3, <1>4, <1>5

\* The steps that change no file.
LEMMA FilesWalk ==
  ASSUME FileIInv, OpenFile \/ EndPass \/ TruncateFile \/ FileFails \/ FileCancelled \/ FinishFiles
                   \/ StopFiles
  PROVE  FileIInv'
<1>1. /\ UNCHANGED <<selection, listed, left, cur, content, name, skipped, readBack, vanished>>
      /\ stage # "list" \/ stage' = "list"
  BY DEF OpenFile, EndPass, TruncateFile, FileFails, FileCancelled, FinishFiles, StopFiles,
         To, FileEnd
<1>2. \/ /\ stage' = "ended" /\ outcome' \in {"failed", "cancelled"}
         /\ UNCHANGED <<pass, at>>
      \/ /\ stage = "next" /\ left = {} /\ stage' = "ended" /\ outcome' = "complete"
         /\ UNCHANGED <<pass, at>>
      \/ stage = "open" /\ stage' = "write" /\ UNCHANGED <<outcome, pass, at>>
      \/ /\ stage = "write" /\ at = FileUnits[cur] /\ pass < Len(Passes)
         /\ stage' = "open" /\ pass' = pass + 1 /\ at' = 0 /\ UNCHANGED outcome
      \/ /\ stage = "write" /\ at = FileUnits[cur] /\ ~(pass < Len(Passes))
         /\ stage' = "verify" /\ UNCHANGED <<outcome, pass, at>>
      \/ stage = "truncate" /\ stage' = "remove" /\ UNCHANGED <<outcome, pass, at>>
      \/ UNCHANGED <<stage, outcome, pass, at>>
  BY DEF OpenFile, EndPass, TruncateFile, FileFails, FileCancelled, FinishFiles, StopFiles,
         To, FileEnd
<1>3. ContentTyped' /\ Spared'
  BY <1>1 DEF FileIInv, ContentTyped, Wanted, Spared, Original
<1>4. Destroyed'
  BY <1>1 DEF FileIInv, Destroyed, Overwritten, Source, Passes
<1>5. Gone'
  BY <1>1, <1>2 DEF FileIInv, Gone
<1>6. Passes' = Passes /\ Len(Passes) \in Nat
  BY <1>1, PassesCount DEF Passes
<1>7. FTypeOK'
  BY <1>1, <1>2, <1>6, FileAssumption DEF FileIInv, FTypeOK, Files
<1>8. AtFile'
  BY <1>1, <1>2, <1>6 DEF FileIInv, FTypeOK, AtFile, Written, Busy, Destroying, Source
<1> QED
  BY <1>3, <1>4, <1>5, <1>7, <1>8 DEF FileIInv

\* Names are given up by the job, for the current file, or by another program.
LEMMA NamesGo ==
  ASSUME FileIInv, RenameFile \/ RemoveFile \/ \E f \in Files : Vanishes(f)
  PROVE  FileIInv'
<1>1. /\ UNCHANGED <<selection, listed, left, cur, pass, at, content, skipped, readBack>>
      /\ Passes' = Passes
  BY DEF RenameFile, RemoveFile, Vanishes, Passes
<1>2. ContentTyped' /\ Spared'
  BY <1>1 DEF FileIInv, ContentTyped, Wanted, Spared, Original
<1>3. \A f \in readBack : Overwritten(f) <=> Overwritten(f)'
  BY <1>1 DEF Overwritten, Source
<1>4. CASE \E f \in Files : Vanishes(f)
  <2>1. PICK f \in Files : /\ stage # "ended" /\ name[f] = "own"
                           /\ name' = [name EXCEPT ![f] = "gone"] /\ vanished' = vanished \cup {f}
                           /\ UNCHANGED <<stage, outcome>>
    BY <1>4 DEF Vanishes
  <2>2. FTypeOK' /\ AtFile'
    BY <1>1, <2>1 DEF FileIInv, FTypeOK, AtFile, Written, Busy, Destroying, Source
  <2>3. Destroyed' /\ Gone'
    BY <1>1, <1>3, <2>1 DEF FileIInv, FTypeOK, Destroyed, Gone
  <2> QED
    BY <1>2, <2>2, <2>3 DEF FileIInv
<1>5. CASE RenameFile \/ RemoveFile
  <2>1. /\ stage \in Destroying /\ UNCHANGED vanished
        /\ \/ stage' = "ended" /\ outcome' = "failed" /\ UNCHANGED name
           \/ /\ stage' = "truncate" /\ outcome' = outcome /\ name[cur] # "gone"
              /\ name' = [name EXCEPT ![cur] = "random"]
           \/ /\ stage' = "next" /\ outcome' = outcome
              /\ name' = [name EXCEPT ![cur] = "gone"]
    BY <1>5 DEF RenameFile, RemoveFile, To, FileEnd, Destroying
  <2>2. /\ cur \in listed \ left /\ cur \in Files /\ ~selection.dry
        /\ cur \in readBack \/ FileUnits[cur] = 0
    BY <2>1 DEF FileIInv, FTypeOK, AtFile, Busy
  <2>3. FTypeOK' /\ AtFile'
    BY <1>1, <2>1, <2>2 DEF FileIInv, FTypeOK, AtFile, Busy, Destroying
  <2>4. Destroyed' /\ Gone'
    BY <1>1, <1>3, <2>1, <2>2 DEF FileIInv, FTypeOK, Destroyed, Gone, Destroying
  <2> QED
    BY <1>2, <2>3, <2>4 DEF FileIInv
<1> QED
  BY <1>4, <1>5

LEMMA FilesStep == FileIInv /\ [FNext]_fvars => FileIInv'
<1> SUFFICES ASSUME FileIInv, [FNext]_fvars PROVE FileIInv'
  OBVIOUS
<1>1. CASE UNCHANGED fvars
  BY <1>1 DEF fvars, FileIInv, FTypeOK, ContentTyped, Wanted, AtFile, Written, Spared, Original,
              Destroyed, Overwritten, Gone, Busy, Destroying, Source, Passes
<1> QED
  BY <1>1, FilesListed, FileTaken, ChunkWritten, FileVerified, FilesWalk, NamesGo
     DEF FNext, FileThread

\* The types of a file job, for any files and selections.
THEOREM FileTypeCorrect == FileSpec => []FTypeOK
<1>1. FileIInv => FTypeOK
  BY DEF FileIInv
<1> QED
  BY <1>1, FilesStart, FilesStep, PTL DEF FileSpec

\* For files of any size, with units that lose their writes, and whatever other programs
\* delete meanwhile: a name that the job gives up is one that was asked for, and what it
\* named was overwritten; what the job has not reached is as it was.
THEOREM DestroyedWasOverwrittenHolds == FileSpec => []DestroyedWasOverwritten
<1>1. FileIInv => DestroyedWasOverwritten
  <2> SUFFICES ASSUME FileIInv, NEW f \in Files PROVE
        /\ name[f] # "own" /\ f \notin vanished =>
             /\ ~selection.dry /\ Wanted(f)
             /\ Overwritten(f)
        /\ f \in left \/ f \notin listed \/ selection.dry => content[f] = Original(f)
    BY DEF DestroyedWasOverwritten, Wanted, Overwritten
  <2>1. FileUnits[f] = 0 => Overwritten(f)
    BY DEF Overwritten
  <2> QED
    BY <2>1 DEF FileIInv, ContentTyped, Destroyed, Spared
<1> QED
  BY <1>1, FilesStart, FilesStep, PTL DEF FileSpec

\* A complete job leaves no listed file, but those somebody else deleted.
THEOREM CompleteMeansAllGoneHolds == FileSpec => []CompleteMeansAllGone
<1>1. FileIInv => CompleteMeansAllGone
  BY DEF FileIInv, FTypeOK, Spared, Destroyed, Gone, CompleteMeansAllGone
<1> QED
  BY <1>1, FilesStart, FilesStep, PTL DEF FileSpec

-----------------------------------------------------------------------------
(***************************************************************************)
(* A file job implements Erasure.  What it may take is settled when it     *)
(* lists its files, before it opens one of them.                           *)
(***************************************************************************)

AsAsked ==
  /\ stage # "list" =>
       listed = IF \A p \in selection.paths : check_path(p) THEN expand(selection.paths) ELSE {}
  /\ stage = "ended" <=> outcome # "none"

LEMMA AskedStep == FileIInv /\ AsAsked /\ [FNext]_fvars => AsAsked'
<1> SUFFICES ASSUME FileIInv, AsAsked, [FNext]_fvars PROVE AsAsked'
  OBVIOUS
<1>1. CASE List
  BY <1>1 DEF AsAsked, List, FileEnd, To, FileIInv, FTypeOK
<1>2. CASE UNCHANGED fvars
  BY <1>2 DEF AsAsked, fvars
<1>3. CASE FNext /\ ~List
  <2>1. UNCHANGED <<selection, listed>> /\ (stage' = "list" <=> stage = "list")
    BY <1>3 DEF FNext, FileThread, NextFile, OpenFile, WriteFile, EndPass, VerifyFile, RenameFile,
                TruncateFile, RemoveFile, FileFails, FileCancelled, FinishFiles, StopFiles,
                Vanishes, FileEnd, To
  <2>2. (stage' = "ended" <=> outcome' # "none")
    BY <1>3 DEF AsAsked, FNext, FileThread, NextFile, OpenFile, WriteFile, EndPass, VerifyFile,
                RenameFile, TruncateFile, RemoveFile, FileFails, FileCancelled, FinishFiles,
                StopFiles, Vanishes, FileEnd, To
  <2> QED
    BY <2>1, <2>2 DEF AsAsked
<1> QED
  BY <1>1, <1>2, <1>3

\* No pass writes what a file held.
LEMMA SourceIsNew ==
  ASSUME NEW i \in 1..Len(Passes)
  PROVE  Source(i) # <<"data", 0>>
<1>1. PICK p : p = Passes[i]
  OBVIOUS
<1>2. p \in Patterns
  BY <1>1, PassesCount
<1> QED
  BY <1>1, <1>2 DEF Source, Content, Patterns

\* The listed files are the chosen ones, unless the run is dry.
LEMMA ListedChosen ==
  ASSUME AsAsked, stage # "list"
  PROVE  Chosen = IF selection.dry THEN {} ELSE listed
BY DEF AsAsked, Chosen

\* Success leaves nothing of what it answers for.
AllAnswered == outcome = "complete" => Readable \cap Settled = {}

LEMMA FilesAnswered == FileIInv /\ AsAsked => AllAnswered
<1> SUFFICES ASSUME FileIInv, AsAsked, outcome = "complete" PROVE Readable \cap Settled = {}
  BY DEF AllAnswered
<1> SUFFICES ASSUME NEW x \in Readable, x \in Settled PROVE FALSE
  OBVIOUS
<1>1. x \in Pieces(Chosen) /\ content[x[1]][x[2]] = <<"data", 0>> /\ x[1] \notin vanished
      /\ (x[2] \in FileStuck[x[1]] => x[2] \in {1, FileUnits[x[1]]})
  BY DEF Readable, Settled
<1>a. PICK f \in Chosen : \E u \in 1..FileUnits[f] : x = <<f, u>>
  BY <1>1 DEF Pieces
<1>2. PICK u \in 1..FileUnits[f] : x = <<f, u>>
  BY <1>a
<1>3. /\ f \notin vanished /\ content[f][u] = <<"data", 0>>
      /\ u \notin FileStuck[f] \/ u \in {1, FileUnits[f]}
  BY <1>1, <1>2
<1>4. ~selection.dry /\ f \in listed \ left /\ f \in Files
  BY <1>2, ListedChosen DEF FileIInv, FTypeOK, Gone
<1>5. name[f] = "gone"
  BY <1>4 DEF FileIInv, Gone
<1>6. Overwritten(f)
  BY <1>2, <1>3, <1>4, <1>5, FileAssumption DEF FileIInv, Destroyed, Files
<1>7. content[f][u] = Source(Len(Passes))
  BY <1>2, <1>3, <1>6 DEF Overwritten
<1>8. Len(Passes) \in 1..Len(Passes)
  BY PassesCount
<1> QED
  BY <1>3, <1>7, <1>8, SourceIsNew

\* A chunk takes units of a chosen file, and none comes back.
LEMMA ChunkTakes ==
  ASSUME FileIInv, AsAsked, WriteFile
  PROVE  Readable' \subseteq Readable /\ Readable \ Readable' \subseteq Pieces(Chosen)
<1> DEFINE units == ChunkAfter(at, FileUnits[cur]) \ FileStuck[cur]
<1>1. /\ stage = "write"
      /\ content' = [content EXCEPT ![cur] = Filled(content[cur], units, Source(pass))]
  BY DEF WriteFile
<1>2. /\ cur \in listed /\ cur \in Files /\ ~selection.dry /\ pass \in 1..Len(Passes)
  BY <1>1 DEF FileIInv, FTypeOK, AtFile, Busy, Destroying
<1>3. cur \in Chosen /\ Source(pass) # <<"data", 0>>
  BY <1>1, <1>2, ListedChosen, SourceIsNew
<1> HIDE DEF units
<1>4. /\ \A f \in Files : f # cur => content'[f] = content[f]
      /\ content'[cur] =
           [u \in 1..FileUnits[cur] |-> IF u \in units THEN Source(pass) ELSE content[cur][u]]
  BY <1>1, <1>2 DEF FileIInv, ContentTyped, Filled
<1>5. ASSUME NEW f \in Files, NEW u \in 1..FileUnits[f]
      PROVE  \/ content'[f][u] = content[f][u]
             \/ f = cur /\ content'[f][u] # <<"data", 0>>
  BY <1>3, <1>4
<1>6. ASSUME NEW x \in Pieces(Files)
      PROVE  \/ content'[x[1]][x[2]] = content[x[1]][x[2]]
             \/ x \in Pieces(Chosen) /\ content'[x[1]][x[2]] # <<"data", 0>>
  <2>a. PICK f \in Files : \E u \in 1..FileUnits[f] : x = <<f, u>>
    BY DEF Pieces
  <2>1. PICK u \in 1..FileUnits[f] : x = <<f, u>>
    BY <2>a
  <2> QED
    BY <1>3, <1>5, <2>1 DEF Pieces
<1> QED
  BY <1>6 DEF Readable

\* Every other step leaves the files as they are.
LEMMA FilesTake ==
  ASSUME FileIInv, AsAsked, FNext
  PROVE  FileErasure!Takes /\ (~WriteFile => Readable' = Readable)
<1>1. UNCHANGED selection /\ (WriteFile \/ UNCHANGED content)
  BY DEF FNext, FileThread, List, NextFile, OpenFile, WriteFile, EndPass, VerifyFile, RenameFile,
         TruncateFile, RemoveFile, FileFails, FileCancelled, FinishFiles, StopFiles, Vanishes
<1>2. Pieces(Chosen)' = Pieces(Chosen)
  BY <1>1 DEF Chosen, check_path, expand, Pieces
<1>3. UNCHANGED content => Readable' = Readable
  BY DEF Readable, Pieces, Files
<1> QED
  BY <1>1, <1>2, <1>3, ChunkTakes DEF FileErasure!Takes

\* A file job keeps the promise of an erasure.
THEOREM FilesKeepPromiseHolds == FileSpec => FilesKeepPromise
<1> DEFINE I == FileIInv /\ AsAsked
<1>1. FInit => I /\ FileErasure!EInit
  BY FilesStart DEF FInit, FStart, AsAsked, FileErasure!EInit
<1>2. I /\ [FNext]_fvars => I'
  BY FilesStep, AskedStep
<1>3. I /\ I' /\ AllAnswered' /\ [FNext]_fvars => [FileErasure!ENext]_(FileErasure!erasureVars)
  <2>1. ASSUME UNCHANGED fvars PROVE UNCHANGED FileErasure!erasureVars
    BY <2>1 DEF fvars, FileErasure!erasureVars, Readable, Pieces, Files, Chosen, check_path,
                expand, Settled
  <2>2. ASSUME I, I', AllAnswered', FNext PROVE FileErasure!ENext
    <3>1. outcome = "none"
      BY <2>2 DEF AsAsked, FNext, FileThread, List, NextFile, OpenFile, WriteFile, EndPass,
                  VerifyFile, RenameFile, TruncateFile, RemoveFile, FileFails, FileCancelled,
                  FinishFiles, StopFiles, Vanishes
    <3>2. FileErasure!Takes /\ (~WriteFile => Readable' = Readable)
      BY <2>2, FilesTake
    <3>3. CASE outcome' = "none"
      BY <3>1, <3>2, <3>3 DEF FileErasure!ENext, FileErasure!Work
    <3>4. CASE outcome' # "none"
      <4>1. outcome' \in {"complete", "failed", "cancelled"}
        BY <2>2, <3>4 DEF FileIInv, FTypeOK
      <4>2. ~WriteFile
        <5>1. WriteFile => outcome' = outcome
          BY DEF WriteFile
        <5> QED
          BY <3>1, <3>4, <5>1
      <4>3. outcome' = "complete" => (Readable \cap Settled)' = {}
        BY <2>2 DEF AllAnswered
      <4>4. FileErasure!End(outcome')
        BY <3>1, <3>2, <4>2, <4>3 DEF FileErasure!End
      <4> QED
        BY <4>1, <4>4 DEF FileErasure!ENext
    <3> QED
      BY <3>3, <3>4
  <2> QED
    BY <2>1, <2>2
<1> QED
  BY <1>1, <1>2, <1>3, FilesAnswered, PTL DEF FileSpec, FilesKeepPromise, FileErasure!ESpec
=============================================================================

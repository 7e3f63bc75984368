------------------------------- MODULE SpaceFill -------------------------------
(***************************************************************************)
(* The free-space fill of backend/wiper.py, for Windows without            *)
(* Administrator: every pass writes a temporary file until the volume says *)
(* that only a reserve is free, while other programs use the volume.       *)
(***************************************************************************)
EXTENDS Naturals, FiniteSets

CONSTANTS
  Volume,      \* blocks of the volume
  Volumes,     \* [letter, policy, writable, used]: the volumes a job may find
  FillPasses,  \* the passes of its standard
  FILL_CHUNK,  \* blocks of a write (4 MiB)
  RESERVE,     \* blocks kept free (512 KiB)
  MIN_FREE,    \* blocks that must be free at the start (1 MiB)
  MaxChanges   \* bound: blocks others take or give back, and calls that fail

ASSUME FillAssumption ==
  /\ IsFiniteSet(Volume)
  /\ FILL_CHUNK \in Nat \ {0} /\ RESERVE \in Nat /\ MIN_FREE \in Nat
  /\ FillPasses \in Nat \ {0} /\ MaxChanges \in Nat

VARIABLES
  vol,          \* the volume
  use,          \* of each block: free, other (other files) or temp (wipe.tmp)
  old,          \* the blocks that still hold what was deleted
  late,         \* history: blocks others gave back since a pass last measured
  fillPass,     \* the pass, from 1
  fstage, fdone,\* the step of the generator; how it ended
  kept,         \* history: the last os.remove of wipe.tmp failed
  cutShort,     \* history: a pass that ended without the volume being full
  changes

svars == <<vol, use, old, late, fillPass, fstage, fdone, kept, cutShort, changes>>

Holding(what) == {b \in Volume : use[b] = what}
Free == Cardinality(Holding("free"))

FillTypeOK ==
  /\ vol \in Volumes /\ use \in [Volume -> {"free", "other", "temp"}]
  /\ old \subseteq Volume /\ late \subseteq Volume /\ fillPass \in 1..(FillPasses + 1)
  /\ fstage \in {"locate", "usage", "open", "measure", "flush", "remove", "fail", "ended"}
  /\ fdone \in {"none", "complete", "failed", "crashed"}
  /\ kept \in BOOLEAN /\ cutShort \in BOOLEAN /\ changes \in 0..MaxChanges

SStart(v, label) ==
  /\ vol = v
  /\ use = [b \in Volume |-> IF b \in v.used THEN "other" ELSE "free"]
  /\ old = Volume /\ late = {}
  /\ fillPass = 1 /\ fstage = label /\ fdone = "none"
  /\ kept = FALSE /\ cutShort = FALSE /\ changes = 0

SInit == \E v \in Volumes : SStart(v, "locate")

-----------------------------------------------------------------------------
Change == changes < MaxChanges /\ changes' = changes + 1
FillTo(s) == fstage' = s /\ UNCHANGED fdone
FillEnd(how) == fstage' = "ended" /\ fdone' = how

\* _wipe_windows: no letter, a write-protecting policy, a failed write test; then the
\* working directory.
Locate ==
  /\ fstage = "locate"
  /\ IF vol.letter /\ ~vol.policy /\ vol.writable THEN FillTo("usage") ELSE FillEnd("failed")
  /\ UNCHANGED <<vol, use, old, late, fillPass, kept, cutShort, changes>>

\* The baseline: too little free space is refused.
Baseline ==
  /\ fstage = "usage"
  /\ IF Free < MIN_FREE THEN FillEnd("failed") ELSE FillTo("open")
  /\ UNCHANGED <<vol, use, old, late, fillPass, kept, cutShort, changes>>

\* wipe.tmp without its blocks.
Emptied == [b \in Volume |-> IF use[b] = "temp" THEN "free" ELSE use[b]]

\* A pass starts with wipe.tmp empty: open(tmp_path, "wb") truncates one that is still
\* there from the pass before.
OpenTemp ==
  /\ fstage = "open" /\ FillTo("measure") /\ use' = Emptied
  /\ UNCHANGED <<vol, old, late, fillPass, kept, cutShort, changes>>

\* What is written next: min(CHUNK, free_now - RESERVE).
ToWrite ==
  LET spare == IF Free < RESERVE THEN 0 ELSE Free - RESERVE
  IN IF spare < FILL_CHUNK THEN spare ELSE FILL_CHUNK

\* Mutant: a volume that cannot take a whole chunk is taken for full.
FillWholeChunks ==
  /\ fstage = "measure"
  /\ IF ToWrite < FILL_CHUNK THEN FillTo("flush") /\ late' = {} /\ UNCHANGED <<use, old>>
     ELSE \E bs \in SUBSET Holding("free") :
            /\ Cardinality(bs) = ToWrite
            /\ use' = [b \in Volume |-> IF b \in bs THEN "temp" ELSE use[b]]
            /\ old' = old \ bs /\ UNCHANGED <<late, fstage, fdone>>
  /\ UNCHANGED <<vol, fillPass, kept, cutShort, changes>>

\* One round: measure, then write to whatever blocks the file system takes.
Fill ==
  /\ fstage = "measure"
  /\ IF ToWrite = 0 THEN FillTo("flush") /\ late' = {} /\ UNCHANGED <<use, old>>
     ELSE \E bs \in SUBSET Holding("free") :
            /\ Cardinality(bs) = ToWrite
            /\ use' = [b \in Volume |-> IF b \in bs THEN "temp" ELSE use[b]]
            /\ old' = old \ bs /\ UNCHANGED <<late, fstage, fdone>>
  /\ UNCHANGED <<vol, fillPass, kept, cutShort, changes>>

\* disk_usage fails: the pass ends there.  ENOSPC ends it too, at any call and without a
\* flush.
CutShort ==
  /\ fstage \in {"open", "measure", "flush"} /\ Change
  /\ cutShort' = TRUE
  /\ FillTo("remove") \/ (fstage = "measure" /\ FillTo("flush"))
  /\ UNCHANGED <<vol, use, old, late, fillPass, kept>>

Flush ==
  /\ fstage = "flush" /\ FillTo("remove")
  /\ UNCHANGED <<vol, use, old, late, fillPass, kept, cutShort, changes>>

\* No working directory or no baseline: the fill has not begun.  Another OSError of open,
\* write or fsync: raised once the finally clause is through.
FillFails ==
  /\ fstage \in {"usage", "open", "measure", "flush"} /\ Change
  /\ IF fstage = "usage" THEN FillEnd("failed") ELSE FillTo("fail")
  /\ UNCHANGED <<vol, use, old, late, fillPass, kept, cutShort>>

\* finally: os.remove(tmp_path), whose failure is swallowed and leaves the file with its
\* blocks; then the next pass, the error, or the complete event.
RemoveTemp ==
  /\ fstage \in {"remove", "fail"}
  /\ \/ use' = Emptied /\ kept' = FALSE /\ UNCHANGED changes
     \/ kept' = TRUE /\ Change /\ UNCHANGED use
  /\ IF fstage = "fail" THEN FillEnd("failed") /\ UNCHANGED fillPass
     ELSE /\ fillPass' = fillPass + 1
          /\ IF fillPass = FillPasses THEN FillEnd("complete") ELSE FillTo("open")
  /\ UNCHANGED <<vol, old, late, cutShort>>

\* The process dies, and no finally clause runs.
FillCrash ==
  /\ fstage # "ended" /\ Change /\ FillEnd("crashed")
  /\ UNCHANGED <<vol, use, old, late, fillPass, kept, cutShort>>

\* Other programs write a block, or delete a file: its data stays on its blocks.
OthersWrite(b) ==
  /\ fstage # "ended" /\ Change /\ use[b] = "free"
  /\ use' = [use EXCEPT ![b] = "other"] /\ old' = old \cup {b}
  /\ UNCHANGED <<vol, late, fillPass, fstage, fdone, kept, cutShort>>

OthersDelete(b) ==
  /\ fstage # "ended" /\ Change /\ use[b] = "other"
  /\ use' = [use EXCEPT ![b] = "free"] /\ late' = late \cup {b}
  /\ UNCHANGED <<vol, old, fillPass, fstage, fdone, kept, cutShort>>

Filler == Locate \/ Baseline \/ OpenTemp \/ Fill \/ Flush \/ RemoveTemp

Others == \E b \in Volume : OthersWrite(b) \/ OthersDelete(b)
SNext  == Filler \/ CutShort \/ FillFails \/ FillCrash \/ Others

FillSpec == SInit /\ [][SNext]_svars

-----------------------------------------------------------------------------
\* The blocks of no other file that still hold what was deleted before a pass last
\* measured.
Recoverable == {b \in old : use[b] # "other"} \ late

\* When a fill is complete, what was deleted before is left on no more blocks than the
\* reserve, whatever blocks the file system gave the passes, whatever others did and
\* whichever pass could not remove wipe.tmp, but for blocks others gave back after the last
\* measure and unless a pass was cut short.  The volume gets its free space back, unless
\* the last removal failed - a complete fill too ends then - or the process died.
FilledWhenComplete ==
  /\ fdone = "complete" /\ ~cutShort => Cardinality(Recoverable) <= RESERVE
  /\ fstage = "ended" /\ Holding("temp") # {} => kept \/ fdone = "crashed"
=============================================================================

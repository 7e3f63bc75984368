-------------------------------- MODULE Erasure --------------------------------
(***************************************************************************)
(* What an erasure promises, whatever it erases: it takes only pieces in   *)
(* its scope and gives none back; when it reports that it is complete,     *)
(* nothing that the report answers for can still be read; and when it      *)
(* reports that it is complete or cancelled, it is over.  Only an erasure  *)
(* that failed, or whose process died, may leave a device that goes on by  *)
(* itself.  Pipeline (a drive) and FileWipe (files) implement it.          *)
(***************************************************************************)
VARIABLES
  held,     \* the pieces whose original data can still be read
  scope,    \* the pieces it may take
  claimed,  \* the pieces for which a report of success answers
  ending,   \* none, or how it ended: complete, failed, cancelled, crashed
  loose     \* the device goes on by itself

erasureVars == <<held, scope, claimed, ending, loose>>

EInit == ending = "none" /\ ~loose

Takes == held' \subseteq held /\ held \ held' \subseteq scope /\ UNCHANGED scope

Work == ending = "none" /\ ending' = "none" /\ Takes

\* It fails at whatever it was doing, or reports what it has done before.
End(how) ==
  /\ ending = "none" /\ ending' = how /\ Takes
  /\ how \in {"complete", "cancelled"} => held' = held /\ ~loose'
  /\ how = "complete" => held' \cap claimed' = {}

\* A device that was left to itself finishes.
Late ==
  /\ ending \in {"failed", "crashed"} /\ loose /\ ~loose'
  /\ Takes /\ UNCHANGED <<ending, claimed>>

ENext == Work \/ Late \/ \E how \in {"complete", "failed", "cancelled", "crashed"} : End(how)

ESpec == EInit /\ [][ENext]_erasureVars

-----------------------------------------------------------------------------
\* What the owner of the data may conclude: a complete erasure holds nothing of what it
\* answers for, and one that is complete or cancelled has stopped.
Final == ending \in {"complete", "cancelled"}

Conclusive ==
  /\ ending = "complete" => held \cap claimed = {}
  /\ Final => ~loose

\* Nothing out of its scope is ever taken, and nothing at all after its last word.
Bounded == [][held \ held' \subseteq scope /\ (Final => held' = held)]_erasureVars
=============================================================================

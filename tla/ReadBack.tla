------------------------------- MODULE ReadBack -------------------------------
(***************************************************************************)
(* Reading a medium back after an overwrite: backend/hw/verify.py and the  *)
(* chunks of backend/hw/overwrite.py, as pure operators shared by drives   *)
(* and files.                                                              *)
(*                                                                         *)
(* A medium is a function from its units, 1..n, to contents; an offset is  *)
(* the number of units before a block.  Contents are pairs <<pattern, n>>. *)
(***************************************************************************)
EXTENDS Naturals, FiniteSets

CONSTANTS
  CHUNK,   \* units written at once
  BLOCK,   \* units of a block that is read back
  COUNT    \* blocks sampled

Least(a, b) == IF a < b THEN a ELSE b
Pick(S) == CHOOSE x \in S : TRUE

\* The units of the chunk that follows `written' units of a pass over size.
ChunkAfter(written, size) == (written + 1)..(written + Least(CHUNK, size - written))

Filled(media, units, content) ==
  [u \in DOMAIN media |-> IF u \in units THEN content ELSE media[u]]

\* Mutant: blocks are counted by whole blocks only, so the partial last one is missed.
WholeBlocks(size) == IF size < BLOCK THEN 1 ELSE size \div BLOCK

Blocks(size) == IF size = 0 THEN 1 ELSE (size + BLOCK - 1) \div BLOCK
Offsets(blocks) == {b * BLOCK : b \in blocks}

\* sample_offsets: the first and the last block and others at random.
sample_offsets(size, count) ==
  LET n   == Blocks(size)
      fix == {0, n - 1}
      k   == Least(count, n)
  IN {Offsets(picks) : picks \in
        {p \in SUBSET (0..(n - 1)) :
           /\ fix \subseteq p
           /\ Cardinality(p) = IF k < Cardinality(fix) THEN Cardinality(fix) ELSE k}}

LengthAt(size, offset) == Least(BLOCK, size - offset)

\* Reader.read: a direct read asks for whole blocks, and is cut to what was asked
\* and to what there is.
Read(media, end, offset, length, direct) ==
  LET asked == IF direct THEN ((length + BLOCK - 1) \div BLOCK) * BLOCK ELSE length
      got   == IF end < offset THEN 0 ELSE Least(asked, end - offset)
  IN [i \in 1..Least(got, length) |-> media[offset + i]]

Uniform(data) ==
  /\ DOMAIN data # {}
  /\ \E p \in {"zero", "ones", "fw"} : \A i \in DOMAIN data : data[i][1] = p

\* snapshot: of each sampled block, its digest (its data) and whether it is uniform.
snapshot(media, end, size, offsets, direct) ==
  [o \in offsets |-> Read(media, end, o, LengthAt(size, o), direct)]

Verdict(check, checked, passed) == [check |-> check, checked |-> checked, passed |-> passed]
NoVerdict == Verdict("none", {}, "none")

\* check_pattern; all the blocks of the medium stand for the full mode.
check_pattern(media, end, size, offsets, content, direct) ==
  LET Expected(n) == [i \in 1..n |-> content]
      bad == {o \in offsets :
                Read(media, end, o, LengthAt(size, o), direct) # Expected(LengthAt(size, o))}
  IN Verdict("pattern", offsets, IF bad = {} /\ offsets # {} THEN "yes" ELSE "no")

\* check_changed: "none" is None, which run does not take for a failure.
check_changed(media, end, size, before, direct) ==
  LET same == {o \in DOMAIN before :
                 Read(media, end, o, LengthAt(size, o), direct) = before[o]}
      kept == {o \in same : ~Uniform(before[o])}
  IN Verdict("changed", DOMAIN before,
             IF kept # {} THEN "no" ELSE IF same # DOMAIN before THEN "yes" ELSE "none")

AllOffsets(size) == Offsets(0..(Blocks(size) - 1))
=============================================================================

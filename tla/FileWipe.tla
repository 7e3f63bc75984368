------------------------------- MODULE FileWipe -------------------------------
(***************************************************************************)
(* A file job: backend/file_wipe.py run_file_job, while other programs     *)
(* delete the files it has listed.  A file goes through its passes, is     *)
(* read back, renamed, truncated and removed; a failure ends the whole     *)
(* job, with the files before it gone and the files after it untouched.    *)
(***************************************************************************)
EXTENDS Planner, ReadBack

CONSTANTS
  FileUnits,     \* [file -> units it holds]; files are numbered in path order
  FileStuck,     \* [file -> units whose writes are lost]
  Selections,    \* jobs: [paths, method, standard, dry]
  FileCount,     \* sample_offsets(size, count=256)
  MaxFileFaults  \* bound: calls that fail, and files that vanish

ASSUME FileAssumption ==
  /\ CHUNK \in Nat \ {0} /\ BLOCK \in Nat \ {0}
  /\ DOMAIN FileUnits \subseteq Nat \ {0}
  /\ \A f \in DOMAIN FileUnits : FileUnits[f] \in Nat
  /\ \A s \in Selections : \A p \in s.paths :
       p.entries \subseteq [file : DOMAIN FileUnits, link : BOOLEAN]

VARIABLES
  selection,         \* the job
  listed, left,      \* the files of expand, and those not yet reached
  cur, pass, at,     \* the file, the pass and the units written
  content, name,     \* of each file: what it holds, whether its name exists
  skipped, readBack, \* files skipped; files whose read-back passed
  stage, outcome,    \* the step of the thread; how the job ended
  stop, vanished, fileFaults

fvars == <<selection, listed, left, cur, pass, at, content, name, skipped, readBack,
           stage, outcome, stop, vanished, fileFaults>>

Files == DOMAIN FileUnits
Original(f) == [u \in 1..FileUnits[f] |-> <<"data", 0>>]

\* _passes: a crypto erase of a file is one random pass.
Passes == IF selection.method = "crypto_erase" THEN NIST_PASSES ELSE passes_for(selection.standard)
Source(i) == Content(Passes[i], i)

\* check_path refuses a path; one refused path refuses the job.
check_path(p) ==
  p.absolute /\ ~p.link /\ p.found /\ p.inside /\ ~p.isRoot /\ ~p.own

\* expand: the files of the paths, and below them; links are left out.
expand(paths) == {e.file : e \in {e \in UNION {p.entries : p \in paths} : ~e.link}}

FTypeOK ==
  /\ selection \in Selections
  /\ left \subseteq listed /\ listed \subseteq Files
  /\ skipped \subseteq listed /\ readBack \subseteq listed
  /\ cur \in Files \cup {0} /\ pass \in 0..Len(Passes)
  /\ cur # 0 => at \in 0..FileUnits[cur]
  /\ name \in [Files -> {"own", "random", "gone"}]
  /\ stage \in {"list", "next", "open", "write", "verify", "rename", "truncate", "remove", "ended"}
  /\ outcome \in {"none", "complete", "failed", "cancelled"}

FStart(s, label) ==
  /\ selection = s
  /\ listed = {} /\ left = {} /\ cur = 0 /\ pass = 0 /\ at = 0
  /\ content = [f \in Files |-> Original(f)] /\ name = [f \in Files |-> "own"]
  /\ skipped = {} /\ readBack = {}
  /\ stage = label /\ outcome = "none"
  /\ stop = FALSE /\ vanished = {} /\ fileFaults = 0

FInit == \E s \in Selections : FStart(s, "list")

-----------------------------------------------------------------------------
FileEnd(how) == stage' = "ended" /\ outcome' = how
To(s) == stage' = s /\ UNCHANGED outcome
FileFault == fileFaults < MaxFileFaults /\ fileFaults' = fileFaults + 1

\* Mutant: a refused path is left out.
ListAccepted ==
  /\ stage = "list"
  /\ listed' = expand({p \in selection.paths : check_path(p)})
  /\ left' = listed'
  /\ IF listed' = {} THEN FileEnd("failed") ELSE To("next")
  /\ UNCHANGED <<selection, cur, pass, at, content, name, skipped, readBack, stop, vanished,
                 fileFaults>>

\* run_file_job lists the files before it touches one.
List ==
  /\ stage = "list"
  /\ listed' = IF \A p \in selection.paths : check_path(p) THEN expand(selection.paths) ELSE {}
  /\ left' = listed'
  /\ IF listed' = {} THEN FileEnd("failed") ELSE To("next")
  /\ UNCHANGED <<selection, cur, pass, at, content, name, skipped, readBack, stop, vanished,
                 fileFaults>>

\* The next file in order: skipped when it is no longer there, left alone in a dry run,
\* destroyed without a pass when it is empty.
NextFile ==
  /\ stage = "next" /\ left # {} /\ ~stop
  /\ \E f \in left :
     /\ \A g \in left : f <= g
     /\ left' = left \ {f}
     /\ IF name[f] = "gone" \/ selection.dry
        THEN /\ skipped' = IF name[f] = "gone" THEN skipped \cup {f} ELSE skipped
             /\ To("next") /\ UNCHANGED <<cur, pass, at>>
        ELSE /\ cur' = f /\ pass' = 1 /\ at' = 0
             /\ To(IF FileUnits[f] = 0 THEN "rename" ELSE "open")
             /\ UNCHANGED skipped
  /\ UNCHANGED <<selection, listed, content, name, readBack, stop, vanished, fileFaults>>

\* overwrite_pass opens the file by its name.
OpenFile ==
  /\ stage = "open"
  /\ IF name[cur] = "gone" THEN FileEnd("failed") ELSE To("write")
  /\ UNCHANGED <<selection, listed, left, cur, pass, at, content, name, skipped, readBack, stop,
                 vanished, fileFaults>>

WriteFile ==
  /\ stage = "write" /\ at < FileUnits[cur] /\ ~stop
  /\ content' = [content EXCEPT ![cur] =
       Filled(@, ChunkAfter(at, FileUnits[cur]) \ FileStuck[cur], Source(pass))]
  /\ at' = at + Least(CHUNK, FileUnits[cur] - at)
  /\ UNCHANGED <<selection, listed, left, cur, pass, name, skipped, readBack, stage, outcome,
                 stop, vanished, fileFaults>>

EndPass ==
  /\ stage = "write" /\ at = FileUnits[cur]
  /\ IF pass < Len(Passes)
     THEN pass' = pass + 1 /\ at' = 0 /\ To("open")
     ELSE To("verify") /\ UNCHANGED <<pass, at>>
  /\ UNCHANGED <<selection, listed, left, cur, content, name, skipped, readBack, stop, vanished,
                 fileFaults>>

\* Mutant: the verdict is kept for the record and not looked at.
VerifyFileLenient ==
  /\ stage = "verify" /\ readBack' = readBack \cup {cur} /\ To("rename")
  /\ UNCHANGED <<selection, listed, left, cur, pass, at, content, name, skipped, stop, vanished,
                 fileFaults>>

\* The read-back against the last pass: all of it, or samples.
VerifyFile ==
  /\ stage = "verify"
  /\ LET size == FileUnits[cur] IN
     \E direct \in BOOLEAN,
        offsets \in IF selection.method = "full_sanitization" THEN {AllOffsets(size)}
                    ELSE sample_offsets(size, FileCount) :
       LET v == check_pattern(content[cur], size, size, offsets, Source(Len(Passes)), direct) IN
       IF name[cur] = "gone" \/ v.passed = "no"
       THEN FileEnd("failed") /\ UNCHANGED readBack
       ELSE readBack' = readBack \cup {cur} /\ To("rename")
  /\ UNCHANGED <<selection, listed, left, cur, pass, at, content, name, skipped, stop, vanished,
                 fileFaults>>

\* _destroy_name, in three calls.
RenameFile ==
  /\ stage = "rename"
  /\ IF name[cur] = "gone" THEN FileEnd("failed") /\ UNCHANGED name
     ELSE To("truncate") /\ name' = [name EXCEPT ![cur] = "random"]
  /\ UNCHANGED <<selection, listed, left, cur, pass, at, content, skipped, readBack, stop,
                 vanished, fileFaults>>

TruncateFile ==
  /\ stage = "truncate" /\ To("remove")
  /\ UNCHANGED <<selection, listed, left, cur, pass, at, content, name, skipped, readBack, stop,
                 vanished, fileFaults>>

RemoveFile ==
  /\ stage = "remove" /\ To("next")
  /\ name' = [name EXCEPT ![cur] = "gone"]
  /\ UNCHANGED <<selection, listed, left, cur, pass, at, content, skipped, readBack, stop,
                 vanished, fileFaults>>

\* Mutant: a file that fails is passed over.
FileFailsGoesOn ==
  /\ stage \in {"open", "write", "verify", "rename", "truncate", "remove"} /\ FileFault
  /\ To("next")
  /\ UNCHANGED <<selection, listed, left, cur, pass, at, content, name, skipped, readBack, stop,
                 vanished>>

\* Any call of wipe_file fails: so does the job.
FileFails ==
  /\ stage \in {"open", "write", "verify", "rename", "truncate", "remove"} /\ FileFault
  /\ FileEnd("failed")
  /\ UNCHANGED <<selection, listed, left, cur, pass, at, content, name, skipped, readBack, stop,
                 vanished>>

\* cancel_check, before each file and each chunk.
FileCancelled ==
  /\ stop
  /\ \/ stage = "next" /\ left # {}
     \/ stage = "write" /\ at < FileUnits[cur]
  /\ FileEnd("cancelled")
  /\ UNCHANGED <<selection, listed, left, cur, pass, at, content, name, skipped, readBack, stop,
                 vanished, fileFaults>>

\* The record; without a single result the job fails.
FinishFiles ==
  /\ stage = "next" /\ left = {}
  /\ FileEnd(IF skipped = listed THEN "failed" ELSE "complete")
  /\ UNCHANGED <<selection, listed, left, cur, pass, at, content, name, skipped, readBack, stop,
                 vanished, fileFaults>>

StopFiles ==
  /\ stage # "ended" /\ ~stop /\ stop' = TRUE
  /\ UNCHANGED <<selection, listed, left, cur, pass, at, content, name, skipped, readBack, stage,
                 outcome, vanished, fileFaults>>

\* Another program deletes a file.
Vanishes(f) ==
  /\ stage # "ended" /\ name[f] = "own" /\ FileFault
  /\ name' = [name EXCEPT ![f] = "gone"] /\ vanished' = vanished \cup {f}
  /\ UNCHANGED <<selection, listed, left, cur, pass, at, content, skipped, readBack, stage,
                 outcome, stop>>

FileThread ==
  \/ List \/ NextFile \/ OpenFile \/ WriteFile \/ EndPass \/ VerifyFile \/ RenameFile
  \/ TruncateFile \/ RemoveFile \/ FileFails \/ FileCancelled \/ FinishFiles

FNext == FileThread \/ StopFiles \/ \E f \in Files : Vanishes(f)

FileSpec == FInit /\ [][FNext]_fvars

-----------------------------------------------------------------------------
\* The job gives up a file's name only for a file it was asked to wipe, after the last
\* pass is on every unit that takes a write and a read-back of its first and its last
\* block found it there; and a file it has not reached is as it was.
DestroyedWasOverwritten ==
  \A f \in Files :
    /\ name[f] # "own" /\ f \notin vanished =>
         /\ ~selection.dry
         /\ \E p \in selection.paths : p.inside /\ [file |-> f, link |-> FALSE] \in p.entries
         /\ \A u \in 1..FileUnits[f] :
              u \notin FileStuck[f] \/ u \in {1, FileUnits[f]} =>
                content[f][u] = Source(Len(Passes))
    /\ f \in left \/ f \notin listed \/ selection.dry => content[f] = Original(f)

\* A complete job leaves no listed file behind, but those that somebody else deleted
\* and that it names as skipped; a failed one stopped at the file it failed at.
CompleteMeansAllGone ==
  /\ outcome = "complete" /\ ~selection.dry =>
       /\ \A f \in listed : name[f] = "gone"
       /\ skipped \subseteq vanished /\ listed \ vanished \subseteq readBack \cup {f \in Files : FileUnits[f] = 0}
  /\ outcome = "failed" => \A f \in left : content[f] = Original(f)

\* The pieces of an erasure (Erasure) are the units of the files; those it may take are in
\* the files that expand finds when no path is refused.
Pieces(fs) == UNION {{<<f, u>> : u \in 1..FileUnits[f]} : f \in fs}

Chosen ==
  IF selection.dry \/ \E p \in selection.paths : ~check_path(p) THEN {} ELSE expand(selection.paths)

Readable == {x \in Pieces(Files) : content[x[1]][x[2]] = <<"data", 0>>}

\* A record of success does not answer for a file that somebody else deleted, nor for a
\* unit that loses its writes between the first and the last.
Settled ==
  {x \in Pieces(Chosen) :
     x[1] \notin vanished /\ (x[2] \in FileStuck[x[1]] => x[2] \in {1, FileUnits[x[1]]})}

FileErasure ==
  INSTANCE Erasure WITH held <- Readable, scope <- Pieces(Chosen), claimed <- Settled,
                        ending <- outcome, loose <- FALSE

\* A file job does what an erasure promises: it overwrites nothing but the files of its
\* paths, no file at all when one path is refused, and success leaves no unit of theirs.
FilesKeepPromise == FileErasure!ESpec
=============================================================================

------------------------------- MODULE Registry -------------------------------
(***************************************************************************)
(* The model registry, ml/registry.py, for one scope and the global one:   *)
(* the nightly training saves models that threads of the same process      *)
(* load, score with and cache.  A bundle is written in place, so whoever   *)
(* loads meanwhile finds a torn file; a model is its number.               *)
(***************************************************************************)
EXTENDS Naturals

CONSTANTS
  Readers,    \* threads that score
  Tolerance,  \* of promote, for a metric of which less is better
  Metrics,    \* values the metric may take
  MaxModels, MaxStops  \* bounds: models ever trained, crashes of the process

VARIABLES
  file,     \* the bundle of the scope: its model (0 for no file), torn, and its mtime
  promotes, \* whether this model is promoted, like the one of durations, or only saved
  global,   \* the bundle of the global scope
  cache,    \* _cache of the scope: mtime and model, of a bundle that was whole
  trained,  \* models trained so far
  trainer,  \* what the nightly training is at
  reading,  \* of each reader, what it is at
  saved,    \* history: the model of the last save that ended
  stops

registryVars == <<promotes, file, global, cache, trained, trainer, reading, saved, stops>>

NoFile == [model |-> 0, torn |-> FALSE, mtime |-> 0]
NoCache == [mtime |-> 0, model |-> 0]
AtRest == [pc |-> "rest", model |-> 0]
NotReading == [pc |-> "rest", mtime |-> 0, found |-> 0, least |-> 0]

RegistryInit ==
  /\ file = NoFile /\ cache = NoCache /\ trained = 0 /\ trainer = AtRest
  /\ promotes \in BOOLEAN /\ global \in {0, 1000}
  /\ reading = [r \in Readers |-> NotReading] /\ saved = 0 /\ stops = 0

-----------------------------------------------------------------------------
(* The nightly training: train, promote, _archive, save. *)

New == trained + 1
Is(pc) == trainer.pc = pc
Train(pc, model) == trainer' = [pc |-> pc, model |-> model]

\* promote: less is better, within the tolerance; without an incumbent anything is.
better(candidate, incumbent) == file.model = 0 \/ candidate <= incumbent + Tolerance

\* train: the incumbent is loaded and measured on the holdout of the candidate, which may
\* give it any metric; a torn file raises and the scope is not trained.  A worse
\* candidate goes to the history only.
TrainDuration(candidate, incumbent) ==
  /\ promotes /\ Is("rest") /\ trained < MaxModels /\ ~file.torn
  /\ trained' = New
  /\ IF better(candidate, incumbent) THEN Train("archive", New) ELSE UNCHANGED trainer
  /\ cache' = IF file.model # 0 THEN [mtime |-> file.mtime, model |-> file.model] ELSE cache
  /\ UNCHANGED <<promotes, file, global, reading, saved, stops>>

\* _fit of the behaviour models saves without a promotion.
TrainBehaviour ==
  /\ ~promotes /\ Is("rest") /\ trained < MaxModels
  /\ trained' = New /\ Train("dump", New)
  /\ UNCHANGED <<promotes, file, global, cache, reading, saved, stops>>

\* _archive moves the incumbent away.
Archive ==
  /\ Is("archive") /\ file' = NoFile /\ Train("dump", trainer.model)
  /\ UNCHANGED <<promotes, global, cache, trained, reading, saved, stops>>

\* joblib.dump truncates the file, writes it and closes it.
Truncate ==
  /\ Is("dump") /\ Train("write", trainer.model)
  /\ file' = [model |-> trainer.model, torn |-> TRUE, mtime |-> 2 * trainer.model]
  /\ UNCHANGED <<promotes, global, cache, trained, reading, saved, stops>>

Write ==
  /\ Is("write") /\ Train("forget", trainer.model)
  /\ file' = [model |-> trainer.model, torn |-> FALSE, mtime |-> 2 * trainer.model + 1]
  /\ UNCHANGED <<promotes, global, cache, trained, reading, saved, stops>>

\* _cache.pop, after which save returns.
Forget ==
  /\ Is("forget") /\ cache' = NoCache /\ trainer' = AtRest /\ saved' = trainer.model
  /\ UNCHANGED <<promotes, file, global, trained, reading, stops>>

-----------------------------------------------------------------------------
(* load_scoped, by a reader. *)

Begin(r) ==
  /\ reading[r].pc = "rest"
  /\ reading' = [reading EXCEPT ![r] = [NotReading EXCEPT !.pc = "stat", !.least = saved]]
  /\ UNCHANGED <<promotes, file, global, cache, trained, trainer, saved, stops>>

Answer(r, model) == [reading EXCEPT ![r] = [@ EXCEPT !.pc = "found", !.found = model]]

\* Mutant: a cached bundle is good whatever the file is now.
HitsAny == cache # NoCache
Hits == cache # NoCache /\ cache.mtime = file.mtime

\* A file that goes between its two stats raises, like one that goes before it is opened.
\* Without a file the global model is loaded.
Stat(r) ==
  /\ reading[r].pc = "stat"
  /\ reading' = CASE file.model = 0 -> Answer(r, global)
                  [] file.model # 0 /\ Hits -> Answer(r, cache.model)
                  [] OTHER -> [reading EXCEPT ![r] = [@ EXCEPT !.pc = "open", !.mtime = file.mtime]]
  /\ UNCHANGED <<promotes, file, global, cache, trained, trainer, saved, stops>>

\* joblib.load: a torn or missing file raises, and nothing is scored.
Open(r) ==
  /\ reading[r].pc = "open"
  /\ IF file.torn \/ file.model = 0
     THEN reading' = [reading EXCEPT ![r] = NotReading]
     ELSE reading' = [reading EXCEPT ![r] = [@ EXCEPT !.pc = "keep", !.found = file.model]]
  /\ UNCHANGED <<promotes, file, global, cache, trained, trainer, saved, stops>>

Remember(r) ==
  /\ reading[r].pc = "keep" /\ reading' = Answer(r, reading[r].found)
  /\ cache' = [mtime |-> reading[r].mtime, model |-> reading[r].found]
  /\ UNCHANGED <<promotes, file, global, trained, trainer, saved, stops>>

Score(r) ==
  /\ reading[r].pc = "found" /\ reading' = [reading EXCEPT ![r] = NotReading]
  /\ UNCHANGED <<promotes, file, global, cache, trained, trainer, saved, stops>>

\* The process stops and starts again: the file stays as it is.
Stop ==
  /\ stops < MaxStops /\ stops' = stops + 1
  /\ cache' = NoCache /\ trainer' = AtRest /\ reading' = [r \in Readers |-> NotReading]
  /\ UNCHANGED <<promotes, file, global, trained, saved>>

Models ==
  \/ \E candidate, incumbent \in Metrics : TrainDuration(candidate, incumbent)
  \/ TrainBehaviour
  \/ Archive \/ Truncate \/ Write \/ Forget \/ Stop
  \/ \E r \in Readers : Begin(r) \/ Stat(r) \/ Open(r) \/ Remember(r) \/ Score(r)

RegistrySpec == RegistryInit /\ [][Models]_registryVars

-----------------------------------------------------------------------------
\* A model that somebody scores with is the global one or no older than the last save
\* that had ended when they began to load it, though loads and saves overlap and the
\* cache is filled behind the save's back.
ServedIsCurrent ==
  \A r \in Readers : reading[r].pc = "found" =>
    reading[r].found = global \/ reading[r].found >= reading[r].least
=============================================================================

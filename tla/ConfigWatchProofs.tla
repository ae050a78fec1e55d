-------------------------- MODULE ConfigWatchProofs --------------------------
(***************************************************************************)
(* The process and its watcher, for all documents and environments and any *)
(* number of saves: nothing here depends on what a configuration says or   *)
(* on which are valid, except that the environment is put over the file.   *)
(***************************************************************************)
EXTENDS ConfigWatch, TLAPS

\* What is in use is nothing, or was in the file whole and is valid.
Uses ==
    /\ main = "start" => running = Nothing
    /\ running = Nothing \/ (running \in FromFile /\ Valid(running.cfg))

\* What becomes of a fresh save that can be loaded, once its time has been seen.
Tracked ==
    Alive /\ file.fresh /\ Loads(file, env) =>
        /\ watcher \in {"waiting", "changed", "reloading", "off"}
        /\ file.mtime <= lastMod =>
            /\ watcher = "reloading" => loaded = InFile
            /\ watcher \in {"waiting", "off"} /\ InFile.cfg.listen = running.cfg.listen =>
                    running.save = file.save

IInv == TypeOK /\ Uses /\ Tracked

LEMMA LoadedIsFromFile ==
    ASSUME TypeOK, Loads(file, env)
    PROVE  InFile \in FromFile /\ Valid(InFile.cfg)
<1>1. file.state = "whole" /\ Valid(Merged(file.doc, env))
    BY DEF Loads
<1>2. file.doc \in saved /\ file.save \in 1 .. MaxSaves
    BY <1>1 DEF TypeOK
<1> QED BY <1>1, <1>2 DEF InFile, FromFile

LEMMA NothingIsNotFromFile == Nothing \notin FromFile
<1> SUFFICES ASSUME Nothing \in FromFile PROVE FALSE
    OBVIOUS
<1>1. Nothing.save \in 1 .. MaxSaves
    BY DEF FromFile
<1>2. Nothing.save = 0
    BY DEF Nothing
<1> QED BY <1>1, <1>2, BoundsAssumption

\* What could be made of the file can be made of it after more saves.
LEMMA FromFileGrows ==
    ASSUME saved \subseteq saved', env' = env
    PROVE  FromFile \subseteq FromFile'
BY DEF FromFile

LEMMA InitInvariant == Init => IInv
<1> SUFFICES ASSUME Init PROVE IInv
    OBVIOUS
<1>1. PICK doc \in Docs :
        /\ file = [state |-> "whole", doc |-> doc, mtime |-> 1, save |-> 1, fresh |-> FALSE]
        /\ saved = {doc}
    BY DEF Init
<1>2. TypeOK
    BY <1>1, BoundsAssumption DEF Init, TypeOK, Started
<1>3. Uses
    BY DEF Init, Uses
<1>4. Tracked
    BY <1>1 DEF Tracked
<1> QED BY <1>2, <1>3, <1>4 DEF IInv

\* Steps of main, of signals and of the watcher leave the file alone.
LEMMA SameFile ==
    ASSUME UNCHANGED <<file, env, saved>>
    PROVE  InFile' = InFile /\ FromFile' = FromFile /\ (Loads(file, env)' <=> Loads(file, env))
BY DEF InFile, FromFile

LEMMA LoadFirstKeeps == ASSUME IInv, LoadFirst PROVE IInv'
<1>1. /\ main = "start" /\ main' \in {"loaded", "exited"}
      /\ UNCHANGED <<clock, file, saved, env, signal, watcher, lastMod, loaded>>
    BY DEF LoadFirst, editing
<1>2. main' = "loaded" => running' = InFile /\ InFile \in FromFile /\ Valid(InFile.cfg)
    BY LoadedIsFromFile DEF LoadFirst, IInv
<1>3. main' = "exited" => running' = running
    BY DEF LoadFirst
<1>4. watcher = "none"
    BY <1>1 DEF IInv, TypeOK
<1>5. InFile' = InFile /\ FromFile' = FromFile
    BY <1>1, SameFile
<1>6. TypeOK'
    BY <1>1, <1>2, <1>4, <1>5 DEF IInv, TypeOK, Started
<1>7. Uses'
    BY <1>1, <1>2, <1>3, <1>5 DEF IInv, Uses
<1>8. Tracked'
    BY <1>1, <1>4 DEF IInv, Tracked, Alive
<1> QED BY <1>6, <1>7, <1>8 DEF IInv

LEMMA PrepareKeeps == ASSUME IInv, NEW watch \in BOOLEAN, Prepare(watch) PROVE IInv'
<1>1. /\ UNCHANGED <<clock, file, saved, env, lastMod, loaded, running>>
      /\ main # "start" \/ main' \in {"start", "exited"}
      /\ main' \in {"start", "loaded", "ready", "serving", "exited"}
      /\ signal' \in {"none", "sent", "handled"}
      /\ main = "exited" => main' = "exited"
    BY DEF IInv, TypeOK, Prepare, editing
<1>2. main = "loaded" /\ main' = "ready" /\ watcher' \in {"none", "started"}
    BY DEF Prepare, editing
<1>3. InFile' = InFile /\ FromFile' = FromFile /\ (Loads(file, env)' <=> Loads(file, env))
    BY <1>1, SameFile
<1>4. TypeOK'
    BY <1>1, <1>2, <1>3 DEF IInv, TypeOK, Started, Prepare, editing
<1>5. Uses'
    BY <1>1, <1>3 DEF IInv, Uses, Prepare, editing
<1>6. Tracked'
    BY <1>1, <1>2, <1>3 DEF IInv, TypeOK, Tracked, Alive
<1> QED BY <1>4, <1>5, <1>6 DEF IInv

LEMMA ListenKeeps == ASSUME IInv, NEW free \in BOOLEAN, Listen(free) PROVE IInv'
<1>1. /\ UNCHANGED <<clock, file, saved, env, lastMod, loaded, running>>
      /\ main # "start" \/ main' \in {"start", "exited"}
      /\ main' \in {"start", "loaded", "ready", "serving", "exited"}
      /\ signal' \in {"none", "sent", "handled"}
      /\ main = "exited" => main' = "exited"
    BY DEF IInv, TypeOK, Listen, editing
<1>2. watcher' = watcher
    BY DEF Listen, editing
<1>3. InFile' = InFile /\ FromFile' = FromFile /\ (Loads(file, env)' <=> Loads(file, env))
    BY <1>1, SameFile
<1>4. TypeOK'
    BY <1>1, <1>2, <1>3 DEF IInv, TypeOK, Started, Listen, editing
<1>5. Uses'
    BY <1>1, <1>3 DEF IInv, Uses, Listen, editing
<1>6. Tracked'
    BY <1>1, <1>2, <1>3 DEF IInv, TypeOK, Tracked, Alive
<1> QED BY <1>4, <1>5, <1>6 DEF IInv

LEMMA ReturnKeeps == ASSUME IInv, Return PROVE IInv'
<1>1. /\ UNCHANGED <<clock, file, saved, env, lastMod, loaded, running>>
      /\ main # "start" \/ main' \in {"start", "exited"}
      /\ main' \in {"start", "loaded", "ready", "serving", "exited"}
      /\ signal' \in {"none", "sent", "handled"}
      /\ main = "exited" => main' = "exited"
    BY DEF IInv, TypeOK, Return, editing
<1>2. watcher' = watcher
    BY DEF Return, editing
<1>3. InFile' = InFile /\ FromFile' = FromFile /\ (Loads(file, env)' <=> Loads(file, env))
    BY <1>1, SameFile
<1>4. TypeOK'
    BY <1>1, <1>2, <1>3 DEF IInv, TypeOK, Started, Return, editing
<1>5. Uses'
    BY <1>1, <1>3 DEF IInv, Uses, Return, editing
<1>6. Tracked'
    BY <1>1, <1>2, <1>3 DEF IInv, TypeOK, Tracked, Alive
<1> QED BY <1>4, <1>5, <1>6 DEF IInv

LEMMA SignalKeeps == ASSUME IInv, Signal PROVE IInv'
<1>1. /\ UNCHANGED <<clock, file, saved, env, lastMod, loaded, running>>
      /\ main # "start" \/ main' \in {"start", "exited"}
      /\ main' \in {"start", "loaded", "ready", "serving", "exited"}
      /\ signal' \in {"none", "sent", "handled"}
      /\ main = "exited" => main' = "exited"
    BY DEF IInv, TypeOK, Signal, editing
<1>2. watcher' = watcher
    BY DEF Signal, editing
<1>3. InFile' = InFile /\ FromFile' = FromFile /\ (Loads(file, env)' <=> Loads(file, env))
    BY <1>1, SameFile
<1>4. TypeOK'
    BY <1>1, <1>2, <1>3 DEF IInv, TypeOK, Started, Signal, editing
<1>5. Uses'
    BY <1>1, <1>3 DEF IInv, Uses, Signal, editing
<1>6. Tracked'
    BY <1>1, <1>2, <1>3 DEF IInv, TypeOK, Tracked, Alive
<1> QED BY <1>4, <1>5, <1>6 DEF IInv

LEMMA HandleSignalKeeps == ASSUME IInv, HandleSignal PROVE IInv'
<1>1. /\ UNCHANGED <<clock, file, saved, env, lastMod, loaded, running>>
      /\ main # "start" \/ main' \in {"start", "exited"}
      /\ main' \in {"start", "loaded", "ready", "serving", "exited"}
      /\ signal' \in {"none", "sent", "handled"}
      /\ main = "exited" => main' = "exited"
    BY DEF IInv, TypeOK, HandleSignal, editing
<1>2. watcher' = watcher
    BY DEF HandleSignal, editing
<1>3. InFile' = InFile /\ FromFile' = FromFile /\ (Loads(file, env)' <=> Loads(file, env))
    BY <1>1, SameFile
<1>4. TypeOK'
    BY <1>1, <1>2, <1>3 DEF IInv, TypeOK, Started, HandleSignal, editing
<1>5. Uses'
    BY <1>1, <1>3 DEF IInv, Uses, HandleSignal, editing
<1>6. Tracked'
    BY <1>1, <1>2, <1>3 DEF IInv, TypeOK, Tracked, Alive
<1> QED BY <1>4, <1>5, <1>6 DEF IInv

LEMMA FirstStatKeeps == ASSUME IInv, FirstStat PROVE IInv'
<1>1. /\ UNCHANGED <<clock, file, saved, env, main, signal, loaded, running>>
      /\ watcher = "started" /\ watcher' = "waiting" /\ main # "exited"
      /\ lastMod' \in {0, file.mtime}
    BY DEF FirstStat, editing, process, Alive
<1>2. InFile' = InFile /\ FromFile' = FromFile
    BY <1>1, SameFile
<1>3. file.mtime \in 1 .. MaxClock
    BY DEF IInv, TypeOK
<1>4. lastMod' \in 0 .. MaxClock
    BY <1>1, <1>3, BoundsAssumption
<1>5. TypeOK'
    BY <1>1, <1>2, <1>4 DEF IInv, TypeOK, Started
<1>6. Uses'
    BY <1>1, <1>2 DEF IInv, Uses
<1>7. Tracked'
    <2>1. ~(file.fresh /\ Loads(file, env))
        BY <1>1 DEF IInv, Tracked, Alive
    <2>2. Loads(file, env)' <=> Loads(file, env)
        BY <1>1, SameFile
    <2> QED BY <1>1, <2>1, <2>2 DEF Tracked
<1> QED BY <1>5, <1>6, <1>7 DEF IInv

LEMMA PollKeeps == ASSUME IInv, Poll PROVE IInv'
<1>1. /\ UNCHANGED <<clock, file, saved, env, main, signal, loaded, running>>
      /\ watcher = "waiting" /\ watcher' = "changed" /\ lastMod' = file.mtime
    BY DEF Poll, editing, process
<1>2. InFile' = InFile /\ FromFile' = FromFile
    BY <1>1, SameFile
<1>3. file.mtime \in 1 .. MaxClock
    BY DEF IInv, TypeOK
<1>4. lastMod' \in 0 .. MaxClock
    BY <1>1, <1>3, BoundsAssumption
<1>5. TypeOK'
    BY <1>1, <1>2, <1>4 DEF IInv, TypeOK, Started
<1>6. Uses'
    BY <1>1, <1>2 DEF IInv, Uses
<1>7. Tracked'
    BY <1>1 DEF Tracked
<1> QED BY <1>5, <1>6, <1>7 DEF IInv

LEMMA LoadChangedKeeps == ASSUME IInv, LoadChanged PROVE IInv'
<1>1. /\ UNCHANGED <<clock, file, saved, env, main, signal, lastMod, running>>
      /\ watcher = "changed"
    BY DEF LoadChanged, editing, process
<1>2. /\ InFile' = InFile /\ FromFile' = FromFile
      /\ Loads(file, env)' <=> Loads(file, env)
    BY <1>1, SameFile
<1>3. CASE Loads(file, env)
    <2>1. watcher' = "reloading" /\ loaded' = InFile
        BY <1>3 DEF LoadChanged
    <2>2. InFile \in FromFile /\ Valid(InFile.cfg)
        BY <1>3, LoadedIsFromFile DEF IInv
    <2>3. TypeOK'
        BY <1>1, <1>2, <2>1, <2>2 DEF IInv, TypeOK, Started
    <2>4. Uses'
        BY <1>1, <1>2 DEF IInv, Uses
    <2>5. Tracked'
        BY <1>2, <2>1 DEF Tracked
    <2> QED BY <2>3, <2>4, <2>5 DEF IInv
<1>4. CASE ~Loads(file, env)
    <2>1. watcher' = "waiting" /\ loaded' = loaded
        BY <1>4 DEF LoadChanged
    <2>2. TypeOK'
        BY <1>1, <1>2, <2>1 DEF IInv, TypeOK, Started
    <2>3. Uses'
        BY <1>1, <1>2 DEF IInv, Uses
    <2>4. Tracked'
        BY <1>2, <1>4 DEF Tracked
    <2> QED BY <2>2, <2>3, <2>4 DEF IInv
<1> QED BY <1>3, <1>4

LEMMA ReloadKeeps == ASSUME IInv, Reload PROVE IInv'
<1>1. /\ UNCHANGED <<clock, file, saved, env, main, signal, lastMod>>
      /\ watcher = "reloading" /\ watcher' = "waiting" /\ Alive
      /\ running' = IF loaded.cfg.listen = running.cfg.listen THEN loaded ELSE running
    BY DEF Reload, editing, process
<1>2. /\ InFile' = InFile /\ FromFile' = FromFile
      /\ Loads(file, env)' <=> Loads(file, env)
    BY <1>1, SameFile
<1>3. main \in {"ready", "serving"}
    BY <1>1 DEF IInv, TypeOK, Alive
<1>4. /\ running \in FromFile /\ Valid(running.cfg)
      /\ loaded \in FromFile /\ Valid(loaded.cfg)
    BY <1>1, <1>3 DEF IInv, TypeOK, Started
<1>5. running' \in FromFile /\ Valid(running'.cfg)
    BY <1>1, <1>4
<1>6. TypeOK'
    BY <1>1, <1>2, <1>5 DEF IInv, TypeOK, Started
<1>7. Uses'
    BY <1>1, <1>2, <1>3, <1>5 DEF Uses
<1>8. Tracked'
    <2> SUFFICES ASSUME file.fresh, Loads(file, env), file.mtime <= lastMod,
                        InFile.cfg.listen = running'.cfg.listen
                 PROVE  running'.save = file.save
        BY <1>1, <1>2 DEF Tracked
    <2>1. loaded = InFile
        BY <1>1 DEF IInv, Tracked
    <2>2. running'.cfg.listen = running.cfg.listen
        BY <1>1
    <2>3. running' = InFile
        BY <1>1, <2>1, <2>2
    <2> QED BY <2>3 DEF InFile
<1> QED BY <1>6, <1>7, <1>8 DEF IInv

LEMMA StopWatchingKeeps == ASSUME IInv, StopWatching PROVE IInv'
<1>1. /\ UNCHANGED <<clock, file, saved, env, main, signal, lastMod, loaded, running>>
      /\ watcher = "waiting" /\ watcher' = "off"
    BY DEF StopWatching, editing, process
<1>2. /\ InFile' = InFile /\ FromFile' = FromFile
      /\ Loads(file, env)' <=> Loads(file, env)
    BY <1>1, SameFile
<1>3. TypeOK'
    BY <1>1, <1>2 DEF IInv, TypeOK, Started
<1>4. Uses'
    BY <1>1, <1>2 DEF IInv, Uses
<1>5. Tracked'
    BY <1>1, <1>2 DEF IInv, Tracked, Alive
<1> QED BY <1>3, <1>4, <1>5 DEF IInv

\* A save, whole or begun, by whatever means.
LEMMA SaveKeeps ==
    ASSUME IInv, NEW state \in {"whole", "partial"}, NEW doc \in Docs, NEW mtime \in 1 .. MaxClock,
           NEW save \in 1 .. MaxSaves, Saved(state, doc, mtime, save),
           saved' \in SUBSET Docs, saved \subseteq saved', state = "whole" => doc \in saved',
           UNCHANGED <<clock, env, main, signal, watcher, lastMod, loaded, running>>
    PROVE  IInv'
<1> DEFINE fresh == watcher \notin {"none", "started"} /\ mtime > lastMod
<1>1. /\ file' = [state |-> state, doc |-> doc, mtime |-> mtime, save |-> save, fresh |-> fresh]
      /\ fresh \in BOOLEAN
    BY DEF Saved
<1>2. file'.state = state /\ file'.doc = doc /\ file'.mtime = mtime /\ file'.fresh = fresh
    <2> HIDE DEF fresh
    <2> QED BY <1>1
<1>3. file' \in [state : {"whole", "partial", "missing"}, doc : Docs, mtime : 1 .. MaxClock,
                 save : 1 .. MaxSaves, fresh : BOOLEAN]
    <2> HIDE DEF fresh
    <2> QED BY <1>1
<1>4. FromFile \subseteq FromFile'
    BY FromFileGrows
<1>5. TypeOK'
    <2>1. saved' \subseteq Docs /\ (file'.state = "whole" => file'.doc \in saved')
        BY <1>2
    <2>2. Started' => running' \in FromFile' /\ Valid(running'.cfg)
        BY <1>4 DEF IInv, TypeOK, Started
    <2>3. watcher' = "reloading" => loaded' \in FromFile' /\ Valid(loaded'.cfg)
        BY <1>4 DEF IInv, TypeOK
    <2> QED BY <1>3, <2>1, <2>2, <2>3 DEF IInv, TypeOK
<1>6. Uses'
    BY <1>4 DEF IInv, Uses
<1>7. Tracked'
    <2>1. lastMod \in 0 .. MaxClock /\ MaxClock \in Nat
        BY BoundsAssumption DEF IInv, TypeOK
    <2>2. watcher \in {"none", "started", "waiting", "changed", "reloading", "off"}
        BY DEF IInv, TypeOK
    <2>3. fresh => watcher \notin {"none", "started"} /\ ~(mtime <= lastMod)
        BY <2>1
    <2> HIDE DEF fresh
    <2>4. file'.fresh => watcher \notin {"none", "started"} /\ ~(file'.mtime <= lastMod)
        BY <1>2, <2>3
    <2> QED BY <2>2, <2>4 DEF Tracked
<1> QED BY <1>5, <1>6, <1>7 DEF IInv

LEMMA EditKeeps == ASSUME IInv, Edit PROVE IInv'
<1> USE DEF editing, process
<1>0. /\ saved \subseteq Docs /\ file.save \in 1 .. MaxSaves /\ clock \in 1 .. MaxClock
      /\ file \in [state : {"whole", "partial", "missing"}, doc : Docs, mtime : 1 .. MaxClock,
                   save : 1 .. MaxSaves, fresh : BOOLEAN]
      /\ MaxSaves \in Nat /\ MaxClock \in Nat
    BY BoundsAssumption DEF IInv, TypeOK
<1>1. ASSUME NEW doc \in Docs, BeginWrite(doc) PROVE IInv'
    <2>1. file.save + 1 \in 1 .. MaxSaves
        BY <1>0, <1>1 DEF BeginWrite
    <2> QED BY <1>0, <1>1, <2>1, SaveKeeps DEF BeginWrite
<1>2. ASSUME NEW doc \in Docs, NEW mtime \in 1 .. MaxClock, Replace(doc, mtime) PROVE IInv'
    <2>1. file.save + 1 \in 1 .. MaxSaves
        BY <1>0, <1>2 DEF Replace
    <2> QED BY <1>0, <1>2, <2>1, SaveKeeps DEF Replace
<1>3. CASE EndWrite
    <2>1. file.doc \in Docs
        BY <1>0
    <2> QED BY <1>0, <1>3, <2>1, SaveKeeps DEF EndWrite
<1>4. CASE Remove
    <2>1. /\ UNCHANGED <<clock, saved, env, main, signal, watcher, lastMod, loaded, running>>
          /\ file' = [file EXCEPT !.state = "missing"]
        BY <1>4 DEF Remove
    <2>2. FromFile' = FromFile
        BY <2>1 DEF FromFile
    <2>3. file' \in [state : {"whole", "partial", "missing"}, doc : Docs, mtime : 1 .. MaxClock,
                     save : 1 .. MaxSaves, fresh : BOOLEAN] /\ file'.state = "missing"
        BY <1>0, <2>1
    <2>4. ~Loads(file, env)'
        BY <2>3 DEF Loads
    <2>5. TypeOK'
        BY <2>1, <2>2, <2>3 DEF IInv, TypeOK, Started
    <2>6. Uses' /\ Tracked'
        BY <2>1, <2>2, <2>4 DEF IInv, Uses, Tracked
    <2> QED BY <2>5, <2>6 DEF IInv
<1>5. CASE ClockMoves
    <2>1. /\ UNCHANGED <<file, saved, env, main, signal, watcher, lastMod, loaded, running>>
          /\ clock' \in 1 .. MaxClock
        BY <1>0, <1>5 DEF ClockMoves
    <2>2. InFile' = InFile /\ FromFile' = FromFile /\ (Loads(file, env)' <=> Loads(file, env))
        BY <2>1, SameFile
    <2>3. TypeOK' /\ Uses' /\ Tracked'
        BY <2>1, <2>2 DEF IInv, TypeOK, Uses, Tracked, Started, Alive
    <2> QED BY <2>3 DEF IInv
<1> QED BY <1>1, <1>2, <1>3, <1>4, <1>5 DEF Edit

LEMMA StutterKeeps == ASSUME IInv, UNCHANGED vars PROVE IInv'
<1>1. UNCHANGED <<clock, file, saved, env, main, signal, watcher, lastMod, loaded, running>>
    BY DEF vars
<1>2. InFile' = InFile /\ FromFile' = FromFile /\ (Loads(file, env)' <=> Loads(file, env))
    BY <1>1, SameFile
<1> QED BY <1>1, <1>2 DEF IInv, TypeOK, Uses, Tracked, Started, Alive

LEMMA StepKeeps == ASSUME IInv, [Next]_vars PROVE IInv'
<1>1. CASE Main
    BY <1>1, LoadFirstKeeps, PrepareKeeps, ListenKeeps, ReturnKeeps DEF Main
<1>2. CASE Signal \/ HandleSignal
    BY <1>2, SignalKeeps, HandleSignalKeeps
<1>3. CASE Watch \/ StopWatching
    BY <1>3, FirstStatKeeps, PollKeeps, LoadChangedKeeps, ReloadKeeps, StopWatchingKeeps DEF Watch
<1>4. CASE Edit
    BY <1>4, EditKeeps
<1> QED BY <1>1, <1>2, <1>3, <1>4, StutterKeeps DEF Next

LEMMA Invariant == Spec => []IInv
BY InitInvariant, StepKeeps, PTL DEF Spec

\* The process only ever serves, and its watcher only ever holds, what was in the
\* file whole and is valid (main, watchConfig, gateway.New).
THEOREM ProcessTypeCorrect == Spec => []TypeOK
BY Invariant, PTL DEF IInv

\* No order of saves, stats, loads and reloads makes the watcher pass over a save
\* it could know of (watchConfig).
THEOREM NoSaveIsMissed == Spec => []NothingMissed
<1>1. IInv => NothingMissed
    <2> SUFFICES ASSUME IInv, file.fresh, Usable, file.mtime <= lastMod, Alive
                 PROVE  \/ watcher = "changed"
                        \/ watcher = "reloading" /\ loaded.save = file.save
                        \/ running.save = file.save
        BY DEF NothingMissed
    <2>1. Loads(file, env) /\ InFile.cfg.listen = running.cfg.listen
        BY DEF Usable
    <2>2. watcher \in {"waiting", "changed", "reloading", "off"}
          /\ (watcher = "reloading" => loaded = InFile)
          /\ (watcher \in {"waiting", "off"} => running.save = file.save)
        BY <2>1 DEF IInv, Tracked
    <2>3. InFile.save = file.save
        BY DEF InFile
    <2> QED BY <2>2, <2>3
<1> QED BY <1>1, Invariant, PTL

\* Over the defaults every field has a value.
LEMMA Fields ==
    ASSUME NEW doc
    PROVE  {"listen", "bodyLimit", "requestTimeout", "providers"} \subseteq DOMAIN OverDefaults(doc)
<1>1. \A f : DOMAIN Over(f, Defaults) = DOMAIN f \cup DOMAIN Defaults
    BY DEF Over
<1>2. {"listen", "bodyLimit", "requestTimeout", "providers"} \subseteq DOMAIN Defaults
    BY DEF Defaults
<1>3. \E f : OverDefaults(doc) = Over(f, Defaults)
    BY DEF OverDefaults
<1> QED BY <1>1, <1>2, <1>3

\* What the environment sets is what Load makes of any document.
LEMMA EnvironmentFirst ==
    ASSUME NEW doc, NEW e
    PROVE  /\ e.listen # "" => Merged(doc, e).listen = e.listen
           /\ e.bodyLimit > 0 => Merged(doc, e).bodyLimit = e.bodyLimit
           /\ e.requestTimeout > 0 => Merged(doc, e).requestTimeout = e.requestTimeout
<1> DEFINE d == OverDefaults(doc)
           l == IF e.listen # "" THEN e.listen ELSE d.listen
           b == IF e.bodyLimit > 0 THEN e.bodyLimit ELSE d.bodyLimit
           t == IF e.requestTimeout > 0 THEN e.requestTimeout ELSE d.requestTimeout
           c == [d EXCEPT !.listen = l, !.bodyLimit = b, !.requestTimeout = t]
<1>1. \E x : Merged(doc, e) = [c EXCEPT !.providers = x]
    BY DEF Merged, WithEnvironment
<1> HIDE DEF d, l, b, t
<1>2. c = [[[d EXCEPT !.listen = l] EXCEPT !.bodyLimit = b] EXCEPT !.requestTimeout = t]
    OBVIOUS
<1>3. \A f, x : {"listen", "bodyLimit", "requestTimeout", "providers"} \subseteq DOMAIN f =>
        /\ DOMAIN [f EXCEPT !.listen = x] = DOMAIN f
        /\ [f EXCEPT !.listen = x].listen = x
    OBVIOUS
<1>4. \A f, x : {"listen", "bodyLimit", "requestTimeout", "providers"} \subseteq DOMAIN f =>
        /\ DOMAIN [f EXCEPT !.bodyLimit = x] = DOMAIN f
        /\ [f EXCEPT !.bodyLimit = x].bodyLimit = x
        /\ [f EXCEPT !.bodyLimit = x].listen = f.listen
    OBVIOUS
<1>5. \A f, x : {"listen", "bodyLimit", "requestTimeout", "providers"} \subseteq DOMAIN f =>
        /\ DOMAIN [f EXCEPT !.requestTimeout = x] = DOMAIN f
        /\ [f EXCEPT !.requestTimeout = x].requestTimeout = x
        /\ [f EXCEPT !.requestTimeout = x].listen = f.listen
        /\ [f EXCEPT !.requestTimeout = x].bodyLimit = f.bodyLimit
    OBVIOUS
<1>6. \A f, x : {"listen", "bodyLimit", "requestTimeout", "providers"} \subseteq DOMAIN f =>
        /\ [f EXCEPT !.providers = x].listen = f.listen
        /\ [f EXCEPT !.providers = x].bodyLimit = f.bodyLimit
        /\ [f EXCEPT !.providers = x].requestTimeout = f.requestTimeout
    OBVIOUS
<1>7. {"listen", "bodyLimit", "requestTimeout", "providers"} \subseteq DOMAIN d
    BY Fields DEF d
<1> DEFINE d1 == [d EXCEPT !.listen = l]
           d2 == [d1 EXCEPT !.bodyLimit = b]
           d3 == [d2 EXCEPT !.requestTimeout = t]
<1>8. c = d3
    BY <1>2
<1> HIDE DEF c
<1>9. /\ d1.listen = l
      /\ {"listen", "bodyLimit", "requestTimeout", "providers"} \subseteq DOMAIN d1
    BY <1>3, <1>7
<1> HIDE DEF d1
<1>10. /\ d2.listen = l /\ d2.bodyLimit = b
       /\ {"listen", "bodyLimit", "requestTimeout", "providers"} \subseteq DOMAIN d2
    BY <1>4, <1>9
<1> HIDE DEF d2
<1>11. /\ d3.listen = l /\ d3.bodyLimit = b /\ d3.requestTimeout = t
       /\ {"listen", "bodyLimit", "requestTimeout", "providers"} \subseteq DOMAIN d3
    BY <1>5, <1>10
<1> HIDE DEF d3
<1>12. Merged(doc, e).listen = l /\ Merged(doc, e).bodyLimit = b /\ Merged(doc, e).requestTimeout = t
    BY <1>1, <1>6, <1>8, <1>11
<1> QED BY <1>12 DEF l, b, t

\* What the environment sets is in use whenever a configuration is, also after a
\* reload (applyEnv comes after the file in Load).
THEOREM EnvironmentIsUsed == Spec => []EnvironmentWins
<1>1. IInv => EnvironmentWins
    <2> SUFFICES ASSUME IInv, Started PROVE EnvironmentWins
        BY DEF EnvironmentWins
    <2>1. running \in FromFile
        BY DEF IInv, TypeOK
    <2>2. PICK doc \in saved : running.cfg = Merged(doc, env)
        BY <2>1 DEF FromFile
    <2>3. /\ env.listen # "" => running.cfg.listen = env.listen
          /\ env.bodyLimit > 0 => running.cfg.bodyLimit = env.bodyLimit
          /\ env.requestTimeout > 0 => running.cfg.requestTimeout = env.requestTimeout
        <3>1. /\ env.listen # "" => Merged(doc, env).listen = env.listen
              /\ env.bodyLimit > 0 => Merged(doc, env).bodyLimit = env.bodyLimit
              /\ env.requestTimeout > 0 => Merged(doc, env).requestTimeout = env.requestTimeout
            BY EnvironmentFirst
        <3> QED BY <2>2, <3>1, Zenon
    <2>4. env.listen # "" => InFile.cfg.listen = env.listen
        <3>1. InFile.cfg = Merged(file.doc, env)
            BY DEF InFile
        <3>2. env.listen # "" => Merged(file.doc, env).listen = env.listen
            BY EnvironmentFirst
        <3> QED BY <3>1, <3>2, Zenon
    <2>5. env.listen # "" /\ Loads(file, env) => Usable
        BY <2>3, <2>4 DEF Usable
    <2> QED BY <2>3, <2>5 DEF EnvironmentWins
<1> QED BY <1>1, Invariant, PTL

Offered == {c \in {Merged(doc, env) : doc \in saved} : Valid(c)}
InUse == IF running.save = 0 THEN {} ELSE {running.cfg}

\* What is loaded from the file, or in use, was offered.
LEMMA FromFileIsOffered ==
    ASSUME NEW r \in FromFile, Valid(r.cfg), env \in Envs, saved \subseteq Docs
    PROVE  r.cfg \in Offered /\ r.save # 0
<1>1. r.save # 0
    BY BoundsAssumption DEF FromFile
<1>2. r.cfg \in {Merged(doc, env) : doc \in saved}
    BY DEF FromFile
<1> QED BY <1>1, <1>2 DEF Offered

\* A save offers at most one configuration more.
LEMMA SaveOffers ==
    ASSUME IInv, NEW doc \in Docs, saved' = saved \cup {doc}, UNCHANGED <<env, running>>
    PROVE  Promise!Offer \/ UNCHANGED <<Offered, InUse>>
<1>1. UNCHANGED InUse
    BY DEF InUse
<1>2. CASE Valid(Merged(doc, env))
    <2>1. Merged(doc, env) \in AllConfigs
        BY <1>2 DEF AllConfigs, IInv, TypeOK
    <2>2. Offered' = Offered \cup {Merged(doc, env)}
        BY <1>2 DEF Offered
    <2> QED BY <1>1, <2>1, <2>2 DEF Promise!Offer, Offered, InUse
<1>3. CASE ~Valid(Merged(doc, env))
    <2>1. Offered' = Offered
        BY <1>3 DEF Offered
    <2> QED BY <1>1, <2>1
<1> QED BY <1>2, <1>3

\* The process implements HotReload: the first load starts it, a reload that is
\* not refused switches it, and a save that is valid is an offer.
THEOREM ProcessRefines == Spec => RefinesHotReload
<1>1. Init => Promise!Init
    <2> SUFFICES ASSUME Init PROVE Promise!Init
        OBVIOUS
    <2>1. saved \subseteq Docs /\ env \in Envs
        BY DEF Init
    <2>2. Offered \subseteq AllConfigs
        BY <2>1 DEF Offered, AllConfigs
    <2>3. InUse = {}
        BY DEF Init, Nothing, InUse
    <2> QED BY <2>2, <2>3 DEF Promise!Init, Offered, InUse
<1>2. ASSUME IInv, [Next]_vars PROVE [Promise!Next]_<<Offered, InUse>>
    <2>0. env \in Envs /\ saved \subseteq Docs
        BY <1>2 DEF IInv, TypeOK
    <2>1. ASSUME UNCHANGED <<saved, env, running>> PROVE UNCHANGED <<Offered, InUse>>
        BY <2>1 DEF Offered, InUse
    <2>2. CASE LoadFirst
        <3>1. UNCHANGED <<saved, env>> /\ running = Nothing
            BY <1>2, <2>2 DEF LoadFirst, editing, IInv, Uses
        <3>2. CASE Loads(file, env)
            <4>1. running' = InFile /\ InFile \in FromFile /\ Valid(InFile.cfg)
                BY <1>2, <2>2, <3>2, LoadedIsFromFile DEF LoadFirst, IInv
            <4>2. InFile.cfg \in Offered /\ InFile.save # 0
                BY <2>0, <4>1, FromFileIsOffered
            <4>3. InUse = {} /\ InUse' = {InFile.cfg} /\ Offered' = Offered
                BY <3>1, <4>1, <4>2 DEF InUse, Nothing, Offered
            <4>4. Promise!Start
                BY <4>2, <4>3 DEF Promise!Start, InUse, Offered
            <4> QED BY <4>4 DEF Promise!Next
        <3>3. CASE ~Loads(file, env)
            BY <2>1, <2>2, <3>1, <3>3 DEF LoadFirst
        <3> QED BY <3>2, <3>3
    <2>3. CASE Reload
        <3>1. /\ UNCHANGED <<saved, env>>
              /\ watcher = "reloading" /\ main # "exited"
              /\ running' = IF loaded.cfg.listen = running.cfg.listen THEN loaded ELSE running
            BY <2>3 DEF Reload, editing, process, Alive
        <3>2. CASE loaded.cfg.listen = running.cfg.listen
            <4>1. /\ running \in FromFile /\ Valid(running.cfg)
                  /\ loaded \in FromFile /\ Valid(loaded.cfg)
                BY <1>2, <3>1 DEF IInv, TypeOK, Started
            <4>2. loaded.cfg \in Offered /\ loaded.save # 0 /\ running.save # 0
                BY <2>0, <4>1, FromFileIsOffered
            <4>3. InUse = {running.cfg} /\ InUse' = {loaded.cfg} /\ Offered' = Offered
                BY <3>1, <3>2, <4>2 DEF InUse, Offered
            <4>4. Promise!Switch
                BY <3>2, <4>2, <4>3 DEF Promise!Switch, InUse, Offered
            <4> QED BY <4>4 DEF Promise!Next
        <3>3. CASE loaded.cfg.listen # running.cfg.listen
            BY <2>1, <3>1, <3>3
        <3> QED BY <3>2, <3>3
    <2>4. CASE Edit
        <3>1. ASSUME NEW doc \in Docs, saved' = saved \cup {doc}, UNCHANGED <<env, running>>
              PROVE  [Promise!Next]_<<Offered, InUse>>
            BY <1>2, <3>1, SaveOffers DEF Promise!Next
        <3>2. ASSUME NEW doc \in Docs, NEW mtime \in 1 .. MaxClock, Replace(doc, mtime)
              PROVE  [Promise!Next]_<<Offered, InUse>>
            BY <3>1, <3>2 DEF Replace, process
        <3>3. CASE EndWrite
            <4>1. file.doc \in Docs
                BY <1>2 DEF IInv, TypeOK
            <4> QED BY <3>1, <3>3, <4>1 DEF EndWrite, process
        <3>4. ASSUME NEW doc \in Docs, BeginWrite(doc) PROVE UNCHANGED <<Offered, InUse>>
            BY <2>1, <3>4 DEF BeginWrite, process
        <3>5. CASE Remove \/ ClockMoves
            BY <2>1, <3>5 DEF Remove, ClockMoves, process
        <3> QED BY <2>4, <3>2, <3>3, <3>4, <3>5 DEF Edit
    <2>5. CASE Return \/ (\E choice \in BOOLEAN : Prepare(choice) \/ Listen(choice))
        BY <2>1, <2>5 DEF Return, Prepare, Listen, editing
    <2>6. CASE Signal \/ HandleSignal \/ StopWatching
        BY <2>1, <2>6 DEF Signal, HandleSignal, StopWatching, editing, process
    <2>7. CASE FirstStat \/ Poll \/ LoadChanged
        BY <2>1, <2>7 DEF FirstStat, Poll, LoadChanged, editing, process
    <2>8. CASE UNCHANGED vars
        BY <2>1, <2>8 DEF vars
    <2> QED BY <1>2, <2>2, <2>3, <2>4, <2>5, <2>6, <2>7, <2>8 DEF Next, Main, Watch
<1> QED BY <1>1, <1>2, Invariant, PTL DEF Spec, RefinesHotReload, Promise!Spec, Offered, InUse
=============================================================================

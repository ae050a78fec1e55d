---------------------------- MODULE ConfigWatch ----------------------------
(***************************************************************************)
(* The process (cmd/alvus-core/main.go): main loads the configuration,     *)
(* starts the watcher and serves until a signal; the watcher compares the  *)
(* file's modification time with the last one it saw and, if it is later,  *)
(* loads the file and hands the configuration to the gateway.  Meanwhile   *)
(* the file is saved, in place or by renaming, or removed.                 *)
(*                                                                         *)
(* Modification times come from a clock that need not move between two     *)
(* saves, and a file that is renamed may bring an older time with it.  The *)
(* ticker is abstracted to a poll at any time.                             *)
(***************************************************************************)
EXTENDS ConfigOps

CONSTANTS
    Docs,         \* what a file may say
    Envs,         \* the environments the process may be started in
    MaxSaves,     \* bound: how often the file is saved
    MaxClock      \* bound: how far the clock of modification times goes

ASSUME BoundsAssumption == MaxSaves \in Nat \ {0} /\ MaxClock \in Nat \ {0}

VARIABLES
    clock,     \* the clock of modification times
    file,      \* the file: [state, doc, mtime, save], and whether it is fresh
    env,       \* the environment, which does not change
    main,      \* the main goroutine
    signal,    \* the signal to stop
    watcher,   \* the watcher's goroutine
    lastMod,   \* its lastMod; 0 is the zero time
    loaded,    \* what it has loaded: [cfg, save]
    running,   \* the gateway's configuration: [cfg, save]
    saved      \* history: the documents that have been in the file, whole

vars == <<clock, file, env, main, signal, watcher, lastMod, loaded, running, saved>>
editing == <<clock, file, saved>>
process == <<env, main, signal>>

Nothing == [cfg |-> Defaults, save |-> 0]

Init ==
    /\ clock = 1
    /\ \E doc \in Docs :
        /\ file = [state |-> "whole", doc |-> doc, mtime |-> 1, save |-> 1, fresh |-> FALSE]
        /\ saved = {doc}
    /\ env \in Envs
    /\ main = "start"
    /\ signal = "none"
    /\ watcher = "none"
    /\ lastMod = 0
    /\ loaded = Nothing
    /\ running = Nothing

InFile == [cfg |-> Merged(file.doc, env), save |-> file.save]

-----------------------------------------------------------------------------
(* The main goroutine and the one that waits for the signal.               *)

\* main, up to gateway.New: the gateway gets its first configuration, or the
\* process ends.
LoadFirst ==
    /\ main = "start"
    /\ IF Loads(file, env) THEN main' = "loaded" /\ running' = InFile
                           ELSE main' = "exited" /\ UNCHANGED running
    /\ UNCHANGED <<editing, env, signal, watcher, lastMod, loaded>>

\* The watcher is started, if it is wanted, and signals are caught from here.
Prepare(watch) ==
    /\ main = "loaded"
    /\ main' = "ready"
    /\ watcher' = IF watch THEN "started" ELSE "none"
    /\ UNCHANGED <<editing, env, signal, lastMod, loaded, running>>

\* ListenAndServe begins.  It refuses to once Shutdown has been called.
Listen(free) ==
    /\ main = "ready"
    /\ main' = IF free /\ signal # "handled" THEN "serving" ELSE "exited"
    /\ UNCHANGED <<editing, env, signal, watcher, lastMod, loaded, running>>

\* ListenAndServe returns when Shutdown is called, and main with it, whatever
\* requests are still being served.
Return ==
    /\ main = "serving"
    /\ signal = "handled"
    /\ main' = "exited"
    /\ UNCHANGED <<editing, env, signal, watcher, lastMod, loaded, running>>

\* A signal ends the process that does not catch it yet.
Signal ==
    /\ main # "exited" /\ signal = "none"
    /\ IF main \in {"start", "loaded"}
       THEN main' = "exited" /\ UNCHANGED signal
       ELSE signal' = "sent" /\ UNCHANGED main
    /\ UNCHANGED <<editing, env, watcher, lastMod, loaded, running>>

\* Mutant of HandleSignal: only the watcher is stopped.
HandleSignalForWatcher ==
    /\ main # "exited" /\ signal = "sent"
    /\ signal' = "closed"
    /\ UNCHANGED <<editing, env, main, watcher, lastMod, loaded, running>>

\* The watcher's channel is closed and Shutdown called.
HandleSignal ==
    /\ main # "exited" /\ signal = "sent"
    /\ signal' = "handled"
    /\ UNCHANGED <<editing, env, main, watcher, lastMod, loaded, running>>

-----------------------------------------------------------------------------
(* watchConfig.                                                            *)

Alive == main # "exited"

\* The first Stat: a missing file leaves lastMod at the zero time.
FirstStat ==
    /\ Alive /\ watcher = "started"
    /\ watcher' = "waiting"
    /\ lastMod' = IF file.state = "missing" THEN 0 ELSE file.mtime
    /\ UNCHANGED <<editing, process, loaded, running>>

IsNewer == file.state # "missing" /\ file.mtime > lastMod

\* A tick at which Stat finds the file changed; any other does nothing.
Poll ==
    /\ Alive /\ watcher = "waiting"
    /\ IsNewer
    /\ watcher' = "changed"
    /\ lastMod' = file.mtime
    /\ UNCHANGED <<editing, process, loaded, running>>

\* Mutant of LoadChanged: the watcher ends at the first file it rejects.
LoadChangedOrEnd ==
    /\ Alive /\ watcher = "changed"
    /\ IF Loads(file, env) THEN watcher' = "reloading" /\ loaded' = InFile
                           ELSE watcher' = "off" /\ UNCHANGED loaded
    /\ UNCHANGED <<editing, process, lastMod, running>>

\* The file is loaded as it is now, or rejected.
LoadChanged ==
    /\ Alive /\ watcher = "changed"
    /\ IF Loads(file, env) THEN watcher' = "reloading" /\ loaded' = InFile
                           ELSE watcher' = "waiting" /\ UNCHANGED loaded
    /\ UNCHANGED <<editing, process, lastMod, running>>

\* Mutant of Reload: lastMod is what Stat says after the reload.
ReloadAndStat ==
    /\ Alive /\ watcher = "reloading"
    /\ watcher' = "waiting"
    /\ running' = IF loaded.cfg.listen = running.cfg.listen THEN loaded ELSE running
    /\ loaded' = Nothing
    /\ lastMod' = file.mtime
    /\ UNCHANGED <<editing, process>>

\* Mutant of Reload: the listen addresses are not compared.
ReloadAnywhere ==
    /\ Alive /\ watcher = "reloading"
    /\ watcher' = "waiting"
    /\ running' = loaded
    /\ loaded' = Nothing
    /\ UNCHANGED <<editing, process, lastMod>>

\* Reload: a configuration that listens elsewhere is rejected.
Reload ==
    /\ Alive /\ watcher = "reloading"
    /\ watcher' = "waiting"
    /\ running' = IF loaded.cfg.listen = running.cfg.listen THEN loaded ELSE running
    /\ loaded' = Nothing
    /\ UNCHANGED <<editing, process, lastMod>>

\* The channel is closed.  A tick at the same time may be taken first.
StopWatching ==
    /\ Alive /\ watcher = "waiting"
    /\ signal = "handled"
    /\ watcher' = "off"
    /\ UNCHANGED <<editing, process, lastMod, loaded, running>>

-----------------------------------------------------------------------------
(* The file.  A save is fresh if the watcher can know of it: it bears a    *)
(* later time than what the watcher has seen.                              *)

Saved(state, doc, mtime, save) ==
    file' = [state |-> state, doc |-> doc, mtime |-> mtime, save |-> save,
             fresh |-> watcher \notin {"none", "started"} /\ mtime > lastMod]

\* The file is replaced in one step by another, which may be older.
Replace(doc, mtime) ==
    /\ Alive /\ file.state # "partial"
    /\ file.save < MaxSaves
    /\ mtime <= clock
    /\ Saved("whole", doc, mtime, file.save + 1)
    /\ saved' = saved \cup {doc}
    /\ UNCHANGED <<clock, process, watcher, lastMod, loaded, running>>

\* The file is truncated and written anew.
BeginWrite(doc) ==
    /\ Alive /\ file.state # "partial"
    /\ file.save < MaxSaves
    /\ Saved("partial", doc, clock, file.save + 1)
    /\ UNCHANGED <<clock, saved, process, watcher, lastMod, loaded, running>>

EndWrite ==
    /\ Alive /\ file.state = "partial"
    /\ Saved("whole", file.doc, clock, file.save)
    /\ saved' = saved \cup {file.doc}
    /\ UNCHANGED <<clock, process, watcher, lastMod, loaded, running>>

Remove ==
    /\ Alive /\ file.state = "whole"
    /\ file' = [file EXCEPT !.state = "missing"]
    /\ UNCHANGED <<clock, saved, process, watcher, lastMod, loaded, running>>

ClockMoves ==
    /\ Alive /\ clock < MaxClock
    /\ clock' = clock + 1
    /\ UNCHANGED <<file, saved, process, watcher, lastMod, loaded, running>>

-----------------------------------------------------------------------------
Main ==
    \/ LoadFirst \/ Return
    \/ \E choice \in BOOLEAN : Prepare(choice) \/ Listen(choice)

Watch == FirstStat \/ Poll \/ LoadChanged \/ Reload

Edit ==
    \/ \E doc \in Docs : BeginWrite(doc) \/ \E mtime \in 1 .. MaxClock : Replace(doc, mtime)
    \/ EndWrite \/ Remove \/ ClockMoves

Next == Main \/ Signal \/ HandleSignal \/ Watch \/ StopWatching \/ Edit

\* The goroutines that can run are run, and the ticker ticks; nobody has to
\* save, to finish a save or to send a signal.
Fairness == WF_vars(Main) /\ WF_vars(HandleSignal) /\ WF_vars(Watch) /\ WF_vars(StopWatching)

Spec == Init /\ [][Next]_vars /\ Fairness

-----------------------------------------------------------------------------
Started == main \in {"loaded", "ready", "serving"}

FromFile == [cfg : {Merged(doc, env) : doc \in saved}, save : 1 .. MaxSaves]

\* The process serves a valid configuration, made of a document that was in the
\* file whole, and the watcher holds nothing else (main.go, gateway.New).
TypeOK ==
    /\ clock \in 1 .. MaxClock
    /\ file \in [state : {"whole", "partial", "missing"}, doc : Docs, mtime : 1 .. MaxClock,
                 save : 1 .. MaxSaves, fresh : BOOLEAN]
    /\ env \in Envs
    /\ main \in {"start", "loaded", "ready", "serving", "exited"}
    /\ signal \in {"none", "sent", "handled"}
    /\ watcher \in {"none", "started", "waiting", "changed", "reloading", "off"}
    /\ watcher # "none" => main \in {"ready", "serving", "exited"}
    /\ lastMod \in 0 .. MaxClock
    /\ saved \subseteq Docs
    /\ file.state = "whole" => file.doc \in saved
    /\ Started => running \in FromFile /\ Valid(running.cfg)
    /\ watcher = "reloading" => loaded \in FromFile /\ Valid(loaded.cfg)

\* The file can be put into use: a valid configuration that listens where the
\* process listens.
Usable == Loads(file, env) /\ InFile.cfg.listen = running.cfg.listen

\* A fresh save that the watcher counts among the files it has seen is in use,
\* or will be by its next two steps: no order of saves, stats, loads and reloads
\* makes the watcher pass over one (watchConfig, where lastMod is set before the
\* file is read and not read again after).
NothingMissed ==
    file.fresh /\ Usable /\ file.mtime <= lastMod /\ Alive =>
        \/ watcher = "changed"
        \/ watcher = "reloading" /\ loaded.save = file.save
        \/ running.save = file.save

\* What the environment sets is in use from the start and after every reload,
\* whatever a file says (config.go:113, "explicit environment > JSON config file
\* > defaults"); so with ALVUS_LISTEN set no reload is refused for its address.
EnvironmentWins ==
    Started =>
        /\ env.listen # "" => running.cfg.listen = env.listen
        /\ env.bodyLimit > 0 => running.cfg.bodyLimit = env.bodyLimit
        /\ env.requestTimeout > 0 => running.cfg.requestTimeout = env.requestTimeout
        /\ env.listen # "" /\ Loads(file, env) => Usable

\* The configurations that can be made of a file.
AllConfigs == {c \in {Merged(doc, e) : doc \in Docs, e \in Envs} : Valid(c)}

\* The process implements HotReload: what it uses was offered to it whole and
\* valid, is replaced in one step and never moves to another address.
Promise == INSTANCE HotReload WITH
    Configs <- AllConfigs,
    offered <- {c \in {Merged(doc, env) : doc \in saved} : Valid(c)},
    inUse <- IF running.save = 0 THEN {} ELSE {running.cfg}
RefinesHotReload == Promise!Spec

\* A fresh save that can be used is used in the end, unless the file changes
\* once more or the process ends (README.md:46).
FreshSaveIsUsed ==
    \A n \in 1 .. MaxSaves :
        (file.save = n /\ file.fresh /\ Usable)
            ~> (running.save = n \/ file.save # n \/ file.state # "whole" \/ ~Alive)

\* A signal that is caught ends the process, also one that comes before it
\* listens.
StopsWhenTold == (signal = "sent") ~> ~Alive
=============================================================================

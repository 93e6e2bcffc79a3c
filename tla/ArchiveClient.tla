--------------------------- MODULE ArchiveClient ---------------------------
(***************************************************************************)
(* The MrijaArchive client process: one AppState object shared, without a  *)
(* lock, by                                                                *)
(*   - the event loop, which runs the handlers of api/control.py one at a  *)
(*     time (/open, /restart, /update, /sync, /shutdown, the progress      *)
(*     stream);                                                            *)
(*   - worker threads, each running updater.run_update or                  *)
(*     control._run_sync_impl;                                             *)
(*   - the terminal interface (tui.py), which starts updates and quits.    *)
(* The process may be killed at any point and started again by the Windows *)
(* launcher, which opens the newest .sqlite file of its data directory.    *)
(*                                                                         *)
(* A step of a thread is a stretch of code that touches the shared objects *)
(* (AppState, the files) once, or several times with nothing another       *)
(* thread could observe in between mattering to the properties.            *)
(***************************************************************************)
EXTENDS Naturals, FiniteSets

CONSTANTS
    Threads,   \* slots for update and sync threads alive at the same time
    AutoThread, \* the thread of _auto_sync_loop
    Versions,  \* versions the relay's manifest may name
    Base,      \* the file MRIJA_DB names (mail_index.sqlite), sync's target
    Data,      \* the client's data directory
    None,      \* Python's None
    Ops,       \* the operations the environment performs in this instance
    Preinstalled \* the sets of archives the data directory may start with

Operations == {"update", "textual", "rich", "sync", "autosync", "open",
               "restart", "shutdown", "quit", "stream", "crash", "main"}

ASSUME ClientAssumption ==
    /\ Base \notin Versions
    /\ AutoThread \notin Threads
    /\ Data \notin Threads
    /\ None \notin Versions \cup {Base}
    /\ Ops \subseteq Operations
    /\ Preinstalled \subseteq SUBSET (Versions \cup {Base})

Workers == Threads \cup {AutoThread}
Names   == Versions \cup {Base}
\* tempfile.mkdtemp() gives a worker started without a database a directory
\* of its own; a worker started beside one writes into that one's directory.
Dirs    == Threads \cup {Data}
Path    == Dirs \X Names

\* A file is absent, truncated to nothing, damaged (cut short or with wrong
\* bytes) or has exactly the bytes its writer meant it to have.
Content == {"absent", "empty", "damaged", "complete"}

ClientStates == {"no_data", "running", "updating", "error", "stopped"}

UpdatePcs == {"start", "manifest", "create", "fetch", "verify", "inflate",
              "inflating"}
SyncPcs   == {"start", "set", "rsync", "index", "stats"}
SwapPcs   == {"close", "closing", "open", "label", "run"}
Pcs       == {"idle"} \cup UpdatePcs \cup SyncPcs \cup SwapPcs

\* What the event loop is in the middle of.
LoopOps == {"idle", "open", "open_run", "reopen", "reopen_run"}

VARIABLES
    up,        \* the process exists
    state,     \* AppState.state
    db,        \* AppState.db: None or a handle [path, open]
    db_path,   \* AppState.db_path
    version,   \* AppState.version (and manifest_version, set with it)
    disk,      \* the .sqlite files
    gz,        \* the downloaded .sqlite.gz files
    newest,    \* the file of the data directory with the latest mtime
    job,       \* each worker's [pc, dest, file]: where it is, its dest_dir and
               \* its archive (the manifest's, or Base for a sync)
    loop,      \* the handler the event loop is suspended in
    recent,    \* endpoints called within the last _RATE_LIMIT_SEC
    stream,    \* a progress stream (/update/progress) is open
    stopping,  \* "sigterm" after /shutdown, "quit" after the terminal's q
    verified,  \* history: versions whose checksum has been verified
    openFailed \* history: the last attempt to open a database raised

appVars  == <<state, db, db_path, version>>
fileVars == <<disk, gz, newest>>
ctlVars  == <<loop, recent, stream, stopping>>
histVars == <<verified, openFailed>>
vars == <<up, appVars, fileVars, job, ctlVars, histVars>>

Handle(p) == [path |-> p, open |-> TRUE]

\* No thread runs in this slot.
NoJob == [pc |-> "idle", dest |-> Data, file |-> None]

Pc(w)     == job[w].pc
Target(w) == <<job[w].dest, job[w].file>>
IsSync(w) == job[w].file = Base

\* The part of a worker's body between "state = UPDATING" and the assignment
\* that ends it.
Busy(w) == Pc(w) \notin {"idle", "start", "set", "stats"}

-----------------------------------------------------------------------------
(* The start and the end of the process.                                   *)

\* What a new process's AppState() and module globals hold.
FreshMemory ==
    /\ state' = "no_data"
    /\ db' = None /\ db_path' = None /\ version' = None
    /\ job' = [w \in Workers |-> NoJob]
    /\ loop' = [op |-> "idle", path |-> None]
    /\ recent' = {} /\ stream' = FALSE /\ stopping' = "no"
    /\ openFailed' = FALSE

\* The process ends; its daemon threads die wherever they are. Nothing looks
\* at a dead process's temporary directories again.
Exit ==
    /\ up /\ up' = FALSE
    /\ FreshMemory
    /\ disk' = [p \in Path |-> IF p[1] = Data THEN disk[p] ELSE "absent"]
    /\ gz' = [p \in Path |-> IF p[1] = Data THEN gz[p] ELSE "absent"]
    /\ UNCHANGED <<newest, verified>>

Crash == "crash" \in Ops /\ Exit

\* main() opens a database before it starts the server, or none.
StartOn(p) ==
    /\ ~up /\ up' = TRUE
    /\ db' = IF p = None THEN None ELSE Handle(p)
    /\ db_path' = p
    /\ state' = IF p = None THEN "no_data" ELSE "running"
    /\ UNCHANGED <<version, fileVars, job, ctlVars, histVars>>

\* launcher/windows/app.py: _find_db() takes the newest .sqlite file.
Launch == StartOn(IF newest = None THEN None ELSE <<Data, newest>>)

\* python -m mrija_client [--db FILE]
Main ==
    /\ "main" \in Ops
    /\ \/ StartOn(None)
       \/ \E n \in Names : disk[<<Data, n>>] # "absent" /\ StartOn(<<Data, n>>)

-----------------------------------------------------------------------------
(* Starting a worker thread.                                               *)

\* A thread for run_update gets the directory of the current database, or a
\* new temporary directory; a sync thread works on the file MRIJA_DB names.
SpawnUpdate(w) ==
    /\ Pc(w) = "idle"
    /\ job' = [job EXCEPT ![w] =
                 [pc |-> "start", file |-> None,
                  dest |-> IF db_path = None THEN w ELSE db_path[1]]]
    /\ IF db_path = None
       THEN /\ disk' = [p \in Path |-> IF p[1] = w THEN "absent" ELSE disk[p]]
            /\ gz' = [p \in Path |-> IF p[1] = w THEN "absent" ELSE gz[p]]
       ELSE UNCHANGED <<disk, gz>>
    /\ UNCHANGED newest

SpawnSync(w) ==
    /\ Pc(w) = "idle"
    /\ job' = [job EXCEPT ![w] = [pc |-> "start", dest |-> Data, file |-> Base]]
    /\ UNCHANGED fileVars

\* _rate_limit: one call per endpoint and window; a refused one changes nothing.
Admit(e) == e \notin recent /\ recent' = recent \cup {e}

\* _RATE_LIMIT_SEC passes. A thread that was started runs before that.
WindowElapses(e) ==
    /\ up /\ e \in recent
    /\ \A w \in Workers : Pc(w) # "start"
    /\ recent' = recent \ {e}
    /\ UNCHANGED <<up, appVars, fileVars, job, loop, stream, stopping, histVars>>

InHandler(e) == up /\ loop.op = "idle" /\ e \in Ops

\* Mutant: no check.
AlwaysAdmit == TRUE

\* The check /update, /sync and the Textual key make before they start a
\* thread.
NotUpdating == state # "updating"

\* POST /update: 409 while updating, else a thread.
TriggerUpdate(w) ==
    /\ InHandler("update") /\ Admit("update")
    /\ IF NotUpdating THEN SpawnUpdate(w) ELSE UNCHANGED <<job, fileVars>>
    /\ UNCHANGED <<up, appVars, loop, stream, stopping, histVars>>

\* POST /sync
TriggerSync(w) ==
    /\ InHandler("sync") /\ Admit("sync")
    /\ IF NotUpdating THEN SpawnSync(w) ELSE UNCHANGED <<job, fileVars>>
    /\ UNCHANGED <<up, appVars, loop, stream, stopping, histVars>>

\* _auto_sync_loop wakes up; its thread runs _run_sync_impl itself.
AutoSync ==
    /\ up /\ "autosync" \in Ops
    /\ SpawnSync(AutoThread)
    /\ UNCHANGED <<up, appVars, ctlVars, histVars>>

\* The key u: the Textual interface looks at the state first, the Rich one
\* does not.
PressUpdate(w) ==
    /\ up /\ stopping # "quit"
    /\ \/ "textual" \in Ops /\ NotUpdating
       \/ "rich" \in Ops
    /\ SpawnUpdate(w)
    /\ UNCHANGED <<up, appVars, ctlVars, histVars>>

-----------------------------------------------------------------------------
(* updater.run_update, a step at a time.                                   *)

At(w, from, to) ==
    /\ up /\ Pc(w) = from
    /\ job' = [job EXCEPT ![w] = IF to = "idle" THEN NoJob ELSE [@ EXCEPT !.pc = to]]

\* Mutant: the thread does not announce itself.
BeginSilently(w) ==
    /\ ~IsSync(w) /\ At(w, "start", "manifest")
    /\ UNCHANGED <<up, appVars, fileVars, ctlVars, histVars>>

BeginUpdate(w) ==
    /\ ~IsSync(w) /\ At(w, "start", "manifest")
    /\ state' = "updating"
    /\ UNCHANGED <<up, db, db_path, version, fileVars, ctlVars, histVars>>

FetchManifest(w) ==
    /\ up /\ Pc(w) = "manifest"
    /\ \E v \in Versions :
         job' = [job EXCEPT ![w].pc = "create", ![w].file = v]
    /\ UNCHANGED <<up, appVars, fileVars, ctlVars, histVars>>

\* download_archive opens the destination for writing, which truncates it ...
CreateDownload(w) ==
    /\ At(w, "create", "fetch")
    /\ gz' = [gz EXCEPT ![Target(w)] = "empty"]
    /\ UNCHANGED <<up, appVars, disk, newest, ctlVars, histVars>>

\* Mutant: straight on to decompress_gz.
DownloadUnchecked(w) ==
    /\ At(w, "fetch", "inflate")
    /\ \E c \in {"damaged", "complete"} :
         gz' = [gz EXCEPT ![Target(w)] = IF @ = "absent" THEN "absent" ELSE c]
    /\ UNCHANGED <<up, appVars, disk, newest, ctlVars, histVars>>

\* ... and writes what arrives until the connection ends, early or not. If
\* another worker unlinked the file meanwhile the bytes go nowhere.
Download(w) ==
    /\ At(w, "fetch", "verify")
    /\ \E c \in {"damaged", "complete"} :
         gz' = [gz EXCEPT ![Target(w)] = IF @ = "absent" THEN "absent" ELSE c]
    /\ UNCHANGED <<up, appVars, disk, newest, ctlVars, histVars>>

\* Mutant: any file will do.
DownloadPresent(w) == gz[Target(w)] # "absent"

\* verify_sha256: only the manifest's bytes have the manifest's checksum.
ChecksumMatches(w) == gz[Target(w)] = "complete"

Verify(w) ==
    /\ At(w, "verify", "inflate")
    /\ ChecksumMatches(w)
    /\ verified' = verified \cup {job[w].file}
    /\ UNCHANGED <<up, appVars, fileVars, ctlVars, openFailed>>

Touched(w) == newest' = IF job[w].dest = Data THEN job[w].file ELSE newest

\* decompress_gz opens the .gz, then truncates the .sqlite beside it ...
OpenInflate(w) ==
    /\ At(w, "inflate", "inflating")
    /\ gz[Target(w)] # "absent"
    /\ disk' = [disk EXCEPT ![Target(w)] = "empty"]
    /\ Touched(w)
    /\ UNCHANGED <<up, appVars, gz, ctlVars, histVars>>

\* ... copies to the end and unlinks the .gz. An empty .gz inflates to an
\* empty file without an error; one with wrong bytes raises (see Fail) or, if
\* it is another archive's, inflates to what that one holds. Where two workers
\* write one .sqlite file, what is left may have holes.
Inflated(w) ==
    CASE gz[Target(w)] = "empty"    -> {"empty"}
      [] gz[Target(w)] = "damaged"  -> {"damaged"}
      [] gz[Target(w)] = "complete" ->
           IF \/ disk[Target(w)] = "damaged"
              \/ \E u \in Workers \ {w} : Pc(u) = "inflating" /\ Target(u) = Target(w)
           THEN {"damaged", "complete"} ELSE {"complete"}
      [] OTHER -> {}

Inflate(w) ==
    /\ At(w, "inflating", "close")
    /\ \E c \in Inflated(w) : disk' = [disk EXCEPT ![Target(w)] = c]
    /\ gz' = [gz EXCEPT ![Target(w)] = "absent"]
    /\ Touched(w)
    /\ UNCHANGED <<up, appVars, ctlVars, histVars>>

-----------------------------------------------------------------------------
(* control._run_sync_impl up to the swap.                                  *)

\* "already in progress, skipping"
CheckSync(w) ==
    /\ IsSync(w)
    /\ At(w, "start", IF NotUpdating THEN "set" ELSE "idle")
    /\ UNCHANGED <<up, appVars, fileVars, ctlVars, histVars>>

BeginSync(w) ==
    /\ At(w, "set", "rsync")
    /\ state' = "updating"
    /\ UNCHANGED <<up, db, db_path, version, fileVars, ctlVars, histVars>>

Rsync(w) ==
    /\ At(w, "rsync", "index")
    /\ UNCHANGED <<up, appVars, fileVars, ctlVars, histVars>>

\* The rows go in through a connection of its own, in one transaction.
Reindex(w) ==
    /\ At(w, "index", "close")
    /\ disk' = [disk EXCEPT ![Target(w)] = "complete"]
    /\ Touched(w)
    /\ UNCHANGED <<up, appVars, gz, ctlVars, histVars>>

-----------------------------------------------------------------------------
(* Swapping the database, in either worker.                                *)

Closed(h) == IF h = None THEN None ELSE [h EXCEPT !.open = FALSE]

\* "if state.db:" and state.db.close() read the object twice. In between
\* /restart may set it to None, and close() raises (see Fail), or another swap
\* may replace it, and its successor is closed.
CheckOld(w) ==
    /\ At(w, "close", IF db = None THEN "open" ELSE "closing")
    /\ UNCHANGED <<up, appVars, fileVars, ctlVars, histVars>>

CloseOld(w) ==
    /\ At(w, "closing", "open")
    /\ db # None
    /\ db' = Closed(db)
    /\ UNCHANGED <<up, state, db_path, version, fileVars, ctlVars, histVars>>

OpenNew(w) ==
    /\ At(w, "open", "label")
    /\ db' = Handle(Target(w))
    /\ openFailed' = FALSE
    /\ UNCHANGED <<up, state, db_path, version, fileVars, ctlVars, verified>>

\* Mutant: a sync sets the version too.
LabelAlways(w) ==
    /\ At(w, "label", "run")
    /\ db_path' = Target(w)
    /\ version' = job[w].file
    /\ UNCHANGED <<up, state, db, fileVars, ctlVars, histVars>>

\* Mutant: leaves db_path as it was.
LabelVersion(w) ==
    /\ At(w, "label", "run")
    /\ version' = IF IsSync(w) THEN version ELSE job[w].file
    /\ UNCHANGED <<up, state, db, db_path, fileVars, ctlVars, histVars>>

Label(w) ==
    /\ At(w, "label", "run")
    /\ db_path' = Target(w)
    /\ version' = IF IsSync(w) THEN version ELSE job[w].file
    /\ UNCHANGED <<up, state, db, fileVars, ctlVars, histVars>>

Finish(w) ==
    /\ At(w, "run", IF IsSync(w) THEN "stats" ELSE "idle")
    /\ state' = "running"
    /\ UNCHANGED <<up, db, db_path, version, fileVars, ctlVars, histVars>>

\* "Sync complete": stats() of the new database was read.
EndSync(w) ==
    /\ At(w, "stats", "idle")
    /\ UNCHANGED <<up, appVars, fileVars, ctlVars, histVars>>

\* Mutant: the except clause does not touch the state.
StateKept(w) == state

\* The except clauses. run_update reports ERROR; a failed sync goes back to
\* RUNNING if there is a database object.
StateAfterFailure(w) ==
    IF IsSync(w) /\ db # None THEN "running" ELSE "error"

Fallible(w) ==
    \/ Pc(w) \in {"manifest", "create", "fetch", "verify", "inflate",
                  "inflating", "open"}
    \/ Pc(w) \in {"rsync", "index", "stats"}
    \/ Pc(w) = "closing" /\ db = None

\* What the failing step leaves in the files: a cut download; an .sqlite that is
\* empty, half written or, when only the unlinking of the .gz failed, whole; an
\* index with tables and no rows.
Leftovers(w) ==
    \/ UNCHANGED fileVars /\ Pc(w) # "inflating"
    \/ /\ Pc(w) = "fetch" /\ gz[Target(w)] # "absent"
       /\ gz' = [gz EXCEPT ![Target(w)] = "damaged"]
       /\ UNCHANGED <<disk, newest>>
    \/ /\ Pc(w) = "inflating"
       /\ \E c \in Content \ {"absent"} : disk' = [disk EXCEPT ![Target(w)] = c]
       /\ Touched(w) /\ UNCHANGED gz
    \/ /\ Pc(w) = "index" /\ disk[Target(w)] = "absent"
       /\ disk' = [disk EXCEPT ![Target(w)] = "complete"]
       /\ Touched(w) /\ UNCHANGED gz

Fail(w) ==
    /\ up /\ Fallible(w)
    /\ job' = [job EXCEPT ![w] = NoJob]
    /\ state' = StateAfterFailure(w)
    /\ openFailed' = (openFailed \/ Pc(w) = "open")
    /\ Leftovers(w)
    /\ UNCHANGED <<up, db, db_path, version, ctlVars, verified>>

Worker(w) ==
    \/ BeginUpdate(w) \/ FetchManifest(w) \/ CreateDownload(w) \/ Download(w)
    \/ Verify(w) \/ OpenInflate(w) \/ Inflate(w)
    \/ CheckSync(w) \/ BeginSync(w) \/ Rsync(w) \/ Reindex(w)
    \/ CheckOld(w) \/ CloseOld(w) \/ OpenNew(w) \/ Label(w) \/ Finish(w)
    \/ EndSync(w) \/ Fail(w)

-----------------------------------------------------------------------------
(* The handlers that reload the database. They run on the event loop, so   *)
(* only worker threads come between their steps.                           *)

LoopTo(op, p) == loop' = [op |-> op, path |-> p]

\* Mutant: closes the old database before it looks for the new file.
OpenClosesFirst(p) ==
    /\ InHandler("open")
    /\ db' = Closed(db)
    /\ IF disk[p] # "absent" THEN LoopTo("open", p) ELSE LoopTo("idle", None)
    /\ UNCHANGED <<up, state, db_path, version, fileVars, job, recent, stream,
                   stopping, histVars>>

Open(p) ==
    /\ InHandler("open") /\ disk[p] # "absent"
    /\ db' = Closed(db)
    /\ LoopTo("open", p)
    /\ UNCHANGED <<up, state, db_path, version, fileVars, job, recent, stream,
                   stopping, histVars>>

\* Mutant: forgets the path with the database.
RestartForgets ==
    /\ InHandler("restart") /\ Admit("restart")
    /\ db' = None /\ db_path' = None
    /\ LoopTo("reopen", None)
    /\ UNCHANGED <<up, state, version, fileVars, job, stream, stopping, histVars>>

Restart ==
    /\ InHandler("restart") /\ Admit("restart")
    /\ db' = None
    /\ LoopTo("reopen", None)
    /\ UNCHANGED <<up, state, db_path, version, fileVars, job, stream, stopping,
                   histVars>>

\* state.db = MailDB(path)
OpenFile ==
    /\ up /\ loop.op = "open"
    /\ db' = Handle(loop.path)
    /\ openFailed' = FALSE
    /\ LoopTo("open_run", loop.path)
    /\ UNCHANGED <<up, state, db_path, version, fileVars, job, recent, stream,
                   stopping, verified>>

ReopenFile ==
    /\ up /\ loop.op = "reopen"
    /\ IF db_path # None /\ disk[db_path] # "absent"
       THEN /\ db' = Handle(db_path) /\ openFailed' = FALSE
            /\ LoopTo("reopen_run", None) /\ UNCHANGED state
       ELSE /\ state' = "no_data" /\ LoopTo("idle", None)
            /\ UNCHANGED <<db, openFailed>>
    /\ UNCHANGED <<up, db_path, version, fileVars, job, recent, stream, stopping,
                   verified>>

\* MailDB() raises: the request ends in an error and nothing else is undone.
OpenRaises ==
    /\ up
    /\ \/ loop.op = "open"
       \/ loop.op = "reopen" /\ db_path # None /\ disk[db_path] # "absent"
    /\ openFailed' = TRUE
    /\ LoopTo("idle", None)
    /\ UNCHANGED <<up, appVars, fileVars, job, recent, stream, stopping, verified>>

EndReload ==
    /\ up /\ loop.op \in {"open_run", "reopen_run"}
    /\ db_path' = IF loop.op = "open_run" THEN loop.path ELSE db_path
    /\ state' = "running"
    /\ LoopTo("idle", None)
    /\ UNCHANGED <<up, db, version, fileVars, job, recent, stream, stopping, histVars>>

Reload == OpenFile \/ ReopenFile \/ OpenRaises \/ EndReload

-----------------------------------------------------------------------------
(* The progress stream and the ways to stop.                               *)

OpenStream ==
    /\ up /\ "stream" \in Ops /\ ~stream
    /\ stream' = TRUE
    /\ UNCHANGED <<up, appVars, fileVars, job, loop, recent, stopping, histVars>>

\* The generator sees another state than UPDATING, reports 100% and ends.
EndStream ==
    /\ up /\ stream /\ loop.op = "idle" /\ state # "updating"
    /\ stream' = FALSE
    /\ UNCHANGED <<up, appVars, fileVars, job, loop, recent, stopping, histVars>>

\* The handler's thread kills the process 0.2 s after the answer.
Shutdown ==
    /\ InHandler("shutdown") /\ Admit("shutdown")
    /\ state' = "stopped" /\ stopping' = "sigterm"
    /\ UNCHANGED <<up, db, db_path, version, fileVars, job, loop, stream, histVars>>

Terminate == stopping = "sigterm" /\ Exit

\* The key q of the Rich interface ends the key thread and marks the state;
\* the display loop, which polls it every half second, ends the process.
Quit ==
    /\ up /\ "quit" \in Ops /\ stopping = "no"
    /\ state' = "stopped" /\ stopping' = "quit"
    /\ UNCHANGED <<up, db, db_path, version, fileVars, job, loop, recent, stream,
                   histVars>>

PollStopped == state = "stopped" /\ stopping = "quit" /\ Exit

-----------------------------------------------------------------------------
Init ==
    /\ up = FALSE
    /\ state = "no_data" /\ db = None /\ db_path = None /\ version = None
    /\ \E S \in Preinstalled :
         /\ disk = [p \in Path |-> IF p[1] = Data /\ p[2] \in S
                                   THEN "complete" ELSE "absent"]
         /\ newest \in IF S = {} THEN {None} ELSE S
         /\ verified = S \cap Versions
    /\ gz = [p \in Path |-> "absent"]
    /\ job = [w \in Workers |-> NoJob]
    /\ loop = [op |-> "idle", path |-> None]
    /\ recent = {} /\ stream = FALSE /\ stopping = "no"
    /\ openFailed = FALSE

Spawn(w) == TriggerUpdate(w) \/ TriggerSync(w) \/ PressUpdate(w)

Endpoints == {"update", "sync", "restart", "shutdown"}

Next ==
    \/ Launch \/ Main \/ Crash \/ Terminate \/ PollStopped
    \/ \E w \in Threads : Spawn(w)
    \/ AutoSync
    \/ \E w \in Workers : Worker(w)
    \/ \E p \in Path : Open(p)
    \/ Restart \/ Reload
    \/ OpenStream \/ EndStream \/ Shutdown \/ Quit
    \/ \E e \in Endpoints : WindowElapses(e)

\* A thread that can run does: the interpreter schedules all of them, and the
\* calls they block in have timeouts (10 s for the manifest, 60 s of silence
\* for the download, 600 s for rsync). The event loop finishes the handler it
\* is in; SIGTERM arrives; the display loop keeps polling.
Fairness ==
    /\ \A w \in Workers : WF_vars(Worker(w))
    /\ WF_vars(Reload) /\ WF_vars(Terminate) /\ WF_vars(PollStopped)
    /\ WF_vars(EndStream)

Spec == Init /\ [][Next]_vars /\ Fairness

-----------------------------------------------------------------------------
(* Properties.                                                             *)

TypeOK ==
    /\ up \in BOOLEAN
    /\ state \in ClientStates
    /\ db \in [path : Path, open : BOOLEAN] \cup {None}
    /\ db_path \in Path \cup {None}
    /\ version \in Versions \cup {None}
    /\ disk \in [Path -> Content]
    /\ gz \in [Path -> Content]
    /\ newest \in Names \cup {None}
    /\ job \in [Workers -> [pc : Pcs, dest : Dirs, file : Names \cup {None}]]
    /\ loop \in [op : LoopOps, path : Path \cup {None}]
    /\ recent \in SUBSET Endpoints
    /\ stream \in BOOLEAN
    /\ stopping \in {"no", "sigterm", "quit"}
    /\ verified \in SUBSET Versions
    /\ openFailed \in BOOLEAN

\* The client never shows UPDATING when no thread is at work on an update or
\* a sync: whatever the threads, the handlers and the failures overwrite, the
\* last one to leave takes the state with it (no request is refused with 409
\* forever).
UpdatingHasWorker == state = "updating" => \E w \in Workers : Busy(w)

\* AppState.db is a closed connection only while somebody is between closing
\* it and storing its successor, or after opening the successor raised: two
\* swaps that overlap never close each other's new connection for good.
ClosedOnlyInTransit ==
    db # None /\ ~db.open =>
        \/ openFailed \/ loop.op = "open"
        \/ \E w \in Workers : Pc(w) = "open"

\* No byte of a downloaded archive reaches a .sqlite file, and no version is
\* reported, unless a download of it passed the manifest's checksum; also
\* across crashes and restarts.
VerifiedOnly ==
    /\ \A p \in Path : p[2] \in Versions /\ disk[p] # "absent" => p[2] \in verified
    /\ version # None => version \in verified

\* What run_update installs is the verified archive, whole: from the end of
\* decompress_gz to the end of the thread its file is complete.
Installing(w) == Pc(w) \in SwapPcs /\ ~IsSync(w)
InstallsComplete == \A w \in Workers : Installing(w) => disk[Target(w)] = "complete"

\* "Update already in progress", "another update is running": two threads are
\* never at work on the archive together.
OneJob == \A u, w \in Workers : Busy(u) /\ Busy(w) => u = w

\* A client that was started with a database says RUNNING only while it has a
\* database object, is opening one, or failed to.
RunningHasDb == state = "running" => db # None \/ loop.op = "reopen" \/ openFailed

\* "Stream ends when update completes or fails": the progress stream does not
\* end while a thread is at work.
StreamOutlivesJob ==
    [][stream /\ ~stream' /\ up' => \A w \in Workers : ~Busy(w)]_vars

\* "The app downloads the new archive, verifies its checksum, and loads it":
\* a client that shows RUNNING with an archive of a relay version has that
\* archive whole.
RunningIsComplete ==
    state = "running" /\ db # None /\ db.path[2] \in Versions =>
        disk[db.path] = "complete"

\* Every update and sync ends: the state leaves UPDATING.
UpdatingEnds == state = "updating" ~> state # "updating"

=============================================================================

------------------------- MODULE ArchiveReadsProofs -------------------------
(***************************************************************************)
(* Reading while the archive is replaced, for any threads, archives, lists *)
(* and filters. The invariants of ArchiveClient hold with readers beside   *)
(* it, and what ties a database to its name does.                          *)
(***************************************************************************)
EXTENDS ArchiveReads, ArchiveClientProofs, FiniteSetTheorems

readsVars == <<vars, reads>>

LEMMA ReadsAreSteps ==
    /\ ReadsInit => Init
    /\ [ReadsNext]_readsVars => [Next]_vars
<1>1. BesideLoop => Next
  BY DEF BesideLoop, Next, Spawn
<1>2. Reading => UNCHANGED vars
  BY DEF Reading, Browse, Begin, EmailDetail, DownloadAttachment, Reply, EndRequest
<1>3. QED BY <1>1, <1>2 DEF ReadsInit, ReadsNext, readsVars

LEMMA ReadsTypes == ReadsSpec => []TypeInv
<1>1. TypeInv /\ [ReadsNext]_readsVars => TypeInv'
  BY ReadsAreSteps, NextTypeInv
<1>2. QED BY ReadsAreSteps, InitTypeInv, <1>1, PTL DEF ReadsSpec, readsVars

\* Readers do not keep the client at UPDATING.
THEOREM UpdatingHasWorkerBesideReaders == ReadsSpec => []UpdatingHasWorker
<1>1. Init => UpdatingHasWorker
  BY DEF Init, UpdatingHasWorker
<1>2. TypeInv /\ UpdatingHasWorker /\ [ReadsNext]_readsVars => UpdatingHasWorker'
  BY ReadsAreSteps, UpdatingStep
<1>3. QED BY ReadsAreSteps, ReadsTypes, <1>1, <1>2, PTL DEF ReadsSpec, readsVars

\* Nor do they leave a closed connection behind.
THEOREM ClosedInTransitBesideReaders == ReadsSpec => []ClosedOnlyInTransit
<1>1. Init => ClosedOnlyInTransit
  BY DEF Init, ClosedOnlyInTransit
<1>2. TypeInv /\ ClosedOnlyInTransit /\ [ReadsNext]_readsVars => ClosedOnlyInTransit'
  BY ReadsAreSteps, ClosedStep
<1>3. QED BY ReadsAreSteps, ReadsTypes, <1>1, <1>2, PTL DEF ReadsSpec, readsVars

\* A client that was started with a database has one to read from whenever it
\* shows RUNNING, but for the middle of /restart and after opening one raised.
THEOREM RunningHasDbBesideReaders ==
    ASSUME AlwaysInstalled
    PROVE  ReadsSpec => []RunningHasDb
<1>1. Init => StartedInv
  BY InitStarted
<1>2. TypeInv /\ StartedInv /\ [ReadsNext]_readsVars => StartedInv'
  BY ReadsAreSteps, StartedStep
<1>3. StartedInv => RunningHasDb
  BY DEF StartedInv, HasDb, RunningHasDb
<1>4. QED
  BY ReadsAreSteps, ReadsTypes, <1>1, <1>2, <1>3, PTL DEF ReadsSpec, readsVars

-----------------------------------------------------------------------------
(* The database and its name.                                              *)

Labels ==
    /\ \A w \in Workers : Pc(w) = "label" => Target(w) = db.path
    /\ loop.op = "open_run" => loop.path = db.path
    /\ ~Unlabelled => db.path = db_path

LabelInv == up /\ ~crossed /\ db # None => Labels

\* A process that does not exist has no threads.
DownInv == ~up => (\A w \in Workers : Pc(w) = "idle") /\ loop.op = "idle" /\ db = None

NotedCrossing ==
    crossed' = IF ~up' THEN FALSE ELSE IF Opens THEN Unlabelled ELSE crossed

LEMMA DownStep ==
    ASSUME TypeInv, DownInv, [Next]_vars
    PROVE  DownInv'
<1>1. CASE Crash \/ Terminate \/ PollStopped
  <2>1. FreshMemory
    BY <1>1 DEF Crash, Terminate, PollStopped, Exit
  <2>2. QED BY <2>1 DEF FreshMemory, DownInv, Pc, NoJob
<1>2. CASE Launch \/ Main
  BY <1>2 DEF Launch, Main, StartOn, DownInv
<1>3. CASE \E w \in Workers : Worker(w)
  <2>1. up' = up /\ up
    BY <1>3, WorkerMoves DEF Worker, BeginUpdate, FetchManifest, CreateDownload,
       Download, Verify, OpenInflate, Inflate, CheckSync, BeginSync, Rsync, Reindex,
       CheckOld, CloseOld, OpenNew, Label, Finish, EndSync, Fail, At
  <2>2. QED BY <2>1 DEF DownInv
<1>4. CASE AutoSync \/ \E w \in Threads : Spawn(w)
  BY <1>4 DEF AutoSync, Spawn, TriggerUpdate, TriggerSync, PressUpdate, InHandler, DownInv
<1>5. CASE \/ Restart \/ Reload \/ \E p \in Path : Open(p)
           \/ OpenStream \/ EndStream \/ Shutdown \/ Quit
           \/ \E e \in Endpoints : WindowElapses(e)
  BY <1>5 DEF Restart, Reload, Open, OpenFile, ReopenFile, OpenRaises, EndReload,
     OpenStream, EndStream, Shutdown, Quit, WindowElapses, InHandler, DownInv
<1>6. CASE UNCHANGED vars
  BY <1>6 DEF vars, appVars, ctlVars, DownInv, Pc
<1>7. QED BY <1>1, <1>2, <1>3, <1>4, <1>5, <1>6 DEF Next

LEMMA OpenHandle ==
    ASSUME NEW p
    PROVE  Handle(p).path = p /\ Handle(p).open = TRUE
BY DEF Handle

LEMMA ClosedHandle ==
    ASSUME TypeInv, db' = Closed(db), db' # None
    PROVE  db # None /\ db'.path = db.path /\ ~db'.open
BY DEF TypeInv, TypeOK, Closed

LEMMA LabelStep ==
    ASSUME TypeInv, DownInv, LabelInv, Next, NotedCrossing, up', ~crossed', db' # None
    PROVE  Labels'
<1>0. Opens => ~Unlabelled
  BY DEF NotedCrossing
<1>a. ASSUME up, db # None, ~Opens
      PROVE  Labels
  BY <1>a DEF NotedCrossing, LabelInv
<1>1. CASE \E w \in Workers : Worker(w)
  <2>1. PICK w \in Workers : Worker(w)
    BY <1>1
  <2>2. /\ up /\ loop' = loop /\ \A u \in Workers \ {w} : job'[u] = job[u]
    BY <2>1, WorkerMoves DEF ctlVars
  <2>3. CASE OpenNew(w)
    <3>1. /\ db' = Handle(Target(w)) /\ db_path' = db_path
          /\ job'[w].pc = "label" /\ Target(w)' = Target(w)
      BY <2>3 DEF OpenNew, At, TypeInv, TypeOK, Target
    <3>2. Unlabelled'
      BY <3>1 DEF Unlabelled, Pc
    <3>3. CASE Opens
      <4>1. \A u \in Workers : Pc(u) # "label" /\ loop.op # "open_run"
        BY <1>0, <3>3 DEF Unlabelled
      <4>2. QED BY <2>2, <3>1, <3>2, <4>1, OpenHandle DEF Labels, Pc
    <3>4. CASE ~Opens
      <4>1. db' = db
        BY <3>1, <3>4, OpenHandle DEF Opens
      <4>2. Labels
        BY <1>a, <2>2, <3>4, <4>1
      <4>3. QED BY <2>2, <3>1, <3>2, <4>1, <4>2, OpenHandle DEF Labels, Pc, Target
    <3>5. QED BY <3>3, <3>4
  <2>4. CASE ~OpenNew(w)
    <3>1. db' = db \/ db' = Closed(db)
      BY <2>1, <2>4 DEF Worker, BeginUpdate, FetchManifest, CreateDownload, Download,
         Verify, OpenInflate, Inflate, CheckSync, BeginSync, Rsync, Reindex, CheckOld, CloseOld,
         Label, Finish, EndSync, Fail, appVars
    <3>2. ~Opens /\ db # None /\ db'.path = db.path
      BY <3>1, ClosedHandle DEF Opens
    <3>3. Labels
      BY <1>a, <2>2, <3>2
    <3>4. job'[w].pc # "label"
      <4>1. job'[w] = NoJob => job'[w].pc # "label"
        BY DEF NoJob
      <4>2. At(w, "open", "label") => OpenNew(w) \/ ~Worker(w) \/ Fail(w)
        BY DEF Worker, BeginUpdate, FetchManifest, CreateDownload, Download, Verify,
           OpenInflate, Inflate, CheckSync, BeginSync, Rsync, Reindex, CheckOld, CloseOld,
           Label, Finish, EndSync, At
      <4>3. Pc(w) = "open" => Fail(w)
        BY <2>1, <2>4 DEF Worker, BeginUpdate, FetchManifest, CreateDownload, Download,
           Verify, OpenInflate, Inflate, CheckSync, BeginSync, Rsync, Reindex,
           CheckOld, CloseOld, Label, Finish, EndSync, At
      <4>4. Fail(w) => job'[w] = NoJob
        BY DEF Fail, TypeInv, TypeOK
      <4>5. QED BY <2>1, <4>1, <4>3, <4>4, WorkerMoves DEF Moves
    <3>5. CASE Label(w)
      <4>1. db_path' = Target(w) /\ Pc(w) = "label"
        BY <3>5 DEF Label, At
      <4>2. db_path' = db.path
        BY <3>3, <4>1 DEF Labels
      <4>3. QED BY <2>2, <3>2, <3>3, <3>4, <4>2 DEF Labels, Pc, Target
    <3>6. CASE ~Label(w)
      <4>1. db_path' = db_path /\ Pc(w) # "label"
        BY <2>1, <2>4, <3>6 DEF Worker, BeginUpdate, FetchManifest, CreateDownload,
           Download, Verify, OpenInflate, Inflate, CheckSync, BeginSync, Rsync,
           Reindex, CheckOld, CloseOld, Finish, EndSync, Fail, Fallible, At, appVars
      <4>2. Unlabelled' <=> Unlabelled
        BY <2>2, <3>4, <4>1 DEF Unlabelled, Pc
      <4>3. QED BY <2>2, <3>2, <3>3, <3>4, <4>1, <4>2 DEF Labels, Pc, Target
    <3>7. QED BY <3>5, <3>6
  <2>5. QED BY <2>3, <2>4
<1>2. CASE AutoSync \/ \E w \in Threads : Spawn(w)
  <2>1. up /\ UNCHANGED <<db, db_path, loop>>
    BY <1>2 DEF AutoSync, Spawn, TriggerUpdate, TriggerSync, PressUpdate, InHandler,
       appVars, ctlVars
  <2>2. \/ job' = job
        \/ \E w \in Workers : SpawnUpdate(w) \/ SpawnSync(w)
    BY <1>2 DEF AutoSync, Spawn, TriggerUpdate, TriggerSync, PressUpdate, Workers
  <2>3. \A u \in Workers : (Pc(u) = "label" \/ job'[u].pc = "label") => job'[u] = job[u]
    BY <2>2, SpawnMoves
  <2>4. Labels /\ (Unlabelled' <=> Unlabelled)
    BY <1>a, <2>1, <2>3 DEF Opens, Unlabelled, Pc
  <2>5. QED BY <2>1, <2>3, <2>4 DEF Labels, Pc, Target
<1>3. CASE \/ Restart \/ \E p \in Path : Open(p)
           \/ OpenStream \/ EndStream \/ Shutdown \/ Quit
           \/ \E e \in Endpoints : WindowElapses(e)
  <2>1. job' = job
    BY <1>3, HandlersKeepJobs
  <2>2. /\ up /\ db_path' = db_path
        /\ loop.op # "open_run" \/ loop' = loop
        /\ loop'.op # "open_run" \/ loop' = loop
        /\ db' = None \/ db' = db \/ db' = Closed(db)
    <3>1. CASE Restart \/ \E p \in Path : Open(p)
      <4>1. CASE Restart
        BY <4>1 DEF Restart, InHandler, LoopTo
      <4>2. ASSUME NEW p \in Path, Open(p)
            PROVE  /\ up /\ db_path' = db_path /\ db' = Closed(db)
                   /\ loop.op = "idle" /\ loop' = [op |-> "open", path |-> p]
        BY <4>2 DEF Open, InHandler, LoopTo
      <4>3. QED BY <3>1, <4>1, <4>2
    <3>2. CASE OpenStream \/ EndStream \/ Shutdown \/ Quit
      BY <3>2 DEF OpenStream, EndStream, Shutdown, Quit, InHandler, appVars
    <3>3. CASE \E e \in Endpoints : WindowElapses(e)
      BY <3>3 DEF WindowElapses, appVars
    <3>4. QED BY <1>3, <3>1, <3>2, <3>3
  <2>3. ~Opens /\ db # None /\ db'.path = db.path
    BY <2>2, ClosedHandle DEF Opens
  <2>4. Labels /\ (Unlabelled' <=> Unlabelled)
    BY <1>a, <2>1, <2>2, <2>3 DEF Unlabelled, Pc
  <2>5. QED BY <2>1, <2>2, <2>3, <2>4 DEF Labels, Pc, Target
<1>4. CASE Reload
  <2>1. job' = job
    BY <1>4, HandlersKeepJobs
  <2>2. CASE OpenFile
    <3>1. /\ up /\ db' = Handle(loop.path) /\ db_path' = db_path
          /\ loop' = [op |-> "open_run", path |-> loop.path]
      BY <2>2 DEF OpenFile, LoopTo
    <3>2. Unlabelled'
      BY <3>1 DEF Unlabelled
    <3>3. \A w \in Workers : Pc(w) = "label" => Target(w) = db'.path
      <4>1. CASE Opens
        BY <1>0, <4>1 DEF Unlabelled
      <4>2. CASE ~Opens
        <5>1. db' = db
          BY <3>1, <4>2, OpenHandle DEF Opens
        <5>2. QED BY <1>a, <3>1, <4>2, <5>1 DEF Labels
      <4>3. QED BY <4>1, <4>2
    <3>4. QED BY <2>1, <3>1, <3>2, <3>3, OpenHandle DEF Labels, Pc, Target
  <2>3. CASE ReopenFile /\ db_path # None /\ disk[db_path] # "absent"
    <3>1. /\ up /\ db' = Handle(db_path) /\ db_path' = db_path
          /\ loop' = [op |-> "reopen_run", path |-> None]
      BY <2>3 DEF ReopenFile, LoopTo
    <3>2. \A w \in Workers : Pc(w) = "label" => Target(w) = db'.path
      <4>1. CASE Opens
        BY <1>0, <4>1 DEF Unlabelled
      <4>2. CASE ~Opens
        <5>1. db' = db
          BY <3>1, <4>2, OpenHandle DEF Opens
        <5>2. QED BY <1>a, <3>1, <4>2, <5>1 DEF Labels
      <4>3. QED BY <4>1, <4>2
    <3>3. QED BY <2>1, <3>1, <3>2, OpenHandle DEF Labels, Pc, Target
  <2>4. CASE OpenRaises \/ (ReopenFile /\ ~(db_path # None /\ disk[db_path] # "absent"))
    <3>1. /\ up /\ db' = db /\ db_path' = db_path
          /\ loop' = [op |-> "idle", path |-> None] /\ loop.op \in {"open", "reopen"}
      BY <2>4 DEF OpenRaises, ReopenFile, LoopTo, appVars
    <3>2. Labels /\ (Unlabelled' <=> Unlabelled)
      BY <1>a, <2>1, <3>1 DEF Opens, Unlabelled, Pc
    <3>3. QED BY <2>1, <3>1, <3>2 DEF Labels, Pc, Target
  <2>5. CASE EndReload
    <3>1. /\ up /\ db' = db /\ loop.op \in {"open_run", "reopen_run"}
          /\ db_path' = IF loop.op = "open_run" THEN loop.path ELSE db_path
          /\ loop' = [op |-> "idle", path |-> None]
      BY <2>5 DEF EndReload, LoopTo
    <3>2. Labels
      BY <1>a, <3>1 DEF Opens
    <3>3. loop.op = "reopen_run" => (Unlabelled' <=> Unlabelled)
      BY <2>1, <3>1 DEF Unlabelled, Pc
    <3>4. QED BY <2>1, <3>1, <3>2, <3>3 DEF Labels, Pc, Target
  <2>6. QED BY <1>4, <2>2, <2>3, <2>4, <2>5 DEF Reload
<1>5. CASE Launch \/ Main
  <2>1. PICK p : StartOn(p)
    BY <1>5 DEF Launch, Main
  <2>2. /\ db' = Handle(p) /\ db_path' = p /\ loop' = loop /\ job' = job
        /\ loop.op = "idle" /\ \A w \in Workers : Pc(w) = "idle"
    BY <2>1 DEF StartOn, ctlVars, DownInv
  <2>3. QED BY <2>2, OpenHandle DEF Labels, Pc, Target
<1>6. CASE Crash \/ Terminate \/ PollStopped
  BY <1>6 DEF Crash, Terminate, PollStopped, Exit
<1>7. QED BY <1>1, <1>2, <1>3, <1>4, <1>5, <1>6 DEF Next

LEMMA LabelKept ==
    ASSUME TypeInv, DownInv, LabelInv, [ReadsNext]_readsVars
    PROVE  LabelInv'
<1>1. CASE Next /\ Noted
  BY <1>1, LabelStep DEF Noted, NotedCrossing, LabelInv
<1>2. CASE UNCHANGED <<vars, crossed>>
  BY <1>2 DEF vars, appVars, ctlVars, LabelInv, Labels, Unlabelled, Pc, Target
<1>3. BesideLoop => Next
  BY DEF BesideLoop, Next, Spawn
<1>4. Reading => UNCHANGED <<vars, crossed>>
  BY DEF Reading, Browse, Begin, EmailDetail, DownloadAttachment, Reply, EndRequest
<1>5. QED BY <1>1, <1>2, <1>3, <1>4 DEF ReadsNext, readsVars, reads

LEMMA ReadsLabels == ReadsSpec => [](TypeInv /\ DownInv /\ LabelInv)
<1>1. Init => DownInv /\ LabelInv
  BY DEF Init, DownInv, LabelInv, Pc, NoJob
<1>2. TypeInv /\ DownInv /\ LabelInv /\ [ReadsNext]_readsVars => (DownInv /\ LabelInv)'
  BY LabelKept, DownStep, ReadsAreSteps
<1>3. QED BY ReadsAreSteps, ReadsTypes, <1>1, <1>2, PTL DEF ReadsSpec, readsVars

\* Unless two swaps have crossed, db_path names the served database when none
\* is under way: whatever threads, handlers, failures and restarts of the
\* process did before (api/control.py, updater.py).
THEOREM LabelAlwaysFollowsOpen == ReadsSpec => []LabelFollowsOpen
<1>1. LabelInv => LabelFollowsOpen
  BY DEF LabelInv, Labels, LabelFollowsOpen, Swapping
<1>2. QED BY ReadsLabels, <1>1, PTL

-----------------------------------------------------------------------------
(* Requests.                                                               *)

\* Where no sync runs, what a thread opens is an archive from the relay.
NoSyncs == \A w \in Workers : job[w].file # Base

LEMMA NoSyncsStep ==
    ASSUME TypeInv, NoSyncs, [Next]_vars
    PROVE  NoSyncs'
<1>0. Base \notin Versions /\ Base # None /\ NoJob.file = None
  BY ClientAssumption DEF NoJob
<1>1. CASE \E w \in Workers : Worker(w)
  BY <1>0, <1>1, WorkerMoves DEF NoSyncs
<1>2. CASE AutoSync \/ \E w \in Threads : Spawn(w)
  <2>1. \/ job' = job
        \/ \E w \in Workers : SpawnUpdate(w)
    BY <1>2, ReadsAssumption DEF AutoSync, Spawn, TriggerUpdate, TriggerSync,
       PressUpdate, InHandler, Workers
  <2>2. ASSUME NEW w \in Workers, SpawnUpdate(w)
        PROVE  \A u \in Workers : job'[u].file \in {job[u].file, None}
    BY <2>2 DEF SpawnUpdate, TypeInv, TypeOK
  <2>3. QED BY <1>0, <2>1, <2>2 DEF NoSyncs
<1>3. CASE \/ Restart \/ Reload \/ \E p \in Path : Open(p)
           \/ OpenStream \/ EndStream \/ Shutdown \/ Quit
           \/ \E e \in Endpoints : WindowElapses(e)
  BY <1>3, HandlersKeepJobs DEF NoSyncs
<1>4. CASE Launch \/ Main \/ UNCHANGED vars
  BY <1>4 DEF Launch, Main, StartOn, vars, NoSyncs
<1>5. CASE Crash \/ Terminate \/ PollStopped
  BY <1>0, <1>5 DEF Crash, Terminate, PollStopped, Exit, FreshMemory, NoSyncs
<1>6. QED BY <1>1, <1>2, <1>3, <1>4, <1>5 DEF Next

\* While a request waits for its second read, the database it began with is
\* there, or one that a thread has put in its place.
RequestInv ==
    /\ req \in [op : {"rest", "email", "attachment"}, from : Path \cup {None},
               and : Path \cup {None}]
    /\ Awaits("email") => db # None /\ (db.path = req.from \/ db.path[2] \in Versions)
    /\ req.op = "email" /\ req.and # None =>
         req.and = req.from \/ req.and[2] \in Versions
    /\ req.op = "attachment" => req.from[1] = Data
    /\ req.op = "attachment" /\ req.and # None => req.and[1] = Data
    /\ req.op = "rest" => req.and = None
    /\ req.op # "rest" => up

LEMMA RestFits ==
    ASSUME req' = Rest
    PROVE  RequestInv'
BY DEF Rest, RequestInv, Awaits

LEMMA BesideStep ==
    ASSUME AlwaysInstalled, TypeInv, NoSyncs, BesideLoop, up', db # None
    PROVE  db' # None /\ (db'.path = db.path \/ db'.path[2] \in Versions)
<1>1. CASE \E w \in Workers : Worker(w)
  <2>1. PICK w \in Workers : Worker(w)
    BY <1>1
  <2>2. CASE OpenNew(w)
    <3>1. db' = Handle(Target(w)) /\ Pc(w) = "open"
      BY <2>2 DEF OpenNew, At
    <3>2. job[w].file \in Names /\ job[w].file # Base
      BY <3>1 DEF TypeInv, JobOK, Agrees, SwapPcs, NoSyncs
    <3>3. job[w].file \in Versions
      BY <3>2 DEF Names
    <3>4. Handle(Target(w)) # None
      BY <3>2, PathType, HandlesThere
    <3>5. db'.path = Target(w)
      BY <3>1, OpenHandle
    <3>6. Target(w)[2] = job[w].file
      BY DEF Target
    <3>7. QED BY <3>1, <3>3, <3>4, <3>5, <3>6
  <2>3. CASE ~OpenNew(w)
    <3>1. db' = db \/ db' = Closed(db)
      BY <2>1, <2>3 DEF Worker, BeginUpdate, FetchManifest, CreateDownload, Download,
         Verify, OpenInflate, Inflate, CheckSync, BeginSync, Rsync, Reindex, CheckOld,
         CloseOld, Label, Finish, EndSync, Fail, appVars
    <3>2. db \in [path : Path, open : BOOLEAN]
      BY DEF TypeInv, TypeOK
    <3>3. Closed(db) # None /\ Closed(db).path = db.path
      BY <3>2, HandlesThere DEF Closed
    <3>4. QED BY <3>1, <3>3
  <2>4. QED BY <2>2, <2>3
<1>2. CASE Quit \/ AutoSync \/ \E w \in Threads : PressUpdate(w)
  BY <1>2 DEF Quit, AutoSync, PressUpdate, appVars
<1>3. CASE Crash \/ Terminate \/ PollStopped
  BY <1>3 DEF Crash, Terminate, PollStopped, Exit
<1>4. QED BY <1>1, <1>2, <1>3 DEF BesideLoop

LEMMA RequestStep ==
    ASSUME AlwaysInstalled, TypeInv, StartedInv, NoSyncs, RequestInv,
           [ReadsNext]_readsVars
    PROVE  RequestInv'
<1>1. CASE req = Rest /\ Next /\ Noted
  BY <1>1, RestFits DEF Noted
<1>2. CASE req # Rest /\ BesideLoop /\ Noted
  <2>1. CASE ~up'
    BY <1>2, <2>1, RestFits DEF Noted
  <2>2. CASE up'
    <3>1. req' = req
      BY <1>2, <2>2 DEF Noted
    <3>2. db # None => db' # None /\ (db'.path = db.path \/ db'.path[2] \in Versions)
      BY <1>2, <2>2, BesideStep
    <3>3. ASSUME Awaits("email")
          PROVE  db' # None /\ (db'.path = req.from \/ db'.path[2] \in Versions)
      BY <3>2, <3>3 DEF RequestInv
    <3>4. Awaits("email")' <=> Awaits("email")
      BY <3>1 DEF Awaits
    <3>5. QED BY <2>2, <3>1, <3>3, <3>4 DEF RequestInv
  <2>3. QED BY <2>1, <2>2
<1>3. CASE \E op \in {"email", "attachment"} : Begin(op)
  <2>1. PICK op \in {"email", "attachment"} : Begin(op)
    BY <1>3
  <2>2. /\ db # None /\ disk[db.path] = "complete" /\ UNCHANGED db
        /\ req' = [op |-> op, from |-> db.path, and |-> None]
    BY <2>1 DEF Begin, Readable, vars, appVars
  <2>2a. up'
    BY <2>1 DEF Begin, LoopRests, vars
  <2>3. db.path \in Path
    BY <2>2 DEF TypeInv, TypeOK
  <2>4. db.path[1] = Data
    BY <2>2, <2>3 DEF StartedInv, Installed
  <2>5. QED BY <2>2, <2>2a, <2>3, <2>4 DEF RequestInv, Awaits
<1>4. CASE EmailDetail
  <2>1. /\ Awaits("email") /\ db # None /\ UNCHANGED <<db, up>>
        /\ req' = [req EXCEPT !.and = db.path]
    BY <1>4 DEF EmailDetail, Reply, Readable, vars, appVars
  <2>2. db.path \in Path /\ db.path # None
    BY <2>1 DEF TypeInv, TypeOK, AlwaysInstalled
  <2>3. req'.op = "email" /\ req'.from = req.from /\ req'.and = db.path
    BY <2>1 DEF RequestInv, Awaits
  <2>4. QED BY <2>1, <2>2, <2>3 DEF RequestInv, Awaits
<1>5. CASE DownloadAttachment
  <2>1. /\ Awaits("attachment") /\ db_path # None /\ UNCHANGED up
        /\ req' = [req EXCEPT !.and = db_path]
    BY <1>5 DEF DownloadAttachment, Reply, vars
  <2>2. db_path \in Path /\ db_path[1] = Data
    BY <2>1 DEF RequestInv, Awaits, StartedInv, Installed, Present
  <2>3. req'.op = "attachment" /\ req'.from = req.from /\ req'.and = db_path
    BY <2>1 DEF RequestInv, Awaits
  <2>4. QED BY <2>1, <2>2, <2>3 DEF RequestInv, Awaits
<1>6. CASE EndRequest
  BY <1>6, RestFits DEF EndRequest
<1>7. CASE UNCHANGED <<vars, req>>
  BY <1>7 DEF vars, appVars, RequestInv, Awaits
<1>8. ASSUME NEW page, Browse(page) PROVE UNCHANGED <<vars, req>>
  BY <1>8 DEF Browse
<1>9. QED
  BY <1>1, <1>2, <1>3, <1>4, <1>5, <1>6, <1>7, <1>8
     DEF ReadsNext, Reading, readsVars, reads

\* In a client that was started with a database, an e-mail that all archives of
\* the relay have is never answered from one without it, and an attachment is
\* looked up in the directory of the archive that names it, whatever threads
\* swap between the two reads (api/data.py).
THEOREM AnswersFit ==
    ASSUME AlwaysInstalled
    PROVE  ReadsSpec => []AnswerFits
<1>1. ReadsInit => RequestInv /\ NoSyncs
  BY ClientAssumption DEF ReadsInit, Init, Rest, RequestInv, Awaits, NoSyncs, NoJob
<1>2. Init => StartedInv
  BY InitStarted
<1>3. TypeInv /\ StartedInv /\ [ReadsNext]_readsVars => StartedInv'
  BY ReadsAreSteps, StartedStep
<1>4. TypeInv /\ NoSyncs /\ [ReadsNext]_readsVars => NoSyncs'
  BY ReadsAreSteps, NoSyncsStep
<1>5. RequestInv => AnswerFits
  <2> SUFFICES ASSUME RequestInv, req.and # None PROVE AnswerFits
    BY DEF AnswerFits
  <2>1. ASSUME NEW m \in ToSet(Rows[req.from[2]]), LaterHave(m), req.op = "email"
        PROVE  m \in ToSet(Rows[req.and[2]])
    BY <2>1 DEF RequestInv, LaterHave
  <2>2. req.op = "attachment" => req.and[1] = req.from[1]
    BY DEF RequestInv
  <2>3. QED BY <2>1, <2>2 DEF AnswerFits
<1>6. QED
  BY ReadsAreSteps, ReadsTypes, RequestStep, <1>1, <1>2, <1>3, <1>4, <1>5, PTL
     DEF ReadsSpec, readsVars

-----------------------------------------------------------------------------
(* Paging.                                                                 *)

\* The ranks of a finite set under a strict order, B[x] being what is before x.
LEMMA RanksCount ==
    ASSUME NEW S, IsFiniteSet(S), NEW B \in [S -> SUBSET S],
           \A x \in S : x \notin B[x],
           \A x, y \in S : x = y \/ x \in B[y] \/ y \in B[x],
           \A x, y \in S : y \in B[x] => B[y] \subseteq B[x]
    PROVE  /\ \A x \in S : Cardinality(B[x]) \in Nat
           /\ {Cardinality(B[x]) : x \in S} = 0..(Cardinality(S) - 1)
           /\ \A x, y \in S : y \in B[x] <=> Cardinality(B[y]) < Cardinality(B[x])
<1> DEFINE n == Cardinality(S)
           f == [x \in S |-> Cardinality(B[x])]
<1>1. n \in Nat /\ \A T \in SUBSET S : IsFiniteSet(T) /\ Cardinality(T) \in Nat
  BY FS_Subset, FS_CardinalityType
<1>2. ASSUME NEW T \in SUBSET S, NEW U \in SUBSET T, U # T
      PROVE  Cardinality(U) < Cardinality(T)
  <2>1. Cardinality(U) <= Cardinality(T) /\ Cardinality(U) # Cardinality(T)
    BY <1>1, <1>2, FS_Subset
  <2>2. Cardinality(U) \in Nat /\ Cardinality(T) \in Nat
    BY <1>1
  <2>3. QED BY <2>1, <2>2
<1>3. ASSUME NEW x \in S, NEW y \in S, y \in B[x]
      PROVE  Cardinality(B[y]) < Cardinality(B[x])
  <2>1. B[x] \in SUBSET S /\ B[y] \in SUBSET B[x] /\ B[y] # B[x]
    BY <1>3
  <2>2. QED BY <1>2, <2>1
<1>4. \A x \in S : Cardinality(B[x]) \in Nat
  BY <1>1
<1>5. \A x, y \in S : y \in B[x] <=> Cardinality(B[y]) < Cardinality(B[x])
  <2> SUFFICES ASSUME NEW x \in S, NEW y \in S, Cardinality(B[y]) < Cardinality(B[x])
               PROVE  y \in B[x]
    BY <1>3
  <2>1. ~(x \in B[y]) /\ x # y
    BY <1>3, <1>4
  <2>2. QED BY <2>1
<1>6. ASSUME NEW x \in S PROVE Cardinality(B[x]) \in 0..(n - 1)
  <2>1. B[x] # S /\ B[x] \in SUBSET S /\ S \in SUBSET S
    OBVIOUS
  <2>2. Cardinality(B[x]) < n
    BY <1>2, <2>1
  <2>3. QED BY <1>1, <1>4, <2>2
<1>7. f \in Injection(S, 0..(n - 1))
  <2>1. f \in [S -> 0..(n - 1)]
    BY <1>6
  <2>2. ASSUME NEW x \in S, NEW y \in S, f[x] = f[y] PROVE x = y
    <3>1. ~(Cardinality(B[x]) < Cardinality(B[y])) /\ ~(Cardinality(B[y]) < Cardinality(B[x]))
      BY <1>4, <2>2
    <3>2. QED BY <1>3, <3>1
  <2>3. QED BY <2>1, <2>2 DEF Injection, IsInjective
<1>8. IsFiniteSet(0..(n - 1)) /\ Cardinality(0..(n - 1)) = n
  <2> HIDE DEF n
  <2>1. n - 1 \in Int /\ 0 \in Int
    BY <1>1
  <2>2. /\ IsFiniteSet(0..(n - 1))
        /\ Cardinality(0..(n - 1)) = IF 0 > n - 1 THEN 0 ELSE n - 1 - 0 + 1
    BY <2>1, FS_Interval
  <2>3. QED BY <1>1, <2>2
<1>9. f \in Surjection(S, 0..(n - 1))
  <2> HIDE DEF f
  <2>1. Cardinality(S) = Cardinality(0..(n - 1)) <=> f \in Surjection(S, 0..(n - 1))
    BY <1>7, <1>8, FS_Injection
  <2>2. QED BY <1>8, <2>1
<1>10. {Cardinality(B[x]) : x \in S} = 0..(n - 1)
  <2>1. {f[x] : x \in S} = 0..(n - 1)
    <3> HIDE DEF f
    <3>1. QED BY <1>9 DEF Surjection
  <2>2. QED BY <2>1
<1>11. QED BY <1>4, <1>5, <1>10

LEMMA RowsOrdered ==
    ASSUME NEW n \in Names
    PROVE  /\ IsFiniteSet(Matches(n))
           /\ \A x \in Matches(n) : Precedes(n, x, x)
           /\ \A x, y \in Matches(n) : Precedes(n, x, y) \/ Precedes(n, y, x)
           /\ \A x, y \in Matches(n) : Precedes(n, x, y) /\ Precedes(n, y, x) => x = y
           /\ \A x, y, z : Precedes(n, x, y) /\ Precedes(n, y, z) => Precedes(n, x, z)
<1> DEFINE R == Rows[n]
           D == DOMAIN R
<1>1. R \in Seq(ToSet(R)) /\ \A i, j \in D : R[i] = R[j] => i = j
  BY ReadsAssumption DEF IsInjective
<1>2. D = 1..Len(R) /\ Len(R) \in Nat
  BY <1>1
<1>3. ToSet(R) = {R[i] : i \in D}
  BY DEF ToSet
<1>4. IsFiniteSet(ToSet(R))
  <2>1. IsFiniteSet(D)
    <3>1. Len(R) \in Int /\ 1 \in Int /\ D = 1..Len(R)
      BY <1>2
    <3> HIDE DEF D, R
    <3>2. QED BY <3>1, FS_Interval
  <2>2. R \in Surjection(D, ToSet(R))
    <3>1. R \in [D -> ToSet(R)]
      BY <1>1, <1>2
    <3>2. QED BY <1>3, <3>1 DEF Surjection
  <2>3. QED BY <2>1, <2>2, FS_Surjection
<1>5. \A x \in Matches(n) : \E i \in D : R[i] = x
  BY <1>3 DEF Matches
<1>6. \A i, j \in D : i <= j \/ j <= i
  BY <1>2
<1>7. ASSUME NEW x, NEW y, NEW z, Precedes(n, x, y), Precedes(n, y, z)
      PROVE  Precedes(n, x, z)
  <2>1. PICK i, j \in D : i <= j /\ R[i] = x /\ R[j] = y
    BY <1>7 DEF Precedes
  <2>2. PICK k, l \in D : k <= l /\ R[k] = y /\ R[l] = z
    BY <1>7 DEF Precedes
  <2>3. j = k /\ i <= l
    BY <1>1, <1>2, <2>1, <2>2
  <2>4. QED BY <2>1, <2>2, <2>3 DEF Precedes
<1>8. ASSUME NEW x, NEW y, Precedes(n, x, y), Precedes(n, y, x)
      PROVE  x = y
  <2>1. PICK i, j \in D : i <= j /\ R[i] = x /\ R[j] = y
    BY <1>8 DEF Precedes
  <2>2. PICK k, l \in D : k <= l /\ R[k] = y /\ R[l] = x
    BY <1>8 DEF Precedes
  <2>3. j = k /\ i = l
    BY <1>1, <2>1, <2>2
  <2>4. i = j
    BY <1>2, <2>1, <2>2, <2>3
  <2>5. QED BY <2>1, <2>4
<1>9. \A x \in Matches(n) : Precedes(n, x, x)
  BY <1>5, <1>6 DEF Precedes
<1>10. \A x, y \in Matches(n) : Precedes(n, x, y) \/ Precedes(n, y, x)
  BY <1>5, <1>6 DEF Precedes
<1>11. IsFiniteSet(Matches(n))
  BY <1>4, FS_Subset DEF Matches
<1>12. QED BY <1>7, <1>8, <1>9, <1>10, <1>11

\* The places of the matching mails are 1, 2, ... without a gap.
LEMMA PlacesCount ==
    ASSUME NEW n \in Names
    PROVE  /\ \A m \in Matches(n) : Place(n, m) \in Nat \ {0}
           /\ \A m, k \in Matches(n) : Place(n, m) = Place(n, k) => m = k
           /\ \A m \in Matches(n) : \A p \in 1..Place(n, m) :
                 \E k \in Matches(n) : Place(n, k) = p
<1> DEFINE S == Matches(n)
           B == [x \in S |-> {y \in S : y # x /\ Precedes(n, y, x)}]
<1>1. /\ IsFiniteSet(S) /\ \A x \in S : Precedes(n, x, x)
      /\ \A x, y \in S : Precedes(n, x, y) \/ Precedes(n, y, x)
      /\ \A x, y \in S : Precedes(n, x, y) /\ Precedes(n, y, x) => x = y
      /\ \A x, y, z : Precedes(n, x, y) /\ Precedes(n, y, z) => Precedes(n, x, z)
  BY RowsOrdered
<1>2. /\ B \in [S -> SUBSET S]
      /\ \A x \in S : B[x] = {y \in S : y # x /\ Precedes(n, y, x)}
  OBVIOUS
<1>3. \A m \in S : Place(n, m) = Cardinality({k \in S : Precedes(n, k, m)})
  BY DEF Place
<1> HIDE DEF S, B
<1>4. /\ \A x \in S : x \notin B[x]
      /\ \A x, y \in S : x = y \/ x \in B[y] \/ y \in B[x]
  BY <1>1, <1>2
<1>5. \A x, y \in S : y \in B[x] => B[y] \subseteq B[x]
  BY <1>1, <1>2
<1>6. /\ \A x \in S : Cardinality(B[x]) \in Nat
      /\ {Cardinality(B[x]) : x \in S} = 0..(Cardinality(S) - 1)
      /\ \A x, y \in S : y \in B[x] <=> Cardinality(B[y]) < Cardinality(B[x])
  BY <1>1, <1>2, <1>4, <1>5, RanksCount
<1>7. ASSUME NEW m \in S PROVE Place(n, m) = Cardinality(B[m]) + 1
  <2>1. {k \in S : Precedes(n, k, m)} = B[m] \cup {m} /\ m \notin B[m]
    BY <1>1, <1>2
  <2>2. IsFiniteSet(B[m])
    BY <1>1, <1>2, FS_Subset
  <2>3. QED BY <1>3, <2>1, <2>2, FS_AddElement
<1>8. \A m \in S : Place(n, m) \in Nat \ {0}
  BY <1>6, <1>7
<1>9. ASSUME NEW m \in S, NEW k \in S, Place(n, m) = Place(n, k) PROVE m = k
  <2>1. Cardinality(B[m]) = Cardinality(B[k])
    BY <1>6, <1>7, <1>9
  <2>2. m \notin B[k] /\ k \notin B[m]
    BY <1>6, <2>1
  <2>3. QED BY <1>4, <2>2
<1>10. ASSUME NEW m \in S, NEW p \in 1..Place(n, m)
       PROVE  \E k \in S : Place(n, k) = p
  <2>1. Cardinality(B[m]) \in 0..(Cardinality(S) - 1) /\ Cardinality(S) \in Nat
    BY <1>1, <1>6, FS_CardinalityType
  <2>2. p - 1 \in 0..(Cardinality(S) - 1) /\ p \in Nat
    BY <1>7, <1>10, <2>1
  <2>3. PICK k \in S : Cardinality(B[k]) = p - 1
    BY <1>6, <2>2
  <2>4. QED BY <1>7, <2>2, <2>3
<1>11. QED BY <1>8, <1>9, <1>10 DEF S

\* A page that is not full is the last.
LEMMA LastPage ==
    ASSUME NEW n \in Names, NEW page \in Nat,
           ~NextButton(FetchEmails(n, page)), NEW m \in Matches(n)
    PROVE  Place(n, m) <= (page + 1) * PerPage
<1> SUFFICES ASSUME ~(Place(n, m) <= (page + 1) * PerPage) PROVE FALSE
  OBVIOUS
<1> DEFINE low  == page * PerPage
           high == low + PerPage
           F == FetchEmails(n, page)
           I == (low + 1)..high
           f == [k \in F |-> Place(n, k)]
<1>1. /\ PerPage \in Nat /\ low \in Nat /\ high = (page + 1) * PerPage /\ high \in Nat
  BY ReadsAssumption
<1>2. /\ F = {k \in Matches(n) : Place(n, k) \in I}
  BY DEF FetchEmails, Offset
<1>3. /\ IsFiniteSet(I) /\ Cardinality(I) = PerPage
  <2> HIDE DEF low
  <2>1. low + 1 \in Int /\ high \in Int
    BY <1>1
  <2>2. IsFiniteSet(I) /\ Cardinality(I) = IF low + 1 > high THEN 0 ELSE high - (low + 1) + 1
    BY <2>1, FS_Interval
  <2>3. QED BY <1>1, <2>2, ReadsAssumption
<1>4. Place(n, m) \in Nat /\ Place(n, m) > high
  BY <1>1, PlacesCount
<1>5. f \in Injection(F, I)
  <2>1. f \in [F -> I]
    BY <1>2
  <2>2. \A x, y \in F : f[x] = f[y] => x = y
    BY <1>2, PlacesCount
  <2>3. QED BY <2>1, <2>2 DEF Injection, IsInjective
<1>6. f \in Surjection(F, I)
  <2>1. ASSUME NEW p \in I PROVE \E k \in F : f[k] = p
    <3>1. p \in 1..Place(n, m)
      BY <1>1, <1>4
    <3>2. PICK k \in Matches(n) : Place(n, k) = p
      BY <3>1, PlacesCount
    <3>3. k \in F
      BY <1>2, <3>2
    <3>4. QED BY <3>2, <3>3
  <2>2. f \in [F -> I]
    BY <1>2
  <2>3. QED BY <2>1, <2>2 DEF Surjection
<1>7. Cardinality(F) = PerPage
  <2> HIDE DEF f, F, I
  <2>1. Cardinality(F) = Cardinality(I) <=> f \in Surjection(F, I)
    BY <1>3, <1>5, FS_Injection
  <2>2. QED BY <1>3, <1>6, <2>1
<1>8. QED BY <1>7 DEF NextButton

\* A mail of an archive with no fewer mails comes no earlier.
LEMMA NoEarlier ==
    ASSUME SameOrder, NEW n \in Names, NEW k \in Names, Matches(n) \subseteq Matches(k),
           NEW m \in Matches(n)
    PROVE  Place(n, m) <= Place(k, m)
<1> DEFINE A == {x \in Matches(n) : Precedes(n, x, m)}
           B == {x \in Matches(k) : Precedes(k, x, m)}
<1>1. A \subseteq B
  BY DEF SameOrder, Matches
<1>2. IsFiniteSet(B)
  BY RowsOrdered, FS_Subset
<1>3. Cardinality(A) <= Cardinality(B)
  BY <1>1, <1>2, FS_Subset
<1>4. QED BY <1>3 DEF Place

\* What the reader has not seen of the first archive is on the pages to come.
ListInv ==
    /\ list.next \in Nat /\ list.more \in BOOLEAN /\ list.shrunk \in BOOLEAN
    /\ list.next > 0 /\ ~list.shrunk =>
         \E n \in Names :
            /\ list.latest = Matches(n) /\ list.first \subseteq Matches(n)
            /\ \A m \in list.first \ list.seen : Place(n, m) > list.next * PerPage
            /\ ~list.more => \A m \in Matches(n) : Place(n, m) <= list.next * PerPage

LEMMA BrowseStep ==
    ASSUME SameOrder, TypeInv, ListInv, NEW page \in Nat, Browse(page)
    PROVE  ListInv'
<1> DEFINE k == db.path[2]
           rows == FetchEmails(k, page)
           here == Matches(k)
           old  == IF page = 0 THEN [NoList EXCEPT !.first = here] ELSE list
<1>1. /\ page = 0 \/ page = list.next
      /\ list' = [next   |-> page + 1,
                  seen   |-> old.seen \cup rows,
                  first  |-> old.first,
                  latest |-> here,
                  shrunk |-> old.shrunk \/ ~(old.latest \subseteq here),
                  more   |-> NextButton(rows)]
      /\ db # None
  BY DEF Browse, Turn, Readable
<1>1a. /\ list'.next = page + 1 /\ list'.seen = old.seen \cup rows
       /\ list'.first = old.first /\ list'.latest = here /\ list'.more = NextButton(rows)
       /\ list'.shrunk = (old.shrunk \/ ~(old.latest \subseteq here))
  <2> HIDE DEF old, rows, here, k
  <2>1. QED BY <1>1
<1>1b. list'.more \in BOOLEAN /\ list'.shrunk \in BOOLEAN
  BY <1>1a DEF NextButton
<1>2. k \in Names
  <2>1. db.path \in Path
    BY <1>1 DEF TypeInv, TypeOK
  <2>2. QED BY <2>1 DEF Path
<1>3. rows = {m \in here : Place(k, m) \in (page * PerPage + 1)..(page * PerPage + PerPage)}
  BY DEF FetchEmails, Offset
<1>4. /\ PerPage \in Nat /\ page * PerPage \in Nat
      /\ (page + 1) * PerPage = page * PerPage + PerPage
  BY ReadsAssumption
<1>5. \A m \in here : Place(k, m) \in Nat \ {0}
  BY <1>2, PlacesCount
<1>6. \A m \in here \ rows : Place(k, m) > page * PerPage => Place(k, m) > (page + 1) * PerPage
  <2> HIDE DEF rows, here
  <2>1. SUFFICES ASSUME NEW m \in here \ rows, Place(k, m) > page * PerPage
                 PROVE  Place(k, m) > (page + 1) * PerPage
    OBVIOUS
  <2>2. Place(k, m) \notin (page * PerPage + 1)..(page * PerPage + PerPage)
    BY <1>3
  <2>3. QED BY <1>4, <1>5, <2>1, <2>2
<1>7. ~NextButton(rows) => \A m \in here : Place(k, m) <= (page + 1) * PerPage
  BY <1>2, LastPage
<1>8. CASE page = 0
  <2>1. /\ list'.first = here /\ list'.latest = here /\ list'.seen = rows
        /\ list'.next = 1
    <3>1. old = [NoList EXCEPT !.first = here]
      BY <1>8
    <3>2. old.first = here /\ old.latest = {} /\ old.seen = {} /\ old.shrunk = FALSE
      BY <3>1 DEF NoList
    <3> HIDE DEF old, rows, here
    <3>3. QED BY <1>1a, <1>8, <3>2
  <2>2. \A m \in here : Place(k, m) > page * PerPage
    BY <1>4, <1>5, <1>8
  <2> HIDE DEF rows, here, k
  <2>3. \A m \in here \ rows : Place(k, m) > 1 * PerPage
    BY <1>6, <1>8, <2>2
  <2>4. NextButton(rows) \/ \A m \in here : Place(k, m) <= 1 * PerPage
    BY <1>7, <1>8
  <2>5. list'.more \/ \A m \in here : Place(k, m) <= 1 * PerPage
    BY <1>1a, <2>4
  <2>6. QED BY <1>1b, <1>2, <2>1, <2>3, <2>5 DEF ListInv, here
<1>9. CASE page # 0
  <2>1. /\ list'.first = list.first /\ list'.latest = here /\ list'.seen = list.seen \cup rows
        /\ list'.next = page + 1 /\ list.next = page
        /\ ~list'.shrunk => ~list.shrunk /\ list.latest \subseteq here
    <3>1. old = list
      BY <1>9
    <3> HIDE DEF old, rows, here, k
    <3>2. QED BY <1>1, <1>1a, <1>9, <3>1
  <2>2. list'.more \/ \A m \in here : Place(k, m) <= (page + 1) * PerPage
    BY <1>1a, <1>7
  <2>3. ASSUME ~list'.shrunk
        PROVE  /\ list.first \subseteq here
               /\ \A m \in list.first \ (list.seen \cup rows) :
                     Place(k, m) > (page + 1) * PerPage
    <3>1. ~list.shrunk /\ list.latest \subseteq here /\ list.next > 0
      BY <1>9, <2>1, <2>3
    <3>2. PICK n \in Names :
            /\ list.latest = Matches(n) /\ list.first \subseteq Matches(n)
            /\ \A m \in list.first \ list.seen : Place(n, m) > page * PerPage
      BY <2>1, <3>1 DEF ListInv
    <3>3. \A m \in Matches(n) : Place(n, m) <= Place(k, m) /\ Place(n, m) \in Nat
      BY <1>2, <3>1, <3>2, NoEarlier, PlacesCount
    <3> HIDE DEF rows, here, k
    <3>4. ASSUME NEW m \in list.first \ (list.seen \cup rows)
          PROVE  Place(k, m) > (page + 1) * PerPage
      <4>1. m \in here /\ m \notin rows /\ m \in Matches(n)
        BY <3>1, <3>2
      <4>2. Place(k, m) > page * PerPage
        <5>1. Place(n, m) > page * PerPage /\ Place(n, m) <= Place(k, m) /\ Place(n, m) \in Nat
          BY <3>2, <3>3, <4>1
        <5>2. Place(k, m) \in Nat
          BY <1>5, <4>1
        <5>3. QED BY <1>4, <5>1, <5>2
      <4>3. QED BY <1>6, <4>1, <4>2
    <3>5. QED BY <3>1, <3>2, <3>4
  <2> HIDE DEF rows, here, k
  <2>4. QED BY <1>1b, <1>2, <2>1, <2>2, <2>3 DEF ListInv, here
<1>10. QED BY <1>8, <1>9

\* A reader who pages to the end misses no mail of the archive the first page
\* came from, whatever archives are swapped in between, if each has the mails of
\* the one before and has them in the same order (db.py:63).
THEOREM NoMailIsSkipped ==
    ASSUME SameOrder
    PROVE  ReadsSpec => []NoMailSkipped
<1>1. ReadsInit => ListInv
  BY DEF ReadsInit, NoList, ListInv
<1>2. TypeInv /\ ListInv /\ [ReadsNext]_readsVars => ListInv'
  <2> SUFFICES ASSUME TypeInv, ListInv, [ReadsNext]_readsVars PROVE ListInv'
    OBVIOUS
  <2>1. CASE list' = list
    BY <2>1 DEF ListInv
  <2>2. ASSUME NEW page \in 0..list.next, Browse(page) PROVE ListInv'
    <3>1. page \in Nat
      BY DEF ListInv
    <3>2. QED BY <2>2, <3>1, BrowseStep
  <2>3. QED
    BY <2>1, <2>2 DEF ReadsNext, Noted, Reading, Begin, EmailDetail, DownloadAttachment,
       Reply, EndRequest, readsVars, reads
<1>3. ListInv => NoMailSkipped
  <2> SUFFICES ASSUME ListInv, list.next > 0, ~list.more, ~list.shrunk,
                      NEW m \in list.first, m \notin list.seen
               PROVE  FALSE
    BY DEF NoMailSkipped
  <2>1. PICK n \in Names :
           /\ list.first \subseteq Matches(n)
           /\ Place(n, m) > list.next * PerPage
           /\ \A k \in Matches(n) : Place(n, k) <= list.next * PerPage
    BY DEF ListInv
  <2>2. Place(n, m) \in Nat /\ list.next * PerPage \in Nat
    <3>1. Place(n, m) \in Nat
      BY <2>1, PlacesCount
    <3>2. QED BY <3>1, ReadsAssumption DEF ListInv
  <2>3. QED BY <2>1, <2>2
<1>4. QED BY ReadsAreSteps, ReadsTypes, <1>1, <1>2, <1>3, PTL DEF ReadsSpec, readsVars
=============================================================================

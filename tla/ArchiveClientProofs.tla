------------------------ MODULE ArchiveClientProofs ------------------------
(***************************************************************************)
(* Safety of ArchiveClient for any number of threads, any versions and any *)
(* set of operations.                                                      *)
(***************************************************************************)
EXTENDS ArchiveClient, TLAPS

\* The archive a worker has at a step.
Agrees(at, f) ==
    /\ at = "start" => f \in {None, Base}
    /\ at = "manifest" => f = None
    /\ at \in {"create", "fetch", "verify", "inflate", "inflating"} => f \in Versions
    /\ at \in {"set", "rsync", "index", "stats"} => f = Base
    /\ at \in SwapPcs => f \in Names

JobOK ==
    /\ \A w \in Workers : Agrees(Pc(w), job[w].file)
    /\ loop.op \in {"open", "open_run"} => loop.path \in Path

TypeInv == TypeOK /\ JobOK

LEMMA PathType ==
    ASSUME TypeInv, NEW w \in Workers, job[w].file \in Names
    PROVE  Target(w) \in Path
BY DEF TypeInv, TypeOK, Target, Path

LEMMA InitTypeInv == Init => TypeInv
<1> SUFFICES ASSUME Init PROVE TypeInv
  OBVIOUS
<1> PICK S \in Preinstalled :
      /\ disk = [p \in Path |-> IF p[1] = Data /\ p[2] \in S
                                THEN "complete" ELSE "absent"]
      /\ newest \in IF S = {} THEN {None} ELSE S
      /\ verified = S \cap Versions
  BY DEF Init
<1>1. newest \in Names \cup {None}
  <2>1. CASE S = {}
    BY <2>1
  <2>2. CASE S # {}
    BY <2>2, ClientAssumption DEF Names
  <2>3. QED BY <2>1, <2>2
<1>2. disk \in [Path -> Content]
  BY DEF Content
<1>3. gz \in [Path -> Content] /\ verified \in SUBSET Versions
  BY DEF Init, Content
<1>4. /\ NoJob \in [pc : Pcs, dest : Dirs, file : Names \cup {None}]
      /\ NoJob.pc = "idle"
  BY DEF NoJob, Pcs, Dirs
<1>5. /\ job \in [Workers -> [pc : Pcs, dest : Dirs, file : Names \cup {None}]]
      /\ \A w \in Workers : Pc(w) = "idle"
  BY <1>4 DEF Init, Pc
<1>6. /\ loop \in [op : LoopOps, path : Path \cup {None}]
      /\ loop.op = "idle"
  BY DEF Init, LoopOps
<1>7. TypeOK
  BY <1>1, <1>2, <1>3, <1>5, <1>6 DEF Init, TypeOK, ClientStates
<1>8. JobOK
  BY <1>5, <1>6 DEF JobOK, Agrees, SwapPcs
<1>9. QED BY <1>7, <1>8 DEF TypeInv

JobType == [pc : Pcs, dest : Dirs, file : Names \cup {None}]

\* What a worker's step does to the jobs: it moves that worker, and its archive
\* and directory stay until its slot is free again.
LEMMA AtEffect ==
    ASSUME TypeInv, NEW w \in Workers, NEW from, NEW to \in Pcs, At(w, from, to)
    PROVE  /\ Pc(w) = from
           /\ job' \in [Workers -> JobType]
           /\ \A u \in Workers \ {w} : job'[u] = job[u]
           /\ to # "idle" => /\ job'[w].pc = to
                             /\ job'[w].dest = job[w].dest
                             /\ job'[w].file = job[w].file
           /\ to = "idle" => job'[w] = NoJob
<1>1. NoJob \in JobType
  BY DEF NoJob, JobType, Pcs, Dirs
<1>2. job \in [Workers -> JobType]
  BY DEF TypeInv, TypeOK, JobType
<1>3. [job[w] EXCEPT !.pc = to] \in JobType
  BY <1>2 DEF JobType
<1>4. QED BY <1>1, <1>2, <1>3 DEF At, JobType

LEMMA MoveJobOK ==
    ASSUME TypeInv, NEW w \in Workers, NEW from, NEW to \in Pcs, At(w, from, to),
           UNCHANGED loop, to = "idle" \/ Agrees(to, job[w].file)
    PROVE  JobOK'
<1>1. to = "idle" => Agrees(job'[w].pc, job'[w].file)
  BY AtEffect DEF NoJob, Agrees, SwapPcs
<1>2. to # "idle" => Agrees(job'[w].pc, job'[w].file)
  BY AtEffect
<1>3. \A u \in Workers \ {w} : job'[u] = job[u]
  BY AtEffect
<1>4. QED BY <1>1, <1>2, <1>3 DEF TypeInv, JobOK, Pc

LEMMA NoJobFacts ==
    /\ NoJob \in JobType /\ NoJob.pc = "idle" /\ "idle" \notin SwapPcs
BY DEF NoJob, JobType, Pcs, Dirs, SwapPcs

\* A step of a worker that moves it by At, keeps the loop, and assigns values
\* of their types to the rest.
LEMMA WorkerTypeInv ==
    ASSUME TypeInv, NEW w \in Workers, Worker(w)
    PROVE  TypeInv'
<1> USE DEF appVars, fileVars, ctlVars, histVars
<1> DEFINE RestOK == /\ up' \in BOOLEAN /\ state' \in ClientStates
                     /\ db' \in [path : Path, open : BOOLEAN] \cup {None}
                     /\ db_path' \in Path \cup {None}
                     /\ version' \in Versions \cup {None}
                     /\ disk' \in [Path -> Content] /\ gz' \in [Path -> Content]
                     /\ newest' \in Names \cup {None}
                     /\ verified' \in SUBSET Versions /\ openFailed' \in BOOLEAN
<1>a. TypeOK /\ JobOK
  BY DEF TypeInv
<1>b. Agrees(Pc(w), job[w].file)
  BY <1>a DEF JobOK
<1>c. ASSUME NEW from, NEW to \in Pcs, At(w, from, to),
             to = "idle" \/ Agrees(to, job[w].file),
             RestOK, UNCHANGED ctlVars
      PROVE  TypeInv'
  <2>1. job' \in [Workers -> JobType]
    BY <1>c, AtEffect
  <2>2. JobOK'
    BY <1>c, MoveJobOK
  <2>3. QED BY <1>a, <1>c, <2>1, <2>2 DEF TypeInv, TypeOK, JobType
<1>d. job[w].file \in Names => Target(w) \in Path
  BY PathType
<1> HIDE DEF RestOK
<1>1. CASE BeginUpdate(w)
  <2>1. At(w, "start", "manifest") /\ "manifest" \in Pcs /\ Pc(w) = "start" /\ UNCHANGED ctlVars
    BY <1>1 DEF BeginUpdate, At, Pcs, UpdatePcs, SyncPcs, SwapPcs
  <2>2. Agrees("manifest", job[w].file)
    BY <2>1, <1>b, <1>1 DEF Agrees, SwapPcs, Names, BeginUpdate, IsSync
  <2>3. RestOK
    BY <1>1, <1>a, <1>b, <1>d, <2>1 DEF BeginUpdate, RestOK, TypeOK, Agrees, Names, SwapPcs, ClientStates
  <2>4. QED BY <1>c, <2>1, <2>2, <2>3
<1>2. CASE FetchManifest(w)
  <2>1. PICK v \in Versions : job' = [job EXCEPT ![w].pc = "create", ![w].file = v]
    BY <1>2 DEF FetchManifest
  <2>2. /\ job' \in [Workers -> JobType]
        /\ \A u \in Workers \ {w} : job'[u] = job[u]
        /\ job'[w].pc = "create" /\ job'[w].file = v
    BY <2>1, <1>a DEF TypeOK, JobType, Names, Pcs, UpdatePcs, SyncPcs, SwapPcs
  <2>3. Agrees(job'[w].pc, job'[w].file)
    BY <2>2 DEF Agrees, SwapPcs
  <2>4. JobOK'
    BY <1>2, <1>a, <2>2, <2>3 DEF JobOK, Pc, FetchManifest
  <2>5. QED BY <1>2, <1>a, <2>2, <2>4 DEF FetchManifest, TypeInv, TypeOK, JobType
<1>3. CASE CreateDownload(w)
  <2>1. At(w, "create", "fetch") /\ "fetch" \in Pcs /\ Pc(w) = "create" /\ UNCHANGED ctlVars
    BY <1>3 DEF CreateDownload, At, Pcs, UpdatePcs, SyncPcs, SwapPcs
  <2>2. Agrees("fetch", job[w].file)
    BY <2>1, <1>b DEF Agrees, SwapPcs, Names
  <2>3. RestOK
    BY <1>3, <1>a, <1>b, <1>d, <2>1 DEF CreateDownload, RestOK, TypeOK, Agrees, Names, SwapPcs, Content
  <2>4. QED BY <1>c, <2>1, <2>2, <2>3
<1>4. CASE Download(w)
  <2>1. At(w, "fetch", "verify") /\ "verify" \in Pcs /\ Pc(w) = "fetch" /\ UNCHANGED ctlVars
    BY <1>4 DEF Download, At, Pcs, UpdatePcs, SyncPcs, SwapPcs
  <2>2. Agrees("verify", job[w].file)
    BY <2>1, <1>b DEF Agrees, SwapPcs, Names
  <2>3. RestOK
    BY <1>4, <1>a, <1>b, <1>d, <2>1 DEF Download, RestOK, TypeOK, Agrees, Names, SwapPcs, Content
  <2>4. QED BY <1>c, <2>1, <2>2, <2>3
<1>5. CASE Verify(w)
  <2>1. At(w, "verify", "inflate") /\ "inflate" \in Pcs /\ Pc(w) = "verify" /\ UNCHANGED ctlVars
    BY <1>5 DEF Verify, At, Pcs, UpdatePcs, SyncPcs, SwapPcs
  <2>2. Agrees("inflate", job[w].file)
    BY <2>1, <1>b DEF Agrees, SwapPcs, Names
  <2>3. RestOK
    BY <1>5, <1>a, <1>b, <1>d, <2>1 DEF Verify, RestOK, TypeOK, Agrees, Names, SwapPcs
  <2>4. QED BY <1>c, <2>1, <2>2, <2>3
<1>6. CASE OpenInflate(w)
  <2>1. At(w, "inflate", "inflating") /\ "inflating" \in Pcs /\ Pc(w) = "inflate" /\ UNCHANGED ctlVars
    BY <1>6 DEF OpenInflate, At, Pcs, UpdatePcs, SyncPcs, SwapPcs
  <2>2. Agrees("inflating", job[w].file)
    BY <2>1, <1>b DEF Agrees, SwapPcs, Names
  <2>3. RestOK
    BY <1>6, <1>a, <1>b, <1>d, <2>1 DEF OpenInflate, RestOK, TypeOK, Agrees, Names, SwapPcs, Content, Touched
  <2>4. QED BY <1>c, <2>1, <2>2, <2>3
<1>7. CASE Inflate(w)
  <2>1. At(w, "inflating", "close") /\ "close" \in Pcs /\ Pc(w) = "inflating" /\ UNCHANGED ctlVars
    BY <1>7 DEF Inflate, At, Pcs, UpdatePcs, SyncPcs, SwapPcs
  <2>2. Agrees("close", job[w].file)
    BY <2>1, <1>b DEF Agrees, SwapPcs, Names
  <2>3. RestOK
    BY <1>7, <1>a, <1>b, <1>d, <2>1 DEF Inflate, RestOK, TypeOK, Agrees, Names, SwapPcs, Content, Touched, Inflated
  <2>4. QED BY <1>c, <2>1, <2>2, <2>3
<1>8. CASE CheckSync(w)
  <2> DEFINE to == IF NotUpdating THEN "set" ELSE "idle"
  <2>1. At(w, "start", to) /\ to \in Pcs /\ Pc(w) = "start" /\ UNCHANGED ctlVars
    BY <1>8 DEF CheckSync, At, Pcs, UpdatePcs, SyncPcs, SwapPcs
  <2>2. to = "idle" \/ Agrees(to, job[w].file)
    BY <1>8, <2>1, <1>b DEF CheckSync, Agrees, SwapPcs, IsSync
  <2>3. RestOK
    BY <1>8, <1>a DEF CheckSync, RestOK, TypeOK, ClientStates
  <2> HIDE DEF to
  <2>4. QED BY <1>c, <2>1, <2>2, <2>3
<1>9. CASE BeginSync(w)
  <2>1. At(w, "set", "rsync") /\ "rsync" \in Pcs /\ Pc(w) = "set" /\ UNCHANGED ctlVars
    BY <1>9 DEF BeginSync, At, Pcs, UpdatePcs, SyncPcs, SwapPcs
  <2>2. Agrees("rsync", job[w].file)
    BY <2>1, <1>b DEF Agrees, SwapPcs, Names
  <2>3. RestOK
    BY <1>9, <1>a, <1>b, <1>d, <2>1 DEF BeginSync, RestOK, TypeOK, Agrees, Names, SwapPcs, ClientStates
  <2>4. QED BY <1>c, <2>1, <2>2, <2>3
<1>10. CASE Rsync(w)
  <2>1. At(w, "rsync", "index") /\ "index" \in Pcs /\ Pc(w) = "rsync" /\ UNCHANGED ctlVars
    BY <1>10 DEF Rsync, At, Pcs, UpdatePcs, SyncPcs, SwapPcs
  <2>2. Agrees("index", job[w].file)
    BY <2>1, <1>b DEF Agrees, SwapPcs, Names
  <2>3. RestOK
    BY <1>10, <1>a, <1>b, <1>d, <2>1 DEF Rsync, RestOK, TypeOK, Agrees, Names, SwapPcs
  <2>4. QED BY <1>c, <2>1, <2>2, <2>3
<1>11. CASE Reindex(w)
  <2>1. At(w, "index", "close") /\ "close" \in Pcs /\ Pc(w) = "index" /\ UNCHANGED ctlVars
    BY <1>11 DEF Reindex, At, Pcs, UpdatePcs, SyncPcs, SwapPcs
  <2>2. Agrees("close", job[w].file)
    BY <2>1, <1>b DEF Agrees, SwapPcs, Names
  <2>3. RestOK
    BY <1>11, <1>a, <1>b, <1>d, <2>1 DEF Reindex, RestOK, TypeOK, Agrees, Names, SwapPcs, Content, Touched
  <2>4. QED BY <1>c, <2>1, <2>2, <2>3
<1>12. CASE CloseOld(w)
  <2>1. At(w, "closing", "open") /\ "open" \in Pcs /\ Pc(w) = "closing" /\ UNCHANGED ctlVars
    BY <1>12 DEF CloseOld, At, Pcs, UpdatePcs, SyncPcs, SwapPcs
  <2>2. Agrees("open", job[w].file)
    BY <2>1, <1>b DEF Agrees, SwapPcs, Names
  <2>3. RestOK
    BY <1>12, <1>a, <1>b, <1>d, <2>1 DEF CloseOld, RestOK, TypeOK, Agrees, Names, SwapPcs, Closed
  <2>4. QED BY <1>c, <2>1, <2>2, <2>3
<1>13. CASE OpenNew(w)
  <2>1. At(w, "open", "label") /\ "label" \in Pcs /\ Pc(w) = "open" /\ UNCHANGED ctlVars
    BY <1>13 DEF OpenNew, At, Pcs, UpdatePcs, SyncPcs, SwapPcs
  <2>2. Agrees("label", job[w].file)
    BY <2>1, <1>b DEF Agrees, SwapPcs, Names
  <2>3. RestOK
    BY <1>13, <1>a, <1>b, <1>d, <2>1 DEF OpenNew, RestOK, TypeOK, Agrees, Names, SwapPcs, Handle
  <2>4. QED BY <1>c, <2>1, <2>2, <2>3
<1>14. CASE Label(w)
  <2>1. At(w, "label", "run") /\ "run" \in Pcs /\ Pc(w) = "label" /\ UNCHANGED ctlVars
    BY <1>14 DEF Label, At, Pcs, UpdatePcs, SyncPcs, SwapPcs
  <2>2. Agrees("run", job[w].file)
    BY <2>1, <1>b DEF Agrees, SwapPcs, Names
  <2>3. RestOK
    BY <1>14, <1>a, <1>b, <1>d, <2>1 DEF Label, RestOK, TypeOK, Agrees, Names, SwapPcs, IsSync
  <2>4. QED BY <1>c, <2>1, <2>2, <2>3
<1>15. CASE Finish(w)
  <2> DEFINE to == IF IsSync(w) THEN "stats" ELSE "idle"
  <2>1. At(w, "run", to) /\ to \in Pcs /\ Pc(w) = "run" /\ UNCHANGED ctlVars
    BY <1>15 DEF Finish, At, Pcs, UpdatePcs, SyncPcs, SwapPcs
  <2>2. to = "idle" \/ Agrees(to, job[w].file)
    BY <1>15, <2>1, <1>b DEF Finish, Agrees, SwapPcs, IsSync
  <2>3. RestOK
    BY <1>15, <1>a DEF Finish, RestOK, TypeOK, ClientStates
  <2> HIDE DEF to
  <2>4. QED BY <1>c, <2>1, <2>2, <2>3
<1>16. CASE EndSync(w)
  <2> DEFINE to == "idle"
  <2>1. At(w, "stats", to) /\ to \in Pcs /\ Pc(w) = "stats" /\ UNCHANGED ctlVars
    BY <1>16 DEF EndSync, At, Pcs, UpdatePcs, SyncPcs, SwapPcs
  <2>2. to = "idle" \/ Agrees(to, job[w].file)
    BY <1>16, <2>1, <1>b DEF EndSync, Agrees, SwapPcs, IsSync
  <2>3. RestOK
    BY <1>16, <1>a DEF EndSync, RestOK, TypeOK, ClientStates
  <2> HIDE DEF to
  <2>4. QED BY <1>c, <2>1, <2>2, <2>3
<1>17. CASE Fail(w)
  <2>1. /\ job' \in [Workers -> JobType] /\ job'[w] = NoJob
        /\ \A u \in Workers \ {w} : job'[u] = job[u]
    BY <1>17, <1>a, NoJobFacts DEF Fail, TypeOK, JobType
  <2>2. JobOK'
    BY <1>17, <1>a, <2>1 DEF Fail, JobOK, Pc, NoJob, Agrees, SwapPcs
  <2>3. /\ disk' \in [Path -> Content] /\ gz' \in [Path -> Content]
        /\ newest' \in Names \cup {None}
    BY <1>17, <1>a, <1>b DEF Fail, Leftovers, Touched, TypeOK, Content, Agrees, Names
  <2>4. state' \in ClientStates /\ openFailed' \in BOOLEAN
    BY <1>17, <1>a DEF Fail, StateAfterFailure, ClientStates, TypeOK
  <2>5. QED BY <1>17, <1>a, <2>1, <2>2, <2>3, <2>4 DEF Fail, TypeInv, TypeOK, JobType
<1>18. CASE CheckOld(w)
  <2> DEFINE to == IF db = None THEN "open" ELSE "closing"
  <2>1. At(w, "close", to) /\ to \in Pcs /\ Pc(w) = "close" /\ UNCHANGED ctlVars
    BY <1>18 DEF CheckOld, At, Pcs, UpdatePcs, SyncPcs, SwapPcs
  <2>2. Agrees(to, job[w].file)
    BY <2>1, <1>b DEF Agrees, SwapPcs, Names
  <2>3. RestOK
    BY <1>18, <1>a DEF CheckOld, RestOK, TypeOK
  <2> HIDE DEF to
  <2>4. QED BY <1>c, <2>1, <2>2, <2>3
<1> QED BY <1>1, <1>2, <1>3, <1>4, <1>5, <1>6, <1>7, <1>8, <1>9, <1>10, <1>11, <1>12, <1>13, <1>14, <1>15, <1>16, <1>17, <1>18 DEF Worker

-----------------------------------------------------------------------------
(* The other actions: threads that start, handlers, the process's ends.    *)

LEMMA ExitTypeInv == TypeInv /\ Exit => TypeInv'
<1> SUFFICES ASSUME TypeInv, Exit PROVE TypeInv'
  OBVIOUS
<1>1. job' \in [Workers -> JobType] /\ \A w \in Workers : job'[w].pc = "idle"
  BY NoJobFacts DEF Exit, FreshMemory
<1>2. disk' \in [Path -> Content] /\ gz' \in [Path -> Content]
  BY DEF Exit, TypeInv, TypeOK, Content
<1>3. loop' \in [op : LoopOps, path : Path \cup {None}] /\ loop'.op = "idle"
  BY DEF Exit, FreshMemory, LoopOps
<1>4. JobOK'
  BY <1>1, <1>3 DEF JobOK, Agrees, Pc, SwapPcs
<1>5. QED BY <1>1, <1>2, <1>3, <1>4 DEF Exit, FreshMemory, TypeInv, TypeOK, ClientStates, JobType

LEMMA StartTypeInv ==
    ASSUME TypeInv, NEW p \in Path \cup {None}, StartOn(p)
    PROVE  TypeInv'
<1>1. db' \in [path : Path, open : BOOLEAN] \cup {None} /\ db_path' \in Path \cup {None}
  BY DEF StartOn, Handle
<1>2. state' \in ClientStates
  BY DEF StartOn, ClientStates
<1>3. JobOK'
  BY DEF StartOn, TypeInv, JobOK, Pc, ctlVars
<1>4. QED BY <1>1, <1>2, <1>3 DEF StartOn, TypeInv, TypeOK, fileVars, ctlVars, histVars

\* What starting a thread does to the jobs and the files.
LEMMA SpawnTypes ==
    ASSUME TypeInv, NEW w \in Workers,
           (SpawnUpdate(w) /\ w \in Threads) \/ SpawnSync(w)
    PROVE  /\ job' \in [Workers -> JobType]
           /\ \A u \in Workers : Agrees(job'[u].pc, job'[u].file)
           /\ disk' \in [Path -> Content] /\ gz' \in [Path -> Content]
           /\ newest' \in Names \cup {None}
<1>a. TypeOK /\ JobOK
  BY DEF TypeInv
<1>b. "start" \in Pcs /\ "start" \notin SwapPcs
  BY DEF Pcs, UpdatePcs, SwapPcs
<1>1. CASE SpawnSync(w)
  <2>1. [pc |-> "start", dest |-> Data, file |-> Base] \in JobType
    BY <1>b DEF JobType, Dirs, Names
  <2>2. job' \in [Workers -> JobType]
    BY <1>1, <1>a, <2>1 DEF SpawnSync, TypeOK, JobType
  <2>3. \A u \in Workers : Agrees(job'[u].pc, job'[u].file)
    BY <1>1, <1>a, <1>b DEF SpawnSync, TypeOK, JobOK, Agrees, Pc
  <2>4. QED BY <1>1, <1>a, <2>2, <2>3 DEF SpawnSync, fileVars, TypeOK
<1>2. CASE SpawnUpdate(w) /\ w \in Threads
  <2> DEFINE dest == IF db_path = None THEN w ELSE db_path[1]
  <2>1. dest \in Dirs
    BY <1>2, <1>a DEF TypeOK, Path, Dirs
  <2>2. job' = [job EXCEPT ![w] = [pc |-> "start", file |-> None, dest |-> dest]]
    BY <1>2 DEF SpawnUpdate
  <2> HIDE DEF dest
  <2>3. [pc |-> "start", file |-> None, dest |-> dest] \in JobType
    BY <2>1, <1>b DEF JobType
  <2>4. job' \in [Workers -> JobType]
    BY <1>a, <2>2, <2>3 DEF TypeOK, JobType
  <2>5. \A u \in Workers : Agrees(job'[u].pc, job'[u].file)
    BY <1>a, <1>b, <2>2 DEF TypeOK, JobOK, Agrees, Pc
  <2>6. disk' \in [Path -> Content] /\ gz' \in [Path -> Content]
    BY <1>2, <1>a DEF SpawnUpdate, TypeOK, Content
  <2>7. QED BY <1>2, <1>a, <2>4, <2>5, <2>6 DEF SpawnUpdate, TypeOK
<1>3. QED BY <1>1, <1>2

LEMMA SpawnTypeInv ==
    ASSUME TypeInv, NEW w \in Threads, Spawn(w)
    PROVE  TypeInv'
<1>a. TypeOK /\ JobOK /\ w \in Workers
  BY DEF TypeInv, Workers
<1>b. UNCHANGED <<up, appVars, loop, stream, stopping, histVars>>
  BY DEF Spawn, TriggerUpdate, TriggerSync, PressUpdate, ctlVars
<1>c. recent' \in SUBSET Endpoints
  BY <1>a DEF Spawn, TriggerUpdate, TriggerSync, PressUpdate, ctlVars, Admit, Endpoints, TypeOK
<1>1. CASE UNCHANGED <<job, fileVars>>
  BY <1>1, <1>a, <1>b, <1>c DEF TypeInv, TypeOK, JobOK, Pc, fileVars, appVars, histVars
<1>2. CASE SpawnUpdate(w) \/ SpawnSync(w)
  <2>1. JobOK'
    BY <1>2, <1>a, <1>b, SpawnTypes DEF JobOK, Pc
  <2>2. QED BY <1>2, <1>a, <1>b, <1>c, <2>1, SpawnTypes DEF TypeInv, TypeOK, JobType, appVars, histVars
<1>3. QED BY <1>1, <1>2 DEF Spawn, TriggerUpdate, TriggerSync, PressUpdate

LEMMA AutoSyncTypeInv == TypeInv /\ AutoSync => TypeInv'
<1> SUFFICES ASSUME TypeInv, AutoSync PROVE TypeInv'
  OBVIOUS
<1>a. AutoThread \in Workers /\ SpawnSync(AutoThread)
  BY DEF Workers, AutoSync
<1>1. JobOK'
  BY <1>a, SpawnTypes DEF TypeInv, JobOK, Pc, AutoSync, ctlVars
<1>2. QED BY <1>a, <1>1, SpawnTypes DEF TypeInv, TypeOK, JobType, AutoSync, appVars, ctlVars, histVars

LEMMA LoopTypeInv ==
    ASSUME TypeInv, NEW p \in Path,
           Open(p) \/ Restart \/ OpenFile \/ ReopenFile \/ OpenRaises \/ EndReload
    PROVE  TypeInv'
<1> USE DEF fileVars, histVars, appVars
<1>a. TypeOK /\ JobOK
  BY DEF TypeInv
<1>b. UNCHANGED <<up, version, fileVars, job, stream, stopping, verified>>
  BY DEF Open, Restart, OpenFile, ReopenFile, OpenRaises, EndReload
<1>c. Closed(db) \in [path : Path, open : BOOLEAN] \cup {None}
  BY <1>a DEF TypeOK, Closed
<1>d. \A q \in Path : Handle(q) \in [path : Path, open : BOOLEAN]
  BY DEF Handle
<1>e. loop.op \in {"open", "open_run"} => loop.path \in Path
  BY <1>a DEF JobOK
<1>1. db' \in [path : Path, open : BOOLEAN] \cup {None}
  BY <1>a, <1>c, <1>d, <1>e DEF Open, Restart, OpenFile, ReopenFile, OpenRaises, EndReload, TypeOK
<1>2. db_path' \in Path \cup {None} /\ state' \in ClientStates /\ openFailed' \in BOOLEAN
  BY <1>a, <1>e DEF Open, Restart, OpenFile, ReopenFile, OpenRaises, EndReload, TypeOK, ClientStates
<1>3. recent' \in SUBSET Endpoints
  BY <1>a DEF Open, Restart, OpenFile, ReopenFile, OpenRaises, EndReload, TypeOK, Admit, Endpoints
<1>4. /\ loop' \in [op : LoopOps, path : Path \cup {None}]
      /\ loop'.op \in {"open", "open_run"} => loop'.path \in Path
  BY <1>e DEF Open, Restart, OpenFile, ReopenFile, OpenRaises, EndReload, LoopTo, LoopOps
<1>5. JobOK'
  BY <1>a, <1>b, <1>4 DEF JobOK, Pc
<1>6. QED BY <1>a, <1>b, <1>1, <1>2, <1>3, <1>4, <1>5 DEF TypeInv, TypeOK

LEMMA ControlTypeInv ==
    ASSUME TypeInv, OpenStream \/ EndStream \/ Shutdown \/ Quit
                    \/ \E e \in Endpoints : WindowElapses(e)
    PROVE  TypeInv'
<1> USE DEF fileVars, histVars, appVars
<1>a. TypeOK /\ JobOK
  BY DEF TypeInv
<1>1. UNCHANGED <<up, db, db_path, version, fileVars, job, loop, histVars>>
  BY DEF OpenStream, EndStream, Shutdown, Quit, WindowElapses
<1>2. state' \in ClientStates
  BY <1>a DEF OpenStream, EndStream, Shutdown, Quit, WindowElapses, ClientStates, TypeOK
<1>3. recent' \in SUBSET Endpoints
  BY <1>a DEF OpenStream, EndStream, Shutdown, Quit, WindowElapses, Admit, Endpoints, TypeOK
<1>4. stream' \in BOOLEAN /\ stopping' \in {"no", "sigterm", "quit"}
  BY <1>a DEF OpenStream, EndStream, Shutdown, Quit, WindowElapses, TypeOK
<1>5. JobOK'
  BY <1>a, <1>1 DEF JobOK, Pc
<1>6. QED BY <1>a, <1>1, <1>2, <1>3, <1>4, <1>5 DEF TypeInv, TypeOK

LEMMA NextTypeInv == TypeInv /\ [Next]_vars => TypeInv'
<1> SUFFICES ASSUME TypeInv, [Next]_vars PROVE TypeInv'
  OBVIOUS
<1>1. CASE Launch
  <2>1. newest \in Names \cup {None}
    BY DEF TypeInv, TypeOK
  <2>2. (IF newest = None THEN None ELSE <<Data, newest>>) \in Path \cup {None}
    BY <2>1 DEF Path, Dirs
  <2>3. QED BY <1>1, <2>2, StartTypeInv DEF Launch
<1>2. CASE Main
  <2>1. \A n \in Names : <<Data, n>> \in Path
    BY DEF Path, Dirs
  <2>2. QED BY <1>2, <2>1, StartTypeInv DEF Main
<1>3. CASE Crash \/ Terminate \/ PollStopped
  BY <1>3, ExitTypeInv DEF Crash, Terminate, PollStopped
<1>4. CASE \E w \in Threads : Spawn(w)
  BY <1>4, SpawnTypeInv
<1>5. CASE AutoSync
  BY <1>5, AutoSyncTypeInv
<1>6. CASE \E w \in Workers : Worker(w)
  BY <1>6, WorkerTypeInv
<1>7. CASE Restart \/ Reload \/ \E p \in Path : Open(p)
  <2>1. <<Data, Base>> \in Path
    BY DEF Path, Dirs, Names
  <2>2. QED BY <1>7, <2>1, LoopTypeInv DEF Reload
<1>8. CASE OpenStream \/ EndStream \/ Shutdown \/ Quit
           \/ \E e \in Endpoints : WindowElapses(e)
  BY <1>8, ControlTypeInv
<1>9. CASE UNCHANGED vars
  <2>1. TypeOK'
    BY <1>9 DEF vars, appVars, fileVars, ctlVars, histVars, TypeInv, TypeOK
  <2>2. JobOK'
    BY <1>9 DEF vars, ctlVars, TypeInv, JobOK, Pc
  <2>3. QED BY <2>1, <2>2 DEF TypeInv
<1>10. QED BY <1>1, <1>2, <1>3, <1>4, <1>5, <1>6, <1>7, <1>8, <1>9 DEF Next

\* Every variable has its type in every reachable state, and so has the archive
\* each worker thread is at.
THEOREM TypeInvariant == Spec => []TypeInv
<1>1. Init => TypeInv
  BY InitTypeInv
<1>2. TypeInv /\ [Next]_vars => TypeInv'
  BY NextTypeInv
<1>3. QED BY <1>1, <1>2, PTL DEF Spec

\* TypeOK is part of it: the shared object and the files keep their types
\* however the threads of control.py, updater.py and tui.py interleave.
THEOREM TypeCorrect == Spec => []TypeOK
<1>1. TypeInv => TypeOK
  BY DEF TypeInv
<1>2. QED BY <1>1, TypeInvariant, PTL

-----------------------------------------------------------------------------
(* What the steps leave alone.                                             *)

Moves == {<<"start", "manifest">>, <<"manifest", "create">>, <<"create", "fetch">>,
          <<"fetch", "verify">>, <<"verify", "inflate">>, <<"inflate", "inflating">>,
          <<"inflating", "close">>, <<"start", "set">>, <<"start", "idle">>,
          <<"set", "rsync">>, <<"rsync", "index">>, <<"index", "close">>,
          <<"close", "open">>, <<"close", "closing">>, <<"closing", "open">>,
          <<"open", "label">>, <<"label", "run">>, <<"run", "stats">>, <<"run", "idle">>, <<"stats", "idle">>}

\* The thread that steps moves along the program, or fails; the others, the
\* event loop and what belongs to it stay where they are.
LEMMA WorkerMoves ==
    ASSUME TypeInv, NEW w \in Workers, Worker(w)
    PROVE  /\ \A u \in Workers \ {w} : job'[u] = job[u]
           /\ UNCHANGED <<up, ctlVars>>
           /\ \/ <<Pc(w), job'[w].pc>> \in Moves
              \/ Fail(w) /\ job'[w] = NoJob
           /\ job'[w] = NoJob \/ job'[w].dest = job[w].dest
           /\ \/ job'[w] = NoJob
              \/ job'[w].file = job[w].file
              \/ Pc(w) = "manifest" /\ job'[w].file \in Versions
<1>a. job \in [Workers -> JobType]
  BY DEF TypeInv, TypeOK, JobType
<1>1. CASE Fail(w)
  BY <1>1, <1>a DEF Fail
<1>2. CASE FetchManifest(w)
  BY <1>2, <1>a DEF FetchManifest, Pc, Moves, JobType
<1>3. CASE CheckSync(w)
  BY <1>3, <1>a DEF CheckSync, At, Pc, Moves, JobType, NoJob
<1>4. CASE Finish(w)
  BY <1>4, <1>a DEF Finish, At, Pc, Moves, JobType, NoJob
<1>5. CASE EndSync(w)
  BY <1>5, <1>a DEF EndSync, At, Pc, Moves, JobType, NoJob
<1>6. CASE \/ BeginUpdate(w) \/ CreateDownload(w) \/ Download(w)
           \/ Verify(w) \/ OpenInflate(w) \/ Inflate(w)
  BY <1>6, <1>a DEF BeginUpdate, CreateDownload, Download, Verify, OpenInflate,
                    Inflate, At, Pc, Moves, JobType
<1>7. CASE \/ BeginSync(w) \/ Rsync(w) \/ Reindex(w)
           \/ CheckOld(w) \/ CloseOld(w) \/ OpenNew(w) \/ Label(w)
  BY <1>7, <1>a DEF BeginSync, Rsync, Reindex, CheckOld, CloseOld, OpenNew, Label, At, Pc,
                    Moves, JobType
<1>8. QED BY <1>1, <1>2, <1>3, <1>4, <1>5, <1>6, <1>7 DEF Worker

\* Starting a thread takes a free slot and leaves the application alone.
LEMMA SpawnMoves ==
    ASSUME TypeInv, NEW w \in Workers, SpawnUpdate(w) \/ SpawnSync(w)
    PROVE  /\ \A u \in Workers \ {w} : job'[u] = job[u]
           /\ Pc(w) = "idle" /\ job'[w].pc = "start"
           /\ job'[w].file \in {None, Base}
BY DEF SpawnUpdate, SpawnSync, TypeInv, TypeOK

\* The rest of the actions do not touch a thread.
LEMMA HandlersKeepJobs ==
    ASSUME \/ Restart \/ Reload \/ \E p \in Path : Open(p)
           \/ OpenStream \/ EndStream \/ Shutdown \/ Quit
           \/ \E e \in Endpoints : WindowElapses(e)
    PROVE  UNCHANGED <<up, version, job, disk, gz, newest, verified>>
BY DEF Restart, Reload, Open, OpenFile, ReopenFile, OpenRaises, EndReload, OpenStream,
       EndStream, Shutdown, Quit, WindowElapses, fileVars, appVars, histVars

-----------------------------------------------------------------------------
(* UPDATING always has its thread.                                         *)

LEMMA UpdatingStep ==
    ASSUME TypeInv, UpdatingHasWorker, [Next]_vars
    PROVE  UpdatingHasWorker'
<1>1. CASE \E w \in Workers : Worker(w)
  <2> PICK w \in Workers : Worker(w)
    BY <1>1
  <2>1. CASE BeginUpdate(w) \/ BeginSync(w)
    <3>1. job'[w].pc \in {"manifest", "rsync"}
      BY <2>1 DEF BeginUpdate, BeginSync, At, TypeInv, TypeOK
    <3>2. QED BY <3>1 DEF UpdatingHasWorker, Busy, Pc
  <2>2. CASE ~(BeginUpdate(w) \/ BeginSync(w))
    <3>1. state' = "updating" => state = "updating" /\ ~Finish(w) /\ ~Fail(w)
      BY <2>2 DEF Worker, FetchManifest, CreateDownload, Download, Verify, OpenInflate,
           Inflate, CheckSync, Rsync, Reindex, CheckOld, CloseOld, OpenNew, Label, Finish,
           EndSync, Fail, StateAfterFailure, appVars
    <3> SUFFICES ASSUME state' = "updating" PROVE \E u \in Workers : Busy(u)'
      BY DEF UpdatingHasWorker
    <3>2. PICK u \in Workers : Busy(u)
      BY <3>1 DEF UpdatingHasWorker
    <3>3. CASE u # w
      BY <3>2, <3>3, WorkerMoves DEF Busy, Pc
    <3>4. CASE u = w
      <4>1. Pc(w) \notin {"idle", "start", "set", "stats", "run"}
        BY <3>1, <3>2, <3>4 DEF Busy, Worker, BeginUpdate, FetchManifest, CreateDownload,
             Download, Verify, OpenInflate, Inflate, CheckSync, BeginSync, Rsync,
             Reindex, CheckOld, CloseOld, OpenNew, Label, Finish, EndSync, Fail, At
      <4>2. <<Pc(w), job'[w].pc>> \in Moves
        BY <3>1, WorkerMoves
      <4>3. job'[w].pc \notin {"idle", "start", "set", "stats"}
        BY <4>1, <4>2 DEF Moves
      <4>4. QED BY <4>3 DEF Busy, Pc
    <3>5. QED BY <3>3, <3>4
  <2>3. QED BY <2>1, <2>2
<1>2. CASE AutoSync \/ \E w \in Threads : Spawn(w)
  <2>1. state' = state
    BY <1>2 DEF AutoSync, Spawn, TriggerUpdate, TriggerSync, PressUpdate, appVars
  <2>2. \/ job' = job
        \/ \E w \in Workers : SpawnUpdate(w) \/ SpawnSync(w)
    BY <1>2 DEF AutoSync, Spawn, TriggerUpdate, TriggerSync, PressUpdate, Workers
  <2>3. CASE job' = job
    BY <2>1, <2>3 DEF UpdatingHasWorker, Busy, Pc
  <2>4. CASE \E w \in Workers : SpawnUpdate(w) \/ SpawnSync(w)
    <3>1. PICK w \in Workers : SpawnUpdate(w) \/ SpawnSync(w)
      BY <2>4
    <3>2. \A u \in Workers : Busy(u) => u # w /\ job'[u] = job[u]
      BY <3>1, SpawnMoves DEF Busy
    <3>3. QED BY <2>1, <3>2 DEF UpdatingHasWorker, Busy, Pc
  <2>5. QED BY <2>2, <2>3, <2>4
<1>3. CASE \/ Restart \/ Reload \/ \E p \in Path : Open(p)
           \/ OpenStream \/ EndStream \/ Shutdown \/ Quit
           \/ \E e \in Endpoints : WindowElapses(e)
  <2>1. state' = "updating" => state = "updating"
    BY <1>3 DEF Restart, Reload, Open, OpenFile, ReopenFile, OpenRaises, EndReload,
         OpenStream, EndStream, Shutdown, Quit, WindowElapses, appVars
  <2>2. job' = job
    BY <1>3, HandlersKeepJobs
  <2>3. QED BY <2>1, <2>2 DEF UpdatingHasWorker, Busy, Pc
<1>4. CASE Launch \/ Main \/ Crash \/ Terminate \/ PollStopped
  <2>1. state' # "updating"
    BY <1>4 DEF Launch, Main, StartOn, Crash, Terminate, PollStopped, Exit, FreshMemory
  <2>2. QED BY <2>1 DEF UpdatingHasWorker
<1>5. CASE UNCHANGED vars
  BY <1>5 DEF vars, appVars, UpdatingHasWorker, Busy, Pc
<1>6. QED BY <1>1, <1>2, <1>3, <1>4, <1>5 DEF Next

\* The client shows UPDATING only while a thread is at work: /open, /restart,
\* failing threads and a sync that overlaps an update may overwrite the state,
\* but never leave it at UPDATING with nobody to take it away, so /update and
\* /sync are not refused for ever.
THEOREM UpdatingAlwaysHasWorker == Spec => []UpdatingHasWorker
<1>1. Init => UpdatingHasWorker
  BY DEF Init, UpdatingHasWorker
<1>2. TypeInv /\ UpdatingHasWorker /\ [Next]_vars => UpdatingHasWorker'
  BY UpdatingStep
<1>3. QED BY <1>1, <1>2, TypeInvariant, PTL DEF Spec

-----------------------------------------------------------------------------
(* The database object is open, or about to be replaced.                   *)

LEMMA ClosedStep ==
    ASSUME TypeInv, ClosedOnlyInTransit, [Next]_vars
    PROVE  ClosedOnlyInTransit'
<1>1. CASE \E w \in Workers : Worker(w)
  <2> PICK w \in Workers : Worker(w)
    BY <1>1
  <2>0. loop' = loop /\ \A u \in Workers \ {w} : job'[u] = job[u]
    BY WorkerMoves DEF ctlVars
  <2>1. CASE CloseOld(w)
    <3>1. job'[w].pc = "open"
      BY <2>1 DEF CloseOld, At, TypeInv, TypeOK
    <3>2. QED BY <3>1 DEF ClosedOnlyInTransit, Pc
  <2>2. CASE OpenNew(w)
    BY <2>2 DEF OpenNew, Handle, ClosedOnlyInTransit
  <2>3. CASE Fail(w)
    <3>1. openFailed' = (openFailed \/ Pc(w) = "open") /\ db' = db
      BY <2>3 DEF Fail
    <3>2. QED BY <2>0, <3>1 DEF ClosedOnlyInTransit, Pc
  <2>4. CASE ~(CloseOld(w) \/ OpenNew(w) \/ Fail(w))
    <3>1. db' = db /\ openFailed' = openFailed /\ Pc(w) # "open"
      BY <2>4 DEF Worker, BeginUpdate, FetchManifest, CreateDownload, Download, Verify,
           OpenInflate, Inflate, CheckSync, BeginSync, Rsync, Reindex, CheckOld, Label,
           Finish, EndSync, At, appVars, histVars
    <3>2. QED BY <2>0, <3>1 DEF ClosedOnlyInTransit, Pc
  <2>5. QED BY <2>1, <2>2, <2>3, <2>4
<1>2. CASE AutoSync \/ \E w \in Threads : Spawn(w)
  <2>1. UNCHANGED <<db, openFailed, loop>>
    BY <1>2 DEF AutoSync, Spawn, TriggerUpdate, TriggerSync, PressUpdate, appVars,
         histVars, ctlVars
  <2>2. \/ job' = job
        \/ \E w \in Workers : SpawnUpdate(w) \/ SpawnSync(w)
    BY <1>2 DEF AutoSync, Spawn, TriggerUpdate, TriggerSync, PressUpdate, Workers
  <2>3. \A u \in Workers : Pc(u) = "open" => job'[u] = job[u]
    BY <2>2, SpawnMoves
  <2>4. QED BY <2>1, <2>3 DEF ClosedOnlyInTransit, Pc
<1>3. CASE Restart \/ Reload \/ \E p \in Path : Open(p)
  <2>1. job' = job
    BY <1>3, HandlersKeepJobs
  <2>2. db' # None /\ ~db'.open /\ db' = db => loop.op # "open" \/ openFailed'
    BY <1>3 DEF Restart, Reload, Open, OpenFile, ReopenFile, OpenRaises, EndReload,
         InHandler, Handle
  <2>3. db' # db => db' = None \/ db'.open = TRUE \/ loop'.op = "open"
    BY <1>3 DEF Restart, Reload, Open, OpenFile, ReopenFile, OpenRaises, EndReload,
         LoopTo, Handle, appVars
  <2>4. openFailed' = openFailed \/ openFailed' = TRUE \/ db'.open = TRUE
    BY <1>3 DEF Restart, Reload, Open, OpenFile, ReopenFile, OpenRaises, EndReload,
         Handle, histVars
  <2>5. QED BY <2>1, <2>2, <2>3, <2>4 DEF ClosedOnlyInTransit, Pc
<1>4. CASE \/ OpenStream \/ EndStream \/ Shutdown \/ Quit
           \/ \E e \in Endpoints : WindowElapses(e)
  BY <1>4 DEF OpenStream, EndStream, Shutdown, Quit, WindowElapses, appVars, histVars,
       ClosedOnlyInTransit, Pc
<1>5. CASE Launch \/ Main \/ Crash \/ Terminate \/ PollStopped
  <2>1. CASE Launch \/ Main
    <3>1. PICK p : StartOn(p)
      BY <2>1 DEF Launch, Main
    <3>2. db' = None \/ db' = Handle(p)
      BY <3>1 DEF StartOn
    <3>3. Handle(p).open = TRUE
      BY DEF Handle
    <3>4. QED BY <3>2, <3>3 DEF ClosedOnlyInTransit
  <2>2. CASE Crash \/ Terminate \/ PollStopped
    BY <2>2 DEF Crash, Terminate, PollStopped, Exit, FreshMemory, ClosedOnlyInTransit
  <2>3. QED BY <1>5, <2>1, <2>2
<1>6. CASE UNCHANGED vars
  BY <1>6 DEF vars, appVars, histVars, ctlVars, ClosedOnlyInTransit, Pc
<1>7. QED BY <1>1, <1>2, <1>3, <1>4, <1>5, <1>6 DEF Next

\* Requests meet a closed connection only while a swap is under way or after
\* opening the new database raised: swaps of an update, a sync and /open that
\* overlap never end on a connection one of them closed.
THEOREM ClosedAlwaysInTransit == Spec => []ClosedOnlyInTransit
<1>1. Init => ClosedOnlyInTransit
  BY DEF Init, ClosedOnlyInTransit
<1>2. TypeInv /\ ClosedOnlyInTransit /\ [Next]_vars => ClosedOnlyInTransit'
  BY ClosedStep
<1>3. QED BY <1>1, <1>2, TypeInvariant, PTL DEF Spec

-----------------------------------------------------------------------------
(* Only verified archives reach the disk.                                  *)

\* A thread past the checksum works on a version that passed it.
PastVerify ==
    \A w \in Workers :
        Pc(w) \in {"inflate", "inflating"} \cup SwapPcs /\ ~IsSync(w) =>
            job[w].file \in verified

VerifiedInv == VerifiedOnly /\ PastVerify

LEMMA InitVerified == Init => VerifiedInv
<1> SUFFICES ASSUME Init PROVE VerifiedInv
  OBVIOUS
<1>1. PICK S \in Preinstalled :
        /\ disk = [p \in Path |-> IF p[1] = Data /\ p[2] \in S
                                  THEN "complete" ELSE "absent"]
        /\ verified = S \cap Versions
  BY DEF Init
<1>2. \A w \in Workers : Pc(w) = "idle"
  BY DEF Init, Pc, NoJob
<1>3. PastVerify
  BY <1>2 DEF PastVerify, SwapPcs
<1>4. \A p \in Path : p[2] \in Versions /\ disk[p] # "absent" => p[2] \in verified
  BY <1>1
<1>5. QED BY <1>3, <1>4 DEF Init, VerifiedInv, VerifiedOnly

\* A worker writes a version's file only past the checksum.
LEMMA WorkerVerified ==
    ASSUME TypeInv, VerifiedInv, NEW w \in Workers, Worker(w)
    PROVE  VerifiedInv'
<1> USE DEF appVars, fileVars, histVars
<1>a. TypeOK /\ VerifiedOnly /\ PastVerify /\ Agrees(Pc(w), job[w].file)
  BY DEF TypeInv, VerifiedInv, JobOK
<1>1. verified \subseteq verified'
  BY DEF Worker, BeginUpdate, FetchManifest, CreateDownload, Download, Verify,
     OpenInflate, Inflate, CheckSync, BeginSync, Rsync, Reindex, CheckOld, CloseOld, OpenNew,
     Label, Finish, EndSync, Fail
<1>2. \A p \in Path : disk'[p] = disk[p] \/ disk'[p] = "absent" \/ p = Target(w)
  BY <1>a DEF Worker, BeginUpdate, FetchManifest, CreateDownload, Download, Verify,
     OpenInflate, Inflate, CheckSync, BeginSync, Rsync, Reindex, CheckOld, CloseOld, OpenNew,
     Label, Finish, EndSync, Fail, Leftovers, TypeOK
<1>3. disk' # disk => \/ IsSync(w)
                      \/ Pc(w) \in {"inflate", "inflating"}
  BY <1>a DEF Worker, BeginUpdate, FetchManifest, CreateDownload, Download, Verify,
     OpenInflate, Inflate, CheckSync, BeginSync, Rsync, Reindex, CheckOld, CloseOld, OpenNew,
     Label, Finish, EndSync, Fail, Leftovers, At, Agrees, IsSync
<1>4. Target(w)[2] = job[w].file /\ Base \notin Versions
  BY ClientAssumption DEF Target
<1>5. \A p \in Path : p[2] \in Versions /\ disk'[p] # "absent" => p[2] \in verified'
  BY <1>a, <1>1, <1>2, <1>3, <1>4 DEF VerifiedOnly, PastVerify, IsSync
<1>6. version' # version => version' \in verified
  <2>1. version' # version => Label(w)
    BY DEF Worker, BeginUpdate, FetchManifest, CreateDownload, Download, Verify,
       OpenInflate, Inflate, CheckSync, BeginSync, Rsync, Reindex, CheckOld, CloseOld, OpenNew,
       Finish, EndSync, Fail
  <2>2. QED BY <2>1, <1>a DEF Label, At, PastVerify, SwapPcs
<1>7. VerifiedOnly'
  BY <1>a, <1>1, <1>5, <1>6 DEF VerifiedOnly
<1>8. ASSUME job'[w].pc \in {"inflate", "inflating"} \cup SwapPcs, job'[w].file # Base
      PROVE  job'[w].file \in verified'
  <2>1. job'[w] # NoJob /\ <<Pc(w), job'[w].pc>> \in Moves
    BY <1>8, WorkerMoves, NoJobFacts
  <2>2. Pc(w) # "manifest" /\ job'[w].file = job[w].file
    BY <1>8, <2>1, WorkerMoves DEF Moves, SwapPcs
  <2>3. CASE Verify(w)
    BY <2>2, <2>3 DEF Verify
  <2>4. CASE ~Verify(w)
    <3>1. ~IsSync(w)
      BY <1>8, <2>2 DEF IsSync
    <3>2. Pc(w) # "verify"
      <4>1. ~Fail(w) \/ job'[w] = NoJob
        BY WorkerMoves, <1>a DEF Fail, TypeOK
      <4>2. QED BY <4>1, <2>1, <2>4 DEF Worker, BeginUpdate, FetchManifest,
              CreateDownload, Download, OpenInflate, Inflate, CheckSync, BeginSync,
              Rsync, Reindex, CheckOld, CloseOld, OpenNew, Label, Finish, EndSync, At
    <3>3. Pc(w) # "index"
      BY <1>a, <3>1 DEF Agrees, IsSync
    <3>4. Pc(w) \in {"inflate", "inflating"} \cup SwapPcs
      BY <1>8, <2>1, <3>2, <3>3 DEF Moves, SwapPcs
    <3>5. QED BY <3>1, <3>4, <2>2, <1>a, <1>1 DEF PastVerify
  <2>5. QED BY <2>3, <2>4
<1>9. PastVerify'
  BY <1>a, <1>1, <1>8, WorkerMoves DEF PastVerify, Pc, IsSync
<1>10. QED BY <1>7, <1>9 DEF VerifiedInv

LEMMA SpawnVerified ==
    ASSUME TypeInv, VerifiedInv, AutoSync \/ \E w \in Threads : Spawn(w)
    PROVE  VerifiedInv'
<1> USE DEF appVars, fileVars, histVars
<1>1. UNCHANGED <<version, verified>>
  BY DEF AutoSync, Spawn, TriggerUpdate, TriggerSync, PressUpdate
<1>2. \/ UNCHANGED <<job, disk>>
      \/ \E w \in Workers : SpawnUpdate(w) \/ SpawnSync(w)
  BY DEF AutoSync, Spawn, TriggerUpdate, TriggerSync, PressUpdate, Workers
<1>3. CASE UNCHANGED <<job, disk>>
  BY <1>1, <1>3 DEF VerifiedInv, VerifiedOnly, PastVerify, Pc, IsSync
<1>4. CASE \E w \in Workers : SpawnUpdate(w) \/ SpawnSync(w)
  <2>1. PICK w \in Workers : SpawnUpdate(w) \/ SpawnSync(w)
    BY <1>4
  <2>2. \A p \in Path : disk'[p] = disk[p] \/ disk'[p] = "absent"
    BY <2>1 DEF SpawnUpdate, SpawnSync, TypeInv, TypeOK
  <2>3. VerifiedOnly'
    BY <1>1, <2>2 DEF VerifiedInv, VerifiedOnly
  <2>4. job'[w].pc = "start" /\ \A u \in Workers \ {w} : job'[u] = job[u]
    BY <2>1, SpawnMoves
  <2>5. PastVerify'
    BY <1>1, <2>4 DEF VerifiedInv, PastVerify, Pc, IsSync, SwapPcs
  <2>6. QED BY <2>3, <2>5 DEF VerifiedInv
<1>5. QED BY <1>2, <1>3, <1>4

\* What the process's end and start leave of the files and threads.
LEMMA ProcessVerified ==
    ASSUME TypeInv, VerifiedInv, Launch \/ Main \/ Crash \/ Terminate \/ PollStopped
    PROVE  VerifiedInv'
<1>1. CASE Launch \/ Main
  <2>1. UNCHANGED <<version, disk, job, verified>>
    BY <1>1 DEF Launch, Main, StartOn, fileVars, histVars
  <2>2. QED BY <2>1 DEF VerifiedInv, VerifiedOnly, PastVerify, Pc, IsSync
<1>2. CASE Crash \/ Terminate \/ PollStopped
  <2>1. Exit
    BY <1>2 DEF Crash, Terminate, PollStopped
  <2>2. \A p \in Path : disk'[p] = disk[p] \/ disk'[p] = "absent"
    BY <2>1 DEF Exit, TypeInv, TypeOK
  <2>3. verified' = verified /\ version' = None
    BY <2>1 DEF Exit, FreshMemory
  <2>4. \A w \in Workers : job'[w] = NoJob
    BY <2>1 DEF Exit, FreshMemory
  <2>5. VerifiedOnly'
    BY <2>2, <2>3 DEF VerifiedInv, VerifiedOnly
  <2>6. PastVerify'
    BY <2>4, NoJobFacts DEF PastVerify, Pc
  <2>7. QED BY <2>5, <2>6 DEF VerifiedInv
<1>3. QED BY <1>1, <1>2

LEMMA VerifiedStep == TypeInv /\ VerifiedInv /\ [Next]_vars => VerifiedInv'
<1> SUFFICES ASSUME TypeInv, VerifiedInv, [Next]_vars PROVE VerifiedInv'
  OBVIOUS
<1>1. CASE \E w \in Workers : Worker(w)
  BY <1>1, WorkerVerified
<1>2. CASE AutoSync \/ \E w \in Threads : Spawn(w)
  BY <1>2, SpawnVerified
<1>3. CASE \/ Restart \/ Reload \/ \E p \in Path : Open(p)
           \/ OpenStream \/ EndStream \/ Shutdown \/ Quit
           \/ \E e \in Endpoints : WindowElapses(e)
  BY <1>3, HandlersKeepJobs DEF VerifiedInv, VerifiedOnly, PastVerify, Pc, IsSync
<1>4. CASE Launch \/ Main \/ Crash \/ Terminate \/ PollStopped
  BY <1>4, ProcessVerified
<1>5. CASE UNCHANGED vars
  BY <1>5 DEF vars, appVars, fileVars, histVars, VerifiedInv, VerifiedOnly, PastVerify,
     Pc, IsSync
<1>6. QED BY <1>1, <1>2, <1>3, <1>4, <1>5 DEF Next

\* updater.run_update inflates, opens and reports only what passed
\* verify_sha256, whatever runs beside it and wherever a crash cuts it off.
THEOREM OnlyVerifiedInstalled == Spec => []VerifiedOnly
<1>1. VerifiedInv => VerifiedOnly
  BY DEF VerifiedInv
<1>2. QED BY <1>1, InitVerified, VerifiedStep, TypeInvariant, PTL DEF Spec

-----------------------------------------------------------------------------
(* A client whose updates come from POST /update alone.                    *)

ByEndpointOnly == Ops \subseteq {"update", "stream", "crash", "main"}

\* One thread at most, and it is there because of a recent /update or shows.
Alone ==
    /\ loop.op = "idle" /\ stopping = "no"
    /\ \A w \in Workers : ~IsSync(w)
    /\ \A u, w \in Workers : Pc(u) # "idle" /\ Pc(w) # "idle" => u = w
    /\ \A w \in Workers : Pc(w) = "start" => "update" \in recent
    /\ \A w \in Workers : Busy(w) => state = "updating"
    /\ ~up => \A w \in Workers : Pc(w) = "idle"

\* What the thread found out about its files is still so.
FilesHeld ==
    \A w \in Workers :
        /\ Pc(w) \in {"inflate", "inflating"} => gz[Target(w)] = "complete"
        /\ Pc(w) = "inflating" => disk[Target(w)] = "empty"
        /\ Pc(w) \in SwapPcs => disk[Target(w)] = "complete"

AloneInv == Alone /\ FilesHeld

LEMMA InitAlone == Init => AloneInv
<1> SUFFICES ASSUME Init PROVE AloneInv
  OBVIOUS
<1>1. \A w \in Workers : Pc(w) = "idle" /\ ~IsSync(w)
  BY ClientAssumption DEF Init, Pc, NoJob, IsSync
<1>2. QED BY <1>1 DEF Init, AloneInv, Alone, FilesHeld, Busy, SwapPcs

\* Nothing is at work on a sync.
LEMMA NoSyncSteps ==
    ASSUME TypeInv, Alone, NEW w \in Workers, Worker(w)
    PROVE  \/ BeginUpdate(w) \/ FetchManifest(w) \/ CreateDownload(w)
           \/ Download(w) \/ Verify(w) \/ OpenInflate(w) \/ Inflate(w)
           \/ CheckOld(w) \/ CloseOld(w) \/ OpenNew(w) \/ Label(w) \/ Finish(w) \/ Fail(w)
<1>1. Agrees(Pc(w), job[w].file) /\ ~IsSync(w)
  BY DEF TypeInv, JobOK, Alone
<1>2. Pc(w) \notin {"set", "rsync", "index", "stats"}
  BY <1>1 DEF Agrees, IsSync
<1>3. QED BY <1>1, <1>2 DEF Worker, CheckSync, BeginSync, Rsync, Reindex, EndSync, At

LEMMA WorkerAlone ==
    ASSUME TypeInv, Alone, NEW w \in Workers, Worker(w)
    PROVE  Alone'
<1> USE DEF appVars, ctlVars
<1>0. /\ \A u \in Workers \ {w} : job'[u] = job[u]
      /\ UNCHANGED <<loop, stopping, recent>>
  BY WorkerMoves
<1>1. Pc(w) # "idle"
  BY NoSyncSteps DEF BeginUpdate, FetchManifest, CreateDownload, Download, Verify,
     OpenInflate, Inflate, CheckOld, CloseOld, OpenNew, Label, Finish, Fail, At, Fallible
<1>2. \A u \in Workers \ {w} : Pc(u) = "idle" /\ Pc(u)' = "idle"
  BY <1>0, <1>1 DEF Alone, Pc
<1>3. ~IsSync(w)'
  <2>1. NoJob.file # Base /\ Base \notin Versions
    BY ClientAssumption DEF NoJob
  <2>2. job[w].file # Base
    BY DEF Alone, IsSync
  <2>3. QED BY <2>1, <2>2, WorkerMoves DEF IsSync
<1>4. job'[w].pc # "start" /\ (Busy(w)' => state' = "updating")
  <2>1. CASE BeginUpdate(w)
    BY <2>1 DEF BeginUpdate, At, TypeInv, TypeOK
  <2>2. CASE Finish(w) \/ Fail(w)
    <3>1. job'[w].pc = "idle"
      BY <2>2, NoJobFacts DEF Finish, Fail, At, Alone, TypeInv, TypeOK
    <3>2. QED BY <3>1 DEF Busy, Pc
  <2>3. CASE \/ FetchManifest(w) \/ CreateDownload(w)
             \/ Download(w) \/ Verify(w) \/ OpenInflate(w) \/ Inflate(w)
             \/ CheckOld(w) \/ CloseOld(w) \/ OpenNew(w) \/ Label(w)
    <3>1. state' = state /\ Pc(w) \notin {"idle", "start", "set", "stats"}
      BY <2>3 DEF FetchManifest, CreateDownload, Download, Verify, OpenInflate,
         Inflate, CheckOld, CloseOld, OpenNew, Label, At
    <3>2. job'[w].pc # "start"
      BY <2>3 DEF FetchManifest, CreateDownload, Download, Verify, OpenInflate,
         Inflate, CheckOld, CloseOld, OpenNew, Label, At, TypeInv, TypeOK
    <3>3. QED BY <3>1, <3>2 DEF Alone, Busy
  <2>4. QED BY <2>1, <2>2, <2>3, NoSyncSteps
<1>5. \A u \in Workers \ {w} : ~IsSync(u)' /\ ~Busy(u)'
  BY <1>0, <1>2 DEF Alone, IsSync, Busy
<1>6. up'
  BY WorkerMoves, <1>1 DEF Alone
<1>7. QED BY <1>0, <1>2, <1>3, <1>4, <1>5, <1>6 DEF Alone, Pc

LEMMA WorkerFiles ==
    ASSUME TypeInv, Alone, FilesHeld, NEW w \in Workers, Worker(w)
    PROVE  FilesHeld'
<1> USE DEF fileVars
<1>a. TypeOK
  BY DEF TypeInv
<1>1. \A u \in Workers \ {w} : Pc(u)' = "idle"
  <2>1. Pc(w) # "idle"
    BY NoSyncSteps DEF BeginUpdate, FetchManifest, CreateDownload, Download, Verify,
       OpenInflate, Inflate, CheckOld, CloseOld, OpenNew, Label, Finish, Fail, At, Fallible
  <2>2. QED BY <2>1, WorkerMoves DEF Alone, Pc
<1> DEFINE Held == /\ Pc(w)' \in {"inflate", "inflating"} => gz'[Target(w)'] = "complete"
                   /\ Pc(w)' = "inflating" => disk'[Target(w)'] = "empty"
                   /\ Pc(w)' \in SwapPcs => disk'[Target(w)'] = "complete"
<1>2. SUFFICES Held
  BY <1>1 DEF FilesHeld, SwapPcs
<1>3. Pc(w)' = "idle" => Held
  BY DEF SwapPcs
<1>b. Agrees(Pc(w), job[w].file)
  BY DEF TypeInv, JobOK
<1>4. ASSUME Pc(w)' # "idle" PROVE Held
  <2>0. job'[w] # NoJob
    BY <1>4, NoJobFacts DEF Pc
  <2>1. Pc(w) # "manifest" => Target(w)' = Target(w)
    BY <2>0, WorkerMoves DEF Target
  <2>2. CASE BeginUpdate(w) \/ FetchManifest(w) \/ CreateDownload(w) \/ Download(w)
    BY <2>2, <1>a DEF BeginUpdate, FetchManifest, CreateDownload, Download, At, Pc,
       TypeOK, SwapPcs
  <2>3. CASE Verify(w)
    <3>1. Pc(w) = "verify" /\ Pc(w)' = "inflate" /\ gz' = gz
      BY <2>3, <1>a DEF Verify, At, Pc, TypeOK
    <3>2. QED BY <2>1, <2>3, <3>1 DEF Verify, ChecksumMatches, SwapPcs
  <2>4. CASE OpenInflate(w)
    <3>1. Pc(w) = "inflate" /\ Pc(w)' = "inflating" /\ gz' = gz
      BY <2>4, <1>a DEF OpenInflate, At, Pc, TypeOK
    <3>2. Target(w) \in Path
      BY <1>b, <3>1, PathType DEF Agrees, Names
    <3>3. disk'[Target(w)] = "empty"
      BY <2>4, <1>a, <3>2 DEF OpenInflate, TypeOK
    <3>4. QED BY <2>1, <3>1, <3>3 DEF FilesHeld, SwapPcs
  <2>5. CASE Inflate(w)
    <3>1. Pc(w) = "inflating" /\ Pc(w)' = "close"
      BY <2>5, <1>a DEF Inflate, At, Pc, TypeOK
    <3>2. Target(w) \in Path
      BY <1>b, <3>1, PathType DEF Agrees, Names
    <3>3. Inflated(w) = {"complete"}
      <4>1. gz[Target(w)] = "complete" /\ disk[Target(w)] = "empty"
        BY <3>1 DEF FilesHeld
      <4>2. \A u \in Workers \ {w} : Pc(u) # "inflating"
        BY <3>1 DEF Alone
      <4>3. QED BY <4>1, <4>2 DEF Inflated
    <3>4. disk'[Target(w)] = "complete"
      BY <2>5, <1>a, <3>2, <3>3 DEF Inflate, TypeOK
    <3>5. QED BY <2>1, <3>1, <3>4 DEF SwapPcs
  <2>6. CASE CheckOld(w) \/ CloseOld(w) \/ OpenNew(w) \/ Label(w) \/ Finish(w)
    <3>1. Pc(w) \in SwapPcs /\ disk' = disk
      BY <2>6 DEF CheckOld, CloseOld, OpenNew, Label, Finish, At, SwapPcs
    <3>2. Pc(w)' \in SwapPcs \cup {"stats", "idle"}
      BY <2>6, <1>a, NoJobFacts DEF CheckOld, CloseOld, OpenNew, Label, Finish, At, SwapPcs,
         TypeOK, Pc
    <3>3. Pc(w)' \notin {"inflate", "inflating"}
      BY <3>2 DEF SwapPcs
    <3>4. Pc(w) # "manifest"
      BY <3>1 DEF SwapPcs
    <3>5. QED BY <2>1, <3>1, <3>3, <3>4 DEF FilesHeld
  <2>7. CASE Fail(w)
    BY <2>0, <2>7, <1>a DEF Fail, TypeOK
  <2>8. QED BY <2>2, <2>3, <2>4, <2>5, <2>6, <2>7, NoSyncSteps
<1>5. QED BY <1>3, <1>4

\* A request for an update finds no thread, or is refused.
LEMMA SpawnAlone ==
    ASSUME TypeInv, Alone, FilesHeld, ByEndpointOnly, NEW w \in Threads, Spawn(w)
    PROVE  AloneInv'
<1>1. TriggerUpdate(w)
  BY DEF ByEndpointOnly, Spawn, TriggerSync, PressUpdate, InHandler
<1>2. UNCHANGED <<up, state, loop, stopping>> /\ up /\ w \in Workers
  BY <1>1 DEF TriggerUpdate, InHandler, appVars, Workers
<1>3. recent' = recent \cup {"update"} /\ "update" \notin recent
  BY <1>1 DEF TriggerUpdate, Admit
<1>4. CASE UNCHANGED <<job, fileVars>>
  BY <1>2, <1>3, <1>4 DEF AloneInv, Alone, FilesHeld, fileVars, Pc, IsSync, Busy, Target
<1>5. CASE NotUpdating /\ SpawnUpdate(w)
  <2>1. \A u \in Workers : Pc(u) = "idle"
    <3>1. \A u \in Workers : ~Busy(u) /\ Pc(u) # "start"
      BY <1>3, <1>5 DEF Alone, NotUpdating
    <3>2. \A u \in Workers : Pc(u) \notin {"set", "stats"}
      BY DEF TypeInv, JobOK, Agrees, Alone, IsSync
    <3>3. QED BY <3>1, <3>2 DEF Busy
  <2>2. /\ \A u \in Workers \ {w} : job'[u] = job[u]
        /\ job'[w].pc = "start" /\ job'[w].file = None
    BY <1>2, <1>5 DEF SpawnUpdate, TypeInv, TypeOK
  <2>3. \A u \in Workers : Pc(u)' \in {"idle", "start"} /\ (Pc(u)' # "idle" => u = w)
    BY <2>1, <2>2 DEF Pc
  <2>4. \A u \in Workers : ~IsSync(u)'
    BY <2>2, ClientAssumption DEF Alone, IsSync
  <2>5. Alone'
    BY <1>2, <1>3, <2>3, <2>4 DEF Alone, Busy
  <2>6. FilesHeld'
    BY <2>3 DEF FilesHeld, SwapPcs
  <2>7. QED BY <2>5, <2>6 DEF AloneInv
<1>6. QED BY <1>1, <1>4, <1>5 DEF TriggerUpdate

LEMMA AloneStep ==
    ASSUME TypeInv, AloneInv, ByEndpointOnly, [Next]_vars
    PROVE  AloneInv'
<1>a. Alone /\ FilesHeld
  BY DEF AloneInv
<1>1. CASE \E w \in Workers : Worker(w)
  BY <1>1, <1>a, WorkerAlone, WorkerFiles DEF AloneInv
<1>2. CASE \E w \in Threads : Spawn(w)
  BY <1>2, <1>a, SpawnAlone
<1>3. CASE Launch \/ Main
  <2>1. UNCHANGED <<disk, gz, job, loop, recent, stopping>> /\ ~up
    BY <1>3 DEF Launch, Main, StartOn, fileVars, ctlVars
  <2>2. \A w \in Workers : ~Busy(w)
    BY <1>a, <2>1 DEF Alone, Busy
  <2>3. QED BY <1>a, <2>1, <2>2 DEF AloneInv, Alone, FilesHeld, Pc, IsSync, Busy, Target
<1>4. CASE Crash \/ Terminate \/ PollStopped
  <2>1. Exit
    BY <1>4 DEF Crash, Terminate, PollStopped
  <2>2. \A w \in Workers : Pc(w)' = "idle" /\ ~IsSync(w)'
    BY <2>1, ClientAssumption DEF Exit, FreshMemory, Pc, IsSync, NoJob
  <2>3. loop'.op = "idle" /\ stopping' = "no"
    BY <2>1 DEF Exit, FreshMemory
  <2>4. QED BY <2>2, <2>3 DEF AloneInv, Alone, FilesHeld, Busy, SwapPcs
<1>5. CASE OpenStream \/ EndStream
  BY <1>5, <1>a DEF OpenStream, EndStream, appVars, fileVars, AloneInv, Alone, FilesHeld,
     Pc, IsSync, Busy, Target
<1>6. CASE \E e \in Endpoints : WindowElapses(e)
  BY <1>6, <1>a DEF WindowElapses, appVars, fileVars, AloneInv, Alone, FilesHeld,
     Pc, IsSync, Busy, Target
<1>7. CASE AutoSync \/ Restart \/ Reload \/ Shutdown \/ Quit \/ \E p \in Path : Open(p)
  BY <1>7, <1>a DEF AutoSync, Restart, Reload, Open, OpenFile, ReopenFile, OpenRaises,
     EndReload, Shutdown, Quit, InHandler, ByEndpointOnly, Alone
<1>8. CASE UNCHANGED vars
  BY <1>8, <1>a DEF vars, appVars, fileVars, ctlVars, AloneInv, Alone, FilesHeld,
     Pc, IsSync, Busy, Target
<1>9. QED BY <1>1, <1>2, <1>3, <1>4, <1>5, <1>6, <1>7, <1>8 DEF Next

LEMMA AloneAlways ==
    ASSUME ByEndpointOnly
    PROVE  Spec => [](TypeInv /\ AloneInv)
<1>1. Init => TypeInv /\ AloneInv
  BY InitTypeInv, InitAlone
<1>2. TypeInv /\ AloneInv /\ [Next]_vars => (TypeInv /\ AloneInv)'
  BY NextTypeInv, AloneStep
<1>3. QED BY <1>1, <1>2, PTL DEF Spec

\* Where only POST /update starts threads, its check of the state and its rate
\* limit keep a second thread out, across failures and crashes, although the
\* state is set by the thread and not by the handler.
THEOREM OneJobByEndpoint ==
    ASSUME ByEndpointOnly
    PROVE  Spec => []OneJob
<1>1. TypeInv /\ AloneInv => OneJob
  BY DEF AloneInv, Alone, OneJob, Busy
<1>2. QED BY <1>1, AloneAlways, PTL

\* Then what run_update opens is the archive it verified, whole: nothing
\* truncates, replaces or unlinks the file under it.
THEOREM InstallsCompleteByEndpoint ==
    ASSUME ByEndpointOnly
    PROVE  Spec => []InstallsComplete
<1>1. TypeInv /\ AloneInv => InstallsComplete
  BY DEF AloneInv, FilesHeld, InstallsComplete, Installing
<1>2. QED BY <1>1, AloneAlways, PTL

\* And then the progress stream ends only when the update has completed or
\* failed.
THEOREM StreamByEndpoint ==
    ASSUME ByEndpointOnly
    PROVE  Spec => StreamOutlivesJob
<1>1. TypeInv /\ AloneInv /\ [Next]_vars =>
        [stream /\ ~stream' /\ up' => \A w \in Workers : ~Busy(w)]_vars
  <2> SUFFICES ASSUME TypeInv, AloneInv, [Next]_vars, stream, ~stream', up',
                      NEW w \in Workers, Busy(w)
               PROVE  FALSE
    OBVIOUS
  <2>1. state = "updating" /\ up
    BY DEF AloneInv, Alone, Busy
  <2>2. EndStream
    <3>1. ~(Launch \/ Main)
      BY <2>1 DEF Launch, Main, StartOn
    <3>2. ~(Crash \/ Terminate \/ PollStopped)
      BY DEF Crash, Terminate, PollStopped, Exit
    <3>3. ~\E u \in Workers : Worker(u)
      BY WorkerMoves DEF ctlVars, TypeInv, TypeOK
    <3>4. ~((\E u \in Threads : Spawn(u)) \/ AutoSync)
      BY DEF Spawn, TriggerUpdate, TriggerSync, PressUpdate, AutoSync, ctlVars
    <3>5. ~(Restart \/ Reload \/ \E p \in Path : Open(p))
      BY DEF Restart, Reload, Open, OpenFile, ReopenFile, OpenRaises, EndReload
    <3>6. ~(OpenStream \/ Shutdown \/ Quit \/ \E e \in Endpoints : WindowElapses(e))
      BY DEF OpenStream, Shutdown, Quit, WindowElapses
    <3>7. ~UNCHANGED vars
      BY DEF vars, ctlVars
    <3>8. QED BY <3>1, <3>2, <3>3, <3>4, <3>5, <3>6, <3>7 DEF Next
  <2>3. QED BY <2>1, <2>2 DEF EndStream
<1>2. QED BY <1>1, AloneAlways, PTL DEF Spec, StreamOutlivesJob

-----------------------------------------------------------------------------
(* A client that is started with a database.                               *)

\* The launcher finds a database, and None is not mistaken for a path or a
\* handle.
AlwaysInstalled ==
    /\ {} \notin Preinstalled /\ "main" \notin Ops
    /\ None \notin Path \cup [path : Path, open : BOOLEAN]

LEMMA HandlesThere ==
    ASSUME AlwaysInstalled
    PROVE  /\ \A p \in Path : Handle(p) # None
           /\ \A h \in [path : Path, open : BOOLEAN] : Closed(h) # None
<1>1. \A p \in Path : Handle(p) \in [path : Path, open : BOOLEAN]
  BY DEF Handle
<1>2. ASSUME NEW h \in [path : Path, open : BOOLEAN]
      PROVE  Closed(h) # None
  <2>1. h # None
    BY DEF AlwaysInstalled
  <2>2. Closed(h) = [h EXCEPT !.open = FALSE]
    BY <2>1 DEF Closed
  <2>3. [h EXCEPT !.open = FALSE] \in [path : Path, open : BOOLEAN]
    OBVIOUS
  <2>4. QED BY <2>2, <2>3 DEF AlwaysInstalled
<1>3. QED BY <1>1, <1>2 DEF AlwaysInstalled

Present(p) == p \in Path /\ p[1] = Data /\ disk[p] # "absent"

\* Files are only in the data directory, db_path names one, and so does the
\* launcher; what a thread is about to open is there.
Installed ==
    /\ \A p \in Path : p[1] # Data => disk[p] = "absent"
    /\ up => Present(db_path)
    /\ Present(<<Data, newest>>)
    /\ \A w \in Workers : Pc(w) # "idle" => job[w].dest = Data
    /\ \A w \in Workers : Pc(w) \in SwapPcs => Present(Target(w))
    /\ loop.op = "open_run" => Present(loop.path)
    /\ loop.op = "open" => Present(loop.path)

\* No database object only where a reload or a failed one explains it; a dead
\* client shows nothing.
HasDb == db # None \/ loop.op = "reopen" \/ openFailed

StartedInv ==
    /\ Installed
    /\ up => HasDb
    /\ ~up => state = "no_data"

LEMMA InitStarted ==
    ASSUME AlwaysInstalled, Init
    PROVE  StartedInv
<1>1. PICK S \in Preinstalled :
         /\ disk = [p \in Path |-> IF p[1] = Data /\ p[2] \in S
                                   THEN "complete" ELSE "absent"]
         /\ newest \in IF S = {} THEN {None} ELSE S
  BY DEF Init
<1>2. S # {} /\ S \subseteq Names /\ newest \in S
  BY <1>1, ClientAssumption DEF AlwaysInstalled, Names
<1>3. Present(<<Data, newest>>)
  BY <1>1, <1>2 DEF Present, Path, Dirs
<1>4. QED BY <1>1, <1>3 DEF Init, StartedInv, Installed, HasDb, Pc, NoJob, SwapPcs

\* A thread writes its own archive, and the last one written is the newest.
LEMMA WorkerWrites ==
    ASSUME TypeInv, NEW w \in Workers, Worker(w)
    PROVE  \/ UNCHANGED <<disk, newest>>
           \/ /\ Pc(w) \in {"inflate", "inflating", "index"} /\ Target(w) \in Path
              /\ \E c : c # "absent" /\ disk' = [disk EXCEPT ![Target(w)] = c]
              /\ Touched(w)
<1>1. Pc(w) \in {"inflate", "inflating", "index"} => Target(w) \in Path
  BY PathType DEF TypeInv, JobOK, Agrees, Names
<1>2. CASE OpenInflate(w) \/ Reindex(w)
  BY <1>1, <1>2 DEF OpenInflate, Reindex, At
<1>3. CASE Inflate(w)
  <2>1. \A c \in Inflated(w) : c # "absent"
    BY DEF Inflated
  <2>2. QED BY <1>1, <1>3, <2>1 DEF Inflate, At
<1>4. CASE Fail(w)
  BY <1>1, <1>4 DEF Fail, Leftovers, Fallible, fileVars
<1>5. CASE ~(OpenInflate(w) \/ Reindex(w) \/ Inflate(w) \/ Fail(w))
  BY <1>5 DEF Worker, BeginUpdate, FetchManifest, CreateDownload, Download,
     Verify, CheckSync, BeginSync, Rsync, CheckOld, CloseOld, OpenNew, Label, Finish, EndSync,
     fileVars
<1>6. QED BY <1>2, <1>3, <1>4, <1>5

\* No step removes a file of the data directory, or leaves one elsewhere.
LEMMA FilesStay ==
    ASSUME AlwaysInstalled, TypeInv, Installed, Next
    PROVE  /\ \A p : Present(p) => Present(p)'
           /\ \A p \in Path : p[1] # Data => disk'[p] = "absent"
<1>a. disk \in [Path -> Content]
  BY DEF TypeInv, TypeOK
<1>b. ASSUME NEW w \in Workers, NEW c, c # "absent", job[w].dest = Data,
             disk' = [disk EXCEPT ![Target(w)] = c]
      PROVE  /\ \A p : Present(p) => Present(p)'
             /\ \A p \in Path : p[1] # Data => disk'[p] = "absent"
  <2>1. Target(w)[1] = Data
    BY <1>b DEF Target
  <2>2. QED BY <1>a, <1>b, <2>1 DEF Present, Installed
<1>c. disk' = disk => /\ \A p : Present(p) => Present(p)'
                      /\ \A p \in Path : p[1] # Data => disk'[p] = "absent"
  BY DEF Present, Installed
<1>1. CASE \E w \in Workers : Worker(w)
  <2>1. PICK w \in Workers : Worker(w)
    BY <1>1
  <2>2. Pc(w) \in {"inflate", "inflating", "index"} => job[w].dest = Data
    BY DEF Installed
  <2>3. QED BY <1>b, <1>c, <2>1, <2>2, WorkerWrites
<1>3. CASE AutoSync \/ \E w \in Threads : Spawn(w)
  <2>1. up => db_path # None
    BY DEF Installed, Present, AlwaysInstalled
  <2>2. disk' = disk
    BY <1>3, <2>1 DEF AutoSync, Spawn, TriggerUpdate, TriggerSync, PressUpdate,
       SpawnUpdate, SpawnSync, InHandler, fileVars
  <2>3. QED BY <1>c, <2>2
<1>4. CASE \/ Restart \/ Reload \/ \E p \in Path : Open(p)
           \/ OpenStream \/ EndStream \/ Shutdown \/ Quit
           \/ \E e \in Endpoints : WindowElapses(e)
  BY <1>4, <1>c, HandlersKeepJobs
<1>5. CASE Launch \/ Main
  BY <1>5, <1>c DEF Launch, Main, StartOn, fileVars
<1>6. CASE Crash \/ Terminate \/ PollStopped
  <2>1. disk' = [p \in Path |-> IF p[1] = Data THEN disk[p] ELSE "absent"]
    BY <1>6 DEF Crash, Terminate, PollStopped, Exit
  <2>2. QED BY <2>1 DEF Present
<1>7. QED BY <1>1, <1>3, <1>4, <1>5, <1>6 DEF Next

LEMMA InstalledStep ==
    ASSUME AlwaysInstalled, TypeInv, Installed, Next
    PROVE  Installed'
<1>0. /\ \A p : Present(p) => Present(p)'
      /\ \A p \in Path : p[1] # Data => disk'[p] = "absent"
  BY FilesStay
<1>1. CASE \E w \in Workers : Worker(w)
  <2>1. PICK w \in Workers : Worker(w)
    BY <1>1
  <2>2. /\ up' = up /\ loop' = loop /\ \A u \in Workers \ {w} : job'[u] = job[u]
        /\ <<Pc(w), job'[w].pc>> \in Moves \/ job'[w] = NoJob
        /\ job'[w] = NoJob \/ job'[w].dest = job[w].dest
    BY <2>1, WorkerMoves DEF ctlVars
  <2>3. Pc(w) # "idle"
    BY <2>1 DEF Worker, BeginUpdate, FetchManifest, CreateDownload, Download,
       Verify, OpenInflate, Inflate, CheckSync, BeginSync, Rsync, Reindex, CheckOld, CloseOld,
       OpenNew, Label, Finish, EndSync, Fail, Fallible, At
  <2>4. NoJob.pc = "idle" /\ job[w].dest = Data
    BY <2>3 DEF NoJob, Installed
  <2>5. Present(<<Data, newest>>)'
    <3>1. CASE UNCHANGED <<disk, newest>>
      BY <3>1 DEF Present, Installed
    <3>2. CASE /\ Target(w) \in Path /\ Touched(w)
               /\ \E c : c # "absent" /\ disk' = [disk EXCEPT ![Target(w)] = c]
      <4>1. newest' = job[w].file /\ Target(w) = <<Data, newest'>>
        BY <2>4, <3>2 DEF Touched, Target
      <4>2. disk'[Target(w)] # "absent"
        BY <3>2 DEF TypeInv, TypeOK
      <4>3. QED BY <3>2, <4>1, <4>2 DEF Present
    <3>3. QED BY <2>1, <3>1, <3>2, WorkerWrites
  <2>6. Pc(w)' \in SwapPcs => Present(Target(w))'
    <3> SUFFICES ASSUME Pc(w)' \in SwapPcs PROVE Present(Target(w))'
      OBVIOUS
    <3>1. <<Pc(w), job'[w].pc>> \in Moves /\ job'[w] # NoJob
      BY <2>2 DEF Pc, NoJob, SwapPcs
    <3>2. Pc(w) # "manifest"
      BY <3>1 DEF Moves, Pc, SwapPcs
    <3>3. Target(w)' = Target(w)
      BY <2>1, <3>1, <3>2, WorkerMoves DEF Target
    <3>4. CASE Pc(w) \in SwapPcs
      BY <1>0, <3>3, <3>4 DEF Installed, Present
    <3>5. CASE Pc(w) \notin SwapPcs
      <4>1. Pc(w) \in {"inflating", "index"} /\ job'[w].pc = "close"
        BY <3>1, <3>5 DEF Moves, Pc, SwapPcs
      <4>2. ~Fail(w)
        BY <3>1 DEF Fail, TypeInv, TypeOK
      <4>3. Inflate(w) \/ Reindex(w)
        BY <2>1, <4>1, <4>2 DEF Worker, BeginUpdate, FetchManifest, CreateDownload,
           Download, Verify, OpenInflate, CheckSync, BeginSync, Rsync, CheckOld, CloseOld,
           OpenNew, Label, Finish, EndSync, At
      <4>4. \A c \in Inflated(w) : c # "absent"
        BY DEF Inflated
      <4>5. \E c : c # "absent" /\ disk' = [disk EXCEPT ![Target(w)] = c]
        BY <4>3, <4>4 DEF Inflate, Reindex
      <4>6. Target(w) \in Path
        BY <4>1, PathType DEF TypeInv, JobOK, Agrees, Names
      <4>7. disk'[Target(w)] # "absent" /\ Target(w)[1] = Data
        BY <2>4, <4>5, <4>6 DEF TypeInv, TypeOK, Target
      <4>8. QED BY <3>3, <4>6, <4>7 DEF Present
    <3>6. QED BY <3>4, <3>5
  <2>7. up => Present(db_path)'
    <3>1. db_path' = db_path \/ (Pc(w) = "label" /\ db_path' = Target(w))
      BY <2>1 DEF Worker, BeginUpdate, FetchManifest, CreateDownload, Download,
         Verify, OpenInflate, Inflate, CheckSync, BeginSync, Rsync, Reindex, CheckOld, CloseOld,
         OpenNew, Label, Finish, EndSync, Fail, At, appVars
    <3>2. Pc(w) = "label" => Present(Target(w))
      BY DEF Installed, SwapPcs
    <3>3. QED BY <1>0, <3>1, <3>2 DEF Installed, Present
  <2>8. \A u \in Workers : Pc(u)' # "idle" => job'[u].dest = Data
    BY <2>2, <2>4 DEF Installed, Pc
  <2>9. \A u \in Workers : Pc(u)' \in SwapPcs => Present(Target(u))'
    <3>1. \A u \in Workers \ {w} : Pc(u)' = Pc(u) /\ Target(u)' = Target(u)
      BY <2>2 DEF Pc, Target
    <3>2. QED BY <1>0, <2>6, <3>1 DEF Installed, Present
  <2>10. loop.op \in {"open", "open_run"} => Present(loop.path)'
    BY <1>0, <2>2 DEF Installed, Present
  <2>11. QED BY <1>0, <2>2, <2>5, <2>7, <2>8, <2>9, <2>10 DEF Installed
<1>2. ASSUME up' = up, UNCHANGED <<db_path, newest, job, loop>>
      PROVE  Installed'
  BY <1>0, <1>2 DEF Installed, Present, Pc, Target
<1>3. CASE AutoSync \/ \E w \in Threads : Spawn(w)
  <2>1. /\ up /\ up' = up /\ UNCHANGED <<db_path, newest, loop>>
        /\ db_path # None /\ db_path[1] = Data
    BY <1>3 DEF AutoSync, Spawn, TriggerUpdate, TriggerSync, PressUpdate, SpawnUpdate,
       SpawnSync, InHandler, fileVars, appVars, ctlVars, Installed, Present,
       AlwaysInstalled
  <2>2. \/ job' = job
        \/ \E w \in Workers : SpawnUpdate(w) \/ SpawnSync(w)
    BY <1>3 DEF AutoSync, Spawn, TriggerUpdate, TriggerSync, PressUpdate, Workers
  <2>3. CASE job' = job
    BY <1>2, <2>1, <2>3
  <2>4. ASSUME NEW w \in Workers, SpawnUpdate(w) \/ SpawnSync(w)
        PROVE  Installed'
    <3>1. \A u \in Workers \ {w} : job'[u] = job[u]
      BY <2>4, SpawnMoves
    <3>2. job'[w].pc = "start" /\ job'[w].dest = Data
      BY <2>1, <2>4 DEF SpawnUpdate, SpawnSync, TypeInv, TypeOK
    <3>3. QED BY <1>0, <2>1, <3>1, <3>2 DEF Installed, Present, Pc, Target, SwapPcs
  <2>5. QED BY <2>2, <2>3, <2>4
<1>4. CASE \/ Restart \/ Reload \/ \E p \in Path : Open(p)
           \/ OpenStream \/ EndStream \/ Shutdown \/ Quit
           \/ \E e \in Endpoints : WindowElapses(e)
  <2>1. up' = up /\ job' = job /\ newest' = newest
    BY <1>4, HandlersKeepJobs
  <2>2. CASE \E p \in Path : Open(p)
    <3>1. PICK p \in Path : Open(p)
      BY <2>2
    <3>2. Present(p) /\ db_path' = db_path /\ loop' = [op |-> "open", path |-> p]
      BY <3>1 DEF Open, LoopTo, Present, Installed
    <3>3. QED BY <1>0, <2>1, <3>2 DEF Installed, Present, Pc, Target
  <2>3. CASE Restart \/ ReopenFile \/ OpenRaises
    <3>1. db_path' = db_path /\ loop'.op \in {"idle", "reopen", "reopen_run"}
      BY <2>3 DEF Restart, ReopenFile, OpenRaises, LoopTo, appVars
    <3>2. QED BY <1>0, <2>1, <3>1 DEF Installed, Present, Pc, Target
  <2>4. CASE OpenFile
    <3>1. /\ db_path' = db_path /\ loop.op = "open"
          /\ loop' = [op |-> "open_run", path |-> loop.path]
      BY <2>4 DEF OpenFile, LoopTo
    <3>2. QED BY <1>0, <2>1, <3>1 DEF Installed, Present, Pc, Target
  <2>5. CASE EndReload
    <3>1. /\ up /\ loop' = [op |-> "idle", path |-> None]
          /\ db_path' = IF loop.op = "open_run" THEN loop.path ELSE db_path
      BY <2>5 DEF EndReload, LoopTo
    <3>2. QED BY <1>0, <2>1, <3>1 DEF Installed, Present, Pc, Target
  <2>6. CASE \/ OpenStream \/ EndStream \/ Shutdown \/ Quit
             \/ \E e \in Endpoints : WindowElapses(e)
    <3>1. db_path' = db_path /\ loop' = loop
      BY <2>6 DEF OpenStream, EndStream, Shutdown, Quit, WindowElapses, appVars
    <3>2. QED BY <1>2, <2>1, <3>1
  <2>7. QED BY <1>4, <2>2, <2>3, <2>4, <2>5, <2>6 DEF Reload
<1>5. CASE Launch \/ Main
  <2>1. StartOn(<<Data, newest>>)
    <3>1. newest # None
      BY ClientAssumption DEF Installed, Present, Path, Names
    <3>2. QED BY <1>5, <3>1 DEF Launch, Main, AlwaysInstalled
  <2>2. /\ db_path' = <<Data, newest>> /\ newest' = newest
        /\ job' = job /\ loop' = loop
    BY <2>1 DEF StartOn, fileVars, ctlVars
  <2>3. QED BY <1>0, <2>2 DEF Installed, Present, Pc, Target
<1>6. CASE Crash \/ Terminate \/ PollStopped
  <2>1. /\ up' = FALSE /\ newest' = newest
        /\ job' = [w \in Workers |-> NoJob] /\ loop'.op = "idle"
    BY <1>6 DEF Crash, Terminate, PollStopped, Exit, FreshMemory
  <2>2. \A w \in Workers : Pc(w)' = "idle"
    BY <2>1 DEF Pc, NoJob
  <2>3. QED BY <1>0, <2>1, <2>2 DEF Installed, Present, SwapPcs
<1>7. QED BY <1>1, <1>3, <1>4, <1>5, <1>6 DEF Next

\* A worker closes the served database or replaces it, and takes nothing away.
LEMMA WorkerKeepsDb ==
    ASSUME AlwaysInstalled, TypeInv, Installed, NEW w \in Workers, Worker(w), HasDb
    PROVE  HasDb'
<1>1. CASE OpenNew(w)
  <2>1. Pc(w) = "open"
    BY <1>1 DEF OpenNew, At
  <2>2. Target(w) \in Path
    BY <2>1 DEF Installed, Present, SwapPcs
  <2>3. db' = Handle(Target(w))
    BY <1>1 DEF OpenNew
  <2>4. QED BY <2>2, <2>3, HandlesThere DEF HasDb
<1>2. CASE CloseOld(w)
  <2>1. db' = Closed(db) /\ loop' = loop /\ openFailed' = openFailed
    BY <1>2 DEF CloseOld, ctlVars, histVars
  <2>2. db # None => db \in [path : Path, open : BOOLEAN]
    BY DEF TypeInv, TypeOK
  <2>3. QED BY <2>1, <2>2, HandlesThere DEF HasDb
<1>3. CASE Fail(w)
  BY <1>3 DEF Fail, HasDb, ctlVars
<1>4. CASE \/ BeginUpdate(w) \/ FetchManifest(w) \/ CreateDownload(w) \/ Download(w)
           \/ Verify(w) \/ OpenInflate(w) \/ Inflate(w)
  BY <1>4 DEF BeginUpdate, FetchManifest, CreateDownload, Download, Verify, OpenInflate,
     Inflate, HasDb, appVars, ctlVars, histVars
<1>5. CASE \/ CheckSync(w) \/ BeginSync(w) \/ Rsync(w) \/ Reindex(w)
           \/ CheckOld(w) \/ Label(w) \/ Finish(w) \/ EndSync(w)
  BY <1>5 DEF CheckSync, BeginSync, Rsync, Reindex, CheckOld, Label, Finish, EndSync, HasDb,
     appVars, ctlVars, histVars
<1>6. QED BY <1>1, <1>2, <1>3, <1>4, <1>5 DEF Worker

LEMMA HandlerKeepsDb ==
    ASSUME AlwaysInstalled, TypeInv, Installed, up, HasDb,
           Restart \/ Reload \/ \E p \in Path : Open(p)
    PROVE  HasDb'
<1>1. CASE Restart
  BY <1>1 DEF Restart, LoopTo, HasDb
<1>2. CASE \E p \in Path : Open(p)
  <2>1. /\ loop.op = "idle" /\ openFailed' = openFailed /\ db' = Closed(db)
    BY <1>2 DEF Open, InHandler, histVars
  <2>2. db # None => db \in [path : Path, open : BOOLEAN]
    BY DEF TypeInv, TypeOK
  <2>3. QED BY <2>1, <2>2, HandlesThere DEF HasDb
<1>3. CASE OpenFile
  <2>1. loop.path \in Path /\ db' = Handle(loop.path)
    BY <1>3 DEF OpenFile, Installed, Present
  <2>2. QED BY <2>1, HandlesThere DEF HasDb
<1>4. CASE ReopenFile
  <2>1. db_path \in Path /\ disk[db_path] # "absent"
    BY DEF Installed, Present
  <2>2. db_path # None
    BY <2>1 DEF AlwaysInstalled
  <2>3. db' = Handle(db_path)
    BY <1>4, <2>1, <2>2 DEF ReopenFile
  <2>4. QED BY <2>1, <2>3, HandlesThere DEF HasDb
<1>5. CASE OpenRaises
  BY <1>5 DEF OpenRaises, HasDb
<1>6. CASE EndReload
  BY <1>6 DEF EndReload, HasDb, histVars
<1>7. QED BY <1>1, <1>2, <1>3, <1>4, <1>5, <1>6 DEF Reload

LEMMA StartedStep ==
    ASSUME AlwaysInstalled, TypeInv, StartedInv, [Next]_vars
    PROVE  StartedInv'
<1>1. CASE UNCHANGED vars
  BY <1>1 DEF vars, appVars, fileVars, ctlVars, histVars, StartedInv, Installed, HasDb,
     Present, Pc, Target
<1>2. CASE Next
  <2>1. Installed'
    BY <1>2, InstalledStep DEF StartedInv
  <2>2. CASE \E w \in Workers : Worker(w)
    <3>1. PICK w \in Workers : Worker(w)
      BY <2>2
    <3>2. up /\ up' = up
      BY <3>1, WorkerMoves DEF Worker, BeginUpdate, FetchManifest, CreateDownload,
         Download, Verify, OpenInflate, Inflate, CheckSync, BeginSync, Rsync, Reindex,
         CheckOld, CloseOld, OpenNew, Label, Finish, EndSync, Fail, At
    <3>3. HasDb'
      BY <3>1, <3>2, WorkerKeepsDb DEF StartedInv
    <3>4. QED BY <2>1, <3>2, <3>3 DEF StartedInv
  <2>3. CASE AutoSync \/ \E w \in Threads : Spawn(w)
    <3>1. up /\ up' = up /\ UNCHANGED <<db, loop, openFailed>>
      BY <2>3 DEF AutoSync, Spawn, TriggerUpdate, TriggerSync, PressUpdate, InHandler,
         appVars, ctlVars, histVars
    <3>2. QED BY <2>1, <3>1 DEF StartedInv, HasDb
  <2>4. CASE \/ OpenStream \/ EndStream \/ Shutdown \/ Quit
             \/ \E e \in Endpoints : WindowElapses(e)
    <3>1. up /\ up' = up /\ UNCHANGED <<db, loop, openFailed>>
      BY <2>4 DEF OpenStream, EndStream, Shutdown, Quit, WindowElapses, InHandler,
         appVars, histVars
    <3>2. QED BY <2>1, <3>1 DEF StartedInv, HasDb
  <2>5. CASE Restart \/ Reload \/ \E p \in Path : Open(p)
    <3>1. up /\ up' = up
      BY <2>5 DEF Restart, Reload, Open, OpenFile, ReopenFile, OpenRaises, EndReload,
         InHandler
    <3>2. HasDb'
      BY <2>5, <3>1, HandlerKeepsDb DEF StartedInv
    <3>3. QED BY <2>1, <3>1, <3>2 DEF StartedInv
  <2>6. CASE Launch \/ Main
    <3>1. newest # None /\ <<Data, newest>> \in Path
      BY ClientAssumption DEF StartedInv, Installed, Present, Path, Names
    <3>2. StartOn(<<Data, newest>>)
      BY <2>6, <3>1 DEF Launch, Main, AlwaysInstalled
    <3>3. up' /\ (db' = Handle(<<Data, newest>>) \/ <<Data, newest>> = None)
      BY <3>2 DEF StartOn
    <3>4. db' # None
      BY <3>1, <3>3, HandlesThere DEF AlwaysInstalled
    <3>5. QED BY <2>1, <3>3, <3>4 DEF StartedInv, HasDb
  <2>7. CASE Crash \/ Terminate \/ PollStopped
    <3>1. ~up' /\ state' = "no_data"
      BY <2>7 DEF Crash, Terminate, PollStopped, Exit, FreshMemory
    <3>2. QED BY <2>1, <3>1 DEF StartedInv
  <2>8. QED BY <1>2, <2>2, <2>3, <2>4, <2>5, <2>6, <2>7 DEF Next
<1>3. QED BY <1>1, <1>2

\* A client whose launcher finds a database never shows RUNNING without a
\* database object, but for the middle of /restart and after opening one raised:
\* whatever updates, syncs, reloads and crashes come before.
THEOREM RunningAlwaysHasDb ==
    ASSUME AlwaysInstalled
    PROVE  Spec => []RunningHasDb
<1>1. Init => StartedInv
  BY InitStarted
<1>2. TypeInv /\ StartedInv /\ [Next]_vars => StartedInv'
  BY StartedStep
<1>3. StartedInv => RunningHasDb
  BY DEF StartedInv, HasDb, RunningHasDb
<1>4. QED BY <1>1, <1>2, <1>3, TypeInvariant, PTL DEF Spec
=============================================================================

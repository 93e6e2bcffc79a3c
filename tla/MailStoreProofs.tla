-------------------------- MODULE MailStoreProofs --------------------------
(***************************************************************************)
(* Safety of MailStore for any mails, mailboxes and attachments, any       *)
(* columns and any number of commands running side by side.                *)
(***************************************************************************)
EXTENDS MailStore, TLAPS

\* Where a command is determines which of its fields are set.
Placed(r) ==
    /\ Pc(r) \notin {"idle", "next"} => Box(r) \in Mailboxes
    /\ Pc(r) \in {"rsync", "extract", "create", "write"} => run[r].db = Box(r)
    /\ Pc(r) \in {"open", "migrate"} => run[r].db \in {Box(r), Global}
    /\ Pc(r) \in {"create", "write"} => run[r].part \in Attachments

RunInv == TypeOK /\ \A r \in Runs : Placed(r)

Acts(r) == Start(r) \/ Step(r) \/ CutRsync(r) \/ Stop(r) \/ SkipBox(r)

LEMMA NoRunFacts ==
    /\ NoRun \in RunRecord /\ NoRun.pc = "idle"
    /\ Mailboxes \subseteq DBs /\ Global \in DBs
BY DEF NoRun, RunRecord, Pcs, DBs

LEMMA StopsBound == MaxStops \in Nat
BY StoreAssumption

LEMMA InBoxType ==
    ASSUME NEW S \in SUBSET Mails, NEW b
    PROVE  /\ InBox(S, b) \in SUBSET Mails
           /\ \A m \in InBox(S, b) : m \in S /\ BoxOf[m] = b
           /\ PartNames(S) \in SUBSET Attachments
           /\ PartRows(S) \in SUBSET (Mails \X Attachments)
<1>1. BoxOf \in [Mails -> Mailboxes] /\ PartsOf \in [Mails -> SUBSET Attachments]
  BY StoreAssumption
<1>2. /\ InBox(S, b) \in SUBSET Mails
      /\ \A m \in InBox(S, b) : m \in S /\ BoxOf[m] = b
  BY DEF InBox
<1>3. PartNames(S) \in SUBSET Attachments
  BY <1>1 DEF PartNames
<1>4. PartRows(S) \in SUBSET (Mails \X Attachments)
  BY <1>1 DEF PartRows
<1>5. QED BY <1>2, <1>3, <1>4

\* A command changes its own record and leaves the others alone.
LEMMA OwnRecord ==
    ASSUME RunInv, NEW r \in Runs, Acts(r)
    PROVE  /\ run' \in [Runs -> RunRecord]
           /\ \A q \in Runs \ {r} : run'[q] = run[q]
<1> DEFINE Own(s) == s \in RunRecord /\ run' = [run EXCEPT ![r] = s]
<1>1. run \in [Runs -> RunRecord] /\ run[r] \in RunRecord
  BY DEF RunInv, TypeOK
<1>2. SUFFICES \E s : Own(s)
  BY <1>1
<1>3. /\ maildir \in SUBSET Mails /\ server \in SUBSET Mails
      /\ Placed(r)
  BY DEF RunInv, TypeOK
<1>4. CASE Start(r)
  <2>1. PICK c \in Commands, B \in SUBSET Mailboxes :
          run' = [run EXCEPT ![r] = [NoRun EXCEPT !.pc = "next", !.cmd = c,
                                                  !.boxes = B]]
    BY <1>4 DEF Start
  <2>2. Own([NoRun EXCEPT !.pc = "next", !.cmd = c, !.boxes = B])
    BY <2>1, NoRunFacts DEF RunRecord, Pcs
  <2>3. QED BY <2>2
<1>5. CASE NextBox(r)
  <2>1. CASE run[r].boxes = {}
    <3>1. Own(NoRun)
      BY <1>5, <2>1, NoRunFacts DEF NextBox
    <3>2. QED BY <3>1
  <2>2. CASE run[r].boxes # {}
    <3>1. PICK b \in run[r].boxes :
            run' = [run EXCEPT ![r] =
                      [NoRun EXCEPT !.cmd = run[r].cmd, !.box = b, !.db = b,
                                    !.boxes = run[r].boxes \ {b},
                                    !.pc = IF Syncs(r) THEN "rsync" ELSE "open"]]
      BY <1>5, <2>2 DEF NextBox
    <3>2. Own([NoRun EXCEPT !.cmd = run[r].cmd, !.box = b, !.db = b,
                            !.boxes = run[r].boxes \ {b},
                            !.pc = IF Syncs(r) THEN "rsync" ELSE "open"])
      BY <1>1, <3>1, NoRunFacts DEF RunRecord, Pcs, DBs
    <3>3. QED BY <3>2
  <2>3. QED BY <2>1, <2>2
<1>6. CASE Rsync(r)
  <2> DEFINE s == [run[r] EXCEPT
             !.seen = InBox(server, Box(r)),
             !.todo = PartNames(InBox(maildir', Box(r))),
             !.pc = IF Extracts(r) THEN "extract" ELSE "open"]
  <2>1. run' = [run EXCEPT ![r] = s] /\ maildir' \in SUBSET Mails
    BY <1>6, <1>1, <1>3, InBoxType DEF Rsync, RsyncFrom, RunRecord
  <2>2. /\ InBox(server, Box(r)) \in SUBSET Mails
        /\ PartNames(InBox(maildir', Box(r))) \in SUBSET Attachments
    BY <2>1, <1>3, InBoxType
  <2>3. Own(s)
    BY <2>1, <2>2, <1>1 DEF RunRecord, Pcs
  <2>4. QED BY <2>3
<1>7. CASE SkipPart(r) \/ WritePart(r)
  <2>1. PICK a : run' = [run EXCEPT ![r] = [run[r] EXCEPT !.todo = @ \ {a}]]
              \/ run' = [run EXCEPT ![r] = [run[r] EXCEPT
                           !.pc = "extract", !.part = None, !.todo = @ \ {a}]]
    BY <1>7, <1>1 DEF SkipPart, WritePart, RunRecord
  <2>2. \/ Own([run[r] EXCEPT !.todo = @ \ {a}])
        \/ Own([run[r] EXCEPT !.pc = "extract", !.part = None, !.todo = @ \ {a}])
    BY <2>1, <1>1 DEF RunRecord, Pcs
  <2>3. QED BY <2>2
<1>8. CASE RejectPart(r) \/ CutRsync(r) \/ Stop(r)
  <2>1. Own(NoRun)
    BY <1>8, NoRunFacts DEF RejectPart, CutRsync, Stop
  <2>2. QED BY <2>1
<1>9. CASE TakePart(r)
  <2>1. PICK a \in run[r].todo :
          run' = [run EXCEPT ![r] = [run[r] EXCEPT !.pc = "create", !.part = a]]
    BY <1>9, <1>1 DEF TakePart, RunRecord
  <2>2. Own([run[r] EXCEPT !.pc = "create", !.part = a])
    BY <2>1, <1>1 DEF RunRecord, Pcs
  <2>3. QED BY <2>2
<1>10. CASE \/ CreatePart(r) \/ EndExtract(r) \/ Insert(r) \/ Commit(r)
            \/ CommitGlobal(r) \/ Import(r)
  <2>1. PICK pc \in Pcs : run' = [run EXCEPT ![r] = [run[r] EXCEPT !.pc = pc]]
    BY <1>10, <1>1 DEF CreatePart, EndExtract, Insert, Commit, CommitGlobal, Import, Go,
                       AfterIndex, RunRecord, Pcs
  <2>2. Own([run[r] EXCEPT !.pc = pc])
    BY <2>1, <1>1 DEF RunRecord
  <2>3. QED BY <2>2
<1>11. CASE OpenIndex(r) \/ AddColumn(r)
  <2>1. PICK pc \in Pcs, M \in SUBSET Columns :
          run' = [run EXCEPT ![r] = [run[r] EXCEPT !.pc = pc, !.missing = M]]
    <3>1. CASE OpenIndex(r)
      <4> DEFINE d == run[r].db
                 M == IF schema[d].exists /\ ~schema[d].v2
                      THEN MissingColumns(d) ELSE {}
      <4>1. M \in SUBSET Columns /\ "migrate" \in Pcs
        BY DEF MissingColumns, Pcs
      <4>2. run' = [run EXCEPT ![r] =
                      [run[r] EXCEPT !.pc = "migrate", !.missing = M]]
        BY <3>1, <1>1 DEF OpenIndex, RunRecord
      <4>3. QED BY <4>1, <4>2
    <3>2. CASE AddColumn(r)
      <4>1. PICK c \in Columns :
              run' = [run EXCEPT ![r] = [run[r] EXCEPT !.missing = @ \ {c}]]
        BY <3>2, <1>1 DEF AddColumn, RunRecord
      <4>2. run' = [run EXCEPT ![r] =
                      [run[r] EXCEPT !.pc = run[r].pc,
                                     !.missing = run[r].missing \ {c}]]
        BY <4>1, <1>1 DEF RunRecord
      <4>3. run[r].pc \in Pcs /\ run[r].missing \ {c} \in SUBSET Columns
        BY <1>1 DEF RunRecord
      <4>4. QED BY <4>2, <4>3
    <3>3. QED BY <1>11, <3>1, <3>2
  <2>2. Own([run[r] EXCEPT !.pc = pc, !.missing = M])
    BY <2>1, <1>1 DEF RunRecord
  <2>3. QED BY <2>2
<1>12. CASE DuplicateColumn(r) \/ SkipBox(r)
  <2>1. AfterError(r) \in RunRecord
    BY <1>1, NoRunFacts DEF AfterError, RunRecord, Pcs
  <2>2. Own(AfterError(r))
    BY <1>12, <2>1 DEF DuplicateColumn, SkipBox
  <2>3. QED BY <2>2
<1>13. CASE StampVersion(r)
  <2> DEFINE s == [run[r] EXCEPT !.pc = "open", !.db = Global]
             t == [run[r] EXCEPT !.pc = "insert", !.mails = InBox(maildir, Box(r))]
  <2>1. run' = [run EXCEPT ![r] = s] \/ run' = [run EXCEPT ![r] = t]
    BY <1>13, <1>1 DEF StampVersion, RunRecord
  <2>2. InBox(maildir, Box(r)) \in SUBSET Mails
    BY <1>3, InBoxType
  <2>3. s \in RunRecord /\ t \in RunRecord
    BY <2>2, <1>1, NoRunFacts DEF RunRecord, Pcs
  <2>4. Own(s) \/ Own(t)
    BY <2>1, <2>3
  <2>5. QED BY <2>4
<1>14. QED
  BY <1>4, <1>5, <1>6, <1>7, <1>8, <1>9, <1>10, <1>11, <1>12, <1>13
  DEF Acts, Step, Extract, Index, InitDb

-----------------------------------------------------------------------------
(* Types.                                                                  *)

LEMMA InitRunInv == Init => RunInv
<1> SUFFICES ASSUME Init PROVE RunInv
  OBVIOUS
<1>1. schema \in [DBs -> [exists : BOOLEAN, cols : SUBSET Columns, v2 : BOOLEAN]]
  BY DEF Init
<1>2. rows \in [DBs -> [emails : SUBSET Mails, atts : SUBSET (Mails \X Attachments)]]
  BY DEF Init
<1>3. TypeOK
  <2>1. run \in [Runs -> RunRecord] /\ lock \in [DBs -> Runs \cup {None}]
    BY NoRunFacts DEF Init
  <2>2. files \in [Files -> {"absent", "damaged", "complete"}]
    BY DEF Init
  <2>3. stops \in 0..MaxStops /\ collision \in BOOLEAN /\ bare \in SUBSET Mailboxes
    <3>1. stops = 0 /\ collision = FALSE /\ bare = {}
      BY DEF Init
    <3>2. stops \in 0..MaxStops
      BY ONLY <3>1, StopsBound, SMT
    <3>3. QED BY <3>1, <3>2
  <2>4. /\ server \in SUBSET Mails /\ maildir \in SUBSET Mails
        /\ verdict \in {None, "all clean", "issues found"}
    BY DEF Init
  <2>5. torn \in SUBSET Runs
    BY DEF Init
  <2>6. QED BY <1>1, <1>2, <2>1, <2>2, <2>3, <2>4, <2>5 DEF TypeOK
<1>4. \A r \in Runs : run[r].pc = "idle"
  BY NoRunFacts DEF Init
<1>5. QED BY <1>3, <1>4 DEF RunInv, Placed, Pc

\* The fields of a command that a step needs stay set.
LEMMA PlacedStep ==
    ASSUME RunInv, NEW r \in Runs, Acts(r)
    PROVE  \A q \in Runs : Placed(q)'
<1>1. /\ run \in [Runs -> RunRecord] /\ run[r] \in RunRecord
      /\ \A q \in Runs : Placed(q)
      /\ \A q \in Runs \ {r} : run'[q] = run[q]
  BY OwnRecord DEF RunInv, TypeOK
<1>2. \A q \in Runs \ {r} : Placed(q)'
  BY <1>1 DEF Placed, Pc, Box
<1>3. Placed(r)'
  <2> USE <1>1, NoRunFacts DEF Placed, Pc, Box
  <2>1. CASE Start(r)
    BY <2>1 DEF Start
  <2>2. CASE NextBox(r)
    <3>1. CASE run[r].boxes = {}
      BY <2>2, <3>1 DEF NextBox
    <3>2. CASE run[r].boxes # {}
      <4>1. PICK b \in run[r].boxes :
              run' = [run EXCEPT ![r] =
                        [NoRun EXCEPT !.cmd = run[r].cmd, !.box = b, !.db = b,
                                      !.boxes = run[r].boxes \ {b},
                                      !.pc = IF Syncs(r) THEN "rsync" ELSE "open"]]
        BY <2>2, <3>2 DEF NextBox
      <4>2. b \in Mailboxes
        BY DEF RunRecord
      <4>3. /\ run'[r].box = b /\ run'[r].db = b
            /\ run'[r].pc \in {"rsync", "open"}
        BY <4>1 DEF NoRun
      <4>4. QED BY <4>2, <4>3
    <3>3. QED BY <3>1, <3>2
  <2>3. CASE Rsync(r)
    BY <2>3 DEF Rsync, RsyncFrom, RunRecord
  <2>4. CASE Extract(r)
    <3>1. CASE SkipPart(r) \/ WritePart(r) \/ EndExtract(r)
      <4>1. Box(r) \in Mailboxes /\ Pc(r) \in {"extract", "write"}
        BY <3>1 DEF SkipPart, WritePart, EndExtract
      <4>2. /\ run'[r].box = run[r].box /\ run'[r].db = run[r].db
            /\ run'[r].pc \in {"extract", "open"}
        BY <3>1 DEF SkipPart, WritePart, EndExtract, Go, RunRecord
      <4>3. QED BY <4>1, <4>2
    <3>2. CASE RejectPart(r)
      BY <3>2 DEF RejectPart
    <3>3. CASE TakePart(r) \/ CreatePart(r)
      BY <3>3 DEF TakePart, CreatePart, Go, RunRecord
    <3>4. QED BY <2>4, <3>1, <3>2, <3>3 DEF Extract
  <2>5. CASE OpenIndex(r) \/ AddColumn(r)
    BY <2>5 DEF OpenIndex, AddColumn, RunRecord
  <2>6. CASE DuplicateColumn(r) \/ SkipBox(r)
    <3>1. AfterError(r).pc \in {"idle", "next"}
      BY DEF AfterError, NoRun
    <3>2. run'[r] = AfterError(r)
      BY <2>6 DEF DuplicateColumn, SkipBox
    <3>3. QED BY <3>1, <3>2
  <2>7. CASE StampVersion(r)
    BY <2>7 DEF StampVersion, RunRecord
  <2>8. CASE Insert(r) \/ Commit(r) \/ CommitGlobal(r) \/ Import(r)
    BY <2>8 DEF Insert, Commit, CommitGlobal, Import, Go, AfterIndex, RunRecord
  <2>9. CASE CutRsync(r) \/ Stop(r)
    BY <2>9 DEF CutRsync, Stop
  <2>10. QED
    BY <2>1, <2>2, <2>3, <2>4, <2>5, <2>6, <2>7, <2>8, <2>9
    DEF Acts, Step, Index, InitDb
<1>4. QED BY <1>2, <1>3

\* Only an extraction that opens a file empties it under another one.
LEMMA TornStep ==
    ASSUME NEW r \in Runs, Acts(r)
    PROVE  \/ torn' = torn \/ torn' = torn \ {r}
           \/ /\ CreatePart(r)
              /\ torn' = torn \cup {q \in Runs \ {r} : Writing(q, File(r, run[r].part))}
<1>1. CASE CreatePart(r)
  BY <1>1 DEF CreatePart
<1>2. CASE WritePart(r) \/ Stop(r) \/ SkipBox(r)
  BY <1>2 DEF WritePart, Stop, SkipBox
<1>3. CASE ~(CreatePart(r) \/ WritePart(r) \/ Stop(r) \/ SkipBox(r))
  BY <1>3 DEF Acts, Step, Extract, Index, InitDb, Start, NextBox, Rsync, RsyncFrom,
    SkipPart, RejectPart, TakePart, EndExtract, OpenIndex, AddColumn,
    DuplicateColumn, StampVersion, Insert, Commit, CommitGlobal, Import, CutRsync,
    hist
<1>4. QED BY <1>1, <1>2, <1>3

\* A command's step leaves every variable in its type.
LEMMA ActsTypeOK ==
    ASSUME RunInv, NEW r \in Runs, Acts(r)
    PROVE  TypeOK'
<1>1. run' \in [Runs -> RunRecord]
  BY OwnRecord
<1>2. TypeOK /\ Placed(r) /\ run[r] \in RunRecord
  BY DEF RunInv, TypeOK
<1>3. /\ server' \in SUBSET Mails /\ maildir' \in SUBSET Mails
      /\ verdict' \in {None, "all clean", "issues found"}
      /\ collision' \in BOOLEAN /\ bare' \in SUBSET Mailboxes
  <2> USE <1>2 DEF TypeOK, data, hist
  <2>1. CASE Rsync(r) \/ CutRsync(r)
    BY <2>1, InBoxType DEF Rsync, RsyncFrom, CutRsync
  <2>2. CASE NextBox(r)
    BY <2>2 DEF NextBox, RunRecord
  <2>3. CASE EndExtract(r)
    BY <2>3 DEF EndExtract
  <2>4. CASE ~(Rsync(r) \/ CutRsync(r) \/ NextBox(r) \/ EndExtract(r))
    BY <2>4 DEF Acts, Step, Extract, Index, InitDb, Start, SkipPart,
      RejectPart, TakePart, CreatePart, WritePart, EndExtract, OpenIndex, AddColumn,
      DuplicateColumn, StampVersion, Insert, Commit, CommitGlobal, Import, Stop,
      SkipBox
  <2>5. QED BY <2>1, <2>2, <2>3, <2>4
<1>4. stops' \in 0..MaxStops
  <2> USE <1>2 DEF TypeOK, data, hist
  <2>1. CASE CutRsync(r) \/ Stop(r) \/ SkipBox(r)
    <3>1. stops' = stops + 1 /\ stops < MaxStops
      BY <2>1 DEF CutRsync, Stop, SkipBox
    <3>2. stops \in 0..MaxStops
      BY <1>2 DEF TypeOK
    <3>3. QED BY ONLY <3>1, <3>2, StopsBound
  <2>2. CASE ~(CutRsync(r) \/ Stop(r) \/ SkipBox(r))
    BY <2>2 DEF Acts, Step, Extract, Index, InitDb, Start, NextBox, Rsync,
      RsyncFrom, SkipPart, RejectPart, TakePart, CreatePart, WritePart, EndExtract,
      OpenIndex, AddColumn, DuplicateColumn, StampVersion, Insert, Commit,
      CommitGlobal, Import
  <2>3. QED BY <2>1, <2>2
<1>5. files' \in [Files -> {"absent", "damaged", "complete"}]
  <2> USE <1>2 DEF TypeOK, data, hist
  <2>1. CASE CreatePart(r)
    BY <2>1 DEF CreatePart
  <2>2. CASE WritePart(r)
    BY <2>2 DEF WritePart, Filled
  <2>3. CASE ~(CreatePart(r) \/ WritePart(r))
    BY <2>3 DEF Acts, Step, Extract, Index, InitDb, Start, NextBox, Rsync,
      RsyncFrom, SkipPart, RejectPart, TakePart, EndExtract, OpenIndex, AddColumn,
      DuplicateColumn, StampVersion, Insert, Commit, CommitGlobal, Import,
      CutRsync, Stop, SkipBox
  <2>4. QED BY <2>1, <2>2, <2>3
<1>6. rows' \in [DBs -> [emails : SUBSET Mails, atts : SUBSET (Mails \X Attachments)]]
  <2> USE <1>2 DEF TypeOK, data, hist
  <2>1. ASSUME NEW d
        PROVE  Upserted(d, r) \in
                 [DBs -> [emails : SUBSET Mails, atts : SUBSET (Mails \X Attachments)]]
    <3>1. run[r].mails \in SUBSET Mails
      BY DEF RunRecord
    <3>2. PartRows(run[r].mails) \in SUBSET (Mails \X Attachments)
      BY <3>1, InBoxType
    <3>3. QED BY <3>1, <3>2 DEF Upserted
  <2>2. CASE Commit(r) \/ CommitGlobal(r)
    <3>1. rows' = Upserted(Box(r), r) \/ rows' = Upserted(Global, r)
      BY ONLY <2>2 DEF Commit, CommitGlobal
    <3>2. /\ Upserted(Box(r), r) \in
                [DBs -> [emails : SUBSET Mails, atts : SUBSET (Mails \X Attachments)]]
          /\ Upserted(Global, r) \in
                [DBs -> [emails : SUBSET Mails, atts : SUBSET (Mails \X Attachments)]]
      BY ONLY <2>1
    <3>3. QED BY ONLY <3>1, <3>2
  <2>3. CASE ~(Commit(r) \/ CommitGlobal(r))
    BY <2>3 DEF Acts, Step, Extract, Index, InitDb, Start, NextBox, Rsync,
      RsyncFrom, SkipPart, RejectPart, TakePart, CreatePart, WritePart, EndExtract,
      OpenIndex, AddColumn, DuplicateColumn, StampVersion, Insert, Import,
      CutRsync, Stop, SkipBox
  <2>4. QED BY <2>2, <2>3
<1>7. schema' \in [DBs -> [exists : BOOLEAN, cols : SUBSET Columns, v2 : BOOLEAN]]
  <2> USE <1>2 DEF TypeOK, data, hist
  <2>1. CASE OpenIndex(r)
    BY <2>1 DEF OpenIndex
  <2>2. CASE AddColumn(r)
    <3>1. PICK c \in Columns :
            schema' = [schema EXCEPT ![run[r].db].cols = @ \cup {c}]
      BY <2>2 DEF AddColumn, RunRecord
    <3>2. schema \in [DBs -> [exists : BOOLEAN, cols : SUBSET Columns, v2 : BOOLEAN]]
      OBVIOUS
    <3>3. QED BY <3>1, <3>2
  <2>3. CASE StampVersion(r)
    <3>1. schema' = [schema EXCEPT ![run[r].db].v2 = TRUE]
      BY <2>3 DEF StampVersion
    <3>2. schema \in [DBs -> [exists : BOOLEAN, cols : SUBSET Columns, v2 : BOOLEAN]]
      OBVIOUS
    <3>3. QED BY <3>1, <3>2
  <2>4. CASE ~(OpenIndex(r) \/ AddColumn(r) \/ StampVersion(r))
    BY <2>4 DEF Acts, Step, Extract, Index, InitDb, Start, NextBox, Rsync,
      RsyncFrom, SkipPart, RejectPart, TakePart, CreatePart, WritePart, EndExtract,
      DuplicateColumn, Insert, Commit, CommitGlobal, Import, CutRsync, Stop,
      SkipBox
  <2>5. QED BY <2>1, <2>2, <2>3, <2>4
<1>8. lock' \in [DBs -> Runs \cup {None}]
  <2> USE <1>2 DEF TypeOK, data, hist
  <2>1. CASE Insert(r)
    BY <2>1 DEF Insert
  <2>2. CASE Commit(r) \/ CommitGlobal(r)
    BY <2>2 DEF Commit, CommitGlobal, Unlocked
  <2>3. CASE DuplicateColumn(r) \/ Stop(r) \/ SkipBox(r)
    BY <2>3 DEF DuplicateColumn, Stop, SkipBox, RollBack
  <2>4. CASE ~(\/ Insert(r) \/ Commit(r) \/ CommitGlobal(r)
              \/ DuplicateColumn(r) \/ Stop(r) \/ SkipBox(r))
    BY <2>4 DEF Acts, Step, Extract, Index, InitDb, Start, NextBox, Rsync,
      RsyncFrom, SkipPart, RejectPart, TakePart, CreatePart, WritePart, EndExtract,
      OpenIndex, AddColumn, StampVersion, Import, CutRsync
  <2>5. QED BY <2>1, <2>2, <2>3, <2>4
<1>9. torn' \in SUBSET Runs
  BY <1>2, TornStep DEF TypeOK
<1>10. QED BY <1>1, <1>3, <1>4, <1>5, <1>6, <1>7, <1>8, <1>9 DEF TypeOK

\* The other disjuncts of Next touch neither commands nor indexes nor files.
LEMMA AroundStep ==
    ASSUME RunInv, Deliver \/ Remove \/ VerifyArchive \/ UNCHANGED vars
    PROVE  RunInv' /\ UNCHANGED <<run, data, maildir>>
<1>1. TypeOK /\ \A r \in Runs : Placed(r)
  BY DEF RunInv
<1>2. TypeOK' /\ UNCHANGED <<run, data, maildir>>
  BY <1>1 DEF TypeOK, Deliver, Remove, VerifyArchive, vars, data, hist
<1>3. QED BY <1>1, <1>2 DEF RunInv, Placed, Pc, Box

LEMMA RunInvStep == RunInv /\ [Next]_vars => RunInv'
<1> SUFFICES ASSUME RunInv, [Next]_vars PROVE RunInv'
  OBVIOUS
<1>1. CASE Deliver \/ Remove \/ VerifyArchive \/ UNCHANGED vars
  BY <1>1, AroundStep
<1>2. CASE \E r \in Runs : Acts(r)
  BY <1>2, ActsTypeOK, PlacedStep DEF RunInv
<1>3. QED BY <1>1, <1>2 DEF Next, Acts

LEMMA RunInvAlways == Spec => []RunInv
<1>1. QED BY InitRunInv, RunInvStep, PTL DEF Spec

\* Every variable keeps its type, and a command has the mailbox, the index and
\* the attachment that its next step in devenv.nix or in the programs uses.
THEOREM TypeCorrect == Spec => []TypeOK
<1>1. RunInv => TypeOK
  BY DEF RunInv
<1>2. QED BY <1>1, RunInvAlways, PTL

-----------------------------------------------------------------------------
(* What only grows, and what happens before an index is opened.            *)

\* The steps that end with a command outside the indexing of its mailbox or at
\* the opening of the mailbox's own index.
Outside(r) ==
    \/ Start(r) \/ NextBox(r) \/ Rsync(r) \/ Extract(r) \/ DuplicateColumn(r)
    \/ Import(r) \/ CutRsync(r) \/ Stop(r) \/ SkipBox(r)

LEMMA OutsideStep ==
    ASSUME RunInv, NEW r \in Runs, Outside(r)
    PROVE  /\ \/ run'[r].pc \in {"idle", "next", "rsync", "extract", "create", "write"}
              \/ /\ run'[r].pc = "open" /\ run'[r].db = run'[r].box
                 /\ run'[r].box \in Mailboxes
           /\ UNCHANGED <<rows, schema>>
<1>1. run \in [Runs -> RunRecord] /\ run[r] \in RunRecord /\ Placed(r)
  BY DEF RunInv, TypeOK
<1>2. UNCHANGED <<rows, schema>>
  BY DEF Outside, Extract, Start, NextBox, Rsync, RsyncFrom, SkipPart,
    RejectPart, TakePart, CreatePart, WritePart, EndExtract, DuplicateColumn, Import,
    CutRsync, Stop, SkipBox, data
<1>3. CASE Start(r) \/ RejectPart(r) \/ CutRsync(r) \/ Stop(r) \/ Import(r)
  <2>1. run'[r].pc \in {"idle", "next"}
    <3>1. CASE Start(r)
      BY <1>1, <3>1 DEF Start, NoRun
    <3>2. CASE Import(r)
      BY <1>1, <3>2 DEF Import, Go, RunRecord
    <3>3. CASE RejectPart(r) \/ CutRsync(r) \/ Stop(r)
      BY <1>1, <3>3, NoRunFacts DEF RejectPart, CutRsync, Stop
    <3>4. QED BY <1>3, <3>1, <3>2, <3>3
  <2>2. QED BY <1>2, <2>1
<1>4. CASE NextBox(r)
  <2>1. CASE run[r].boxes = {}
    <3>1. run'[r] = NoRun
      BY <1>1, <1>4, <2>1 DEF NextBox
    <3>2. QED BY <1>2, <3>1, NoRunFacts
  <2>2. CASE run[r].boxes # {}
    <3>1. PICK b \in run[r].boxes :
            run' = [run EXCEPT ![r] =
                      [NoRun EXCEPT !.cmd = run[r].cmd, !.box = b, !.db = b,
                                    !.boxes = run[r].boxes \ {b},
                                    !.pc = IF Syncs(r) THEN "rsync" ELSE "open"]]
      BY <1>4, <2>2 DEF NextBox
    <3>2. /\ run'[r].box = b /\ run'[r].db = b /\ b \in Mailboxes
          /\ run'[r].pc \in {"rsync", "open"}
      BY <1>1, <3>1 DEF NoRun, RunRecord
    <3>3. QED BY <1>2, <3>2
  <2>3. QED BY <2>1, <2>2
<1>5. CASE \/ Rsync(r) \/ SkipPart(r) \/ TakePart(r) \/ CreatePart(r) \/ WritePart(r)
           \/ EndExtract(r)
  <2>1. /\ run'[r].pc \in {"extract", "create", "write", "open"}
        /\ run'[r].db = run[r].db /\ run'[r].box = run[r].box
    <3>1. CASE Rsync(r)
      BY <1>1, <3>1 DEF Rsync, RsyncFrom, RunRecord
    <3>2. CASE SkipPart(r) \/ TakePart(r) \/ CreatePart(r)
      BY <1>1, <3>2 DEF SkipPart, TakePart, CreatePart, Go, RunRecord, Pc
    <3>3. CASE WritePart(r) \/ EndExtract(r)
      BY <1>1, <3>3 DEF WritePart, EndExtract, Go, RunRecord
    <3>4. QED BY <1>5, <3>1, <3>2, <3>3
  <2>2. run[r].pc \in {"rsync", "extract", "create", "write"}
    BY <1>5 DEF Rsync, RsyncFrom, SkipPart, TakePart, CreatePart, WritePart, EndExtract, Pc
  <2>3. QED BY <1>1, <1>2, <2>1, <2>2 DEF Placed, Pc, Box
<1>6. CASE DuplicateColumn(r) \/ SkipBox(r)
  <2>1. run'[r] = AfterError(r)
    BY <1>1, <1>6 DEF DuplicateColumn, SkipBox
  <2>2. AfterError(r).pc \in {"idle", "next"}
    BY DEF AfterError, NoRun
  <2>3. QED BY <1>2, <2>1, <2>2
<1>7. QED BY <1>3, <1>4, <1>5, <1>6 DEF Outside, Extract

\* sync-all copies without --delete and indexing never deletes a row.
LEMMA Grows ==
    ASSUME RunInv, NEW r \in Runs, Acts(r)
    PROVE  /\ maildir \subseteq maildir'
           /\ \A d \in DBs : /\ rows[d].emails \subseteq rows'[d].emails
                             /\ rows[d].atts \subseteq rows'[d].atts
<1>1. /\ rows \in [DBs -> [emails : SUBSET Mails, atts : SUBSET (Mails \X Attachments)]]
      /\ maildir \subseteq maildir
      /\ \A d \in DBs : /\ rows[d].emails \subseteq rows[d].emails
                        /\ rows[d].atts \subseteq rows[d].atts
  BY DEF RunInv, TypeOK
<1>2. CASE Rsync(r) \/ CutRsync(r)
  <2>1. maildir \subseteq maildir' /\ rows' = rows
    BY <1>2 DEF Rsync, RsyncFrom, CutRsync, data
  <2>2. QED BY <1>1, <2>1
<1>3. CASE Commit(r) \/ CommitGlobal(r)
  <2>1. PICK d : rows' = Upserted(d, r)
    BY <1>3 DEF Commit, CommitGlobal
  <2>2. maildir' = maildir
    BY <1>3 DEF Commit, CommitGlobal
  <2>3. QED BY <1>1, <2>1, <2>2 DEF Upserted
<1>4. CASE ~(Rsync(r) \/ CutRsync(r) \/ Commit(r) \/ CommitGlobal(r))
  <2>1. maildir' = maildir /\ rows' = rows
    BY <1>4 DEF Acts, Step, Extract, Index, InitDb, Start, NextBox, SkipPart,
      RejectPart, TakePart, CreatePart, WritePart, EndExtract, OpenIndex, AddColumn,
      DuplicateColumn, StampVersion, Insert, Import, Stop, SkipBox, data
  <2>2. QED BY <1>1, <2>1
<1>5. QED BY <1>2, <1>3, <1>4

-----------------------------------------------------------------------------
(* Migration: what a version number and a run's list of missing columns say  *)
(* about an index that other runs migrate too.                             *)

Stamped(d) == schema[d].v2 => schema[d].exists /\ schema[d].cols = Columns

\* A column is there or the run still has to add it; the global index is
\* opened when the mailbox's own one is at version 2.
Migrating(r) ==
    /\ Pc(r) = "migrate" => /\ schema[run[r].db].exists
                            /\ Columns \ schema[run[r].db].cols \subseteq run[r].missing
    /\ Pc(r) \in {"open", "migrate"} /\ run[r].db = Global => schema[Box(r)].v2
    /\ Inserting(r) => schema[Box(r)].v2 /\ (UsesGlobal(r) => schema[Global].v2)

MigrationInv == /\ RunInv
                /\ \A d \in DBs : Stamped(d)
                /\ \A r \in Runs : Migrating(r)

LEMMA InitMigrationInv == Init => MigrationInv
<1> SUFFICES ASSUME Init PROVE MigrationInv
  OBVIOUS
<1>1. \A d \in DBs : Stamped(d)
  BY DEF Init, Stamped
<1>2. \A r \in Runs : run[r].pc = "idle"
  BY NoRunFacts DEF Init
<1>3. \A r \in Runs : Migrating(r)
  BY <1>2 DEF Migrating, Inserting, Pc
<1>4. QED BY <1>1, <1>3, InitRunInv DEF MigrationInv

\* An index once made stays, keeps its columns and its version.
LEMMA SchemaStep ==
    ASSUME MigrationInv, NEW r \in Runs, Acts(r)
    PROVE  \A d \in DBs : /\ Stamped(d)'
                          /\ schema[d].exists => schema'[d].exists
                          /\ schema[d].cols \subseteq schema'[d].cols
                          /\ schema[d].v2 => schema'[d].v2
<1>1. /\ schema \in [DBs -> [exists : BOOLEAN, cols : SUBSET Columns, v2 : BOOLEAN]]
      /\ run[r] \in RunRecord
      /\ \A d \in DBs : Stamped(d)
      /\ Placed(r) /\ Migrating(r)
  BY DEF MigrationInv, RunInv, TypeOK
<1>2. Pc(r) \in {"open", "migrate"} => run[r].db \in DBs
  BY <1>1, NoRunFacts DEF Placed
<1>3. CASE OpenIndex(r)
  <2> DEFINE d == run[r].db
  <2>1. /\ d \in DBs
        /\ schema' = IF schema[d].exists THEN schema
                     ELSE [schema EXCEPT ![d] = [exists |-> TRUE, cols |-> Columns,
                                                 v2 |-> FALSE]]
    BY <1>2, <1>3 DEF OpenIndex
  <2>2. CASE schema[d].exists
    BY <1>1, <2>1, <2>2 DEF Stamped
  <2>3. CASE ~schema[d].exists
    BY <1>1, <2>1, <2>3 DEF Stamped
  <2>4. QED BY <2>2, <2>3
<1>4. CASE AddColumn(r)
  <2>1. PICK c \in Columns :
          schema' = [schema EXCEPT ![run[r].db].cols = @ \cup {c}]
    BY <1>1, <1>4 DEF AddColumn, RunRecord
  <2>2. QED BY <1>1, <2>1 DEF Stamped
<1>5. CASE StampVersion(r)
  <2> DEFINE d == run[r].db
  <2>1. /\ schema' = [schema EXCEPT ![d].v2 = TRUE]
        /\ run[r].missing = {} /\ Pc(r) = "migrate"
    BY <1>5 DEF StampVersion
  <2>2. d \in DBs /\ schema[d].exists /\ schema[d].cols = Columns
    BY <1>1, <1>2, <2>1 DEF Migrating
  <2>3. QED BY <1>1, <2>1, <2>2 DEF Stamped
<1>6. CASE ~(OpenIndex(r) \/ AddColumn(r) \/ StampVersion(r))
  <2>1. schema' = schema
    BY <1>6 DEF Acts, Step, Extract, Index, InitDb, Start, NextBox, Rsync,
      RsyncFrom, SkipPart, RejectPart, TakePart, CreatePart, WritePart, EndExtract,
      DuplicateColumn, Insert, Commit, CommitGlobal, Import, CutRsync, Stop,
      SkipBox, data
  <2>2. QED BY <1>1, <2>1 DEF Stamped
<1>7. QED BY <1>3, <1>4, <1>5, <1>6

LEMMA MigratingStep ==
    ASSUME MigrationInv, NEW r \in Runs, Acts(r)
    PROVE  \A q \in Runs : Migrating(q)'
<1>1. /\ schema \in [DBs -> [exists : BOOLEAN, cols : SUBSET Columns, v2 : BOOLEAN]]
      /\ run \in [Runs -> RunRecord] /\ run[r] \in RunRecord
      /\ \A q \in Runs : Placed(q) /\ Migrating(q)
      /\ \A d \in DBs : Stamped(d)
  BY DEF MigrationInv, RunInv, TypeOK
<1>2. RunInv /\ \A q \in Runs \ {r} : run'[q] = run[q]
  BY OwnRecord DEF MigrationInv
<1>3. \A q \in Runs \ {r} : Migrating(q)'
  <2> SUFFICES ASSUME NEW q \in Runs \ {r} PROVE Migrating(q)'
    OBVIOUS
  <2>1. /\ Pc(q) \in {"open", "migrate"} => run[q].db \in DBs /\ Box(q) \in DBs
        /\ Inserting(q) => Box(q) \in DBs /\ Global \in DBs
    BY <1>1, NoRunFacts DEF Placed, Inserting
  <2>2. run'[q] = run[q] /\ Migrating(q)
    BY <1>1, <1>2
  <2>3. \A d \in DBs : /\ schema[d].exists => schema'[d].exists
                       /\ schema[d].cols \subseteq schema'[d].cols
                       /\ schema[d].v2 => schema'[d].v2
    BY SchemaStep
  <2>4. QED
    BY ONLY <2>1, <2>2, <2>3 DEF Migrating, Inserting, UsesGlobal, Pc, Box
<1>4. Migrating(r)'
  <2>1. CASE Outside(r)
    <3>1. \/ run'[r].pc \in {"idle", "next", "rsync", "extract", "create", "write"}
          \/ run'[r].pc = "open" /\ run'[r].db # Global
      <4>1. Global \notin Mailboxes
        BY StoreAssumption
      <4>2. QED BY <1>2, <2>1, <4>1, OutsideStep
    <3>2. QED BY <3>1 DEF Migrating, Inserting, Pc
  <2>2. CASE OpenIndex(r)
    <3> DEFINE d == run[r].db
    <3>1. /\ run'[r].pc = "migrate" /\ run'[r].db = d /\ run'[r].box = Box(r)
          /\ run'[r].missing = IF schema[d].exists /\ ~schema[d].v2
                               THEN MissingColumns(d) ELSE {}
          /\ schema' = IF schema[d].exists THEN schema
                       ELSE [schema EXCEPT ![d] = [exists |-> TRUE, cols |-> Columns,
                                                   v2 |-> FALSE]]
          /\ Pc(r) = "open"
      BY <1>1, <2>2 DEF OpenIndex, RunRecord, Box
    <3>2. d \in DBs /\ Box(r) \in DBs
      BY <1>1, <3>1, NoRunFacts DEF Placed
    <3>3. schema'[d].exists /\ Columns \ schema'[d].cols \subseteq run'[r].missing
      BY <1>1, <3>1, <3>2 DEF Stamped, MissingColumns
    <3>4. d = Global => schema'[Box(r)].v2
      BY <1>1, <3>1, <3>2, SchemaStep DEF Migrating
    <3>5. QED BY <3>1, <3>3, <3>4 DEF Migrating, Inserting, Pc, Box
  <2>3. CASE AddColumn(r)
    <3>1. PICK c \in Columns :
            /\ schema' = [schema EXCEPT ![run[r].db].cols = @ \cup {c}]
            /\ run' = [run EXCEPT ![r].missing = @ \ {c}]
            /\ Pc(r) = "migrate"
      BY <1>1, <2>3 DEF AddColumn, RunRecord
    <3>2. /\ run'[r].pc = "migrate" /\ run'[r].db = run[r].db
          /\ run'[r].box = run[r].box /\ run'[r].missing = run[r].missing \ {c}
      BY <1>1, <3>1 DEF Pc, RunRecord
    <3>3. run[r].db \in DBs /\ Box(r) \in DBs
      BY <1>1, <3>1, NoRunFacts DEF Placed
    <3>4. /\ schema'[run[r].db].exists
          /\ Columns \ schema'[run[r].db].cols \subseteq run[r].missing \ {c}
      BY <1>1, <3>1, <3>3 DEF Migrating
    <3>5. run[r].db = Global => schema'[Box(r)].v2
      BY <1>1, <3>1, <3>3, SchemaStep DEF Migrating
    <3>6. QED BY <3>2, <3>4, <3>5 DEF Migrating, Inserting, Pc, Box
  <2>4. CASE StampVersion(r)
    <3> DEFINE d == run[r].db
    <3>1. /\ schema' = [schema EXCEPT ![d].v2 = TRUE] /\ Pc(r) = "migrate"
          /\ run' = IF UsesGlobal(r) /\ d # Global
                    THEN [run EXCEPT ![r].pc = "open", ![r].db = Global]
                    ELSE [run EXCEPT ![r].pc = "insert",
                                     ![r].mails = InBox(maildir, Box(r))]
      BY <2>4 DEF StampVersion
    <3>2. d \in {Box(r), Global} /\ d \in DBs /\ Box(r) \in DBs /\ Global \in DBs
      BY <1>1, <3>1, NoRunFacts DEF Placed
    <3>3. schema'[d].v2 /\ schema'[Box(r)].v2
      BY <1>1, <3>1, <3>2, SchemaStep DEF Migrating
    <3>4. CASE UsesGlobal(r) /\ d # Global
      <4>1. run'[r].pc = "open" /\ run'[r].box = Box(r)
        BY <1>1, <3>1, <3>4 DEF RunRecord, Box
      <4>2. QED BY <3>3, <4>1 DEF Migrating, Inserting, Pc, Box
    <3>5. CASE ~(UsesGlobal(r) /\ d # Global)
      <4>1. /\ run'[r].pc = "insert" /\ run'[r].box = Box(r)
            /\ run'[r].cmd = run[r].cmd
        BY <1>1, <3>1, <3>5 DEF RunRecord, Box
      <4>2. QED BY <3>3, <3>5, <4>1 DEF Migrating, Inserting, UsesGlobal, Pc, Box
    <3>6. QED BY <3>4, <3>5
  <2>5. CASE Insert(r) \/ Commit(r) \/ CommitGlobal(r)
    <3>1. /\ run'[r].box = run[r].box /\ run'[r].cmd = run[r].cmd
          /\ run'[r].pc \notin {"open", "migrate"}
      BY <1>1, <2>5 DEF Insert, Commit, CommitGlobal, Go, AfterIndex, RunRecord
    <3>2. schema' = schema /\ Inserting(r)
      BY <2>5 DEF Insert, Commit, CommitGlobal, data, Inserting
    <3>3. QED BY <1>1, <3>1, <3>2 DEF Migrating, Inserting, UsesGlobal, Pc, Box
  <2>6. QED
    BY <2>1, <2>2, <2>3, <2>4, <2>5 DEF Acts, Outside, Step, Index, InitDb
<1>5. QED BY <1>3, <1>4

\* Columns are complete where rows are inserted: a migration that stopped after
\* some of its ALTER TABLE statements, or that another run overtakes, is
\* completed before _init_db writes user_version and before the first INSERT.
THEOREM MigratedAlways == Spec => []MigratedBeforeUse
<1>1. MigrationInv /\ [Next]_vars => MigrationInv'
  <2> SUFFICES ASSUME MigrationInv, [Next]_vars PROVE MigrationInv'
    OBVIOUS
  <2>1. RunInv'
    BY RunInvStep DEF MigrationInv
  <2>2. CASE \E r \in Runs : Acts(r)
    BY <2>1, <2>2, SchemaStep, MigratingStep DEF MigrationInv
  <2>3. CASE Deliver \/ Remove \/ VerifyArchive \/ UNCHANGED vars
    <3>1. UNCHANGED <<run, schema>>
      BY <2>3, AroundStep DEF MigrationInv, data
    <3>2. QED
      BY <2>1, <3>1 DEF MigrationInv, Stamped, Migrating, Inserting, UsesGlobal, Pc, Box
  <2>4. QED BY <2>2, <2>3 DEF Next, Acts
<1>2. MigrationInv => MigratedBeforeUse
  BY DEF MigrationInv, Stamped, Migrating, MigratedBeforeUse
<1>3. QED BY <1>1, <1>2, InitMigrationInv, PTL DEF Spec

-----------------------------------------------------------------------------
(* Indexing: what the commits of one mailbox leave in the two indexes.      *)

Has(d, S) == S \subseteq rows[d].emails /\ PartRows(S) \subseteq rows[d].atts

\* What a run has scanned is in its mailbox and holds what the server had; it
\* is in the mailbox's index from the first commit on and in the global one
\* from the second.
Indexing(r) ==
    /\ Pc(r) \notin {"idle", "next"} => run[r].seen \subseteq InBox(maildir, Box(r))
    /\ Inserting(r) \/ Pc(r) = "import" =>
         run[r].mails \subseteq InBox(maildir, Box(r)) /\ run[r].seen \subseteq run[r].mails
    /\ Pc(r) \in {"commit_global", "import"} => Has(Box(r), run[r].mails)
    /\ Pc(r) = "import" => Has(Global, run[r].mails)

IndexInv == RunInv /\ GlobalWithinLocal /\ \A r \in Runs : Indexing(r)

LEMMA InitIndexInv == Init => IndexInv
<1> SUFFICES ASSUME Init PROVE IndexInv
  OBVIOUS
<1>1. \A r \in Runs : run[r].pc = "idle"
  BY NoRunFacts DEF Init
<1>2. \A r \in Runs : Indexing(r)
  BY <1>1 DEF Indexing, Inserting, Pc
<1>3. \A d \in DBs : rows[d].emails = {} /\ rows[d].atts = {}
  BY DEF Init
<1>4. GlobalWithinLocal
  BY <1>3, NoRunFacts DEF GlobalWithinLocal, InBox
<1>5. QED BY <1>2, <1>4, InitRunInv DEF IndexInv

LEMMA InBoxGrows ==
    ASSUME NEW S, NEW T, S \subseteq T
    PROVE  /\ PartRows(S) \subseteq PartRows(T)
           /\ \A b : InBox(S, b) \subseteq InBox(T, b)
BY DEF PartRows, InBox

\* Before the indexes are opened what a run has seen stays in its mailbox.
LEMMA SeenStep ==
    ASSUME IndexInv, NEW r \in Runs, Outside(r),
           run'[r].pc \notin {"idle", "next"}
    PROVE  run'[r].seen \subseteq InBox(maildir', run'[r].box)
<1>1. /\ run \in [Runs -> RunRecord] /\ run[r] \in RunRecord
      /\ Placed(r) /\ Indexing(r) /\ RunInv
  BY DEF IndexInv, RunInv, TypeOK
<1>2. CASE NextBox(r)
  <2>1. run[r].boxes # {}
    BY <1>1, <1>2, NoRunFacts DEF NextBox
  <2>2. PICK b :
          run' = [run EXCEPT ![r] =
                    [NoRun EXCEPT !.cmd = run[r].cmd, !.box = b, !.db = b,
                                  !.boxes = run[r].boxes \ {b},
                                  !.pc = IF Syncs(r) THEN "rsync" ELSE "open"]]
    BY <1>2, <2>1 DEF NextBox
  <2>3. run'[r].seen = {}
    BY <1>1, <2>2 DEF NoRun
  <2>4. QED BY <2>3
<1>3. CASE Rsync(r)
  <2>1. /\ run'[r].seen = InBox(server, Box(r)) /\ run'[r].box = Box(r)
        /\ maildir' = maildir \cup InBox(server, Box(r))
    BY <1>1, <1>3 DEF Rsync, RsyncFrom, RunRecord, Box
  <2>2. QED BY <2>1 DEF InBox
<1>4. CASE Extract(r)
  <2>1. /\ run'[r].seen = run[r].seen /\ run'[r].box = run[r].box
        /\ maildir' = maildir /\ Pc(r) \in {"extract", "create", "write"}
    <3>1. CASE SkipPart(r) \/ TakePart(r) \/ CreatePart(r)
      BY <1>1, <3>1 DEF SkipPart, TakePart, CreatePart, Go, RunRecord, Pc
    <3>2. CASE WritePart(r) \/ EndExtract(r)
      BY <1>1, <3>2 DEF WritePart, EndExtract, Go, RunRecord, Pc
    <3>3. CASE RejectPart(r)
      BY <1>1, <3>3, NoRunFacts DEF RejectPart
    <3>4. QED BY <1>4, <3>1, <3>2, <3>3 DEF Extract
  <2>2. QED BY <1>1, <2>1 DEF Indexing, Box
<1>5. CASE Start(r) \/ Import(r) \/ CutRsync(r) \/ Stop(r)
  <2>1. run'[r].pc \in {"idle", "next"}
    <3>1. CASE Start(r)
      BY <1>1, <3>1 DEF Start, NoRun
    <3>2. CASE Import(r)
      BY <1>1, <3>2 DEF Import, Go, RunRecord
    <3>3. CASE CutRsync(r) \/ Stop(r)
      BY <1>1, <3>3, NoRunFacts DEF CutRsync, Stop
    <3>4. QED BY <1>5, <3>1, <3>2, <3>3
  <2>2. QED BY <2>1
<1>6. CASE DuplicateColumn(r) \/ SkipBox(r)
  <2>1. run'[r] = AfterError(r)
    BY <1>1, <1>6 DEF DuplicateColumn, SkipBox
  <2>2. QED BY <2>1 DEF AfterError, NoRun
<1>7. QED BY <1>2, <1>3, <1>4, <1>5, <1>6 DEF Outside

LEMMA IndexingStep ==
    ASSUME IndexInv, NEW r \in Runs, Acts(r)
    PROVE  \A q \in Runs : Indexing(q)'
<1>1. /\ rows \in [DBs -> [emails : SUBSET Mails, atts : SUBSET (Mails \X Attachments)]]
      /\ run \in [Runs -> RunRecord] /\ run[r] \in RunRecord
      /\ \A q \in Runs : Placed(q) /\ Indexing(q)
      /\ RunInv
  BY DEF IndexInv, RunInv, TypeOK
<1>2. \A q \in Runs \ {r} : run'[q] = run[q]
  BY <1>1, OwnRecord
<1>3. /\ \A b : InBox(maildir, b) \subseteq InBox(maildir', b)
      /\ \A S : \A d \in DBs : Has(d, S) => Has(d, S)'
  BY <1>1, Grows, InBoxGrows DEF Has, PartRows
<1>4. \A q \in Runs \ {r} : Indexing(q)'
  <2> SUFFICES ASSUME NEW q \in Runs \ {r} PROVE Indexing(q)'
    OBVIOUS
  <2>1. /\ run'[q] = run[q] /\ Indexing(q)
        /\ Pc(q) \in {"commit_global", "import"} => Box(q) \in DBs
        /\ Global \in DBs
    BY <1>1, <1>2, NoRunFacts DEF Placed
  <2>2. QED
    BY ONLY <1>3, <2>1 DEF Indexing, Inserting, Pc, Box, Has, PartRows
<1>5. Indexing(r)'
  <2>1. CASE Outside(r)
    <3>1. run'[r].pc \in {"idle", "next", "rsync", "extract", "create", "write", "open"}
      BY <1>1, <2>1, OutsideStep
    <3>2. run'[r].pc \notin {"idle", "next"} =>
            run'[r].seen \subseteq InBox(maildir', run'[r].box)
      BY <2>1, SeenStep
    <3>3. QED BY <3>1, <3>2 DEF Indexing, Inserting, Pc, Box
  <2>2. CASE OpenIndex(r) \/ AddColumn(r)
    <3>1. /\ run'[r].pc = "migrate" /\ run'[r].box = run[r].box
          /\ run'[r].seen = run[r].seen /\ maildir' = maildir
          /\ Pc(r) \in {"open", "migrate"}
      BY <1>1, <2>2 DEF OpenIndex, AddColumn, RunRecord, Pc
    <3>2. QED BY <1>1, <3>1 DEF Indexing, Inserting, Pc, Box
  <2>3. CASE StampVersion(r)
    <3>1. /\ \/ run'[r].pc = "open"
             \/ run'[r].pc = "insert" /\ run'[r].mails = InBox(maildir, Box(r))
          /\ run'[r].box = Box(r) /\ run'[r].seen = run[r].seen
          /\ maildir' = maildir /\ Pc(r) = "migrate"
      BY <1>1, <2>3 DEF StampVersion, RunRecord, Box
    <3>2. QED BY <1>1, <3>1 DEF Indexing, Inserting, Pc, Box
  <2>4. CASE Insert(r)
    <3>1. /\ run'[r].pc \in {"insert_global", "commit"} /\ run'[r].box = run[r].box
          /\ run'[r].seen = run[r].seen /\ run'[r].mails = run[r].mails
          /\ maildir' = maildir /\ Pc(r) \in {"insert", "insert_global"}
      BY <1>1, <2>4 DEF Insert, Go, RunRecord
    <3>2. QED BY <1>1, <3>1 DEF Indexing, Inserting, Pc, Box
  <2>5. CASE Commit(r)
    <3>1. /\ run'[r].box = run[r].box /\ run'[r].seen = run[r].seen
          /\ run'[r].mails = run[r].mails /\ maildir' = maildir
          /\ Pc(r) = "commit" /\ rows' = Upserted(Box(r), r)
      BY <1>1, <2>5 DEF Commit, Go, RunRecord
    <3>2. run'[r].pc \in {"commit_global", "next"}
      BY <1>1, <2>5 DEF Commit, Go, AfterIndex, UsesGlobal, Syncs, RunRecord
    <3>3. Box(r) \in DBs
      BY <1>1, <3>1, NoRunFacts DEF Placed
    <3>4. Has(Box(r), run[r].mails)'
      <4>1. Box(r)' = Box(r) /\ run'[r].mails = run[r].mails
        BY <3>1 DEF Box
      <4>2. QED BY <1>1, <3>1, <3>3, <4>1 DEF Has, Upserted, PartRows
    <3>5. QED BY <1>1, <3>1, <3>2, <3>4 DEF Indexing, Inserting, Pc, Box
  <2>6. CASE CommitGlobal(r)
    <3>1. /\ run'[r].box = run[r].box /\ run'[r].seen = run[r].seen
          /\ run'[r].mails = run[r].mails /\ maildir' = maildir
          /\ run'[r].pc \in {"import", "next"}
          /\ Pc(r) = "commit_global" /\ rows' = Upserted(Global, r)
      BY <1>1, <2>6 DEF CommitGlobal, Go, AfterIndex, RunRecord
    <3>2. Box(r) \in DBs /\ Global \in DBs
      BY <1>1, <3>1, NoRunFacts DEF Placed
    <3>3. Has(Global, run[r].mails)'
      BY <1>1, <3>1, <3>2 DEF Has, Upserted, PartRows
    <3>4. Has(Box(r), run[r].mails)'
      <4>1. Has(Box(r), run[r].mails)
        BY <1>1, <3>1 DEF Indexing
      <4>2. Box(r)' = Box(r) /\ run'[r].mails = run[r].mails
        BY <3>1 DEF Box
      <4>3. QED BY <1>3, <3>2, <4>1, <4>2 DEF Has, PartRows
    <3>5. QED BY <1>1, <3>1, <3>3, <3>4 DEF Indexing, Inserting, Pc, Box
  <2>7. QED
    BY <2>1, <2>2, <2>3, <2>4, <2>5, <2>6 DEF Acts, Outside, Step, Index, InitDb
<1>6. QED BY <1>4, <1>5

LEMMA GlobalStep ==
    ASSUME IndexInv, NEW r \in Runs, Acts(r)
    PROVE  GlobalWithinLocal'
<1>1. /\ rows \in [DBs -> [emails : SUBSET Mails, atts : SUBSET (Mails \X Attachments)]]
      /\ Placed(r) /\ Indexing(r) /\ RunInv /\ GlobalWithinLocal
      /\ Mailboxes \subseteq DBs /\ Global \in DBs
  BY NoRunFacts DEF IndexInv, RunInv, TypeOK
<1>2. SUFFICES ASSUME NEW b \in Mailboxes
      PROVE  /\ \A m \in rows'[Global].emails : BoxOf[m] = b => m \in rows'[b].emails
             /\ \A ma \in rows'[Global].atts : BoxOf[ma[1]] = b => ma \in rows'[b].atts
  BY DEF GlobalWithinLocal, InBox
<1>3. /\ \A m \in rows[Global].emails : BoxOf[m] = b => m \in rows[b].emails
      /\ \A ma \in rows[Global].atts : BoxOf[ma[1]] = b => ma \in rows[b].atts
  BY <1>1 DEF GlobalWithinLocal, InBox
<1>4. CASE CommitGlobal(r)
  <2>1. /\ rows' = Upserted(Global, r) /\ Pc(r) = "commit_global"
        /\ b # Global /\ Box(r) \in Mailboxes
    BY <1>1, <1>4, StoreAssumption DEF CommitGlobal, Placed
  <2>2. /\ rows'[b] = rows[b]
        /\ rows'[Global].emails = rows[Global].emails \cup run[r].mails
        /\ rows'[Global].atts = rows[Global].atts \cup PartRows(run[r].mails)
    BY <1>1, <2>1 DEF Upserted
  <2>3. /\ \A m \in run[r].mails : BoxOf[m] = Box(r)
        /\ \A ma \in PartRows(run[r].mails) : BoxOf[ma[1]] = Box(r)
    <3>1. run[r].mails \subseteq InBox(maildir, Box(r))
      BY <1>1, <2>1 DEF Indexing, Inserting
    <3>2. \A m \in run[r].mails : BoxOf[m] = Box(r)
      BY <3>1 DEF InBox
    <3>3. \A ma \in PartRows(run[r].mails) : ma[1] \in run[r].mails
      BY DEF PartRows
    <3>4. QED BY <3>2, <3>3
  <2>4. Has(Box(r), run[r].mails)
    BY <1>1, <2>1 DEF Indexing
  <2>5. CASE b = Box(r)
    BY <1>3, <2>2, <2>4, <2>5 DEF Has
  <2>6. CASE b # Box(r)
    BY <1>3, <2>2, <2>3, <2>6
  <2>7. QED BY <2>5, <2>6
<1>5. CASE ~CommitGlobal(r)
  <2>1. rows' = rows \/ (rows' = Upserted(Box(r), r) /\ Box(r) # Global)
    <3>1. CASE Commit(r)
      <4>1. Box(r) \in Mailboxes /\ rows' = Upserted(Box(r), r)
        BY <1>1, <3>1 DEF Commit, Placed
      <4>2. QED BY ONLY <4>1, StoreAssumption
    <3>2. CASE ~Commit(r)
      BY <1>5, <3>2 DEF Acts, Step, Extract, Index, InitDb, Start, NextBox, Rsync,
        RsyncFrom, SkipPart, RejectPart, TakePart, CreatePart, WritePart, EndExtract,
        OpenIndex, AddColumn, DuplicateColumn, StampVersion, Insert, Import,
        CutRsync, Stop, SkipBox, data
    <3>3. QED BY <3>1, <3>2
  <2>2. rows'[Global] = rows[Global]
    BY <1>1, <2>1 DEF Upserted
  <2>3. rows[b].emails \subseteq rows'[b].emails /\ rows[b].atts \subseteq rows'[b].atts
    BY <1>1, Grows
  <2>4. QED BY <1>3, <2>2, <2>3
<1>6. QED BY <1>4, <1>5

LEMMA IndexInvStep == IndexInv /\ [Next]_vars => IndexInv'
<1> SUFFICES ASSUME IndexInv, [Next]_vars PROVE IndexInv'
  OBVIOUS
<1>1. RunInv'
  BY RunInvStep DEF IndexInv
<1>2. CASE \E r \in Runs : Acts(r)
  BY <1>1, <1>2, IndexingStep, GlobalStep DEF IndexInv
<1>3. CASE Deliver \/ Remove \/ VerifyArchive \/ UNCHANGED vars
  <2>1. UNCHANGED <<run, rows, maildir>>
    BY <1>3, AroundStep DEF IndexInv, data
  <2>2. GlobalWithinLocal'
    BY <2>1 DEF IndexInv, GlobalWithinLocal
  <2>3. \A r \in Runs : Indexing(r)'
    BY <2>1 DEF IndexInv, Indexing, Inserting, Has, Pc, Box
  <2>4. QED BY <1>1, <2>2, <2>3 DEF IndexInv
<1>4. QED BY <1>2, <1>3 DEF Next, Acts

LEMMA IndexInvAlways == Spec => []IndexInv
<1>1. QED BY InitIndexInv, IndexInvStep, PTL DEF Spec

\* index_mailbox commits the mailbox's index first and the global one second:
\* whatever stops in between and whatever runs beside, the global index holds
\* no mail and no attachment of a mailbox that its own index lacks.
THEOREM GlobalAlwaysWithin == Spec => []GlobalWithinLocal
<1>1. IndexInv => GlobalWithinLocal
  BY DEF IndexInv
<1>2. QED BY <1>1, IndexInvAlways, PTL

\* When sync-all has done a mailbox, all that the server had when it was copied
\* is in both indexes, also when other commands index the mailbox meanwhile.
THEOREM SyncedAlways == Spec => []SyncedIsArchived
<1>1. IndexInv => SyncedIsArchived
  <2> SUFFICES ASSUME IndexInv, NEW r \in Runs, Pc(r) = "import",
                      NEW d \in {Box(r), Global}
               PROVE  Has(d, run[r].seen)
    BY DEF SyncedIsArchived, Has
  <2>1. Has(d, run[r].mails) /\ run[r].seen \subseteq run[r].mails
    BY DEF IndexInv, Indexing
  <2>2. QED BY <2>1, InBoxGrows DEF Has
<1>2. QED BY <1>1, IndexInvAlways, PTL

-----------------------------------------------------------------------------
(* Extractions side by side.                                               *)

\* While nothing has stopped, a file that is cut short is being written by an
\* extraction under which no other one has emptied it since.
TransitInv ==
    /\ RunInv
    /\ \A q \in torn : Pc(q) = "write"
    /\ stops = 0 => \A f \in Files : files[f] = "damaged" =>
                      \E q \in Runs \ torn : Writing(q, f)

LEMMA TransitStep ==
    ASSUME TransitInv, NEW r \in Runs, Acts(r)
    PROVE  TransitInv'
<1>1. /\ run \in [Runs -> RunRecord] /\ run[r] \in RunRecord
      /\ files \in [Files -> {"absent", "damaged", "complete"}]
      /\ torn \in SUBSET Runs /\ RunInv /\ stops \in 0..MaxStops
  BY DEF TransitInv, RunInv, TypeOK
<1>2. RunInv' /\ \A q \in Runs \ {r} : run'[q] = run[q]
  BY <1>1, ActsTypeOK, PlacedStep, OwnRecord DEF RunInv
<1>3. CASE CreatePart(r)
  <2> DEFINE f == File(r, run[r].part)
  <2>1. /\ files' = [files EXCEPT ![f] = "damaged"] /\ stops' = stops
        /\ torn' = torn \cup {q \in Runs \ {r} : Writing(q, f)}
        /\ run'[r].pc = "write" /\ run'[r].box = run[r].box
        /\ run'[r].part = run[r].part /\ r \notin torn
    BY <1>1, <1>3 DEF CreatePart, Go, RunRecord, TransitInv, Pc
  <2>2. \A q \in torn' : run'[q].pc = "write"
    BY <1>1, <1>2, <2>1 DEF TransitInv, Writing, Pc
  <2>3. ASSUME stops = 0, NEW g \in Files, files'[g] = "damaged"
        PROVE  \E q \in Runs \ torn' : Writing(q, g)'
    <3>1. CASE g = f
      BY <2>1, <3>1 DEF Writing, File, Pc, Box
    <3>2. CASE g # f
      <4>1. PICK q \in Runs \ torn : Writing(q, g)
        BY <1>1, <2>1, <2>3, <3>2 DEF TransitInv
      <4>2. q # r /\ q \notin torn'
        BY <1>3, <2>1, <3>2, <4>1 DEF Writing, CreatePart
      <4>3. QED BY <1>2, <4>1, <4>2 DEF Writing, File, Pc, Box
    <3>3. QED BY <3>1, <3>2
  <2>4. QED BY <1>2, <2>1, <2>2, <2>3 DEF TransitInv, Pc
<1>4. CASE WritePart(r)
  <2> DEFINE f == File(r, run[r].part)
  <2>1. PICK c \in Filled(r, f) : files' = [files EXCEPT ![f] = c]
    BY <1>4 DEF WritePart
  <2>2. torn' = torn \ {r} /\ stops' = stops /\ Writing(r, f)
    BY <1>4 DEF WritePart, Writing
  <2>3. \A q \in torn' : run'[q].pc = "write"
    BY <1>1, <1>2, <2>2 DEF TransitInv, Pc
  <2>4. ASSUME stops = 0, NEW g \in Files, files'[g] = "damaged"
        PROVE  \E q \in Runs \ torn' : Writing(q, g)'
    <3>1. files[g] = "damaged" /\ (g = f => r \in torn)
      <4>1. CASE g = f
        BY <1>1, <2>1, <2>4, <4>1 DEF Filled
      <4>2. CASE g # f
        BY <1>1, <2>1, <2>4, <4>2
      <4>3. QED BY <4>1, <4>2
    <3>2. PICK q \in Runs \ torn : Writing(q, g)
      BY <2>4, <3>1 DEF TransitInv
    <3>3. q # r
      BY <2>2, <3>1, <3>2 DEF Writing
    <3>4. QED BY <1>2, <2>2, <3>2, <3>3 DEF Writing, File, Pc, Box
  <2>5. QED BY <1>2, <2>2, <2>3, <2>4 DEF TransitInv, Pc
<1>5. CASE CutRsync(r) \/ Stop(r) \/ SkipBox(r)
  <2>1. stops' # 0
    <3>1. stops' = stops + 1
      BY <1>5 DEF CutRsync, Stop, SkipBox
    <3>2. QED BY ONLY <1>1, <3>1, StopsBound
  <2>2. torn' \subseteq torn /\ r \notin torn'
    BY <1>1, <1>5 DEF CutRsync, Stop, SkipBox, TransitInv
  <2>3. QED BY <1>1, <1>2, <2>1, <2>2 DEF TransitInv, Pc
<1>6. CASE ~(CreatePart(r) \/ WritePart(r) \/ CutRsync(r) \/ Stop(r) \/ SkipBox(r))
  <2>1. files' = files /\ torn' = torn /\ stops' = stops /\ Pc(r) # "write"
    BY <1>6 DEF Acts, Step, Extract, Index, InitDb, Start, NextBox, Rsync, RsyncFrom,
      SkipPart, RejectPart, TakePart, EndExtract, OpenIndex, AddColumn,
      DuplicateColumn, StampVersion, Insert, Commit, CommitGlobal, Import, data, hist
  <2>2. \A q \in Runs : Pc(q) = "write" => q # r /\ run'[q] = run[q]
    BY <1>2, <2>1
  <2>3. \A q \in torn' : run'[q].pc = "write"
    BY <1>1, <2>1, <2>2 DEF TransitInv, Pc
  <2>4. ASSUME stops = 0, NEW g \in Files, files[g] = "damaged"
        PROVE  \E q \in Runs \ torn : Writing(q, g)'
    BY <2>2, <2>4 DEF TransitInv, Writing, File, Pc, Box
  <2>5. QED BY <1>2, <2>1, <2>3, <2>4 DEF TransitInv, Pc
<1>7. QED BY <1>3, <1>4, <1>5, <1>6

\* Any number of extractions of one mailbox may find a file missing and empty it
\* under each other (extract_attachments.py:258 and :270): unless a command
\* stops, the last one to open it fills it, and none is left cut short.
THEOREM DamagedAlwaysInTransit == Spec => []DamagedInTransit
<1>1. Init => TransitInv
  <2>1. Init => torn = {} /\ \A f \in Files : files[f] = "absent"
    BY DEF Init
  <2>2. QED BY <2>1, InitRunInv DEF TransitInv
<1>2. TransitInv /\ [Next]_vars => TransitInv'
  <2> SUFFICES ASSUME TransitInv, [Next]_vars PROVE TransitInv'
    OBVIOUS
  <2>1. CASE Deliver \/ Remove \/ VerifyArchive \/ UNCHANGED vars
    <3>1. RunInv' /\ UNCHANGED <<run, files>>
      BY <2>1, AroundStep DEF TransitInv, data
    <3>2. UNCHANGED <<torn, stops>>
      BY <2>1 DEF Deliver, Remove, VerifyArchive, hist, vars
    <3>3. QED BY <3>1, <3>2 DEF TransitInv, Writing, File, Pc, Box
  <2>2. CASE \E r \in Runs : Acts(r)
    BY <2>2, TransitStep
  <2>3. QED BY <2>1, <2>2 DEF Next, Acts
<1>3. TransitInv => DamagedInTransit
  <2> SUFFICES ASSUME TransitInv, NEW f \in Files, files[f] = "damaged"
               PROVE  stops > 0 \/ \E q \in Runs : Writing(q, f)
    BY DEF DamagedInTransit
  <2>1. stops \in 0..MaxStops
    BY DEF TransitInv, RunInv, TypeOK
  <2>2. stops = 0 \/ stops > 0
    BY ONLY <2>1, StopsBound
  <2>3. QED BY <2>2 DEF TransitInv
<1>4. QED BY <1>1, <1>2, <1>3, PTL DEF Spec

-----------------------------------------------------------------------------
(* One command at a time: rows and files.                                  *)

Complete(b, a) == files[<<b, a>>] = "complete"

\* All that a mailbox's mails have attached is on disk.
Extracted(b) == \A a \in PartNames(InBox(maildir, b)) : Complete(b, a)

\* The parts of the mailbox's mails are on disk, but for those still to do; a
\* file that is about to be written is not there. A mailbox that is indexed
\* without that is bare.
Extracting(r) ==
    /\ Pc(r) = "rsync" /\ ~Extracts(r) => Box(r) \in bare
    /\ Pc(r) \in {"extract", "create", "write"} =>
         \A a \in PartNames(InBox(maildir, Box(r))) : a \in run[r].todo \/ Complete(Box(r), a)
    /\ Pc(r) = "create" => ~Complete(Box(r), run[r].part)
    /\ Pc(r) \in {"open", "migrate"} \/ Inserting(r) =>
         Box(r) \in bare \/ Extracted(Box(r))

\* Only mails that were copied are indexed.
Copied == \A d \in DBs : rows[d].atts \subseteq PartRows(maildir)

BackedInv ==
    IndexInv /\ Copied /\ RowsBacked /\ torn = {} /\ \A r \in Runs : Extracting(r)

LEMMA InitBackedInv == Init => BackedInv
<1> SUFFICES ASSUME Init PROVE BackedInv
  OBVIOUS
<1>1. \A r \in Runs : run[r].pc = "idle"
  BY NoRunFacts DEF Init
<1>2. \A r \in Runs : Extracting(r)
  BY <1>1 DEF Extracting, Inserting, Pc
<1>3. RowsBacked /\ Copied /\ torn = {}
  BY DEF Init, RowsBacked, Copied
<1>4. QED BY <1>2, <1>3, InitIndexInv DEF BackedInv

\* With one command at a time a whole attachment stays whole.
LEMMA FilesStep ==
    ASSUME RunInv, NEW r \in Runs, Acts(r), Extracting(r)
    PROVE  \A f \in Files : files[f] = "complete" => files'[f] = "complete"
<1>1. files \in [Files -> {"absent", "damaged", "complete"}]
  BY DEF RunInv, TypeOK
<1>2. CASE CreatePart(r)
  BY <1>1, <1>2 DEF CreatePart, Extracting, Complete, File
<1>3. CASE WritePart(r)
  BY <1>1, <1>3 DEF WritePart, Filled
<1>4. CASE ~(CreatePart(r) \/ WritePart(r))
  BY <1>4 DEF Acts, Step, Extract, Index, InitDb, Start, NextBox, Rsync,
    RsyncFrom, SkipPart, RejectPart, TakePart, EndExtract, OpenIndex, AddColumn,
    DuplicateColumn, StampVersion, Insert, Commit, CommitGlobal, Import,
    CutRsync, Stop, SkipBox, data
<1>5. QED BY <1>2, <1>3, <1>4

LEMMA NamesAreFiles ==
    ASSUME RunInv, NEW b \in Mailboxes
    PROVE  \A S \in SUBSET Mails : \A a \in PartNames(InBox(S, b)) :
              a \in Attachments /\ <<b, a>> \in Files
BY InBoxType, StoreAssumption DEF Files, PartNames, InBox

LEMMA ExtractingStep ==
    ASSUME BackedInv, NEW r \in Runs, Acts(r)
    PROVE  Extracting(r)'
<1>1. /\ run \in [Runs -> RunRecord] /\ run[r] \in RunRecord
      /\ files \in [Files -> {"absent", "damaged", "complete"}]
      /\ Placed(r) /\ Extracting(r) /\ RunInv
      /\ maildir \in SUBSET Mails
  BY DEF BackedInv, IndexInv, RunInv, TypeOK
<1>2. \A f \in Files : files[f] = "complete" => files'[f] = "complete"
  BY <1>1, FilesStep
<1>3. CASE NextBox(r)
  <2>1. CASE run[r].boxes = {}
    BY <1>1, <1>3, <2>1, NoRunFacts DEF NextBox, Extracting, Inserting, Pc
  <2>2. CASE run[r].boxes # {}
    <3>1. PICK b :
            /\ run' = [run EXCEPT ![r] =
                        [NoRun EXCEPT !.cmd = run[r].cmd, !.box = b, !.db = b,
                                      !.boxes = run[r].boxes \ {b},
                                      !.pc = IF Syncs(r) THEN "rsync" ELSE "open"]]
            /\ bare' = IF Extracts(r) THEN bare ELSE bare \cup {b}
      BY <1>3, <2>2 DEF NextBox
    <3>2. /\ run'[r].pc = IF Syncs(r) THEN "rsync" ELSE "open"
          /\ run'[r].cmd = run[r].cmd /\ run'[r].box = b
      BY <1>1, <3>1 DEF NoRun
    <3>3. Extracts(r) => Syncs(r)
      BY DEF Extracts, Syncs
    <3>4. QED BY <3>1, <3>2, <3>3 DEF Extracting, Extracts, Inserting, Pc, Box
  <2>3. QED BY <2>1, <2>2
<1>4. CASE Rsync(r)
  <2>1. /\ run'[r].pc = IF Extracts(r) THEN "extract" ELSE "open"
        /\ run'[r].box = run[r].box /\ bare' = bare /\ Pc(r) = "rsync"
        /\ run'[r].todo = PartNames(InBox(maildir', Box(r)))
    BY <1>1, <1>4 DEF Rsync, RsyncFrom, RunRecord, hist
  <2>2. QED BY <1>1, <2>1 DEF Extracting, Inserting, Pc, Box
<1>5. CASE SkipPart(r) \/ TakePart(r) \/ CreatePart(r) \/ WritePart(r)
  <2>1. /\ Pc(r) \in {"extract", "create", "write"} /\ maildir' = maildir
        /\ run'[r].pc \in {"extract", "create", "write"}
        /\ run'[r].box = run[r].box
    BY <1>1, <1>5 DEF SkipPart, TakePart, CreatePart, WritePart, Go, RunRecord, Pc
  <2>2. \A a \in run[r].todo : a \in run'[r].todo \/ files'[<<Box(r), a>>] = "complete"
    <3>1. CASE SkipPart(r)
      <4>1. PICK a \in run[r].todo : /\ files[<<Box(r), a>>] = "complete"
                                     /\ run'[r].todo = run[r].todo \ {a}
        BY <1>1, <3>1 DEF SkipPart, SameContent, File, RunRecord
      <4>2. files' = files
        BY <3>1 DEF SkipPart, data
      <4>3. QED BY <4>1, <4>2
    <3>2. CASE TakePart(r) \/ CreatePart(r)
      BY <1>1, <3>2 DEF TakePart, CreatePart, Go, RunRecord
    <3>3. CASE WritePart(r)
      <4>1. File(r, run[r].part) \in Files
        BY <1>1, <3>3 DEF WritePart, Placed, File, Files
      <4>2. /\ files' = [files EXCEPT ![File(r, run[r].part)] = "complete"]
            /\ run'[r].todo = run[r].todo \ {run[r].part}
        BY <1>1, <3>3 DEF WritePart, Filled, RunRecord, BackedInv
      <4>3. QED BY <1>1, <4>1, <4>2 DEF File
    <3>4. QED BY <1>5, <3>1, <3>2, <3>3
  <2>3. \A a \in PartNames(InBox(maildir, Box(r))) :
          a \in run'[r].todo \/ files'[<<Box(r), a>>] = "complete"
    <3>1. \A a \in PartNames(InBox(maildir, Box(r))) :
            a \in run[r].todo \/ files[<<Box(r), a>>] = "complete"
      BY <1>1, <2>1 DEF Extracting, Complete
    <3>2. Box(r) \in Mailboxes
      BY <1>1, <2>1 DEF Placed
    <3>3. QED BY <1>1, <1>2, <2>2, <3>1, <3>2, NamesAreFiles
  <2>4. run'[r].pc = "create" => files'[<<Box(r), run'[r].part>>] # "complete"
    <3>1. CASE TakePart(r)
      BY <1>1, <3>1 DEF TakePart, RunRecord, File, data
    <3>2. CASE SkipPart(r) \/ CreatePart(r) \/ WritePart(r)
      BY <1>1, <3>2 DEF SkipPart, CreatePart, WritePart, Go, RunRecord, Pc
    <3>3. QED BY <1>5, <3>1, <3>2
  <2>5. QED BY <1>1, <2>1, <2>3, <2>4 DEF Extracting, Inserting, Complete, Pc, Box
<1>6. CASE EndExtract(r)
  <2>1. /\ Pc(r) = "extract" /\ run[r].todo = {} /\ maildir' = maildir /\ files' = files
        /\ run'[r].pc = "open" /\ run'[r].box = run[r].box
    BY <1>1, <1>6 DEF EndExtract, Go, RunRecord, data
  <2>2. QED
    BY <1>1, <2>1 DEF Extracting, Extracted, Inserting, Complete, Pc, Box
<1>7. CASE \/ OpenIndex(r) \/ AddColumn(r) \/ StampVersion(r)
           \/ Insert(r) \/ Commit(r) \/ CommitGlobal(r)
  <2>1. /\ Pc(r) \in {"open", "migrate"} \/ Inserting(r)
        /\ maildir' = maildir /\ files' = files /\ bare' = bare
    BY <1>7 DEF OpenIndex, AddColumn, StampVersion, Insert, Commit,
      CommitGlobal, Inserting, data, hist
  <2>2. /\ run'[r].box = run[r].box
        /\ run'[r].pc \notin {"rsync", "extract", "create", "write"}
    <3>1. CASE OpenIndex(r) \/ AddColumn(r) \/ StampVersion(r)
      BY <1>1, <3>1 DEF OpenIndex, AddColumn, StampVersion, RunRecord, Pc
    <3>2. CASE Insert(r) \/ Commit(r) \/ CommitGlobal(r)
      BY <1>1, <3>2 DEF Insert, Commit, CommitGlobal, Go, AfterIndex, RunRecord
    <3>3. QED BY <1>7, <3>1, <3>2
  <2>3. QED BY <1>1, <2>1, <2>2 DEF Extracting, Extracted, Inserting, Complete, Pc, Box
<1>8. CASE \/ Start(r) \/ Import(r) \/ RejectPart(r) \/ CutRsync(r) \/ Stop(r)
           \/ DuplicateColumn(r) \/ SkipBox(r)
  <2>1. run'[r].pc \in {"idle", "next"}
    <3>1. CASE Start(r)
      BY <1>1, <3>1 DEF Start, NoRun
    <3>2. CASE Import(r)
      BY <1>1, <3>2 DEF Import, Go, RunRecord
    <3>3. CASE RejectPart(r) \/ CutRsync(r) \/ Stop(r)
      BY <1>1, <3>3, NoRunFacts DEF RejectPart, CutRsync, Stop
    <3>4. CASE DuplicateColumn(r) \/ SkipBox(r)
      <4>1. run'[r] = AfterError(r)
        BY <1>1, <3>4 DEF DuplicateColumn, SkipBox
      <4>2. AfterError(r).pc \in {"idle", "next"}
        BY DEF AfterError, NoRun
      <4>3. QED BY <4>1, <4>2
    <3>5. QED BY <1>8, <3>1, <3>2, <3>3, <3>4
  <2>2. QED BY <2>1 DEF Extracting, Inserting, Pc
<1>9. QED
  BY <1>3, <1>4, <1>5, <1>6, <1>7, <1>8
  DEF Acts, Step, Extract, Index, InitDb

LEMMA CopiedStep ==
    ASSUME BackedInv, NEW r \in Runs, Acts(r)
    PROVE  Copied'
<1>1. /\ rows \in [DBs -> [emails : SUBSET Mails, atts : SUBSET (Mails \X Attachments)]]
      /\ RunInv /\ Copied /\ Indexing(r)
  BY DEF BackedInv, IndexInv, RunInv, TypeOK
<1>2. PartRows(maildir) \subseteq PartRows(maildir')
  BY <1>1, Grows, InBoxGrows
<1>3. CASE Commit(r) \/ CommitGlobal(r)
  <2>1. /\ Inserting(r)
        /\ rows' = Upserted(Box(r), r) \/ rows' = Upserted(Global, r)
    BY <1>3 DEF Commit, CommitGlobal, Inserting
  <2>2. run[r].mails \subseteq maildir
    BY <1>1, <1>3 DEF Indexing, Inserting, InBox, Commit, CommitGlobal
  <2>3. PartRows(run[r].mails) \subseteq PartRows(maildir)
    BY <2>2, InBoxGrows
  <2>4. \A d \in DBs : rows'[d].atts \subseteq rows[d].atts \cup PartRows(run[r].mails)
    BY <1>1, <2>1 DEF Upserted
  <2>5. QED BY <1>1, <1>2, <2>3, <2>4 DEF Copied
<1>4. CASE ~(Commit(r) \/ CommitGlobal(r))
  <2>1. rows' = rows
    BY <1>4 DEF Acts, Step, Extract, Index, InitDb, Start, NextBox, Rsync,
      RsyncFrom, SkipPart, RejectPart, TakePart, CreatePart, WritePart, EndExtract,
      OpenIndex, AddColumn, DuplicateColumn, StampVersion, Insert, Import,
      CutRsync, Stop, SkipBox, data
  <2>2. QED BY <1>1, <1>2, <2>1 DEF Copied
<1>5. QED BY <1>3, <1>4

\* A mailbox is no longer bare when all its files have been extracted.
LEMMA BareStep ==
    ASSUME BackedInv, NEW r \in Runs, Acts(r), NEW b \in bare, b \notin bare'
    PROVE  Extracted(b) /\ UNCHANGED <<files, rows>>
<1>1. EndExtract(r)
  <2>1. CASE NextBox(r)
    BY <2>1 DEF NextBox
  <2>2. CASE ~(NextBox(r) \/ EndExtract(r))
    BY <2>2 DEF Acts, Step, Extract, Index, InitDb, Start, Rsync, RsyncFrom,
      SkipPart, RejectPart, TakePart, CreatePart, WritePart, OpenIndex, AddColumn,
      DuplicateColumn, StampVersion, Insert, Commit, CommitGlobal, Import,
      CutRsync, Stop, SkipBox, hist
  <2>3. QED BY <2>1, <2>2
<1>2. b = Box(r) /\ UNCHANGED <<files, rows>> /\ Pc(r) = "extract" /\ run[r].todo = {}
  BY <1>1 DEF EndExtract, data
<1>3. QED BY <1>2 DEF BackedInv, Extracting, Extracted

LEMMA BackedStep ==
    ASSUME BackedInv, NEW r \in Runs, Acts(r)
    PROVE  RowsBacked'
<1>1. /\ rows \in [DBs -> [emails : SUBSET Mails, atts : SUBSET (Mails \X Attachments)]]
      /\ RunInv /\ RowsBacked /\ Copied /\ Extracting(r) /\ Indexing(r) /\ Placed(r)
      /\ Mailboxes \subseteq DBs /\ Global \in DBs
  BY NoRunFacts DEF BackedInv, IndexInv, RunInv, TypeOK
<1>2. \A f \in Files : files[f] = "complete" => files'[f] = "complete"
  BY <1>1, FilesStep
<1>3. SUFFICES ASSUME NEW d \in DBs, NEW ma \in rows'[d].atts, BoxOf[ma[1]] \notin bare'
      PROVE  files'[<<BoxOf[ma[1]], ma[2]>>] = "complete"
  BY DEF RowsBacked
<1>4. CASE ma \in rows[d].atts
  <2>1. ma[1] \in Mails /\ ma[2] \in Attachments /\ ma \in PartRows(maildir)
    BY <1>1, <1>4 DEF Copied
  <2>2. <<BoxOf[ma[1]], ma[2]>> \in Files
    BY <2>1, StoreAssumption DEF Files
  <2>3. CASE BoxOf[ma[1]] \in bare
    <3>1. Extracted(BoxOf[ma[1]]) /\ files' = files
      BY <1>3, <2>3, BareStep
    <3>2. ma[2] \in PartNames(InBox(maildir, BoxOf[ma[1]]))
      BY <2>1 DEF PartRows, PartNames, InBox
    <3>3. QED BY <3>1, <3>2 DEF Extracted, Complete
  <2>4. CASE BoxOf[ma[1]] \notin bare
    BY <1>1, <1>2, <1>4, <2>2, <2>4 DEF RowsBacked
  <2>5. QED BY <2>3, <2>4
<1>5. CASE ma \notin rows[d].atts
  <2>1. Commit(r) \/ CommitGlobal(r)
    <3> SUFFICES ASSUME ~(Commit(r) \/ CommitGlobal(r)) PROVE FALSE
      OBVIOUS
    <3>1. rows' = rows
      BY DEF Acts, Step, Extract, Index, InitDb, Start, NextBox, Rsync,
        RsyncFrom, SkipPart, RejectPart, TakePart, CreatePart, WritePart, EndExtract,
        OpenIndex, AddColumn, DuplicateColumn, StampVersion, Insert, Import,
        CutRsync, Stop, SkipBox, data
    <3>2. QED BY <1>3, <1>5, <3>1
  <2>2. /\ Inserting(r) /\ files' = files /\ bare' = bare
        /\ rows' = Upserted(Box(r), r) \/ rows' = Upserted(Global, r)
    BY <2>1 DEF Commit, CommitGlobal, Inserting, hist
  <2>3. ma \in PartRows(run[r].mails)
    BY <1>1, <1>3, <1>5, <2>2 DEF Upserted
  <2>4. ma[1] \in InBox(maildir, Box(r)) /\ ma[2] \in PartsOf[ma[1]]
    BY <1>1, <2>2, <2>3 DEF Indexing, PartRows
  <2>5. BoxOf[ma[1]] = Box(r) /\ ma[2] \in PartNames(InBox(maildir, Box(r)))
    BY <2>4 DEF InBox, PartNames
  <2>6. QED BY <1>1, <1>3, <2>2, <2>5 DEF Extracting, Extracted, Complete
<1>6. QED BY <1>4, <1>5

\* Where one command runs at a time, every attachment row of an index has its
\* file, whole, but for the mailboxes indexed without an extraction since:
\* extract_attachments has written the files of all mails that are in an index,
\* those that other commands indexed before included, and a stop while writing
\* one keeps the mailbox from being indexed.
THEOREM RowsAlwaysBacked ==
    ASSUME NEW one, Runs = {one}
    PROVE  Spec => []RowsBacked
<1>1. BackedInv /\ [Next]_vars => BackedInv'
  <2> SUFFICES ASSUME BackedInv, [Next]_vars PROVE BackedInv'
    OBVIOUS
  <2>1. RunInv /\ IndexInv
    BY DEF BackedInv, IndexInv
  <2>2. IndexInv'
    BY <2>1, IndexInvStep
  <2>3. CASE \E r \in Runs : Acts(r)
    <3>1. Acts(one) /\ one \in Runs
      BY <2>3
    <3>2. Extracting(one)'
      BY <3>1, ExtractingStep
    <3>3. RowsBacked' /\ Copied'
      BY <3>1, BackedStep, CopiedStep
    <3>4. torn' = {}
      BY <3>1, TornStep DEF BackedInv
    <3>5. QED BY <2>2, <3>2, <3>3, <3>4 DEF BackedInv
  <2>4. CASE Deliver \/ Remove \/ VerifyArchive \/ UNCHANGED vars
    <3>1. UNCHANGED <<run, rows, files, maildir, bare>>
      BY <2>1, <2>4, AroundStep DEF data, hist, vars, Deliver, Remove, VerifyArchive
    <3>2. RowsBacked' /\ Copied'
      BY <3>1 DEF BackedInv, RowsBacked, Copied, PartRows
    <3>3. \A r \in Runs : Extracting(r)'
      BY <3>1 DEF BackedInv, Extracting, Extracted, Extracts, Inserting, Complete, Pc, Box
    <3>4. torn' = {}
      BY <2>4 DEF BackedInv, Deliver, Remove, VerifyArchive, hist, vars
    <3>5. QED BY <2>2, <3>2, <3>3, <3>4 DEF BackedInv
  <2>5. QED BY <2>3, <2>4 DEF Next, Acts
<1>2. BackedInv => RowsBacked
  BY DEF BackedInv
<1>3. QED BY <1>1, <1>2, InitBackedInv, PTL DEF Spec
=============================================================================

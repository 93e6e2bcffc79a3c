----------------------------- MODULE MailStore -----------------------------
(***************************************************************************)
(* The archive pipeline of devenv.nix: sync-all copies each mailbox from    *)
(* the hosting server (rsync, nothing is deleted), extracts the            *)
(* attachments (extract_attachments.py) and indexes mails and attachments  *)
(* into the mailbox's own SQLite file and the global one                   *)
(* (index_mailbox.py). index-all and index-mailbox do the last part only.  *)
(* A command may stop anywhere, by an error, a signal or a power cut, and  *)
(* is run again later; two commands may run side by side.                  *)
(*                                                                         *)
(* A Maildir file never changes under its name and the stable_id of a mail *)
(* is a digest of its path and Message-ID, so a mail here is a path. An    *)
(* attachment is the name extract_attachments.py stores it under, the      *)
(* digest, size and extension of its payload.                              *)
(***************************************************************************)
EXTENDS Naturals, FiniteSets

CONSTANTS
    Mails,       \* Maildir files that may exist
    Mailboxes,
    Attachments, \* names <sha256>_<size>.<ext>
    BoxOf,       \* the mailbox a mail is in
    PartsOf,     \* the extractable parts of a mail
    Columns,     \* what schema version 2 adds: to_addrs, cc_addrs, body_text
    Global,      \* the global index, data/index/mail_index.sqlite
    None,
    Runs,        \* slots for commands running side by side
    Commands,    \* the commands given in this instance
    MaxStops     \* bound: how many commands stop half-way

ASSUME StoreAssumption ==
    /\ Global \notin Mailboxes
    /\ None \notin Mailboxes \cup {Global} \cup Attachments \cup Runs
    /\ BoxOf \in [Mails -> Mailboxes]
    /\ PartsOf \in [Mails -> SUBSET Attachments]
    /\ Commands \subseteq {"sync-all", "sync-all --skip-extract", "index-all",
                           "index-mailbox"}
    /\ MaxStops \in Nat

DBs   == Mailboxes \cup {Global}
Files == Mailboxes \X Attachments   \* <mailbox>/attachments/<name>
Pcs   == {"idle", "next", "rsync", "extract", "create", "write", "open",
          "migrate", "insert", "insert_global", "commit", "commit_global", "import"}

VARIABLES
    server,  \* the mails on the hosting server
    maildir, \* the mails in the local Maildirs
    files,   \* each attachment file: absent, damaged (cut short) or complete
    rows,    \* the committed rows of each index
    schema,  \* each index file: does it exist, its columns, is it version 2
    lock,    \* the run whose transaction writes to an index
    run,     \* the running commands
    stops,   \* how many commands have stopped half-way
    collision, \* history: a run has reported a SHA-256 collision
    bare,    \* history: the mailboxes that a command has taken up without
             \* extracting attachments, and no extraction was completed since
    torn,    \* history: the runs whose file another extraction has emptied
             \* since they opened it
    verdict  \* what verify-archive has just answered

data == <<files, rows, schema>>
hist == <<stops, collision, bare, torn>>
vars == <<server, maildir, data, lock, run, hist, verdict>>

NoRun == [pc |-> "idle", cmd |-> None, boxes |-> {}, box |-> None, seen |-> {},
          mails |-> {}, todo |-> {}, part |-> None, db |-> None, missing |-> {}]

Pc(r)  == run[r].pc
Box(r) == run[r].box
File(r, a) == <<Box(r), a>>

InBox(S, b)  == {m \in S : BoxOf[m] = b}
PartRows(S)  == {ma \in S \X Attachments : ma[2] \in PartsOf[ma[1]]}
PartNames(S) == UNION {PartsOf[m] : m \in S}

\* index-mailbox is the one command that passes no --global-index.
UsesGlobal(r) == run[r].cmd # "index-mailbox"
Syncs(r)    == run[r].cmd \in {"sync-all", "sync-all --skip-extract"}
Extracts(r) == run[r].cmd = "sync-all"

Go(r, pc) == run' = [run EXCEPT ![r].pc = pc]

-----------------------------------------------------------------------------
(* Starting a command and taking up its next mailbox.                      *)

Start(r) ==
    /\ Pc(r) = "idle"
    /\ \E c \in Commands, B \in SUBSET Mailboxes \ {{}} :
         /\ c = "index-all" => B = Mailboxes
         /\ c = "index-mailbox" => Cardinality(B) = 1
         /\ run' = [run EXCEPT ![r] = [NoRun EXCEPT !.pc = "next", !.cmd = c,
                                                    !.boxes = B]]
    /\ verdict' = None
    /\ UNCHANGED <<server, maildir, data, lock, hist>>

NextBox(r) ==
    /\ Pc(r) = "next"
    /\ \/ /\ run[r].boxes = {}
          /\ run' = [run EXCEPT ![r] = NoRun]
          /\ UNCHANGED bare
       \/ \E b \in run[r].boxes :
            /\ run' = [run EXCEPT ![r] =
                         [NoRun EXCEPT !.cmd = run[r].cmd, !.box = b, !.db = b,
                                       !.boxes = run[r].boxes \ {b},
                                       !.pc = IF Syncs(r) THEN "rsync" ELSE "open"]]
            /\ bare' = IF Extracts(r) THEN bare ELSE bare \cup {b}
    /\ UNCHANGED <<server, maildir, data, lock, stops, collision, torn, verdict>>

\* Mutant: what is gone through are the mails and not their parts.
RsyncForMails(S, r) ==
    /\ Pc(r) = "rsync"
    /\ maildir' = maildir \cup S
    /\ run' = [run EXCEPT ![r].seen = InBox(server, Box(r)),
                          ![r].todo = InBox(maildir', Box(r)),
                          ![r].pc = "extract"]
    /\ UNCHANGED <<server, data, lock, hist, verdict>>

\* rsync -az without --delete; a file appears under its name when it is whole.
\* Then scan_maildir lists what extract_attachments goes through.
RsyncFrom(S, r) ==
    /\ Pc(r) = "rsync"
    /\ maildir' = maildir \cup S
    /\ LET found == InBox(maildir', Box(r)) IN
       run' = [run EXCEPT ![r].seen = InBox(server, Box(r)),
                          ![r].todo = PartNames(found),
                          ![r].pc = IF Extracts(r) THEN "extract" ELSE "open"]
    /\ UNCHANGED <<server, data, lock, hist, verdict>>

Rsync(r) == RsyncFrom(InBox(server, Box(r)), r)

\* The connection breaks: some files are there, and the command ends.
CutRsync(r) ==
    /\ Pc(r) = "rsync" /\ stops < MaxStops
    /\ stops' = stops + 1
    /\ \E S \in SUBSET InBox(server, Box(r)) : maildir' = maildir \cup S
    /\ run' = [run EXCEPT ![r] = NoRun]
    /\ UNCHANGED <<server, data, lock, collision, bare, torn, verdict>>

-----------------------------------------------------------------------------
(* extract_attachments, a file at a time.                                  *)

\* Mutant: a file that exists is taken for good.
AnyFileWillDo(f) == files[f] # "absent"

\* The file's own digest is the one in its name.
SameContent(f) == files[f] = "complete"

SkipPart(r) ==
    /\ Pc(r) = "extract"
    /\ \E a \in run[r].todo :
         /\ SameContent(File(r, a))
         /\ run' = [run EXCEPT ![r].todo = @ \ {a}]
    /\ UNCHANGED <<server, maildir, data, lock, hist, verdict>>

\* dest_path.exists() and the digest differs: RuntimeError, exit 1.
RejectPart(r) ==
    /\ Pc(r) = "extract"
    /\ \E a \in run[r].todo :
         files[File(r, a)] # "absent" /\ ~SameContent(File(r, a))
    /\ collision' = TRUE
    /\ run' = [run EXCEPT ![r] = NoRun]
    /\ UNCHANGED <<server, maildir, data, lock, stops, bare, torn, verdict>>

\* exists() says that there is no such file: it is to be written.
TakePart(r) ==
    /\ Pc(r) = "extract"
    /\ \E a \in run[r].todo :
         /\ files[File(r, a)] = "absent"
         /\ run' = [run EXCEPT ![r].pc = "create", ![r].part = a]
    /\ UNCHANGED <<server, maildir, data, lock, hist, verdict>>

Writing(r, f) == Pc(r) = "write" /\ File(r, run[r].part) = f

\* Mutant: the file is locked once it is open, and who cannot skips the part.
LockOpened(r) ==
    /\ Pc(r) = "create"
    /\ LET f == File(r, run[r].part)
           others == {q \in Runs \ {r} : Writing(q, f)}
       IN  /\ files' = [files EXCEPT ![f] = "damaged"]
           /\ torn' = torn \cup others
           /\ run' = IF others = {} THEN [run EXCEPT ![r].pc = "write"]
                     ELSE [run EXCEPT ![r].pc = "extract", ![r].part = None,
                                      ![r].todo = @ \ {run[r].part}]
    /\ UNCHANGED <<server, maildir, rows, schema, lock, stops, collision, bare,
                   verdict>>

\* write_bytes opens the file under its final name, which empties it if another
\* extraction has written it, or is writing it, since ...
CreatePart(r) ==
    /\ Pc(r) = "create"
    /\ LET f == File(r, run[r].part) IN
       /\ files' = [files EXCEPT ![f] = "damaged"]
       /\ torn' = torn \cup {q \in Runs \ {r} : Writing(q, f)}
    /\ Go(r, "write")
    /\ UNCHANGED <<server, maildir, rows, schema, lock, stops, collision, bare,
                   verdict>>

\* ... and fills it. What was written before another extraction emptied the file
\* is missing unless that one fills it too.
Filled(r, f) ==
    IF r \in torn /\ files[f] = "damaged" THEN {"damaged", "complete"} ELSE {"complete"}

WritePart(r) ==
    /\ Pc(r) = "write"
    /\ LET f == File(r, run[r].part) IN
       \E c \in Filled(r, f) : files' = [files EXCEPT ![f] = c]
    /\ torn' = torn \ {r}
    /\ run' = [run EXCEPT ![r].pc = "extract", ![r].part = None,
                          ![r].todo = @ \ {run[r].part}]
    /\ UNCHANGED <<server, maildir, rows, schema, lock, stops, collision, bare,
                   verdict>>

EndExtract(r) ==
    /\ Pc(r) = "extract" /\ run[r].todo = {}
    /\ Go(r, "open")
    /\ bare' = bare \ {Box(r)}
    /\ UNCHANGED <<server, maildir, data, lock, stops, collision, torn, verdict>>

Extract(r) ==
    \/ SkipPart(r) \/ RejectPart(r) \/ TakePart(r)
    \/ CreatePart(r) \/ WritePart(r) \/ EndExtract(r)

-----------------------------------------------------------------------------
(* _init_db: first for the mailbox's index, then for the global one.       *)

Free(r, d) == lock[d] \in {None, r}

\* Mutant: does not look which columns are there.
EveryColumn(d) == Columns
\* Mutant: one column there, all columns there.
MissingIfNone(d) == IF schema[d].cols = {} THEN Columns ELSE {}

\* PRAGMA table_info, read once before the loop over the columns.
MissingColumns(d) == Columns \ schema[d].cols

\* CREATE TABLE IF NOT EXISTS makes a new file with every column, at version 0;
\* of an existing one user_version and the columns are read.
OpenIndex(r) ==
    /\ Pc(r) = "open"
    /\ LET d == run[r].db IN
       /\ schema' = IF schema[d].exists THEN schema
                    ELSE [schema EXCEPT ![d] = [exists |-> TRUE, cols |-> Columns,
                                                v2 |-> FALSE]]
       /\ run' = [run EXCEPT ![r].pc = "migrate",
                             ![r].missing = IF schema[d].exists /\ ~schema[d].v2
                                            THEN MissingColumns(d) ELSE {}]
    /\ UNCHANGED <<server, maildir, files, rows, lock, hist, verdict>>

\* ALTER TABLE commits by itself.
AddColumn(r) ==
    /\ Pc(r) = "migrate"
    /\ \E c \in run[r].missing :
         /\ c \notin schema[run[r].db].cols
         /\ Free(r, run[r].db)
         /\ schema' = [schema EXCEPT ![run[r].db].cols = @ \cup {c}]
         /\ run' = [run EXCEPT ![r].missing = @ \ {c}]
    /\ UNCHANGED <<server, maildir, files, rows, lock, hist, verdict>>

\* An error in one mailbox ends sync-all and index-mailbox; index-all prints a
\* warning and goes on.
AfterError(r) ==
    IF run[r].cmd = "index-all"
    THEN [NoRun EXCEPT !.pc = "next", !.cmd = run[r].cmd, !.boxes = run[r].boxes]
    ELSE NoRun

\* close() without a commit.
RollBack(r) == lock' = [d \in DBs |-> IF lock[d] = r THEN None ELSE lock[d]]

\* "duplicate column name": another run has added it meanwhile.
DuplicateColumn(r) ==
    /\ Pc(r) = "migrate"
    /\ run[r].missing \cap schema[run[r].db].cols # {}
    /\ run' = [run EXCEPT ![r] = AfterError(r)]
    /\ RollBack(r)
    /\ UNCHANGED <<server, maildir, data, hist, verdict>>

\* PRAGMA user_version=2 comes last. With both files open the Maildir is
\* scanned.
StampVersion(r) ==
    /\ Pc(r) = "migrate" /\ run[r].missing = {}
    /\ LET d == run[r].db IN
       /\ Free(r, d) \/ schema[d].v2
       /\ schema' = [schema EXCEPT ![d].v2 = TRUE]
       /\ run' = IF UsesGlobal(r) /\ d # Global
                 THEN [run EXCEPT ![r].pc = "open", ![r].db = Global]
                 ELSE [run EXCEPT ![r].pc = "insert",
                                  ![r].mails = InBox(maildir, Box(r))]
    /\ UNCHANGED <<server, maildir, files, rows, lock, hist, verdict>>

InitDb(r) == OpenIndex(r) \/ AddColumn(r) \/ DuplicateColumn(r) \/ StampVersion(r)

-----------------------------------------------------------------------------
(* index_mailbox: one transaction per database, the mailbox's first.       *)

\* The first INSERT takes the database's write lock, or waits for it.
Insert(r) ==
    /\ \/ /\ Pc(r) = "insert"
          /\ lock[Box(r)] = None
          /\ lock' = IF run[r].mails = {} THEN lock ELSE [lock EXCEPT ![Box(r)] = r]
          /\ Go(r, IF UsesGlobal(r) THEN "insert_global" ELSE "commit")
       \/ /\ Pc(r) = "insert_global"
          /\ lock[Global] = None
          /\ lock' = IF run[r].mails = {} THEN lock ELSE [lock EXCEPT ![Global] = r]
          /\ Go(r, "commit")
    /\ UNCHANGED <<server, maildir, data, hist, verdict>>

\* INSERT OR REPLACE of the mails scanned and their parts.
Upserted(d, r) ==
    [rows EXCEPT ![d] = [emails |-> @.emails \cup run[r].mails,
                         atts   |-> @.atts \cup PartRows(run[r].mails)]]

Unlocked(d, r) == [lock EXCEPT ![d] = IF @ = r THEN None ELSE @]

AfterIndex(r) == IF Syncs(r) THEN "import" ELSE "next"

\* Mutant: the first commit() is global_conn's, and so is the second.
CommitGlobalFirst(r) ==
    /\ Pc(r) = "commit"
    /\ LET d == IF UsesGlobal(r) THEN Global ELSE Box(r) IN
       rows' = Upserted(d, r) /\ lock' = Unlocked(d, r)
    /\ Go(r, IF UsesGlobal(r) THEN "commit_global" ELSE AfterIndex(r))
    /\ UNCHANGED <<server, maildir, files, schema, hist, verdict>>

Commit(r) ==
    /\ Pc(r) = "commit"
    /\ rows' = Upserted(Box(r), r)
    /\ lock' = Unlocked(Box(r), r)
    /\ Go(r, IF UsesGlobal(r) THEN "commit_global" ELSE AfterIndex(r))
    /\ UNCHANGED <<server, maildir, files, schema, hist, verdict>>

\* Mutant: close() without global_conn.commit().
ForgetGlobal(r) ==
    /\ Pc(r) = "commit_global"
    /\ lock' = Unlocked(Global, r)
    /\ Go(r, AfterIndex(r))
    /\ UNCHANGED <<server, maildir, data, hist, verdict>>

CommitGlobal(r) ==
    /\ Pc(r) = "commit_global"
    /\ rows' = Upserted(Global, r)
    /\ lock' = Unlocked(Global, r)
    /\ Go(r, AfterIndex(r))
    /\ UNCHANGED <<server, maildir, files, schema, hist, verdict>>

\* import_archive.php copies the mailbox's index to MariaDB.
Import(r) ==
    /\ Pc(r) = "import"
    /\ Go(r, "next")
    /\ UNCHANGED <<server, maildir, data, lock, hist, verdict>>

Index(r) == InitDb(r) \/ Insert(r) \/ Commit(r) \/ CommitGlobal(r) \/ Import(r)

-----------------------------------------------------------------------------
(* What may happen to a command, and around it.                            *)

\* A step fails (full disk, "database is locked" after five seconds, a mail
\* that cannot be parsed, a lost connection) or the process dies. The file
\* being written stays as it is; open transactions are rolled back.
Stop(r) ==
    /\ Pc(r) # "idle" /\ stops < MaxStops
    /\ stops' = stops + 1
    /\ torn' = torn \ {r}
    /\ run' = [run EXCEPT ![r] = NoRun]
    /\ RollBack(r)
    /\ UNCHANGED <<server, maildir, data, collision, bare, verdict>>

\* index-all survives an error in a mailbox.
SkipBox(r) ==
    /\ run[r].cmd = "index-all" /\ Pc(r) \notin {"idle", "next"} /\ stops < MaxStops
    /\ stops' = stops + 1
    /\ torn' = torn \ {r}
    /\ run' = [run EXCEPT ![r] = AfterError(r)]
    /\ RollBack(r)
    /\ UNCHANGED <<server, maildir, data, collision, bare, verdict>>

\* Mail arrives at the server; a mail that is read or moved there gets
\* another path, which is to say that it goes and another one arrives.
Deliver ==
    /\ \E m \in Mails \ server : server' = server \cup {m}
    /\ UNCHANGED <<maildir, data, lock, run, hist, verdict>>

Remove ==
    /\ \E m \in server : server' = server \ {m}
    /\ UNCHANGED <<maildir, data, lock, run, hist, verdict>>

\* The loop that compares digests is the right-hand side of a pipe and so a
\* subshell: what it adds to INTEGRITY_ERRORS is gone after it.
IntegrityErrors == 0

\* verify-archive --no-clam
VerifyArchive ==
    /\ \A r \in Runs : Pc(r) = "idle"
    /\ verdict' = IF IntegrityErrors = 0 THEN "all clean" ELSE "issues found"
    /\ UNCHANGED <<server, maildir, data, lock, run, hist>>

Step(r) == NextBox(r) \/ Rsync(r) \/ Extract(r) \/ Index(r)

Init ==
    /\ server = {} /\ maildir = {}
    /\ files = [f \in Files |-> "absent"]
    /\ rows = [d \in DBs |-> [emails |-> {}, atts |-> {}]]
    \* index files of the first version of the program may be there
    /\ \E old \in SUBSET DBs :
         schema = [d \in DBs |-> [exists |-> d \in old, cols |-> {}, v2 |-> FALSE]]
    /\ lock = [d \in DBs |-> None]
    /\ run = [r \in Runs |-> NoRun]
    /\ stops = 0 /\ collision = FALSE /\ bare = {} /\ torn = {}
    /\ verdict = None

Next ==
    \/ Deliver \/ Remove \/ VerifyArchive
    \/ \E r \in Runs : Start(r) \/ Step(r) \/ CutRsync(r) \/ Stop(r) \/ SkipBox(r)

\* sync-all without --mailbox.
StartFull(r) ==
    Start(r) /\ run'[r].cmd = "sync-all" /\ run'[r].boxes = Mailboxes

\* A command that runs goes on. The full sync-all is run again every week,
\* whatever else is run in between.
Fairness == \A r \in Runs : WF_vars(Step(r)) /\ SF_vars(StartFull(r))

Spec == Init /\ [][Next]_vars /\ Fairness

-----------------------------------------------------------------------------
(* Properties.                                                             *)

RunRecord ==
    [pc : Pcs, cmd : Commands \cup {None}, boxes : SUBSET Mailboxes,
     box : Mailboxes \cup {None}, seen : SUBSET Mails, mails : SUBSET Mails,
     todo : SUBSET Attachments, part : Attachments \cup {None},
     db : DBs \cup {None}, missing : SUBSET Columns]

TypeOK ==
    /\ server \in SUBSET Mails /\ maildir \in SUBSET Mails
    /\ files \in [Files -> {"absent", "damaged", "complete"}]
    /\ rows \in [DBs -> [emails : SUBSET Mails, atts : SUBSET (Mails \X Attachments)]]
    /\ schema \in [DBs -> [exists : BOOLEAN, cols : SUBSET Columns, v2 : BOOLEAN]]
    /\ lock \in [DBs -> Runs \cup {None}]
    /\ run \in [Runs -> RunRecord]
    /\ stops \in 0..MaxStops
    /\ collision \in BOOLEAN /\ bare \in SUBSET Mailboxes /\ torn \in SUBSET Runs
    /\ verdict \in {None, "all clean", "issues found"}

\* Where rows are inserted every column exists: a migration that stopped after
\* some of its ALTER TABLE statements, or ran beside another one, is completed
\* before the version says so and before the first INSERT.
Inserting(r) == Pc(r) \in {"insert", "insert_global", "commit", "commit_global"}

MigratedBeforeUse ==
    /\ \A d \in DBs : schema[d].v2 => schema[d].exists /\ schema[d].cols = Columns
    /\ \A r \in Runs : Inserting(r) =>
         schema[Box(r)].v2 /\ (UsesGlobal(r) => schema[Global].v2)

\* The global index never has a mail or an attachment that the mailbox's own
\* index lacks, whatever stops between the two commits and whatever runs beside.
GlobalWithinLocal ==
    \A b \in Mailboxes :
      /\ InBox(rows[Global].emails, b) \subseteq rows[b].emails
      /\ {ma \in rows[Global].atts : BoxOf[ma[1]] = b} \subseteq rows[b].atts

\* With one command at a time: an attachment row of either index points to a
\* file that is there, whole, also after stops in the middle of writing it. The
\* exception is a mailbox indexed without extraction (index-all, sync-all
\* --skip-extract), until an extraction of it is completed: from then on the
\* rows of those commands have their files as well.
RowsBacked ==
    \A d \in DBs : \A ma \in rows[d].atts :
      BoxOf[ma[1]] \notin bare => files[<<BoxOf[ma[1]], ma[2]>>] = "complete"

\* Two extractions of a mailbox may find the same file missing, and the second
\* one empties what the first has written or is writing. All the same no file
\* stays cut short unless a command has stopped: somebody is still filling it.
DamagedInTransit ==
    \A f \in Files : files[f] = "damaged" => stops > 0 \/ \E r \in Runs : Writing(r, f)

\* When sync-all has done a mailbox, every mail the server had when it was
\* copied is in both indexes, with its attachments.
SyncedIsArchived ==
    \A r \in Runs : Pc(r) = "import" =>
      \A d \in {Box(r), Global} :
        /\ run[r].seen \subseteq rows[d].emails
        /\ PartRows(run[r].seen) \subseteq rows[d].atts

\* "Idempotent - re-running is safe": a mail that was copied gets into the
\* global index by running sync-all again, wherever earlier runs stopped. The
\* exception is a stop while a file was written: no sync-all gets past that
\* mailbox, to its mails or to the mailboxes after it.
CatchesUp ==
    \A m \in Mails :
      m \in maildir ~> m \in rows[Global].emails \/ \E f \in Files : files[f] = "damaged"

\* "SHA-256 collision - should never happen in practice".
NoCollision == ~collision

\* verify-archive answers ALL CLEAN only if no file differs from the digest in
\* its name.
CleanIsIntact == verdict = "all clean" => \A f \in Files : files[f] # "damaged"
=============================================================================

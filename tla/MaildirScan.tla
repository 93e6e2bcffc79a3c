---------------------------- MODULE MaildirScan ----------------------------
(***************************************************************************)
(* Reading a Maildir that is in use. The tools walk the tree a directory   *)
(* at a time, list the files of a cur/ or new/ directory and open them one *)
(* by one, while mail is delivered, read (renamed from new/ to cur/),      *)
(* moved between folders and removed. Three tools do so:                   *)
(*   library      maildir_report: walk.py, parser.py; what the index, the  *)
(*                extraction and the sync are built on. A file that cannot *)
(*                be read ends the scan with MailParseError. inventory.py  *)
(*                can compare the records with a second listing;           *)
(*   report, attachments                                                   *)
(*                scripts/maildir_scan.py and maildir_attachments_py2.py,  *)
(*                which skip such a file.                                  *)
(*                                                                         *)
(* The files of one directory are read in no particular order, which       *)
(* includes the sorted one of the library.                                 *)
(***************************************************************************)
EXTENDS MailParts

CONSTANTS
    Folders,    \* the folders of the Maildir
    Root,       \* the one whose cur and new lie beside the other folders
    SortedDirs, \* their cur and new directories, as sorted os.walk meets them
    Flags,      \* the flags at the end of a file's name in cur: read, answered
    Unread,     \* the end of a name in new
    Tools,      \* the tools of this instance
    Empty,      \* the messages whose file has no bytes
    Unborn,     \* where a message is before it is delivered ...
    Gone,       \* ... and after it was removed
    MaxRenames  \* bound: how often each message is renamed

Dirs == Folders \X {"cur", "new"}

\* A directory and the end of a name in it; the unique part of a message's name
\* never changes.
Places == {p \in Dirs \X (Flags \cup {Unread}) : p[1][2] = "new" <=> p[2] = Unread}

ASSUME ScanAssumption ==
    /\ Unborn \notin Places /\ Gone \notin Places /\ Unborn # Gone
    /\ Unread \notin Flags
    /\ Tools \subseteq AllTools /\ Root \in Folders
    /\ SortedDirs \in Seq(Dirs) /\ Len(SortedDirs) = Cardinality(Dirs)
    /\ {SortedDirs[i] : i \in DOMAIN SortedDirs} = Dirs
    /\ Empty \subseteq Mails /\ \A m \in Empty : Structure[m] = <<>>
    /\ MaxRenames \in [Mails -> Nat]

VARIABLES
    at,       \* the place of a message's file, Unborn or Gone
    moved,    \* how often each message was renamed so far
    tool,     \* the tool that is running, or "none"
    phase,    \* where it is
    todo,     \* the directories it has not listed yet
    pending,  \* listed files it has not opened yet
    records,  \* what it has read, in order
    listed,   \* reconcile_inventory: the files found so far
    rows,     \* the stable ids in the index
    there,    \* history: messages that were there since the tool started
    movedThen, \* history: moved, when the tool started
    behind    \* history: messages renamed from a directory still to be listed
              \* to one already listed

world == <<at, moved>>
scan  == <<tool, phase, todo, pending, records, listed, rows>>
hist  == <<there, movedThen, behind>>
vars  == <<world, scan, hist>>

Phases == {"idle", "scanning", "failed", "scanned", "listing", "accepted",
           "mismatch"}

\* A file name.
Path == Places \X Mails
Files(d) == {<<at[m], m>> : m \in {n \in Mails : at[n] \in Places /\ at[n][1] = d}}
Exists(p) == at[p[2]] = p[1]

-----------------------------------------------------------------------------
(* The records.                                                            *)

\* scan_maildir of the report marks repeated parts as it goes, global_hashes
\* being what it has seen; dedup of the attachments tool does so at the end.
Marks(t, m, rs) == IF t = "report" THEN Repeats(t, m, Seen(t, rs)) ELSE {}

Record(p) == [path |-> p, mail |-> p[2], dup |-> Marks(tool, p[2], records)]

Recorded == {records[i].mail : i \in DOMAIN records}
Paths    == {records[i].path : i \in DOMAIN records}
Times(m) == Cardinality({i \in DOMAIN records : records[i].mail = m})

\* Mutant: paths and records are counted from different ends.
StableIdShifted(r) ==
    LET i == CHOOSE k \in DOMAIN records : records[k] = r
    IN  <<records[IF i = 1 THEN Len(records) ELSE i - 1].path, r.mail>>

\* email_stable_id: a digest of the path and the Message-ID.
StableId(r) == <<r.path, r.mail>>

-----------------------------------------------------------------------------
(* The mail clients and the mail server.                                   *)

Arrive(m, p) == at' = [at EXCEPT ![m] = p]

Deliver(m) ==
    /\ tool # "none" /\ at[m] = Unborn
    /\ \E f \in Folders : Arrive(m, <<<<f, "new">>, Unread>>)
    /\ UNCHANGED <<moved, scan, hist>>

\* A message is read, moved to another folder or gets other flags.
Rename(m, p) ==
    /\ tool # "none" /\ at[m] \in Places /\ p \in Places \ {at[m]}
    /\ p[2] \in Flags
    /\ moved[m] < MaxRenames[m] /\ moved' = [moved EXCEPT ![m] = @ + 1]
    /\ Arrive(m, p)
    /\ LET waiting == {todo[i] : i \in DOMAIN todo}
       IN  behind' = IF at[m][1] \in waiting /\ p[1] \notin waiting
                     THEN behind \cup {m} ELSE behind
    /\ UNCHANGED <<scan, there, movedThen>>

Discard(m) ==
    /\ tool # "none" /\ at[m] \in Places
    /\ Arrive(m, Gone)
    /\ there' = there \ {m}
    /\ UNCHANGED <<moved, scan, movedThen, behind>>

World == \E m \in Mails : Deliver(m) \/ (\E p \in Places : Rename(m, p)) \/ Discard(m)

-----------------------------------------------------------------------------
(* The walk.                                                               *)

\* os.walk visits the directories of one folder together; the root folder's
\* lie beside the other folders'.
Together(s) ==
    \A i, j, k \in DOMAIN s :
        i < j /\ j < k /\ s[i][1] = s[k][1] /\ s[i][1] # Root => s[j][1] = s[i][1]

Unsorted == {s \in SetToSeqs(Dirs) : Together(s)}

\* deterministic_walk sorts the directories, the scripts' os.walk does not.
Orders(t) == IF t = "library" THEN {SortedDirs} ELSE Unsorted

\* (The scripts are run once: what they write does not depend on what an
\* earlier run wrote.)
Start(t) ==
    /\ \/ tool = "none"
       \/ tool = "library" /\ t = tool /\ phase \notin {"scanning", "listing"}
    /\ tool' = t /\ phase' = "scanning"
    /\ todo' \in Orders(t)
    /\ pending' = {} /\ records' = <<>> /\ listed' = {}
    /\ there' = {m \in Mails : at[m] \in Places}
    /\ movedThen' = moved /\ behind' = {}
    /\ UNCHANGED <<world, rows>>

ListDir ==
    /\ phase = "scanning" /\ pending = {} /\ todo # <<>>
    /\ pending' = Files(Head(todo))
    /\ todo' = Tail(todo)
    /\ UNCHANGED <<world, tool, phase, records, listed, rows, hist>>

\* The parse of a file that is there; parse_email_file refuses an empty one.
Parses(p) == Exists(p) /\ (tool = "library" => p[2] \notin Empty)

\* Mutant: the library skips a file it cannot read, as the scripts do.
ParseOrSkip(p) ==
    /\ records' = IF Parses(p) THEN Append(records, Record(p)) ELSE records
    /\ UNCHANGED phase

\* Mutant: what cannot be read is appended as well.
ParseOrNothing(p) ==
    /\ records' = Append(records, IF Parses(p) THEN Record(p) ELSE Gone)
    /\ UNCHANGED phase

\* The library raises for a file that has vanished or does not parse; the
\* scripts go on to the next.
ParseOrRaise(p) ==
    /\ records' = IF Parses(p) THEN Append(records, Record(p)) ELSE records
    /\ phase' = IF Parses(p) \/ tool # "library" THEN phase ELSE "failed"

Read ==
    /\ phase = "scanning"
    /\ \E p \in pending :
         /\ ParseOrRaise(p)
         /\ pending' = pending \ {p}
    /\ UNCHANGED <<world, tool, todo, listed, rows, hist>>

\* Mutant: each message's attachments are compared among themselves only.
DedupPerMail(rs) ==
    [i \in DOMAIN rs |-> [rs[i] EXCEPT !.dup = Repeats("attachments", rs[i].mail, {})]]

\* dedup: the first attachment with a digest is the original.
Dedup(rs) ==
    [i \in DOMAIN rs |->
       [rs[i] EXCEPT !.dup = Repeats("attachments", rs[i].mail,
                                     Seen("attachments", SubSeq(rs, 1, i - 1)))]]

EndScan ==
    /\ phase = "scanning" /\ pending = {} /\ todo = <<>>
    /\ phase' = "scanned"
    /\ records' = IF tool = "attachments" THEN Dedup(records) ELSE records
    /\ UNCHANGED <<world, tool, todo, pending, listed, rows, hist>>

\* index_mailbox writes a row per record, under the record's stable id.
Index ==
    /\ phase = "scanned" /\ tool = "library"
    /\ rows' = rows \cup {StableId(records[i]) : i \in DOMAIN records}
    /\ UNCHANGED <<world, tool, phase, todo, pending, records, listed, hist>>

-----------------------------------------------------------------------------
(* reconcile_inventory: list everything again, then compare.               *)

StartReconcile ==
    /\ phase = "scanned" /\ tool = "library"
    /\ phase' = "listing" /\ todo' = SortedDirs
    /\ UNCHANGED <<world, tool, pending, records, listed, rows, hist>>

ListAgain ==
    /\ phase = "listing" /\ todo # <<>>
    /\ listed' = listed \cup Files(Head(todo))
    /\ todo' = Tail(todo)
    /\ UNCHANGED <<world, tool, phase, pending, records, rows, hist>>

\* Mutant: files without a record are not looked for.
NothingMissing == Paths \subseteq listed

Agrees == Paths = listed

Compare ==
    /\ phase = "listing" /\ todo = <<>>
    /\ phase' = IF Agrees THEN "accepted" ELSE "mismatch"
    /\ UNCHANGED <<world, tool, todo, pending, records, listed, rows, hist>>

-----------------------------------------------------------------------------
Init ==
    /\ at \in [Mails -> Places \cup {Unborn}]
    /\ moved = [m \in Mails |-> 0] /\ movedThen = moved
    /\ tool = "none" /\ phase = "idle"
    /\ todo = <<>> /\ pending = {} /\ records = <<>> /\ listed = {} /\ rows = {}
    /\ there = {} /\ behind = {}

Next ==
    \/ World
    \/ \E t \in Tools : Start(t)
    \/ ListDir \/ Read \/ EndScan \/ Index
    \/ StartReconcile \/ ListAgain \/ Compare

Spec == Init /\ [][Next]_vars

-----------------------------------------------------------------------------
(* Properties.                                                             *)

TypeOK ==
    /\ at \in [Mails -> Places \cup {Unborn, Gone}]
    /\ moved \in [Mails -> Nat] /\ movedThen \in [Mails -> Nat]
    /\ tool \in Tools \cup {"none"}
    /\ phase \in Phases
    /\ todo \in Seq(Dirs)
    /\ pending \in SUBSET Path /\ listed \in SUBSET Path
    /\ records \in Seq([path : Path, mail : Mails, dup : SUBSET Nat])
    /\ rows \in SUBSET (Path \X Mails)
    /\ there \in SUBSET Mails /\ behind \in SUBSET Mails

Finished == phase \in {"scanned", "listing", "accepted", "mismatch"}

\* "No silent skipping - every file on disk must produce a valid record": a
\* scan of the library that ends without an error has a record for each
\* message that was there all the time, unless the message was renamed from
\* a directory the walk had yet to list to one it had listed already.
MissedOnlyBehind ==
    Finished /\ tool = "library" => there \ Recorded \subseteq behind

RenamedMeanwhile(m) == moved[m] - movedThen[m]

\* reconcile_inventory: when it accepts the records of a scan, each message
\* that was there all the time has exactly one record, provided that it was
\* renamed at most once since the scan began. (A second rename can hide it from
\* both listings.)
AcceptedIsExact ==
    phase = "accepted" =>
        \A m \in there : RenamedMeanwhile(m) <= 1 => Times(m) = 1

\* A message has at most one row in the index for each path it had: reading,
\* flagging or moving a message that is indexed makes a second row, but nothing
\* else does.
RowsAreRenames ==
    \A m \in Mails : Cardinality({r \in rows : r[2] = m}) <= 1 + moved[m]

\* The parts listed so far, and those with digest h that are not marked.
AllParts(t) ==
    UNION {{i} \X PartsOf(t, records[i].mail) : i \in DOMAIN records}

Unmarked(t, h) ==
    {ik \in AllParts(t) : /\ Hash(t, records[ik[1]].mail, ik[2]) = h
                          /\ ik[2] \notin records[ik[1]].dup}

\* The totals of duplicates in the two reports: of the parts with one digest
\* exactly one counts as the original, the others as duplicates, also when
\* they are in one message, and whatever the order of the walk.
OneOriginal ==
    \/ phase = "scanned" /\ tool \in {"report", "attachments"}
    \/ phase = "scanning" /\ tool = "report"
    => \A h \in Seen(tool, records) : Cardinality(Unmarked(tool, h)) = 1

=============================================================================

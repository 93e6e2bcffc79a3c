---------------------------- MODULE ArchiveReads ----------------------------
(***************************************************************************)
(* Reading the archive through the data API (api/data.py, db.py) while the *)
(* threads and handlers of ArchiveClient replace it. The handlers of the   *)
(* data API run on the event loop, one at a time and none beside /open or  *)
(* /restart, but they read AppState more than once, and a thread may swap  *)
(* the database between two reads. A reader who pages through a list sends *)
(* one request per page, and anything may happen between the pages.        *)
(*                                                                         *)
(* Syncs, which add rows to a served file in place, are left out: an       *)
(* archive file that is whole always has the same mails.                   *)
(***************************************************************************)
EXTENDS ArchiveClient, SequencesExt

CONSTANTS
    Rows,   \* the mails of each archive, in the order of "date DESC"
    Wanted, \* the mails that meet the filters the reader has set
    PerPage \* per_page

ASSUME ReadsAssumption ==
    /\ DOMAIN Rows = Names
    /\ \A n \in Names : Rows[n] \in Seq(ToSet(Rows[n])) /\ IsInjective(Rows[n])
    /\ PerPage \in Nat \ {0}
    /\ Ops \cap {"sync", "autosync"} = {}

VARIABLES
    req,     \* the request the loop is in the middle of, or has just
             \* answered: [op, from, and], the first and (when it is answered)
             \* the second archive it reads from; or Rest
    list,    \* what a reader who pages through a list has seen
    crossed  \* history: a database was opened between the opening and the
             \* labelling of another

reads == <<req, list, crossed>>

Rest    == [op |-> "rest", from |-> None, and |-> None]
NoList  == [next |-> 0, seen |-> {}, first |-> {}, latest |-> {},
            shrunk |-> FALSE, more |-> FALSE]

-----------------------------------------------------------------------------
(* The swaps, as far as reads notice.                                      *)

\* The database is open but db_path does not name it yet.
Unlabelled == \/ loop.op = "open_run"
              \/ \E w \in Workers : Pc(w) = "label"

Opens == db' # db /\ db' # None /\ db'.open

Swapping == \/ Unlabelled
            \/ loop.op \in {"open", "reopen"}
            \/ \E w \in Workers : Pc(w) = "open"

\* A step of ArchiveClient, noted.
Noted ==
    /\ crossed' = IF ~up' THEN FALSE ELSE IF Opens THEN Unlabelled ELSE crossed
    /\ req' = IF up' THEN req ELSE Rest
    /\ UNCHANGED list

\* Mutant: handlers that are no coroutines run in a pool of threads, and so
\* /open may come between the two reads of another.
BesideThread ==
    \/ Crash \/ Terminate \/ PollStopped \/ Quit
    \/ \E w \in Threads : PressUpdate(w)
    \/ AutoSync
    \/ \E w \in Workers : Worker(w)
    \/ \E p \in Path : Open(p)
    \/ Reload

\* The steps that are not the event loop's.
BesideLoop ==
    \/ Crash \/ Terminate \/ PollStopped \/ Quit
    \/ \E w \in Threads : PressUpdate(w)
    \/ AutoSync
    \/ \E w \in Workers : Worker(w)

-----------------------------------------------------------------------------
(* db.py. A query on a closed connection raises, and so does one on a file *)
(* that is cut short or is being written.                                  *)

Readable == db # None /\ db.open /\ disk[db.path] = "complete"

\* search and browse: the mails that match.
Matches(n) == ToSet(Rows[n]) \cap Wanted

\* "date DESC": k comes no later than m.
Precedes(n, k, m) ==
    \E i, j \in DOMAIN Rows[n] : i <= j /\ Rows[n][i] = k /\ Rows[n][j] = m

\* m is the first, second, ... row of the answer.
Place(n, m) == Cardinality({k \in Matches(n) : Precedes(n, k, m)})

\* LIMIT ? OFFSET ?
Offset(page) == page * PerPage

FetchEmails(n, page) ==
    {m \in Matches(n) : Place(n, m) \in (Offset(page) + 1)..(Offset(page) + PerPage)}

LoopRests == up /\ loop.op = "idle" /\ req = Rest

-----------------------------------------------------------------------------
(* Paging.                                                                 *)

\* The templates show "Next" when the page is full.
NextButton(rows) == Cardinality(rows) = PerPage

\* Mutant: whether there are more pages is decided by how many mails there were
\* when the list was opened.
TurnCounted(old, page, n) ==
    [next   |-> page + 1,
     seen   |-> old.seen \cup FetchEmails(n, page),
     first  |-> old.first,
     latest |-> Matches(n),
     shrunk |-> old.shrunk \/ ~(old.latest \subseteq Matches(n)),
     more   |-> Offset(page + 1) < Cardinality(old.first)]

\* The reader sees a page of archive n.
Turn(old, page, n) ==
    LET rows == FetchEmails(n, page) IN
    [next   |-> page + 1,
     seen   |-> old.seen \cup rows,
     first  |-> old.first,
     latest |-> Matches(n),
     shrunk |-> old.shrunk \/ ~(old.latest \subseteq Matches(n)),
     more   |-> NextButton(rows)]

\* The reader opens a list, or presses "Next". (Without a database the list is
\* empty, and where the query raises, the page stays as it is.)
Browse(page) ==
    /\ LoopRests /\ Readable
    /\ page = 0 \/ (page = list.next /\ list.more)
    /\ LET n == db.path[2]
           old == IF page = 0 THEN [NoList EXCEPT !.first = Matches(n)] ELSE list
       IN  list' = Turn(old, page, n)
    /\ UNCHANGED <<vars, req, crossed>>

-----------------------------------------------------------------------------
(* One e-mail and one attachment.                                          *)

\* get_email and get_attachment_by_sha256 ask the database. (A mail or a row
\* that is not there is answered with 404.)
Begin(op) ==
    /\ LoopRests /\ Readable
    /\ req' = [op |-> op, from |-> db.path, and |-> None]
    /\ UNCHANGED <<vars, list, crossed>>

Awaits(op) == req.op = op /\ req.and = None

Reply(second) ==
    /\ req' = [req EXCEPT !.and = second]
    /\ UNCHANGED <<vars, list, crossed>>

\* email_detail reads state.db again for the attachments.
EmailDetail == Awaits("email") /\ Readable /\ Reply(db.path)

\* download_attachment looks for the file beside db_path.
DownloadAttachment == Awaits("attachment") /\ db_path # None /\ Reply(db_path)

\* The answer goes out; or there is none: 503 without a path, 500 where the
\* second query raises.
EndRequest ==
    /\ \/ req.and # None
       \/ Awaits("email") /\ ~Readable
       \/ Awaits("attachment") /\ db_path = None
    /\ req' = Rest
    /\ UNCHANGED <<vars, list, crossed>>

-----------------------------------------------------------------------------
ReadsInit ==
    /\ Init
    /\ req = Rest /\ list = NoList /\ crossed = FALSE

Reading ==
    \/ \E page \in 0..list.next : Browse(page)
    \/ Begin("email") \/ Begin("attachment")
    \/ EmailDetail \/ DownloadAttachment \/ EndRequest

ReadsNext ==
    \/ req = Rest /\ Next /\ Noted
    \/ req # Rest /\ BesideLoop /\ Noted
    \/ Reading

ReadsSpec == ReadsInit /\ [][ReadsNext]_<<vars, reads>>

-----------------------------------------------------------------------------
(* Properties.                                                             *)

\* Once the swaps are over, db_path names the file that is served: the next
\* download goes beside it, the attachments are looked up beside it and
\* /restart opens it again. Only where two swaps crossed, the last to open and
\* the last to label may differ, until the next swap.
LabelFollowsOpen ==
    up /\ ~Swapping /\ ~crossed /\ db # None => db.path = db_path

\* A swap may fall between the two reads of a request, but only one that a
\* thread makes. So the page of an e-mail that every later archive has is never
\* filled from an archive without it, which would show it without its
\* attachments; and an attachment is looked up in the directory of the archive
\* that names it.
LaterHave(m) == \A v \in Versions : m \in ToSet(Rows[v])

AnswerFits ==
    req.and # None =>
        /\ req.op = "email" =>
             \A m \in ToSet(Rows[req.from[2]]) :
                 LaterHave(m) => m \in ToSet(Rows[req.and[2]])
        /\ req.op = "attachment" => req.and[1] = req.from[1]

\* Two archives have the mails they share in one order: their dates decide, and
\* of mails with one date the rows, which SQL leaves open.
SameOrder ==
    \A n, k \in Names : \A x, y \in ToSet(Rows[n]) \cap ToSet(Rows[k]) :
        Precedes(n, x, y) => Precedes(k, x, y)

\* Who pages to the end has seen every matching mail of the archive the first
\* page came from, although the archive may be replaced between the pages by
\* one with more mails (which moves mails to later pages, where they may come
\* again), but for one with fewer.
NoMailSkipped ==
    list.next > 0 /\ ~list.more /\ ~list.shrunk => list.first \subseteq list.seen

=============================================================================

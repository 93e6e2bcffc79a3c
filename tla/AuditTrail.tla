----------------------------- MODULE AuditTrail -----------------------------
(***************************************************************************)
(* The audit trail of the server and the sessions it reports: the list     *)
(* AppState.audit_events and the file MRIJA_AUDIT_LOG names (state.py), the*)
(* middleware, login and logout (server.py).                               *)
(*                                                                         *)
(* log_audit appends to the list, trims it and appends to the file. The    *)
(* event loop calls it from the handlers, the threads of the syncs call it *)
(* beside the loop, without a lock. Handlers run one at a time, but a      *)
(* request that has passed the middleware waits for its handler while      *)
(* others are served. The disk may be full; the server may be killed and   *)
(* started again, and browsers keep their cookies.                         *)
(***************************************************************************)
EXTENDS Naturals, FiniteSets, SequencesExt

CONSTANTS
    Browsers,    \* the browsers; each sends any number of requests at once
    Slots,       \* bound: requests between the middleware and their handler
    Sids,        \* what token_hex returns, never the same twice
    Tasks,       \* the threads that run a sync, "loop" being the event loop
    AuditLimit,  \* _AUDIT_LIMIT
    MaxEntries,  \* bound: entries logged over all runs of the server
    MaxRequests, \* bound: requests counted in a session
    Junk,        \* a line that json.loads refuses
    None         \* Python's None

Loggers == Tasks \cup {"loop"}

Events == {"server_started", "auth_required", "login_success", "login_failed",
           "logout", "sync"}

Entry == [n : 1..MaxEntries, event : Events, sid : Sids \cup {None}, reqs : Nat]

ASSUME AuditAssumption ==
    /\ "loop" \notin Tasks /\ IsFiniteSet(Tasks)
    /\ AuditLimit \in Nat /\ AuditLimit >= Cardinality(Loggers)
    /\ MaxEntries \in Nat /\ MaxRequests \in Nat
    /\ None \notin Sids \cup Nat /\ Junk # None
    /\ Junk \notin Entry /\ None \notin Entry

VARIABLES
    server,   \* "down", "up", or "refused": create_app raised
    audit,    \* AppState.audit_events
    file,     \* the lines of the audit file: entries, and Junk
    tail,     \* what follows the last newline: None, an entry, or Junk
    garbled,  \* the file holds half a character of UTF-8
    logger,   \* each thread in log_audit: [pc, entry]
    _SESSIONS, \* the global set
    sessions, \* AppState.sessions: how many requests each was used for
    cookie,   \* each browser's mrija_sid
    request,  \* requests that wait for their handler: [path, sid, browser]
    trail,    \* history: every entry logged so far
    since,    \* history: the entries in the file when the server started, and
              \* those logged since
    failed, interrupted \* history: writes that raised; entries in hand when
              \* the server was killed

files == <<file, tail, garbled>>
users == <<_SESSIONS, sessions, cookie, request>>
hist  == <<trail, since, failed, interrupted>>
vars  == <<server, audit, files, logger, users, hist>>

Idle == [pc |-> "idle", entry |-> None]
Free == [path |-> "", sid |-> None, browser |-> None]

-----------------------------------------------------------------------------
(* log_audit                                                               *)

NewEntry(event, sid, reqs) ==
    [n |-> Len(trail) + 1, event |-> event, sid |-> sid, reqs |-> reqs]

\* The first statement; the others are steps of their own, since any thread
\* may come in between.
LogFrom(l, list, known, event, sid, reqs) ==
    LET e == NewEntry(event, sid, reqs)
    IN  /\ logger[l].pc = "idle" /\ Len(trail) < MaxEntries
        /\ audit' = Append(list, e)
        /\ logger' = [logger EXCEPT ![l] = [pc |-> "check", entry |-> e]]
        /\ trail' = Append(trail, e) /\ since' = Append(known, e)
        /\ UNCHANGED <<failed, interrupted>>

Log(l, event, sid, reqs) == LogFrom(l, audit, since, event, sid, reqs)

CheckLength(l) ==
    /\ logger[l].pc = "check"
    /\ logger' = [logger EXCEPT ![l].pc =
                    IF Len(audit) > AuditLimit THEN "pop" ELSE "write"]
    /\ UNCHANGED <<server, audit, files, users, hist>>

PopOldest(l) ==
    /\ logger[l].pc = "pop"
    /\ audit' = Tail(audit)
    /\ logger' = [logger EXCEPT ![l].pc = "write"]
    /\ UNCHANGED <<server, files, users, hist>>

\* A line that follows a cut one is one with it.
Line(e) == IF tail = None THEN e ELSE Junk

\* Mutant: no newline at the end.
AppendText(e) == file' = file /\ tail' = Line(e)

AppendLine(e) == file' = Append(file, Line(e)) /\ tail' = None

\* _append_audit_file
WriteLine(l) ==
    /\ logger[l].pc = "write"
    /\ AppendLine(logger[l].entry)
    /\ logger' = [logger EXCEPT ![l] = Idle]
    /\ UNCHANGED <<server, audit, garbled, users, hist>>

\* The disk is full: the file keeps nothing of the line, or a part of it, which
\* may end in the middle of a character (ensure_ascii is off) or be all of it
\* but the newline.
WriteFails(l) ==
    /\ logger[l].pc = "write"
    /\ tail' \in {tail, Junk, Line(logger[l].entry)}
    /\ garbled' \in {garbled, garbled \/ tail' = Junk}
    /\ failed' = failed + 1
    /\ logger' = [logger EXCEPT ![l] = Idle]
    /\ UNCHANGED <<server, audit, file, users, trail, since, interrupted>>

Logging(l) == CheckLength(l) \/ PopOldest(l) \/ WriteLine(l) \/ WriteFails(l)

\* A sync reports how it went.
TaskLogs(t) ==
    /\ server = "up" /\ Log(t, "sync", None, 0)
    /\ UNCHANGED <<server, files, users>>

-----------------------------------------------------------------------------
(* The start and the end of the server.                                    *)

Valid(line) == line # Junk

\* entries, after the loop over the first i lines
Entries(lines) ==
    LET entries[i \in 0..Len(lines)] ==
          IF i = 0 THEN <<>>
          ELSE IF Valid(lines[i]) THEN Append(entries[i - 1], lines[i])
          ELSE entries[i - 1]
    IN  entries[Len(lines)]

Readable == Entries(file \o (IF tail = None THEN <<>> ELSE <<tail>>))

\* Mutant: the oldest.
FirstEntries(s) == SubSeq(s, 1, IF Len(s) < AuditLimit THEN Len(s) ELSE AuditLimit)

\* entries[-_AUDIT_LIMIT:]
LastEntries(s) == IF Len(s) <= AuditLimit THEN s
                  ELSE SubSeq(s, Len(s) - AuditLimit + 1, Len(s))

\* create_app: load_audit_file, then log_audit.
Start ==
    /\ server = "down" /\ ~garbled
    /\ server' = "up"
    /\ LogFrom("loop", LastEntries(Readable), Readable, "server_started", None, 0)
    /\ UNCHANGED <<files, users>>

\* read_text raises UnicodeDecodeError, which is not the OSError the code
\* expects.
StartFails ==
    /\ server = "down" /\ garbled
    /\ server' = "refused"
    /\ UNCHANGED <<audit, files, logger, users, hist>>

InHand == {l \in Loggers : logger[l] # Idle}

Kill ==
    /\ server = "up" /\ server' = "down"
    /\ audit' = <<>> /\ since' = <<>>
    /\ interrupted' = interrupted + Cardinality(InHand)
    /\ logger' = [l \in Loggers |-> Idle]
    /\ _SESSIONS' = {} /\ sessions' = [s \in {} |-> 0]
    /\ request' = [q \in Slots |-> Free]
    /\ UNCHANGED <<files, cookie, trail, failed>>

-----------------------------------------------------------------------------
(* Requests. The loop takes the next one when it is not in log_audit.      *)

LoopFree == server = "up" /\ logger["loop"] = Idle

Issued == {trail[i].sid : i \in DOMAIN trail}

\* login_post
Login(b) ==
    /\ LoopFree
    /\ \E s \in Sids \ Issued :
         /\ _SESSIONS' = _SESSIONS \cup {s}
         /\ sessions' = [t \in DOMAIN sessions \cup {s} |-> IF t = s THEN 0 ELSE sessions[t]]
         /\ cookie' = [cookie EXCEPT ![b] = s]
         /\ Log("loop", "login_success", s, 0)
    /\ UNCHANGED <<server, files, request>>

LoginFails ==
    /\ LoopFree /\ Log("loop", "login_failed", None, 0)
    /\ UNCHANGED <<server, files, users>>

\* touch_session
Touch(sid) ==
    IF sid \in DOMAIN sessions THEN [sessions EXCEPT ![sid] = @ + 1] ELSE sessions

Passes(q, b, path) ==
    /\ cookie[b] \in DOMAIN sessions => sessions[cookie[b]] < MaxRequests
    /\ request[q] = Free
    /\ request' = [request EXCEPT ![q] = [path |-> path, sid |-> cookie[b], browser |-> b]]

\* The middleware _auth on a path that is not public.
Auth(q, b, path) ==
    /\ LoopFree
    /\ IF cookie[b] \in _SESSIONS
       THEN /\ Passes(q, b, path) /\ sessions' = Touch(cookie[b])
            /\ UNCHANGED <<audit, logger, hist>>
       ELSE /\ Log("loop", "auth_required", None, 0)
            /\ UNCHANGED <<sessions, request>>
    /\ UNCHANGED <<server, files, _SESSIONS, cookie>>

\* Mutant: get in the place of pop.
LookUpSession(sid) == sessions' = sessions

\* end_session
EndSession(sid) == sessions' = [s \in DOMAIN sessions \ {sid} |-> sessions[s]]

\* Mutant: get("requests") without a default.
CountOrNone(sid) == IF sid \in DOMAIN sessions THEN sessions[sid] ELSE None

\* session.get("requests", 0) if session else 0
Count(sid) == IF sid \in DOMAIN sessions THEN sessions[sid] ELSE 0

\* The handler of /logout.
Logout(q) ==
    /\ LoopFree /\ request[q].path = "logout"
    /\ LET sid == request[q].sid
       IN  /\ _SESSIONS' = _SESSIONS \ {sid}
           /\ EndSession(sid)
           /\ Log("loop", "logout", sid, Count(sid))
    /\ cookie' = [cookie EXCEPT ![request[q].browser] = None]
    /\ request' = [request EXCEPT ![q] = Free]
    /\ UNCHANGED <<server, files>>

\* Any other handler.
Answer(q) ==
    /\ LoopFree /\ request[q].path = "page"
    /\ request' = [request EXCEPT ![q] = Free]
    /\ UNCHANGED <<server, audit, files, logger, _SESSIONS, sessions, cookie, hist>>

\* After seven days, or when its data are cleared, the browser forgets.
CookieExpires(b) ==
    /\ cookie[b] # None /\ cookie' = [cookie EXCEPT ![b] = None]
    /\ UNCHANGED <<server, audit, files, logger, _SESSIONS, sessions, request, hist>>

Traffic ==
    \/ \E b \in Browsers :
         \/ Login(b) \/ CookieExpires(b)
         \/ \E q \in Slots, path \in {"page", "logout"} : Auth(q, b, path)
    \/ LoginFails
    \/ \E q \in Slots : Logout(q) \/ Answer(q)

-----------------------------------------------------------------------------
Init ==
    /\ server = "down" /\ audit = <<>>
    /\ file = <<>> /\ tail = None /\ garbled = FALSE
    /\ logger = [l \in Loggers |-> Idle]
    /\ _SESSIONS = {} /\ sessions = [s \in {} |-> 0]
    /\ cookie = [b \in Browsers |-> None]
    /\ request = [q \in Slots |-> Free]
    /\ trail = <<>> /\ since = <<>> /\ failed = 0 /\ interrupted = 0

Next ==
    \/ Start \/ StartFails \/ Kill
    \/ \E l \in Loggers : Logging(l)
    \/ \E t \in Tasks : TaskLogs(t)
    \/ Traffic

Spec == Init /\ [][Next]_vars

-----------------------------------------------------------------------------
(* Properties.                                                             *)

TypeOK ==
    /\ server \in {"down", "up", "refused"}
    /\ audit \in Seq(Entry) /\ trail \in Seq(Entry) /\ since \in Seq(Entry)
    /\ \A i \in DOMAIN file : file[i] = Junk \/ file[i] \in Entry
    /\ tail \in {None, Junk} \/ tail \in Entry
    /\ garbled \in BOOLEAN
    /\ \A l \in Loggers :
         \/ logger[l] = Idle
         \/ logger[l].pc \in {"check", "pop", "write"} /\ logger[l].entry \in Entry
    /\ _SESSIONS \in SUBSET Sids
    /\ DOMAIN sessions \subseteq Sids
    /\ \A s \in DOMAIN sessions : sessions[s] \in 0..MaxRequests
    /\ cookie \in [Browsers -> Sids \cup {None}]
    /\ DOMAIN request = Slots
    /\ failed \in Nat /\ interrupted \in Nat

\* The audit page shows the newest entries, across restarts and with several
\* threads logging at once: the list is the end of what the file held at the
\* start and what was logged since, with no gap. It is longer than the limit
\* only by what is in hand; and since two threads may each pop for one excess
\* entry, it may be shorter than the limit by one entry for each other thread.
NewestInMemory ==
    server = "up" =>
        LET n == Len(audit)
        IN  /\ IsSuffix(audit, since)
            /\ n <= AuditLimit + Cardinality(InHand)
            /\ n >= Len(since) \/ n + Cardinality(Tasks) >= AuditLimit

Stored == {file[i] : i \in DOMAIN file} \cup {tail}

\* Every entry reaches the file, once: a write that fails loses at most itself
\* and the entry that is appended to its remains, a kill what was in hand.
LossesAreBounded ==
    Len(trail) <= Cardinality(Stored \ {Junk, None}) + Cardinality(InHand)
                    + 2 * failed + interrupted

\* A logout follows the login of its session, and of several for one session -
\* two tabs may both have passed the middleware - the first carries the number
\* of requests, its own included, the others none.
LogoutsAddUp ==
    \A i \in DOMAIN trail : trail[i].event = "logout" =>
        LET same(k) == trail[k].sid = trail[i].sid
        IN  /\ \E k \in 1..(i - 1) : same(k) /\ trail[k].event = "login_success"
            /\ trail[i].reqs = 0 <=>
                 \E k \in 1..(i - 1) : same(k) /\ trail[k].event = "logout"

=============================================================================

-------------------------- MODULE AuditTrailProofs --------------------------
(***************************************************************************)
(* Sessions, their logins and their logouts in the audit trail, and what   *)
(* becomes of its entries in memory and on the disk: for any browsers,     *)
(* threads and requests at once, across kills of the server.               *)
(***************************************************************************)
EXTENDS AuditTrail, SequenceTheorems, FiniteSetTheorems, WellFoundedInduction,
        TLAPS

Has(s, event) == \E k \in 1..Len(trail) : trail[k].sid = s /\ trail[k].event = event

LoggedIn(s)  == Has(s, "login_success")
LoggedOut(s) == Has(s, "logout")

Requests == [path : {"", "page", "logout"}, sid : Sids \cup {None},
             browser : Browsers \cup {None}]

UsersOK ==
    /\ trail \in Seq(Entry)
    /\ DOMAIN sessions \subseteq Sids /\ _SESSIONS = DOMAIN sessions
    /\ \A s \in DOMAIN sessions : sessions[s] \in Nat
    /\ cookie \in [Browsers -> Sids \cup {None}]
    /\ request \in [Slots -> Requests]

\* A session is one that was logged in and has not been logged out.
Live == \A s \in DOMAIN sessions : LoggedIn(s) /\ ~LoggedOut(s)

\* A request that has passed the middleware was counted, or its session is over.
Passed ==
    \A q \in Slots : request[q].path # "" =>
        LET s == request[q].sid
        IN  /\ s \in Sids /\ LoggedIn(s)
            /\ s \in DOMAIN sessions => sessions[s] >= 1
            /\ s \notin DOMAIN sessions => LoggedOut(s)

UsersInv == UsersOK /\ Live /\ Passed

LEMMA FreeRequest == Free \in Requests /\ Free.path = ""
BY DEF Free, Requests

\* What an entry adds to the trail.
LEMMA Logged ==
    ASSUME UsersOK, NEW l, NEW list, NEW known,
           NEW event \in Events, NEW sid \in Sids \cup {None}, NEW reqs \in Nat,
           LogFrom(l, list, known, event, sid, reqs)
    PROVE  /\ trail' \in Seq(Entry) /\ Len(trail') = Len(trail) + 1
           /\ \A i \in 1..Len(trail) : trail'[i] = trail[i]
           /\ trail'[Len(trail) + 1].event = event
           /\ trail'[Len(trail) + 1].sid = sid
           /\ trail'[Len(trail) + 1].reqs = reqs
           /\ \A s, v : Has(s, v)' <=> Has(s, v) \/ (s = sid /\ v = event)
<1> DEFINE e == [n |-> Len(trail) + 1, event |-> event, sid |-> sid, reqs |-> reqs]
<1>1. trail' = Append(trail, e) /\ Len(trail) < MaxEntries
  BY DEF LogFrom, NewEntry
<1>2. trail \in Seq(Entry) /\ Len(trail) \in Nat
  BY DEF UsersOK
<1>3. e \in Entry
  BY <1>1, <1>2, AuditAssumption DEF Entry
<1>4. /\ trail' \in Seq(Entry) /\ Len(trail') = Len(trail) + 1
      /\ \A i \in 1..Len(trail) : trail'[i] = trail[i]
      /\ trail'[Len(trail) + 1] = e
  BY <1>1, <1>2, <1>3
<1>5. e.event = event /\ e.sid = sid /\ e.reqs = reqs
  OBVIOUS
<1>6. ASSUME NEW s, NEW v
      PROVE  Has(s, v)' <=> Has(s, v) \/ (s = sid /\ v = event)
  <2>1. 1..Len(trail') = 1..Len(trail) \cup {Len(trail) + 1}
    BY <1>2, <1>4
  <2>2. QED BY <1>4, <1>5, <2>1 DEF Has
<1>7. QED BY <1>4, <1>5, <1>6

LEMMA InitUsers == Init => UsersInv
<1> SUFFICES ASSUME Init PROVE UsersInv
  OBVIOUS
<1>1. /\ trail = <<>> /\ _SESSIONS = {} /\ DOMAIN sessions = {}
      /\ \A b \in Browsers : cookie[b] = None
      /\ \A q \in Slots : request[q] = Free
  BY DEF Init
<1>2. cookie \in [Browsers -> Sids \cup {None}]
  BY DEF Init
<1>3. request \in [Slots -> Requests]
  BY FreeRequest DEF Init
<1>4. UsersOK
  BY <1>1, <1>2, <1>3 DEF UsersOK
<1>5. Live /\ Passed
  BY <1>1, FreeRequest DEF Live, Passed
<1>6. QED BY <1>4, <1>5 DEF UsersInv

LEMMA NextUsers ==
    ASSUME UsersInv, [Next]_vars
    PROVE  UsersInv'
<1>a. UsersOK /\ Live /\ Passed
  BY DEF UsersInv
<1>b. None \notin Sids
  BY AuditAssumption
<1>1. ASSUME UNCHANGED <<trail, users>>
      PROVE  UsersInv'
  BY <1>a, <1>1 DEF users, UsersInv, UsersOK, Live, Passed, LoggedIn, LoggedOut, Has
<1>2. ASSUME NEW l, NEW list, NEW known, NEW event \in Events \ {"login_success", "logout"},
             LogFrom(l, list, known, event, None, 0), UNCHANGED users
      PROVE  UsersInv'
  <2>1. /\ trail' \in Seq(Entry)
        /\ \A s, v : Has(s, v)' <=> Has(s, v) \/ (s = None /\ v = event)
    BY <1>a, <1>2, Logged
  <2>2. QED
    BY <1>a, <1>2, <2>1 DEF users, UsersInv, UsersOK, Live, Passed, LoggedIn, LoggedOut
<1>3. CASE Start \/ \E t \in Tasks : TaskLogs(t)
  BY <1>2, <1>3 DEF Start, TaskLogs, Log, Events
<1>4. CASE StartFails \/ \E l \in Loggers : Logging(l)
  BY <1>1, <1>4 DEF StartFails, Logging, CheckLength, PopOldest, WriteLine, WriteFails,
     hist
<1>5. CASE Kill
  <2>1. DOMAIN sessions' = {} /\ _SESSIONS' = {} /\ UNCHANGED <<cookie, trail>>
    BY <1>5 DEF Kill
  <2>2. request' \in [Slots -> Requests] /\ \A q \in Slots : request'[q].path = ""
    BY <1>5, FreeRequest DEF Kill
  <2>3. QED BY <1>a, <2>1, <2>2 DEF UsersInv, UsersOK, Live, Passed
<1>6. ASSUME NEW b \in Browsers, Login(b)
      PROVE  UsersInv'
  <2>1. PICK s \in Sids \ Issued :
          /\ _SESSIONS' = _SESSIONS \cup {s}
          /\ sessions' = [t \in DOMAIN sessions \cup {s} |->
                            IF t = s THEN 0 ELSE sessions[t]]
          /\ cookie' = [cookie EXCEPT ![b] = s]
          /\ Log("loop", "login_success", s, 0)
    BY <1>6 DEF Login
  <2>2. request' = request
    BY <1>6 DEF Login
  <2>3. /\ trail' \in Seq(Entry)
        /\ \A t, v : Has(t, v)' <=> Has(t, v) \/ (t = s /\ v = "login_success")
    BY <1>a, <2>1, Logged DEF Log, Events
  <2>4. ~LoggedIn(s) /\ ~LoggedOut(s)
    BY <1>a, <2>1 DEF Issued, LoggedIn, LoggedOut, Has, UsersOK
  <2>5. UsersOK'
    BY <1>a, <2>1, <2>2, <2>3 DEF UsersOK
  <2>6. Live'
    BY <1>a, <2>1, <2>3, <2>4 DEF Live, LoggedIn, LoggedOut
  <2>7. Passed'
    BY <1>a, <2>1, <2>2, <2>3, <2>4 DEF Passed, LoggedIn, LoggedOut
  <2>8. QED BY <2>5, <2>6, <2>7 DEF UsersInv
<1>7. CASE LoginFails
  BY <1>2, <1>7 DEF LoginFails, Log, Events
<1>8. ASSUME NEW b \in Browsers, NEW q \in Slots, NEW path \in {"page", "logout"},
             Auth(q, b, path)
      PROVE  UsersInv'
  <2>1. CASE cookie[b] \in _SESSIONS
    <3>1. /\ request' = [request EXCEPT ![q] = [path |-> path, sid |-> cookie[b], browser |-> b]]
          /\ sessions' = [sessions EXCEPT ![cookie[b]] = @ + 1]
          /\ UNCHANGED <<_SESSIONS, cookie, trail>>
      BY <1>a, <1>8, <2>1 DEF Auth, Passes, Touch, UsersOK, hist
    <3>2. [path |-> path, sid |-> cookie[b], browser |-> b] \in Requests
      BY <1>a DEF Requests, UsersOK
    <3>2a. request' \in [Slots -> Requests]
      BY <1>a, <3>1, <3>2 DEF UsersOK
    <3>2b. /\ DOMAIN sessions' = DOMAIN sessions
          /\ \A s \in DOMAIN sessions' : sessions'[s] \in Nat
      BY <1>a, <3>1 DEF UsersOK
    <3>3. UsersOK'
      BY <1>a, <3>1, <3>2a, <3>2b DEF UsersOK
    <3>4. Live'
      BY <1>a, <3>1 DEF Live, LoggedIn, LoggedOut, Has
    <3>5. ASSUME NEW p \in Slots, request'[p].path # ""
          PROVE  LET s == request'[p].sid
                 IN  /\ s \in Sids /\ LoggedIn(s)
                     /\ s \in DOMAIN sessions' => sessions'[s] >= 1
                     /\ s \notin DOMAIN sessions' => LoggedOut(s)
      <4>1. CASE p = q
        <5>1. request'[p].sid = cookie[b] /\ cookie[b] \in DOMAIN sessions
          BY <1>a, <2>1, <3>1, <4>1 DEF UsersOK
        <5>2. sessions'[cookie[b]] = sessions[cookie[b]] + 1 /\ sessions[cookie[b]] \in Nat
          BY <1>a, <3>1, <5>1 DEF UsersOK
        <5>3. cookie[b] \in Sids /\ LoggedIn(cookie[b]) /\ cookie[b] \in DOMAIN sessions'
          BY <1>a, <3>2b, <5>1 DEF UsersOK, Live
        <5>4. QED BY <5>1, <5>2, <5>3
      <4>2. CASE p # q
        <5>1. request'[p] = request[p]
          BY <1>a, <3>1, <4>2 DEF UsersOK
        <5>2. \A s \in DOMAIN sessions : sessions[s] >= 1 => sessions'[s] >= 1
          BY <1>a, <3>1 DEF UsersOK
        <5>3. QED BY <1>a, <3>5, <3>2b, <5>1, <5>2 DEF Passed
      <4>3. QED BY <4>1, <4>2
    <3>6. Passed'
      BY <3>1, <3>5 DEF Passed, LoggedIn, LoggedOut, Has
    <3>7. QED BY <3>3, <3>4, <3>6 DEF UsersInv
  <2>2. CASE cookie[b] \notin _SESSIONS
    <3>1. Log("loop", "auth_required", None, 0) /\ UNCHANGED users
      BY <1>8, <2>2 DEF Auth, users
    <3>2. QED BY <1>2, <3>1 DEF Log, Events
  <2>3. QED BY <2>1, <2>2
<1>9. ASSUME NEW q \in Slots, Logout(q)
      PROVE  UsersInv'
  <2>1. PICK s : s = request[q].sid
    OBVIOUS
  <2>2. /\ _SESSIONS' = _SESSIONS \ {s}
        /\ sessions' = [t \in DOMAIN sessions \ {s} |-> sessions[t]]
        /\ Log("loop", "logout", s, Count(s))
        /\ cookie' = [cookie EXCEPT ![request[q].browser] = None]
        /\ request' = [request EXCEPT ![q] = Free]
        /\ request[q].path = "logout"
    BY <1>9, <2>1 DEF Logout, EndSession
  <2>3. s \in Sids /\ Count(s) \in Nat
    BY <1>a, <2>1, <2>2 DEF Passed, Count, UsersOK
  <2>4. /\ trail' \in Seq(Entry)
        /\ \A t, v : Has(t, v)' <=> Has(t, v) \/ (t = s /\ v = "logout")
    BY <1>a, <2>2, <2>3, Logged DEF Log, Events
  <2>4a. request' \in [Slots -> Requests] /\ cookie' \in [Browsers -> Sids \cup {None}]
    BY <1>a, <2>2, FreeRequest DEF UsersOK
  <2>4b. /\ DOMAIN sessions' = DOMAIN sessions \ {s}
         /\ \A t \in DOMAIN sessions' : sessions'[t] = sessions[t]
    BY <2>2
  <2>5. UsersOK'
    BY <1>a, <2>2, <2>4, <2>4a, <2>4b DEF UsersOK
  <2>6. Live'
    BY <1>a, <2>4, <2>4b DEF Live, LoggedIn, LoggedOut
  <2>7. \A p \in Slots : request'[p].path # "" => request'[p] = request[p]
    BY <1>a, <2>2, FreeRequest DEF UsersOK
  <2>8. Passed'
    BY <1>a, <2>4, <2>7, <2>4b DEF Passed, LoggedIn, LoggedOut
  <2>9. QED BY <2>5, <2>6, <2>8 DEF UsersInv
<1>10. ASSUME NEW q \in Slots, Answer(q)
       PROVE  UsersInv'
  <2>1. /\ request' = [request EXCEPT ![q] = Free]
        /\ UNCHANGED <<_SESSIONS, sessions, cookie, trail>>
    BY <1>10 DEF Answer, hist
  <2>2. request' \in [Slots -> Requests]
    BY <1>a, <2>1, FreeRequest DEF UsersOK
  <2>3. \A p \in Slots : request'[p].path # "" => request'[p] = request[p]
    BY <1>a, <2>1, FreeRequest DEF UsersOK
  <2>4. UsersOK' /\ Live'
    BY <1>a, <2>1, <2>2 DEF UsersOK, Live, LoggedIn, LoggedOut, Has
  <2>5. \A s : (LoggedIn(s)' <=> LoggedIn(s)) /\ (LoggedOut(s)' <=> LoggedOut(s))
    BY <2>1 DEF LoggedIn, LoggedOut, Has
  <2>6. Passed'
    BY <1>a, <2>1, <2>3, <2>5 DEF Passed
  <2>7. QED BY <2>4, <2>6 DEF UsersInv
<1>11. ASSUME NEW b \in Browsers, CookieExpires(b)
       PROVE  UsersInv'
  BY <1>a, <1>11 DEF CookieExpires, hist, UsersInv, UsersOK, Live, Passed, LoggedIn,
     LoggedOut, Has
<1>12. CASE UNCHANGED vars
  BY <1>1, <1>12 DEF vars, hist
<1>13. QED
  BY <1>3, <1>4, <1>5, <1>6, <1>7, <1>8, <1>9, <1>10, <1>11, <1>12 DEF Next, Traffic

\* A step that logs no logout adds none.
LEMMA OtherEntries ==
    ASSUME UsersOK, LogoutsAddUp, NEW l, NEW list, NEW known, NEW event \in Events \ {"logout"},
           NEW sid \in Sids \cup {None}, NEW reqs \in Nat,
           LogFrom(l, list, known, event, sid, reqs)
    PROVE  LogoutsAddUp'
<1>1. /\ trail \in Seq(Entry) /\ trail' \in Seq(Entry) /\ Len(trail') = Len(trail) + 1
      /\ \A i \in 1..Len(trail) : trail'[i] = trail[i]
      /\ trail'[Len(trail) + 1].event # "logout"
  BY Logged DEF UsersOK
<1>2. DOMAIN trail = 1..Len(trail) /\ DOMAIN trail' = 1..Len(trail) \cup {Len(trail) + 1}
  BY <1>1
<1>3. \A i \in 1..Len(trail) : \A k \in 1..(i - 1) : trail'[k] = trail[k]
  BY <1>1
<1>4. ASSUME NEW i \in DOMAIN trail', trail'[i].event = "logout"
      PROVE  /\ \E k \in 1..(i - 1) : /\ trail'[k].sid = trail'[i].sid
                                      /\ trail'[k].event = "login_success"
             /\ trail'[i].reqs = 0 <=>
                  \E k \in 1..(i - 1) : /\ trail'[k].sid = trail'[i].sid
                                        /\ trail'[k].event = "logout"
  <2>1. trail'[i] = trail[i] /\ i \in DOMAIN trail /\ trail[i].event = "logout"
    BY <1>1, <1>2, <1>4
  <2>2. /\ \E k \in 1..(i - 1) : /\ trail[k].sid = trail[i].sid
                                 /\ trail[k].event = "login_success"
        /\ trail[i].reqs = 0 <=>
             \E k \in 1..(i - 1) : /\ trail[k].sid = trail[i].sid
                                   /\ trail[k].event = "logout"
    BY <2>1 DEF LogoutsAddUp
  <2>3. \A k \in 1..(i - 1) : trail'[k] = trail[k]
    BY <1>2, <1>3, <2>1
  <2>4. QED BY <2>1, <2>2, <2>3
<1>5. QED BY <1>4 DEF LogoutsAddUp

LEMMA NextLogouts ==
    ASSUME UsersInv, LogoutsAddUp, [Next]_vars
    PROVE  LogoutsAddUp'
<1>a. UsersOK /\ Live /\ Passed
  BY DEF UsersInv
<1>1. CASE trail' = trail
  BY <1>1 DEF LogoutsAddUp
<1>2. CASE Start \/ LoginFails \/ \E t \in Tasks : TaskLogs(t)
  BY <1>a, <1>2, OtherEntries DEF Start, LoginFails, TaskLogs, Log, Events
<1>3. ASSUME NEW b \in Browsers, Login(b)
      PROVE  LogoutsAddUp'
  BY <1>a, <1>3, OtherEntries DEF Login, Log, Events
<1>4. ASSUME NEW b \in Browsers, NEW q \in Slots, NEW path \in {"page", "logout"},
             Auth(q, b, path)
      PROVE  LogoutsAddUp'
  <2>1. trail' = trail \/ Log("loop", "auth_required", None, 0)
    BY <1>4 DEF Auth, hist
  <2>2. QED BY <1>a, <1>1, <2>1, OtherEntries DEF Log, Events
<1>5. ASSUME NEW q \in Slots, Logout(q)
      PROVE  LogoutsAddUp'
  <2>1. PICK s : s = request[q].sid
    OBVIOUS
  <2>2. Log("loop", "logout", s, Count(s)) /\ request[q].path = "logout"
    BY <1>5, <2>1 DEF Logout
  <2>3. /\ s \in Sids /\ Count(s) \in Nat /\ LoggedIn(s)
        /\ Count(s) = 0 <=> LoggedOut(s)
    <3>1. /\ s \in Sids /\ LoggedIn(s)
          /\ s \in DOMAIN sessions => sessions[s] >= 1
          /\ s \notin DOMAIN sessions => LoggedOut(s)
      BY <1>a, <2>1, <2>2 DEF Passed
    <3>2. CASE s \in DOMAIN sessions
      <4>1. Count(s) = sessions[s] /\ sessions[s] \in Nat /\ ~LoggedOut(s)
        BY <1>a, <3>2 DEF Live, Count, UsersOK
      <4>2. QED BY <3>1, <3>2, <4>1
    <3>3. CASE s \notin DOMAIN sessions
      BY <3>1, <3>3 DEF Count
    <3>4. QED BY <3>2, <3>3
  <2>4. /\ trail \in Seq(Entry) /\ trail' \in Seq(Entry) /\ Len(trail') = Len(trail) + 1
        /\ \A i \in 1..Len(trail) : trail'[i] = trail[i]
        /\ trail'[Len(trail) + 1].sid = s /\ trail'[Len(trail) + 1].reqs = Count(s)
    <3>1. LogFrom("loop", audit, since, "logout", s, Count(s))
      BY <2>2 DEF Log
    <3>2. trail \in Seq(Entry) /\ s \in Sids \cup {None} /\ "logout" \in Events
      BY <1>a, <2>3 DEF UsersOK, Events
    <3>3. /\ trail' \in Seq(Entry) /\ Len(trail') = Len(trail) + 1
          /\ \A i \in 1..Len(trail) : trail'[i] = trail[i]
      BY <1>a, <2>3, <3>1, <3>2, Logged
    <3>4. trail'[Len(trail) + 1].sid = s /\ trail'[Len(trail) + 1].reqs = Count(s)
      <4>1. trail' = Append(trail, NewEntry("logout", s, Count(s)))
        BY <3>1 DEF LogFrom
      <4>2. trail'[Len(trail) + 1] = NewEntry("logout", s, Count(s))
        BY <3>2, <3>3, <4>1
      <4>3. QED BY <4>2 DEF NewEntry
    <3>5. QED BY <3>2, <3>3, <3>4
  <2>5. /\ DOMAIN trail = 1..Len(trail) /\ Len(trail) \in Nat
        /\ DOMAIN trail' = 1..Len(trail) \cup {Len(trail) + 1}
    BY <2>4
  <2>6. \A i \in 1..Len(trail) : \A k \in 1..(i - 1) : trail'[k] = trail[k]
    BY <2>4
  <2>7. ASSUME NEW i \in 1..Len(trail), trail'[i].event = "logout"
        PROVE  /\ \E k \in 1..(i - 1) : /\ trail'[k].sid = trail'[i].sid
                                        /\ trail'[k].event = "login_success"
               /\ trail'[i].reqs = 0 <=>
                    \E k \in 1..(i - 1) : /\ trail'[k].sid = trail'[i].sid
                                          /\ trail'[k].event = "logout"
    <3>1. trail'[i] = trail[i] /\ i \in DOMAIN trail /\ trail[i].event = "logout"
      BY <2>4, <2>5, <2>7
    <3>2. /\ \E k \in 1..(i - 1) : /\ trail[k].sid = trail[i].sid
                                   /\ trail[k].event = "login_success"
          /\ trail[i].reqs = 0 <=>
               \E k \in 1..(i - 1) : /\ trail[k].sid = trail[i].sid
                                     /\ trail[k].event = "logout"
      BY <3>1 DEF LogoutsAddUp
    <3>3. \A k \in 1..(i - 1) : trail'[k] = trail[k]
      BY <2>6
    <3>4. QED BY <3>1, <3>2, <3>3
  <2>8. /\ \E k \in 1..Len(trail) : trail'[k].sid = s /\ trail'[k].event = "login_success"
        /\ Count(s) = 0 <=>
             \E k \in 1..Len(trail) : trail'[k].sid = s /\ trail'[k].event = "logout"
    BY <2>3, <2>4 DEF LoggedIn, LoggedOut, Has
  <2>9. (Len(trail) + 1) - 1 = Len(trail)
    BY <2>5
  <2>10. QED BY <2>4, <2>5, <2>7, <2>8, <2>9 DEF LogoutsAddUp
<1>6. QED
  BY <1>1, <1>2, <1>3, <1>4, <1>5
     DEF Next, Traffic, vars, hist, StartFails, Kill, Logging, CheckLength, PopOldest,
         WriteLine, WriteFails, Answer, CookieExpires

\* A logout in the audit trail has the login of its session before it, and only
\* the first of a session says how many requests it served, however the requests
\* of several tabs overlap (server.py:152).
THEOREM LogoutsAlwaysAddUp == Spec => []LogoutsAddUp
<1>1. Init => LogoutsAddUp
  BY DEF Init, LogoutsAddUp
<1>2. UsersInv /\ LogoutsAddUp /\ [Next]_vars => LogoutsAddUp'
  BY NextLogouts
<1>3. UsersInv /\ [Next]_vars => UsersInv'
  BY NextUsers
<1>4. QED BY <1>1, <1>2, <1>3, InitUsers, PTL DEF Spec

-----------------------------------------------------------------------------
(* The lines of the file.                                                  *)

FileLine == Entry \cup {Junk}

LEMMA LeastNumber ==
    ASSUME NEW S \in SUBSET Nat, S # {}
    PROVE  \E i \in S : \A k \in S : i <= k
<1>1. PICK i \in S : \A k \in S : ~(<<k, i>> \in OpToRel(<, Nat))
  BY NatLessThanWellFounded, WFMin
<1>2. ASSUME NEW k \in S PROVE i <= k
  <2>1. ~(k < i)
    BY <1>1 DEF OpToRel
  <2>2. QED BY <2>1
<1>3. QED BY <1>2

\* One round of the loop of load_audit_file, for all i at once.
Round(entries, lines) ==
    [i \in 0..Len(lines) |->
       IF i = 0 THEN <<>>
       ELSE IF Valid(lines[i]) THEN Append(entries[i - 1], lines[i])
       ELSE entries[i - 1]]

LEMMA LoopEnds ==
    ASSUME NEW lines \in Seq(FileLine)
    PROVE  \E entries : entries = Round(entries, lines)
<1> DEFINE Upto(f, n) ==
             \A i \in 0..n : f[i] = IF i = 0 THEN <<>>
                                    ELSE IF Valid(lines[i]) THEN Append(f[i - 1], lines[i])
                                    ELSE f[i - 1]
           Bad == {n \in Nat : ~ \E f : f = [i \in 0..n |-> f[i]] /\ Upto(f, n)}
<1>1. Len(lines) \in Nat
  OBVIOUS
<1>2. Bad = {}
  <2> SUFFICES ASSUME Bad # {} PROVE FALSE
    OBVIOUS
  <2>1. PICK n \in Bad : \A k \in Bad : n <= k
    <3>1. Bad \in SUBSET Nat
      OBVIOUS
    <3> HIDE DEF Bad
    <3>2. QED BY <3>1, LeastNumber
  <2>2. n # 0
    <3> SUFFICES ASSUME n = 0 PROVE FALSE
      OBVIOUS
    <3> DEFINE f == [i \in 0..0 |-> <<>>]
    <3>1. f = [i \in 0..n |-> f[i]] /\ Upto(f, n)
      OBVIOUS
    <3>2. QED BY <2>1, <3>1
  <2>3. n \in Nat /\ n - 1 \in Nat /\ n - 1 \notin Bad
    <3>1. n \in Nat
      BY <2>1
    <3>2. n - 1 \in Nat /\ ~(n <= n - 1)
      BY <2>2, <3>1
    <3> HIDE DEF Bad
    <3>3. QED BY <2>1, <3>1, <3>2
  <2>4. PICK f : f = [i \in 0..(n - 1) |-> f[i]] /\ Upto(f, n - 1)
    BY <2>3
  <2> DEFINE g == [i \in 0..n |-> IF i = n
                                  THEN IF Valid(lines[n]) THEN Append(f[n - 1], lines[n])
                                       ELSE f[n - 1]
                                  ELSE f[i]]
  <2>5. g = [i \in 0..n |-> g[i]]
    OBVIOUS
  <2>6. \A i \in 0..(n - 1) : i \in 0..n /\ i # n /\ g[i] = f[i]
    BY <2>3
  <2>7. g[n] = IF Valid(lines[n]) THEN Append(f[n - 1], lines[n]) ELSE f[n - 1]
    BY <2>3
  <2> HIDE DEF g
  <2>8. ASSUME NEW i \in 0..n
        PROVE  g[i] = IF i = 0 THEN <<>>
                      ELSE IF Valid(lines[i]) THEN Append(g[i - 1], lines[i])
                      ELSE g[i - 1]
    <3>1. CASE i = n
      <4>1. n - 1 \in 0..(n - 1)
        BY <2>3
      <4>2. QED BY <2>2, <2>6, <2>7, <3>1, <4>1
    <3>2. CASE i # n
      <4>1. i \in 0..(n - 1) /\ (i # 0 => i - 1 \in 0..(n - 1))
        BY <2>3, <3>2
      <4>2. QED BY <2>4, <2>6, <4>1
    <3>3. QED BY <3>1, <3>2
  <2>9. Upto(g, n)
    BY <2>8
  <2>10. QED BY <2>1, <2>5, <2>9
<1>3. PICK f : f = [i \in 0..Len(lines) |-> f[i]] /\ Upto(f, Len(lines))
  BY <1>1, <1>2
<1>4. f = Round(f, lines)
  <2>1. DOMAIN f = 0..Len(lines) /\ DOMAIN Round(f, lines) = 0..Len(lines)
    BY <1>3 DEF Round
  <2>2. \A i \in 0..Len(lines) : f[i] = Round(f, lines)[i]
    BY <1>3 DEF Round
  <2>3. Round(f, lines) = [i \in 0..Len(lines) |-> Round(f, lines)[i]]
    BY DEF Round
  <2>4. QED BY <1>3, <2>2, <2>3
<1>5. QED BY <1>4

\* What load_audit_file reads are entries.
LEMMA ReadsEntries ==
    ASSUME NEW lines \in Seq(FileLine)
    PROVE  Entries(lines) \in Seq(Entry)
<1> DEFINE f == CHOOSE entries : entries = Round(entries, lines)
<1>1. Entries(lines) = f[Len(lines)]
  BY DEF Entries, Round
<1>2. f = Round(f, lines)
  BY LoopEnds
<1> HIDE DEF f
<1>3. Len(lines) \in Nat
  OBVIOUS
<1>4. \A i \in 0..Len(lines) :
         f[i] = IF i = 0 THEN <<>>
                ELSE IF Valid(lines[i]) THEN Append(f[i - 1], lines[i])
                ELSE f[i - 1]
  BY <1>2 DEF Round
<1> DEFINE Bad == {i \in 0..Len(lines) : f[i] \notin Seq(Entry)}
<1>5. Bad = {}
  <2> SUFFICES ASSUME Bad # {} PROVE FALSE
    OBVIOUS
  <2>1. PICK n \in Bad : \A k \in Bad : n <= k
    <3>1. Bad \in SUBSET Nat
      OBVIOUS
    <3> HIDE DEF Bad
    <3>2. QED BY <3>1, LeastNumber
  <2>2. n \in 0..Len(lines) /\ f[n] \notin Seq(Entry) /\ n # 0
    <3>1. n \in 0..Len(lines) /\ f[n] \notin Seq(Entry)
      BY <2>1
    <3>2. f[0] = <<>>
      BY <1>3, <1>4
    <3>3. <<>> \in Seq(Entry)
      OBVIOUS
    <3>4. QED BY <3>1, <3>2, <3>3
  <2>3. n - 1 \in 0..Len(lines) /\ ~(n <= n - 1) /\ n \in 1..Len(lines)
    BY <1>3, <2>2
  <2>4. f[n - 1] \in Seq(Entry)
    BY <2>1, <2>3
  <2>5. Valid(lines[n]) => lines[n] \in Entry
    BY <2>3 DEF Valid, FileLine
  <2>6. f[n] \in Seq(Entry)
    <3>1. f[n] = IF Valid(lines[n]) THEN Append(f[n - 1], lines[n]) ELSE f[n - 1]
      BY <1>4, <2>2
    <3>2. Valid(lines[n]) => Append(f[n - 1], lines[n]) \in Seq(Entry)
      BY <2>4, <2>5
    <3>3. QED BY <2>4, <3>1, <3>2
  <2>7. QED BY <2>2, <2>6
<1>6. QED BY <1>1, <1>3, <1>5

-----------------------------------------------------------------------------
(* The end of a sequence.                                                  *)

\* list is the end of known.
Ends(list, known) ==
    /\ Len(list) <= Len(known)
    /\ \A i \in 1..Len(list) : list[i] = known[Len(known) - Len(list) + i]

LEMMA EndsIsSuffix ==
    ASSUME NEW S, NEW list \in Seq(S), NEW known \in Seq(S), Ends(list, known)
    PROVE  IsSuffix(list, known)
<1> DEFINE n == Len(list)
           m == Len(known)
           R == Reverse(list)
           Q == Reverse(known)
<1>1. n \in Nat /\ m \in Nat /\ n <= m
  BY DEF Ends
<1>2. /\ R \in Seq(S) /\ Len(R) = n /\ \A i \in 1..n : R[i] = list[n - i + 1]
  <2>1. \A i \in 1..n : n - i + 1 \in 1..n
    BY <1>1
  <2>2. R \in [1..n -> S]
    BY <2>1 DEF Reverse
  <2>3. QED BY <1>1, <2>2 DEF Reverse
<1>3. /\ Q \in Seq(S) /\ Len(Q) = m /\ \A i \in 1..m : Q[i] = known[m - i + 1]
  <2>1. \A i \in 1..m : m - i + 1 \in 1..m
    BY <1>1
  <2>2. Q \in [1..m -> S]
    BY <2>1 DEF Reverse
  <2>3. QED BY <1>1, <2>2 DEF Reverse
<1>4. ASSUME NEW i \in 1..n PROVE R[i] = Q[i]
  <2>1. n - i + 1 \in 1..n /\ m - n + (n - i + 1) = m - i + 1 /\ i \in 1..m
    BY <1>1
  <2>2. list[n - i + 1] = known[m - i + 1]
    BY <2>1 DEF Ends
  <2>3. QED BY <1>2, <1>3, <2>1, <2>2
<1> HIDE DEF n, m, R, Q
<1>5. /\ SubSeq(R, 1, n) \in Seq(S) /\ SubSeq(Q, 1, n) \in Seq(S)
      /\ Len(SubSeq(R, 1, n)) = n /\ Len(SubSeq(Q, 1, n)) = n
      /\ \A i \in 1..n : SubSeq(R, 1, n)[i] = R[i] /\ SubSeq(Q, 1, n)[i] = Q[i]
  BY <1>1, <1>2, <1>3
<1>6. SubSeq(R, 1, n) = SubSeq(Q, 1, n)
  BY <1>4, <1>5, SeqEqual
<1>7. QED BY <1>1, <1>2, <1>3, <1>6 DEF IsSuffix, IsPrefix, n, m, R, Q

LEMMA EndsAppend ==
    ASSUME NEW S, NEW list \in Seq(S), NEW known \in Seq(S), NEW e \in S, Ends(list, known)
    PROVE  Ends(Append(list, e), Append(known, e))
<1> DEFINE t == Append(list, e)
           u == Append(known, e)
           n == Len(list)
           m == Len(known)
<1>1. Len(t) = n + 1 /\ Len(u) = m + 1 /\ n \in Nat /\ m \in Nat /\ n <= m
  BY DEF Ends
<1>2. ASSUME NEW i \in 1..(n + 1) PROVE t[i] = u[m - n + i]
  <2>1. CASE i = n + 1
    BY <1>1, <2>1
  <2>2. CASE i # n + 1
    <3>1. i \in 1..n /\ m - n + i \in 1..m
      BY <1>1, <2>2
    <3>2. t[i] = list[i] /\ u[m - n + i] = known[m - n + i]
      BY <3>1
    <3>3. QED BY <3>1, <3>2 DEF Ends
  <2>3. QED BY <2>1, <2>2
<1> HIDE DEF t, u, n, m
<1>3. Len(u) - Len(t) = m - n /\ Len(t) <= Len(u)
  BY <1>1
<1>4. Ends(t, u)
  BY <1>1, <1>2, <1>3 DEF Ends
<1>5. QED BY <1>4 DEF t, u

LEMMA EndsTail ==
    ASSUME NEW S, NEW list \in Seq(S), NEW known \in Seq(S), Ends(list, known), list # <<>>
    PROVE  Ends(Tail(list), known)
<1>1. /\ Len(Tail(list)) = Len(list) - 1 /\ Len(list) \in Nat /\ Len(known) \in Nat
      /\ Len(list) >= 1
  OBVIOUS
<1>2. ASSUME NEW i \in 1..(Len(list) - 1)
      PROVE  Tail(list)[i] = known[Len(known) - (Len(list) - 1) + i]
  <2>1. Tail(list)[i] = list[i + 1] /\ i + 1 \in 1..Len(list)
    BY <1>1
  <2>2. Len(known) - (Len(list) - 1) + i = Len(known) - Len(list) + (i + 1)
    BY <1>1
  <2>3. QED BY <2>1, <2>2 DEF Ends
<1>3. QED BY <1>1, <1>2 DEF Ends

LEMMA LastEnds ==
    ASSUME NEW s \in Seq(Entry)
    PROVE  /\ LastEntries(s) \in Seq(Entry) /\ Ends(LastEntries(s), s)
           /\ Len(LastEntries(s)) <= AuditLimit
           /\ Len(LastEntries(s)) = Len(s) \/ Len(LastEntries(s)) = AuditLimit
<1>1. Len(s) \in Nat /\ AuditLimit \in Nat
  BY AuditAssumption
<1>2. CASE Len(s) <= AuditLimit
  <2>1. LastEntries(s) = s
    BY <1>2 DEF LastEntries
  <2>2. \A i \in 1..Len(s) : Len(s) - Len(s) + i = i
    BY <1>1
  <2>3. QED BY <1>1, <1>2, <2>1, <2>2 DEF Ends
<1>3. CASE ~(Len(s) <= AuditLimit)
  <2> DEFINE k == Len(s) - AuditLimit + 1
             t == SubSeq(s, k, Len(s))
  <2>1. LastEntries(s) = t
    BY <1>3 DEF LastEntries
  <2>2. /\ k \in 1..(Len(s) + 1) /\ Len(s) - k + 1 = AuditLimit
        /\ \A i \in 1..AuditLimit : k + i - 1 = Len(s) - AuditLimit + i /\ k + i - 1 \in 1..Len(s)
    BY <1>1, <1>3
  <2>3. \A i \in k..Len(s) : s[i] \in Entry
    <3>1. \A i \in k..Len(s) : i \in 1..Len(s)
      BY <1>1, <2>2
    <3>2. QED BY <3>1
  <2>4. /\ t \in Seq(Entry) /\ Len(t) = IF k <= Len(s) THEN Len(s) - k + 1 ELSE 0
        /\ \A i \in 1..(Len(s) - k + 1) : t[i] = s[k + i - 1]
    <3> HIDE DEF k
    <3>1. k \in Int /\ Len(s) \in Int
      BY <1>1, <2>2
    <3>2. QED BY <2>3, <3>1, SubSeqProperties
  <2> HIDE DEF t
  <2>5. Len(t) = AuditLimit
    BY <1>1, <1>3, <2>4
  <2>6. \A i \in 1..AuditLimit : t[i] = s[Len(s) - AuditLimit + i]
    BY <2>2, <2>4
  <2>7. QED BY <1>1, <1>3, <2>1, <2>4, <2>5, <2>6 DEF Ends
<1>4. QED BY <1>2, <1>3

-----------------------------------------------------------------------------
(* The entries in memory and on the disk.                                  *)

Writers == [pc : {"check", "pop", "write"}, entry : Entry]

LogTypes ==
    /\ server \in {"down", "up", "refused"}
    /\ audit \in Seq(Entry) /\ since \in Seq(Entry)
    /\ file \in Seq(FileLine) /\ tail \in Entry \cup {None, Junk}
    /\ garbled \in BOOLEAN
    /\ logger \in [Loggers -> {Idle} \cup Writers]
    /\ failed \in Nat /\ interrupted \in Nat

\* The threads that have yet to trim the list, and those of them that will pop.
Trimming == {l \in Loggers : logger[l].pc \in {"check", "pop"}}
Popping  == {l \in Loggers : logger[l].pc = "pop"}

\* Each thread saw more than AuditLimit entries when it decided to pop: together
\* they leave no fewer than AuditLimit, less one for each other thread.
Enough(list) == Len(list) + Cardinality(Tasks) >= AuditLimit + Cardinality(Popping)

Memory(list, known) ==
    /\ Ends(list, known)
    /\ Len(list) <= AuditLimit + Cardinality(Trimming)
    /\ Popping # {} => Enough(list)
    /\ Len(list) = Len(known) \/ Enough(list)

InMemory ==
    /\ server # "up" => audit = <<>> /\ since = <<>> /\ InHand = {}
    /\ Memory(audit, since)

Kept == Stored \ {Junk, None}

\* What the next write loses besides itself: the remains of the last one.
Owed == CASE tail = None -> 0
          [] tail = Junk -> 1
          [] OTHER       -> 2

OnDisk ==
    /\ Len(trail) + Owed <= Cardinality(Kept) + Cardinality(InHand) + 2 * failed + interrupted
    /\ IsFiniteSet(Kept)
    /\ \A e \in Kept : e.n <= Len(trail)
    /\ \A l \in InHand : logger[l].entry.n <= Len(trail) /\ logger[l].entry \notin Kept
    /\ \A k, l \in InHand : k # l => logger[k].entry # logger[l].entry

AuditInv == LogTypes /\ InMemory /\ OnDisk

LEMMA Counts ==
    ASSUME NEW S, IsFiniteSet(S), NEW x
    PROVE  /\ Cardinality(S) \in Nat
           /\ IsFiniteSet(S \ {x}) /\ IsFiniteSet(S \cup {x})
           /\ x \in S => Cardinality(S \ {x}) = Cardinality(S) - 1
           /\ x \notin S => Cardinality(S \cup {x}) = Cardinality(S) + 1
BY FS_CardinalityType, FS_AddElement, FS_RemoveElement

LEMMA LoggersFinite ==
    /\ IsFiniteSet(Loggers) /\ Cardinality(Tasks) \in Nat
    /\ Cardinality(Loggers) = Cardinality(Tasks) + 1
    /\ \A S \in SUBSET Loggers : /\ IsFiniteSet(S) /\ Cardinality(S) \in Nat
                                 /\ Cardinality(S) <= Cardinality(Loggers)
<1>1. /\ IsFiniteSet(Loggers) /\ Cardinality(Tasks) \in Nat
      /\ Cardinality(Loggers) = Cardinality(Tasks) + 1
  BY Counts, AuditAssumption DEF Loggers
<1>2. ASSUME NEW S \in SUBSET Loggers
      PROVE  /\ IsFiniteSet(S) /\ Cardinality(S) \in Nat
             /\ Cardinality(S) <= Cardinality(Loggers)
  BY <1>1, FS_Subset, FS_CardinalityType
<1>3. QED BY <1>1, <1>2

LEMMA HandCounts ==
    /\ IsFiniteSet(InHand) /\ IsFiniteSet(Trimming) /\ IsFiniteSet(Popping)
    /\ Cardinality(InHand) \in Nat /\ Cardinality(Trimming) \in Nat
    /\ Cardinality(Popping) \in Nat
    /\ Cardinality(Popping) <= Cardinality(Tasks) + 1
<1>1. InHand \in SUBSET Loggers /\ Trimming \in SUBSET Loggers /\ Popping \in SUBSET Loggers
  BY DEF InHand, Trimming, Popping
<1>2. QED BY <1>1, LoggersFinite

LEMMA IdleIsNoWriter == Idle \notin Writers /\ \A w \in Writers : w.pc # "idle"
BY DEF Idle, Writers

LEMMA TrimmingInHand ==
    ASSUME LogTypes
    PROVE  /\ Popping \subseteq Trimming /\ Trimming \subseteq InHand
           /\ \A l \in InHand : logger[l] \in Writers
           /\ \A l \in Loggers : logger[l].pc = "idle" <=> logger[l] = Idle
<1>1. \A l \in Loggers : logger[l] = Idle \/ logger[l] \in Writers
  BY DEF LogTypes
<1>2. Idle.pc = "idle"
  BY DEF Idle
<1>3. QED BY <1>1, <1>2, IdleIsNoWriter DEF Popping, Trimming, InHand

\* A thread that logs, and the sets it joins.
LEMMA LogJoins ==
    ASSUME LogTypes, UsersOK, NEW l \in Loggers, NEW list, NEW known,
           NEW event \in Events, NEW sid \in Sids \cup {None}, NEW reqs \in Nat,
           LogFrom(l, list, known, event, sid, reqs)
    PROVE  \E e \in Entry :
              /\ e.n = Len(trail) + 1 /\ audit' = Append(list, e) /\ since' = Append(known, e)
              /\ trail' = Append(trail, e)
              /\ logger' = [logger EXCEPT ![l] = [pc |-> "check", entry |-> e]]
              /\ logger' \in [Loggers -> {Idle} \cup Writers]
              /\ l \notin InHand /\ InHand' = InHand \cup {l}
              /\ l \notin Trimming /\ Trimming' = Trimming \cup {l}
              /\ Popping' = Popping
<1> DEFINE e == NewEntry(event, sid, reqs)
           w == [pc |-> "check", entry |-> e]
<1>1. /\ audit' = Append(list, e) /\ since' = Append(known, e) /\ trail' = Append(trail, e)
      /\ logger' = [logger EXCEPT ![l] = w]
      /\ logger[l].pc = "idle" /\ Len(trail) < MaxEntries
  BY DEF LogFrom
<1>2. e \in Entry /\ e.n = Len(trail) + 1
  <2>1. Len(trail) \in Nat
    BY DEF UsersOK
  <2>2. QED BY <1>1, <2>1, AuditAssumption DEF Entry, NewEntry
<1> HIDE DEF e
<1>3. w \in Writers /\ w # Idle /\ w.pc = "check"
  BY <1>2 DEF Writers, Idle
<1>4. logger' \in [Loggers -> {Idle} \cup Writers]
  BY <1>1, <1>3 DEF LogTypes
<1>5. logger[l] = Idle
  BY <1>1, TrimmingInHand
<1>6. \A k \in Loggers : logger'[k] = IF k = l THEN w ELSE logger[k]
  BY <1>1 DEF LogTypes
<1> HIDE DEF w
<1>7. l \notin InHand /\ InHand' = InHand \cup {l}
  BY <1>3, <1>5, <1>6 DEF InHand
<1>8. l \notin Trimming /\ Trimming' = Trimming \cup {l} /\ Popping' = Popping
  BY <1>1, <1>3, <1>6 DEF Trimming, Popping
<1>9. QED BY <1>1, <1>2, <1>4, <1>7, <1>8 DEF w

\* log_audit: the list and what it is the end of grow by the same entry.
LEMMA LogKeeps ==
    ASSUME LogTypes, UsersOK, OnDisk, NEW l \in Loggers,
           NEW list \in Seq(Entry), NEW known \in Seq(Entry), Memory(list, known),
           NEW event \in Events, NEW sid \in Sids \cup {None}, NEW reqs \in Nat,
           LogFrom(l, list, known, event, sid, reqs), UNCHANGED files, server' = "up"
    PROVE  AuditInv'
<1>1. PICK e \in Entry :
              /\ e.n = Len(trail) + 1 /\ audit' = Append(list, e) /\ since' = Append(known, e)
              /\ trail' = Append(trail, e)
              /\ logger' = [logger EXCEPT ![l] = [pc |-> "check", entry |-> e]]
              /\ logger' \in [Loggers -> {Idle} \cup Writers]
              /\ l \notin InHand /\ InHand' = InHand \cup {l}
              /\ l \notin Trimming /\ Trimming' = Trimming \cup {l}
              /\ Popping' = Popping
  BY LogJoins
<1>2. UNCHANGED <<file, tail, garbled, failed, interrupted>>
  BY DEF files, LogFrom
<1>3. LogTypes'
  <2>1. Append(list, e) \in Seq(Entry) /\ Append(known, e) \in Seq(Entry)
    OBVIOUS
  <2>2. QED BY <1>1, <1>2, <2>1 DEF LogTypes
<1>4. /\ Len(trail) \in Nat /\ Len(trail') = Len(trail) + 1
      /\ Len(list) \in Nat /\ Len(audit') = Len(list) + 1
      /\ Len(known) \in Nat /\ Len(since') = Len(known) + 1
  BY <1>1 DEF UsersOK
<1>5. /\ Cardinality(InHand') = Cardinality(InHand) + 1
      /\ Cardinality(Trimming') = Cardinality(Trimming) + 1
      /\ Cardinality(InHand) \in Nat /\ Cardinality(Trimming) \in Nat
      /\ Cardinality(Popping) \in Nat /\ Cardinality(Tasks) \in Nat /\ AuditLimit \in Nat
  BY <1>1, Counts, HandCounts, LoggersFinite, AuditAssumption
<1>6. InMemory'
  <2>1. Ends(audit', since')
    BY <1>1, EndsAppend DEF Memory
  <2>2. Len(audit') <= AuditLimit + Cardinality(Trimming')
    BY <1>4, <1>5 DEF Memory
  <2>3. Enough(list) => Enough(audit)'
    BY <1>1, <1>4, <1>5 DEF Enough
  <2>4. (Popping # {} => Enough(list)) /\ (Len(list) = Len(known) \/ Enough(list))
    BY DEF Memory
  <2>5. Memory(audit, since)'
    BY <1>1, <1>4, <2>1, <2>2, <2>3, <2>4 DEF Memory
  <2>6. QED BY <2>5 DEF InMemory
<1>7. OnDisk'
  <2>1. Kept' = Kept /\ Owed' = Owed /\ Owed \in Nat
    BY <1>2 DEF Kept, Stored, Owed
  <2>2. Len(trail') + Owed' <= Cardinality(Kept') + Cardinality(InHand') + 2 * failed' + interrupted'
    <3>1. Cardinality(Kept) \in Nat /\ failed \in Nat /\ interrupted \in Nat
      BY FS_CardinalityType DEF OnDisk, LogTypes
    <3>2. Len(trail) + Owed <= Cardinality(Kept) + Cardinality(InHand) + 2 * failed + interrupted
      BY DEF OnDisk
    <3>3. Cardinality(Kept') = Cardinality(Kept) /\ UNCHANGED <<failed, interrupted>>
      BY <1>2, <2>1
    <3> DEFINE n == Len(trail)
               c == Cardinality(Kept)
               h == Cardinality(InHand)
    <3>4. /\ n + Owed <= c + h + 2 * failed + interrupted
          /\ n \in Nat /\ c \in Nat /\ h \in Nat /\ Owed \in Nat
          /\ failed \in Nat /\ interrupted \in Nat
      BY <1>4, <1>5, <2>1, <3>1, <3>2
    <3>5. /\ Len(trail') = n + 1 /\ Cardinality(Kept') = c /\ Cardinality(InHand') = h + 1
          /\ Owed' = Owed /\ failed' = failed /\ interrupted' = interrupted
      BY <1>4, <1>5, <2>1, <3>3
    <3> HIDE DEF n, c, h
    <3>6. (n + 1) + Owed <= c + (h + 1) + 2 * failed + interrupted
      BY <3>4
    <3>7. QED BY <3>5, <3>6
  <2>3. /\ logger'[l].entry = e
        /\ \A k \in InHand : logger'[k] = logger[k] /\ logger[k].entry \in Entry
    <3>1. \A k \in InHand : logger[k] \in Writers /\ k \in Loggers /\ k # l
      BY <1>1, TrimmingInHand DEF InHand
    <3>2. QED BY <1>1, <3>1 DEF LogTypes, Writers
  <2>4. \A x \in Kept : x.n <= Len(trail) /\ x \in Entry
    <3>1. Kept \subseteq Entry
      BY DEF Kept, Stored, LogTypes, FileLine
    <3>2. QED BY <3>1 DEF OnDisk
  <2>5. e \notin Kept /\ \A k \in InHand : logger[k].entry # e
    BY <1>1, <1>4, <2>3, <2>4 DEF OnDisk
  <2>6. \A x \in Entry : x.n \in Nat
    BY DEF Entry
  <2>7. \A x \in Kept' : x.n <= Len(trail')
    BY <1>4, <2>1, <2>4, <2>6
  <2>8. \A k \in InHand' : logger'[k].entry.n <= Len(trail') /\ logger'[k].entry \notin Kept'
    BY <1>1, <1>4, <2>1, <2>3, <2>5, <2>6 DEF OnDisk
  <2>9. \A j, k \in InHand' : j # k => logger'[j].entry # logger'[k].entry
    BY <1>1, <2>3, <2>5 DEF OnDisk
  <2>10. QED BY <2>1, <2>2, <2>7, <2>8, <2>9 DEF OnDisk
<1>8. QED BY <1>3, <1>6, <1>7 DEF AuditInv

\* A thread in hand goes on.
LEMMA Moves ==
    ASSUME LogTypes, NEW l \in Loggers, NEW x \in {"pop", "write"},
           logger[l].pc \in {"check", "pop"}, logger' = [logger EXCEPT ![l].pc = x]
    PROVE  /\ logger' \in [Loggers -> {Idle} \cup Writers]
           /\ InHand' = InHand /\ l \in Trimming
           /\ \A k \in InHand : logger'[k].entry = logger[k].entry
           /\ Trimming' = IF x = "pop" THEN Trimming ELSE Trimming \ {l}
           /\ Popping' = IF x = "pop" THEN Popping \cup {l} ELSE Popping \ {l}
<1>1. logger[l] \in Writers /\ l \in InHand
  BY TrimmingInHand, IdleIsNoWriter DEF InHand, LogTypes, Idle
<1> DEFINE w == [logger[l] EXCEPT !.pc = x]
<1>2. w \in Writers /\ w.pc = x /\ w.entry = logger[l].entry
  BY <1>1 DEF Writers
<1>3. logger' = [logger EXCEPT ![l] = w]
  BY DEF LogTypes
<1> HIDE DEF w
<1>4. \A k \in Loggers : logger'[k] = IF k = l THEN w ELSE logger[k]
  BY <1>3 DEF LogTypes
<1>5. logger' \in [Loggers -> {Idle} \cup Writers]
  BY <1>2, <1>3 DEF LogTypes
<1>6. w # Idle
  BY <1>2, IdleIsNoWriter
<1>7. InHand' = InHand /\ \A k \in InHand : logger'[k].entry = logger[k].entry
  BY <1>1, <1>2, <1>4, <1>6 DEF InHand
<1>8. /\ Trimming' = IF x = "pop" THEN Trimming ELSE Trimming \ {l}
      /\ Popping' = IF x = "pop" THEN Popping \cup {l} ELSE Popping \ {l}
      /\ l \in Trimming
  BY <1>2, <1>4 DEF Trimming, Popping
<1>9. QED BY <1>5, <1>7, <1>8

\* A thread leaves log_audit.
LEMMA Leaves ==
    ASSUME LogTypes, NEW l \in Loggers, logger[l].pc = "write",
           logger' = [logger EXCEPT ![l] = Idle]
    PROVE  /\ logger' \in [Loggers -> {Idle} \cup Writers]
           /\ l \in InHand /\ InHand' = InHand \ {l} /\ logger[l].entry \in Entry
           /\ \A k \in InHand' : logger'[k] = logger[k]
           /\ Trimming' = Trimming /\ Popping' = Popping
<1>1. logger[l] \in Writers /\ l \in InHand /\ Idle.pc = "idle"
  BY TrimmingInHand, IdleIsNoWriter DEF InHand, LogTypes, Idle
<1>2. \A k \in Loggers : logger'[k] = IF k = l THEN Idle ELSE logger[k]
  BY DEF LogTypes
<1>3. logger' \in [Loggers -> {Idle} \cup Writers] /\ logger[l].entry \in Entry
  BY <1>1 DEF LogTypes, Writers
<1>4. InHand' = InHand \ {l} /\ \A k \in InHand' : logger'[k] = logger[k]
  BY <1>1, <1>2 DEF InHand
<1>5. Trimming' = Trimming /\ Popping' = Popping
  BY <1>1, <1>2 DEF Trimming, Popping
<1>6. QED BY <1>1, <1>3, <1>4, <1>5

LEMMA DiskFrame ==
    ASSUME OnDisk, UNCHANGED <<files, hist>>, InHand' = InHand,
           \A k \in InHand : logger'[k].entry = logger[k].entry
    PROVE  OnDisk'
<1>1. Kept' = Kept /\ Owed' = Owed /\ UNCHANGED <<trail, failed, interrupted>>
  BY DEF files, hist, Kept, Stored, Owed
<1>2. QED BY <1>1 DEF OnDisk

LEMMA CheckKeeps ==
    ASSUME AuditInv, NEW l \in Loggers, CheckLength(l)
    PROVE  AuditInv'
<1>a. LogTypes /\ InMemory /\ OnDisk
  BY DEF AuditInv
<1>1. PICK x \in {"pop", "write"} :
         /\ x = IF Len(audit) > AuditLimit THEN "pop" ELSE "write"
         /\ logger' = [logger EXCEPT ![l].pc = x]
  BY DEF CheckLength
<1>2. /\ logger[l].pc = "check" /\ UNCHANGED <<server, audit, files, hist>>
      /\ UNCHANGED <<file, tail, garbled, trail, since, failed, interrupted>>
  BY DEF CheckLength, files, hist
<1>3. /\ logger' \in [Loggers -> {Idle} \cup Writers]
      /\ InHand' = InHand /\ l \in Trimming
      /\ \A k \in InHand : logger'[k].entry = logger[k].entry
      /\ Trimming' = IF x = "pop" THEN Trimming ELSE Trimming \ {l}
      /\ Popping' = IF x = "pop" THEN Popping \cup {l} ELSE Popping \ {l}
  BY <1>a, <1>1, <1>2, Moves
<1>4. LogTypes' /\ OnDisk'
  BY <1>a, <1>2, <1>3, DiskFrame DEF LogTypes
<1>5. l \notin Popping
  BY <1>2 DEF Popping
<1>6. /\ Cardinality(Trimming) \in Nat /\ Cardinality(Popping) \in Nat
      /\ Cardinality(Tasks) \in Nat /\ AuditLimit \in Nat /\ Len(audit) \in Nat
  BY <1>a, HandCounts, LoggersFinite, AuditAssumption DEF LogTypes
<1>7. Memory(audit, since)
  BY <1>a DEF InMemory
<1>8. CASE Len(audit) > AuditLimit
  <2>1. Trimming' = Trimming /\ Popping' = Popping \cup {l}
    BY <1>1, <1>3, <1>8
  <2>2. /\ Cardinality(Popping') = Cardinality(Popping) + 1
        /\ Cardinality(Popping') <= Cardinality(Tasks) + 1
    <3>1. Popping' \in SUBSET Loggers
      BY <1>3, <2>1 DEF Popping
    <3>2. Cardinality(Popping') <= Cardinality(Tasks) + 1
      BY <3>1, LoggersFinite
    <3>3. QED BY <1>5, <2>1, <3>2, Counts, HandCounts
  <2>3. Enough(audit)'
    BY <1>2, <1>6, <1>8, <2>2 DEF Enough
  <2>4. Memory(audit, since)'
    BY <1>2, <1>7, <2>1, <2>3 DEF Memory
  <2>5. QED BY <1>a, <1>2, <1>3, <1>4, <2>4 DEF AuditInv, InMemory
<1>9. CASE ~(Len(audit) > AuditLimit)
  <2>1. Trimming' = Trimming \ {l} /\ Popping' = Popping
    BY <1>1, <1>3, <1>5, <1>9
  <2>2. Cardinality(Trimming') \in Nat
    BY <2>1, <1>3, Counts, HandCounts
  <2>3. Len(audit') <= AuditLimit + Cardinality(Trimming')
    BY <1>2, <1>6, <1>9, <2>2
  <2>4. Enough(audit)' <=> Enough(audit)
    BY <1>2, <2>1 DEF Enough
  <2>5. Memory(audit, since)'
    BY <1>2, <1>7, <2>1, <2>3, <2>4 DEF Memory
  <2>6. QED BY <1>a, <1>2, <1>3, <1>4, <2>5 DEF AuditInv, InMemory
<1>10. QED BY <1>8, <1>9

LEMMA PopKeeps ==
    ASSUME AuditInv, NEW l \in Loggers, PopOldest(l)
    PROVE  AuditInv'
<1>a. LogTypes /\ InMemory /\ OnDisk
  BY DEF AuditInv
<1>2. /\ logger[l].pc = "pop" /\ logger' = [logger EXCEPT ![l].pc = "write"]
      /\ audit' = Tail(audit) /\ UNCHANGED <<server, files, hist>>
      /\ UNCHANGED <<file, tail, garbled, trail, since, failed, interrupted>>
  BY DEF PopOldest, files, hist
<1>3. /\ logger' \in [Loggers -> {Idle} \cup Writers]
      /\ InHand' = InHand /\ l \in Trimming
      /\ \A k \in InHand : logger'[k].entry = logger[k].entry
      /\ Trimming' = Trimming \ {l} /\ Popping' = Popping \ {l}
  BY <1>a, <1>2, Moves
<1>4. OnDisk'
  BY <1>a, <1>2, <1>3, DiskFrame
<1>5. l \in Popping
  BY <1>2 DEF Popping
<1>6. /\ Cardinality(Trimming) \in Nat /\ Cardinality(Popping) \in Nat
      /\ Cardinality(Tasks) \in Nat /\ AuditLimit \in Nat /\ Len(audit) \in Nat
      /\ AuditLimit >= Cardinality(Tasks) + 1
      /\ Cardinality(Trimming') = Cardinality(Trimming) - 1
      /\ Cardinality(Popping') = Cardinality(Popping) - 1
  <2>1. Cardinality(Tasks) \in Nat /\ AuditLimit \in Nat /\ AuditLimit >= Cardinality(Tasks) + 1
    BY LoggersFinite, AuditAssumption
  <2>2. /\ Cardinality(Trimming) \in Nat /\ Cardinality(Trimming') = Cardinality(Trimming) - 1
        /\ Cardinality(Popping) \in Nat /\ Cardinality(Popping') = Cardinality(Popping) - 1
    BY <1>3, <1>5, Counts, HandCounts
  <2>3. Len(audit) \in Nat
    BY <1>a DEF LogTypes
  <2>4. QED BY <2>1, <2>2, <2>3
<1>7. Memory(audit, since) /\ Enough(audit)
  BY <1>a, <1>5 DEF InMemory, Memory
<1>7a. Cardinality(Popping) >= 1
  <2>1. Cardinality(Popping \ {l}) \in Nat
    BY Counts, HandCounts
  <2>2. QED BY <1>3, <1>6, <2>1
<1>8. /\ Len(audit) >= 1 /\ audit # <<>> /\ Tail(audit) \in Seq(Entry)
      /\ Len(audit') = Len(audit) - 1
  <2>1. Len(audit) >= 1
    BY <1>6, <1>7, <1>7a DEF Enough
  <2>2. QED BY <1>a, <1>2, <2>1 DEF LogTypes
<1>9. LogTypes'
  BY <1>a, <1>2, <1>3, <1>8 DEF LogTypes
<1>10. Enough(audit)'
  BY <1>6, <1>7, <1>8 DEF Enough
<1>11. Ends(audit', since')
  BY <1>a, <1>2, <1>7, <1>8, EndsTail DEF Memory, LogTypes
<1>12. Len(audit') <= AuditLimit + Cardinality(Trimming')
  BY <1>6, <1>7, <1>8 DEF Memory
<1>13. Memory(audit, since)'
  BY <1>10, <1>11, <1>12 DEF Memory
<1>14. server' # "up" => audit' = <<>> /\ since' = <<>> /\ InHand' = {}
  BY <1>a, <1>2, <1>3, <1>8 DEF InMemory
<1>15. QED BY <1>4, <1>9, <1>13, <1>14 DEF AuditInv, InMemory

\* What the file has lost and gained by the time a thread leaves log_audit: the
\* entry in hand reached it, or is paid for.
LEMMA DiskLeaves ==
    ASSUME LogTypes, UsersOK, OnDisk, NEW l \in Loggers, logger[l].pc = "write",
           logger' = [logger EXCEPT ![l] = Idle], UNCHANGED <<trail, interrupted>>,
           NEW lost, lost \subseteq {tail},
           Kept' \in {Kept \ lost, (Kept \ lost) \cup {logger[l].entry}},
           failed' \in Nat, Owed' \in Nat,
           Owed' + Cardinality(Kept) + 1 + 2 * failed <= Owed + Cardinality(Kept') + 2 * failed'
    PROVE  OnDisk'
<1> DEFINE e == logger[l].entry
<1>1. /\ l \in InHand /\ InHand' = InHand \ {l}
      /\ \A k \in InHand' : logger'[k] = logger[k]
  BY Leaves
<1>2. IsFiniteSet(Kept') /\ Cardinality(Kept') \in Nat /\ Cardinality(Kept) \in Nat
  <2>1. IsFiniteSet(Kept)
    BY DEF OnDisk
  <2>2. IsFiniteSet(Kept \ lost) /\ IsFiniteSet((Kept \ lost) \cup {e})
    <3>1. IsFiniteSet(Kept \ lost)
      BY <2>1, FS_Subset
    <3>2. QED BY <3>1, Counts
  <2>3. IsFiniteSet(Kept')
    BY <2>2
  <2>4. QED BY <2>1, <2>3, FS_CardinalityType
<1>3. Cardinality(InHand) \in Nat /\ Cardinality(InHand') = Cardinality(InHand) - 1
  BY <1>1, Counts, HandCounts
<1>4. Len(trail') + Owed' <= Cardinality(Kept') + Cardinality(InHand') + 2 * failed' + interrupted'
  <2>1. /\ Len(trail) + Owed <= Cardinality(Kept) + Cardinality(InHand) + 2 * failed + interrupted
        /\ Len(trail) \in Nat /\ failed \in Nat /\ interrupted \in Nat
    BY DEF OnDisk, LogTypes, UsersOK
  <2>2. Owed \in Nat
    BY DEF Owed
  <2>3. trail' = trail /\ interrupted' = interrupted
    OBVIOUS
  <2>4. Len(trail) + Owed' <= Cardinality(Kept') + (Cardinality(InHand) - 1) + 2 * failed' + interrupted
    <3> DEFINE n == Len(trail)
               o == Owed
               p == Owed'
               c == Cardinality(Kept)
               d == Cardinality(Kept')
               h == Cardinality(InHand)
               f == failed
               g == failed'
    <3>1. /\ n + o <= c + h + 2 * f + interrupted /\ p + c + 1 + 2 * f <= o + d + 2 * g
          /\ n \in Nat /\ o \in Nat /\ p \in Nat /\ c \in Nat /\ d \in Nat /\ h \in Nat
          /\ f \in Nat /\ g \in Nat /\ interrupted \in Nat
      BY <1>2, <1>3, <2>1, <2>2
    <3> HIDE DEF n, o, p, c, d, h, f, g
    <3>2. n + p <= d + (h - 1) + 2 * g + interrupted
      BY <3>1
    <3>3. QED BY <3>2 DEF n, p, d, h, g
  <2>5. QED BY <1>3, <2>3, <2>4
<1>5. \A x \in Kept' : x \in Kept \/ x = e
  OBVIOUS
<1>6. \A x \in Kept' : x.n <= Len(trail')
  BY <1>1, <1>5 DEF OnDisk
<1>7. \A k \in InHand' : logger'[k].entry.n <= Len(trail') /\ logger'[k].entry \notin Kept'
  <2>1. \A k \in InHand' : logger[k].entry # e
    BY <1>1 DEF OnDisk
  <2>2. QED BY <1>1, <1>5, <2>1 DEF OnDisk
<1>8. \A j, k \in InHand' : j # k => logger'[j].entry # logger'[k].entry
  BY <1>1 DEF OnDisk
<1>9. QED BY <1>2, <1>4, <1>6, <1>7, <1>8 DEF OnDisk

\* The list is not touched by a write.
LEMMA MemoryLeaves ==
    ASSUME LogTypes, InMemory, NEW l \in Loggers, logger[l].pc = "write",
           logger' = [logger EXCEPT ![l] = Idle], UNCHANGED <<server, audit, since>>
    PROVE  InMemory'
<1>1. Trimming' = Trimming /\ Popping' = Popping /\ InHand' = InHand \ {l}
  BY Leaves
<1>2. QED BY <1>1 DEF InMemory, Memory, Enough

\* What is stored when a line is put after the newline.
LEMMA LineStored ==
    ASSUME LogTypes, NEW x \in FileLine, file' = Append(file, x), tail' = None
    PROVE  /\ file' \in Seq(FileLine)
           /\ Kept' = ({file[i] : i \in DOMAIN file} \cup {x}) \ {Junk, None}
<1>1. file \in Seq(FileLine) /\ file' \in Seq(FileLine)
  BY DEF LogTypes
<1>2. {file'[i] : i \in DOMAIN file'} = {file[i] : i \in DOMAIN file} \cup {x}
  <2>1. DOMAIN file' = DOMAIN file \cup {Len(file) + 1}
    BY <1>1
  <2>2. file'[Len(file) + 1] = x /\ \A i \in DOMAIN file : file'[i] = file[i]
    BY <1>1
  <2>3. QED BY <2>1, <2>2
<1>3. QED BY <1>1, <1>2 DEF Kept, Stored

\* What is stored when the line that was cut is dropped.
LEMMA TailLost ==
    ASSUME OnDisk, NEW K, K = {file[i] : i \in DOMAIN file} \ {Junk, None}
    PROVE  \E lost \in SUBSET {tail} :
              /\ K = Kept \ lost
              /\ Cardinality(K) \in Nat /\ Cardinality(K) + 1 >= Cardinality(Kept)
              /\ tail \in {None, Junk} => K = Kept
<1> DEFINE F == {file[i] : i \in DOMAIN file}
<1>1. Kept = (F \cup {tail}) \ {Junk, None} /\ IsFiniteSet(Kept) /\ K = F \ {Junk, None}
  BY DEF Kept, Stored, OnDisk
<1> HIDE DEF F
<1>2. Cardinality(Kept) \in Nat
  BY <1>1, FS_CardinalityType
<1>3. CASE tail \in F \cup {Junk, None}
  <2>1. K = Kept
    BY <1>1, <1>3
  <2>2. K = Kept \ {} /\ {} \in SUBSET {tail}
    BY <2>1
  <2>3. Cardinality(K) \in Nat /\ Cardinality(K) + 1 >= Cardinality(Kept)
    BY <1>2, <2>1
  <2>4. WITNESS {} \in SUBSET {tail}
  <2>5. QED BY <2>1, <2>2, <2>3
<1>4. CASE tail \notin F \cup {Junk, None}
  <2>1. K = Kept \ {tail} /\ tail \in Kept
    BY <1>1, <1>4
  <2>2. IsFiniteSet(K) /\ Cardinality(K) = Cardinality(Kept) - 1
    BY <1>1, <2>1, Counts
  <2>3. Cardinality(K) \in Nat
    BY <2>2, FS_CardinalityType
  <2>4. Cardinality(K) + 1 >= Cardinality(Kept) /\ tail \notin {None, Junk}
    BY <1>2, <1>4, <2>2
  <2>5. WITNESS {tail} \in SUBSET {tail}
  <2>6. QED BY <2>1, <2>3, <2>4
<1>5. QED BY <1>3, <1>4

LEMMA WriteKeeps ==
    ASSUME AuditInv, UsersOK, NEW l \in Loggers, WriteLine(l)
    PROVE  AuditInv'
<1>a. LogTypes /\ InMemory /\ OnDisk
  BY DEF AuditInv
<1> DEFINE e == logger[l].entry
           F == {file[i] : i \in DOMAIN file}
<1>1. /\ logger[l].pc = "write" /\ logger' = [logger EXCEPT ![l] = Idle]
      /\ file' = Append(file, Line(e)) /\ tail' = None
      /\ UNCHANGED <<server, audit, garbled, trail, since, failed, interrupted>>
  BY DEF WriteLine, AppendLine, hist
<1>2. /\ l \in InHand /\ e \in Entry /\ e # None /\ e # Junk /\ Junk # None
      /\ logger' \in [Loggers -> {Idle} \cup Writers]
  BY <1>a, <1>1, Leaves, AuditAssumption
<1>3. Line(e) \in FileLine
  BY <1>2 DEF Line, FileLine
<1>4. file' \in Seq(FileLine) /\ Kept' = (F \cup {Line(e)}) \ {Junk, None}
  BY <1>a, <1>1, <1>3, LineStored
<1>5. LogTypes'
  BY <1>a, <1>1, <1>2, <1>4 DEF LogTypes
<1>6. InMemory'
  BY <1>a, <1>1, MemoryLeaves
<1>7. Kept = (F \cup {tail}) \ {Junk, None} /\ IsFiniteSet(Kept) /\ e \notin Kept
  BY <1>a, <1>2 DEF Kept, Stored, OnDisk
<1>8. Owed' = 0 /\ failed' = failed /\ failed \in Nat /\ Cardinality(Kept) \in Nat
  <2>1. Owed' = 0
    BY <1>1, <1>2 DEF Owed
  <2>2. QED BY <1>a, <1>1, <1>7, <2>1, FS_CardinalityType DEF LogTypes
<1>8a. PICK none \in SUBSET {tail} : none = {}
  OBVIOUS
<1>9. CASE tail = None
  <2>1. Kept' = (Kept \ none) \cup {e} /\ Owed = 0
    BY <1>8a, <1>2, <1>4, <1>7, <1>9 DEF Line, Owed
  <2>2. Cardinality(Kept') = Cardinality(Kept) + 1
    BY <1>7, <1>8a, <2>1, Counts
  <2> HIDE DEF e, F
  <2>3. Owed' + Cardinality(Kept) + 1 + 2 * failed <= Owed + Cardinality(Kept') + 2 * failed'
    BY <1>8, <2>1, <2>2
  <2>4. OnDisk'
    BY <1>a, <1>1, <1>8, <2>1, <2>3, DiskLeaves DEF e
  <2>5. QED BY <1>5, <1>6, <2>4 DEF AuditInv
<1>10. CASE tail = Junk
  <2>1. Kept' = Kept \ none /\ Owed = 1
    BY <1>8a, <1>2, <1>4, <1>7, <1>10 DEF Line, Owed
  <2> HIDE DEF e, F
  <2>3. Owed' + Cardinality(Kept) + 1 + 2 * failed <= Owed + Cardinality(Kept') + 2 * failed'
    BY <1>8, <1>8a, <2>1
  <2>4. OnDisk'
    BY <1>a, <1>1, <1>8, <2>1, <2>3, DiskLeaves
  <2>5. QED BY <1>5, <1>6, <2>4 DEF AuditInv
<1>11. CASE tail \notin {None, Junk}
  <2>1. PICK lost \in SUBSET {tail} :
          /\ Kept' = Kept \ lost
          /\ Cardinality(Kept') \in Nat /\ Cardinality(Kept') + 1 >= Cardinality(Kept)
    <3>1. Kept' = F \ {Junk, None}
      BY <1>4, <1>11 DEF Line
    <3>2. QED BY <1>a, <3>1, TailLost
  <2>2. Owed = 2
    BY <1>11 DEF Owed
  <2> HIDE DEF e, F
  <2>4. Owed' + Cardinality(Kept) + 1 + 2 * failed <= Owed + Cardinality(Kept') + 2 * failed'
    BY <1>8, <2>1, <2>2
  <2>5. OnDisk'
    BY <1>a, <1>1, <1>8, <2>1, <2>4, DiskLeaves
  <2>6. QED BY <1>5, <1>6, <2>5 DEF AuditInv
<1>12. QED BY <1>9, <1>10, <1>11

LEMMA FailKeeps ==
    ASSUME AuditInv, UsersOK, NEW l \in Loggers, WriteFails(l)
    PROVE  AuditInv'
<1>a. LogTypes /\ InMemory /\ OnDisk
  BY DEF AuditInv
<1> DEFINE e == logger[l].entry
           F == {file[i] : i \in DOMAIN file}
<1>1. /\ logger[l].pc = "write" /\ logger' = [logger EXCEPT ![l] = Idle]
      /\ tail' \in {tail, Junk, Line(e)}
      /\ garbled' \in {garbled, garbled \/ tail' = Junk} /\ failed' = failed + 1
      /\ UNCHANGED <<server, audit, file, trail, since, interrupted>>
  BY DEF WriteFails
<1>2. /\ e \in Entry /\ e # None /\ e # Junk /\ Junk # None
      /\ logger' \in [Loggers -> {Idle} \cup Writers]
  BY <1>a, <1>1, Leaves, AuditAssumption
<1>3. tail' \in Entry \cup {None, Junk}
  BY <1>a, <1>1, <1>2 DEF LogTypes, Line
<1>4. garbled' \in BOOLEAN
  BY <1>a, <1>1 DEF LogTypes
<1>5. LogTypes'
  BY <1>a, <1>1, <1>2, <1>3, <1>4 DEF LogTypes
<1>6. InMemory'
  BY <1>a, <1>1, MemoryLeaves
<1>7. /\ Kept = (F \cup {tail}) \ {Junk, None} /\ Kept' = (F \cup {tail'}) \ {Junk, None}
      /\ IsFiniteSet(Kept) /\ e \notin Kept
  <2>1. l \in InHand
    BY <1>a, <1>1, Leaves
  <2>2. QED BY <1>a, <1>1, <2>1 DEF Kept, Stored, OnDisk
<1>8. /\ failed \in Nat /\ failed' \in Nat /\ failed' = failed + 1
      /\ Cardinality(Kept) \in Nat /\ Owed \in Nat /\ Owed' \in Nat
  <2>1. Owed \in Nat /\ Owed' \in Nat
    BY DEF Owed
  <2>2. QED BY <1>a, <1>1, <1>7, <2>1, FS_CardinalityType DEF LogTypes
<1>9. PICK none \in SUBSET {tail} : none = {}
  OBVIOUS
<1>10. CASE tail' = tail
  <2>1. Kept' = Kept \ none /\ Cardinality(Kept') = Cardinality(Kept) /\ Owed' = Owed
    BY <1>7, <1>9, <1>10 DEF Owed
  <2> HIDE DEF e, F
  <2>2. Owed' + Cardinality(Kept) + 1 + 2 * failed <= Owed + Cardinality(Kept') + 2 * failed'
    BY <1>8, <2>1
  <2>3. OnDisk'
    BY <1>a, <1>1, <1>8, <2>1, <2>2, DiskLeaves
  <2>4. QED BY <1>5, <1>6, <2>3 DEF AuditInv
<1>11. CASE tail' = Junk
  <2>1. Kept' = F \ {Junk, None}
    BY <1>7, <1>11
  <2>2. PICK lost \in SUBSET {tail} :
          /\ Kept' = Kept \ lost
          /\ Cardinality(Kept') \in Nat /\ Cardinality(Kept') + 1 >= Cardinality(Kept)
          /\ tail \in {None, Junk} => Kept' = Kept
    BY <1>a, <2>1, TailLost
  <2>3. Owed' = 1 /\ (tail \in {None, Junk} \/ Owed = 2)
    BY <1>2, <1>11 DEF Owed
  <2> HIDE DEF e, F
  <2>4. Owed' + Cardinality(Kept) + 1 + 2 * failed <= Owed + Cardinality(Kept') + 2 * failed'
    <3>1. CASE Kept' = Kept
      BY <1>8, <2>2, <2>3, <3>1
    <3>2. CASE Owed = 2
      BY <1>8, <2>2, <2>3, <3>2
    <3>3. QED BY <2>2, <2>3, <3>1, <3>2
  <2>5. OnDisk'
    BY <1>a, <1>1, <1>8, <2>2, <2>4, DiskLeaves
  <2>6. QED BY <1>5, <1>6, <2>5 DEF AuditInv
<1>12. CASE tail = None /\ tail' = e
  <2>1. Kept' = (Kept \ none) \cup {e} /\ Owed = 0 /\ Owed' = 2
    BY <1>2, <1>7, <1>9, <1>12 DEF Owed
  <2> HIDE DEF e, F
  <2>1a. Kept \ none = Kept
    BY <1>9
  <2>2. Cardinality(Kept') = Cardinality(Kept) + 1
    BY <1>7, <2>1, <2>1a, Counts
  <2>3. Owed' + Cardinality(Kept) + 1 + 2 * failed <= Owed + Cardinality(Kept') + 2 * failed'
    BY <1>8, <2>1, <2>2
  <2>4. OnDisk'
    BY <1>a, <1>1, <1>8, <2>1, <2>3, DiskLeaves DEF e
  <2>5. QED BY <1>5, <1>6, <2>4 DEF AuditInv
<1>13. QED BY <1>1, <1>10, <1>11, <1>12 DEF Line

LEMMA NobodyLogs ==
    ASSUME LogTypes, InHand = {}
    PROVE  /\ Cardinality(InHand) = 0
           /\ Trimming = {} /\ Popping = {} /\ Cardinality(Trimming) = 0
BY TrimmingInHand, FS_EmptySet

LEMMA KillKeeps ==
    ASSUME AuditInv, UsersOK, Kill
    PROVE  AuditInv'
<1>a. LogTypes /\ InMemory /\ OnDisk
  BY DEF AuditInv
<1>1. /\ server' = "down" /\ audit' = <<>> /\ since' = <<>>
      /\ interrupted' = interrupted + Cardinality(InHand)
      /\ logger' = [l \in Loggers |-> Idle]
      /\ UNCHANGED <<file, tail, garbled, trail, failed>>
  BY DEF Kill, files
<1>2. Cardinality(InHand) \in Nat
  BY HandCounts
<1>3. LogTypes'
  <2>1. <<>> \in Seq(Entry)
    OBVIOUS
  <2>2. QED BY <1>a, <1>1, <1>2, <2>1 DEF LogTypes
<1>4. InHand' = {}
  BY <1>1 DEF InHand
<1>5. Cardinality(InHand') = 0 /\ Popping' = {} /\ Trimming' = {} /\ Cardinality(Trimming') = 0
  <2>1. Popping' \subseteq InHand' /\ Trimming' \subseteq InHand'
    BY <1>1 DEF Popping, Trimming, InHand, Idle
  <2>2. QED BY <1>4, <2>1, FS_EmptySet
<1>6. InMemory'
  <2>1. Len(audit') = 0 /\ Len(since') = 0 /\ AuditLimit \in Nat
    BY <1>1, AuditAssumption
  <2>2. Memory(audit, since)'
    BY <1>5, <2>1 DEF Memory, Ends
  <2>3. QED BY <1>1, <1>4, <2>2 DEF InMemory
<1>7. OnDisk'
  <2>1. Kept' = Kept /\ Owed' = Owed /\ Owed \in Nat
    BY <1>1 DEF Kept, Stored, Owed
  <2>2. /\ Len(trail) + Owed <= Cardinality(Kept) + Cardinality(InHand) + 2 * failed + interrupted
        /\ Len(trail) \in Nat /\ failed \in Nat /\ interrupted \in Nat
        /\ Cardinality(Kept) \in Nat
    BY <1>a, FS_CardinalityType DEF OnDisk, LogTypes, UsersOK
  <2>3. Len(trail) + Owed <= Cardinality(Kept) + 0 + 2 * failed + (interrupted + Cardinality(InHand))
    BY <1>2, <2>1, <2>2
  <2>4. Len(trail') + Owed' <= Cardinality(Kept') + Cardinality(InHand') + 2 * failed' + interrupted'
    BY <1>1, <1>5, <2>1, <2>3
  <2>5. QED BY <1>a, <1>1, <1>4, <2>1, <2>4 DEF OnDisk
<1>8. QED BY <1>3, <1>6, <1>7 DEF AuditInv

\* The server starts with the end of what it can read.
LEMMA StartKeeps ==
    ASSUME AuditInv, UsersOK, Start
    PROVE  AuditInv'
<1>a. LogTypes /\ InMemory /\ OnDisk
  BY DEF AuditInv
<1>1. InHand = {}
  BY <1>a DEF Start, InMemory
<1>2. Readable \in Seq(Entry)
  <2>1. file \o (IF tail = None THEN <<>> ELSE <<tail>>) \in Seq(FileLine)
    <3>1. (IF tail = None THEN <<>> ELSE <<tail>>) \in Seq(FileLine) /\ file \in Seq(FileLine)
      <4>1. file \in Seq(FileLine) /\ (tail = None \/ tail \in FileLine)
        BY <1>a DEF LogTypes, FileLine
      <4>2. CASE tail = None
        BY <4>1, <4>2
      <4>3. CASE tail # None
        BY <4>1, <4>3
      <4>4. QED BY <4>2, <4>3
    <3>2. QED BY <3>1
  <2>2. QED BY <2>1, ReadsEntries DEF Readable
<1> DEFINE list == LastEntries(Readable)
<1>3. /\ list \in Seq(Entry) /\ Ends(list, Readable) /\ Len(list) <= AuditLimit
      /\ Len(list) = Len(Readable) \/ Len(list) = AuditLimit
  BY <1>2, LastEnds
<1>4. LogFrom("loop", list, Readable, "server_started", None, 0)
  BY DEF Start
<1> HIDE DEF list
<1>5. Memory(list, Readable)
  <2>1. Popping = {} /\ Cardinality(Trimming) = 0 /\ Cardinality(Popping) = 0
    BY <1>a, <1>1, NobodyLogs, FS_EmptySet
  <2>2. Cardinality(Tasks) \in Nat /\ AuditLimit \in Nat
    BY LoggersFinite, AuditAssumption
  <2>3. QED BY <1>3, <2>1, <2>2 DEF Memory, Enough
<1>6. /\ "loop" \in Loggers /\ "server_started" \in Events /\ None \in Sids \cup {None}
      /\ server' = "up" /\ UNCHANGED files
  BY DEF Loggers, Events, Start
<1>7. QED BY <1>a, <1>2, <1>3, <1>4, <1>5, <1>6, LogKeeps

LEMMA InitAudit == Init => AuditInv
<1> SUFFICES ASSUME Init PROVE AuditInv
  OBVIOUS
<1>1. /\ server = "down" /\ audit = <<>> /\ since = <<>> /\ trail = <<>>
      /\ file = <<>> /\ tail = None /\ garbled = FALSE
      /\ logger = [l \in Loggers |-> Idle] /\ failed = 0 /\ interrupted = 0
  BY DEF Init
<1>2. LogTypes
  <2>1. <<>> \in Seq(Entry) /\ <<>> \in Seq(FileLine)
    OBVIOUS
  <2>2. logger \in [Loggers -> {Idle} \cup Writers]
    BY <1>1
  <2>3. QED BY <1>1, <2>1, <2>2 DEF LogTypes
<1>3. InHand = {}
  BY <1>1 DEF InHand
<1>4. /\ Cardinality(InHand) = 0 /\ Popping = {} /\ Cardinality(Trimming) = 0
      /\ AuditLimit \in Nat
  BY <1>2, <1>3, NobodyLogs, AuditAssumption
<1>5. InMemory
  BY <1>1, <1>3, <1>4 DEF InMemory, Memory, Ends
<1>6. Kept = {} /\ Owed = 0
  <2>1. {file[i] : i \in DOMAIN file} = {}
    BY <1>1
  <2>2. Stored = {None}
    BY <1>1, <2>1 DEF Stored
  <2>3. Kept = {}
    BY <2>2 DEF Kept
  <2>4. Owed = 0
    BY <1>1, AuditAssumption DEF Owed
  <2>5. QED BY <2>3, <2>4
<1>7. OnDisk
  <2>1. IsFiniteSet(Kept) /\ Cardinality(Kept) = 0
    BY <1>6, FS_EmptySet
  <2>2. Len(trail) = 0
    BY <1>1
  <2>3. QED BY <1>1, <1>3, <1>4, <1>6, <2>1, <2>2 DEF OnDisk
<1>8. QED BY <1>2, <1>5, <1>7 DEF AuditInv

LEMMA NextAudit ==
    ASSUME AuditInv, UsersInv, [Next]_vars
    PROVE  AuditInv'
<1>a. LogTypes /\ InMemory /\ OnDisk /\ UsersOK /\ Passed
  BY DEF AuditInv, UsersInv
<1>1. ASSUME UNCHANGED <<server, audit, files, logger, hist>>
      PROVE  AuditInv'
  <2>1. UNCHANGED <<file, tail, garbled, trail, since, failed, interrupted>>
    BY <1>1 DEF files, hist
  <2>2. InHand' = InHand /\ Trimming' = Trimming /\ Popping' = Popping
    BY <1>1 DEF InHand, Trimming, Popping
  <2>3. LogTypes' /\ InMemory'
    BY <1>a, <1>1, <2>1, <2>2 DEF LogTypes, InMemory, Memory, Enough
  <2>4. OnDisk'
    BY <1>a, <1>1, <2>2, DiskFrame
  <2>5. QED BY <2>3, <2>4 DEF AuditInv
<1>2. ASSUME NEW l \in Loggers, NEW event \in Events, NEW sid \in Sids \cup {None},
             NEW reqs \in Nat, Log(l, event, sid, reqs), server = "up",
             UNCHANGED <<server, files>>
      PROVE  AuditInv'
  <2>1. /\ audit \in Seq(Entry) /\ since \in Seq(Entry) /\ Memory(audit, since)
        /\ LogFrom(l, audit, since, event, sid, reqs) /\ server' = "up"
    BY <1>a, <1>2 DEF LogTypes, InMemory, Log
  <2>2. QED BY <1>a, <1>2, <2>1, LogKeeps
<1>b. "loop" \in Loggers /\ Tasks \subseteq Loggers /\ 0 \in Nat
  BY DEF Loggers
<1>3. CASE Start
  BY <1>a, <1>3, StartKeeps
<1>4. CASE StartFails
  <2>1. server = "down" /\ server' = "refused" /\ UNCHANGED <<audit, files, logger, hist>>
    BY <1>4 DEF StartFails
  <2>2. UNCHANGED <<file, tail, garbled, trail, since, failed, interrupted>>
    BY <2>1 DEF files, hist
  <2>3. InHand' = InHand /\ Trimming' = Trimming /\ Popping' = Popping
    BY <2>1 DEF InHand, Trimming, Popping
  <2>4. LogTypes' /\ InMemory'
    BY <1>a, <2>1, <2>2, <2>3 DEF LogTypes, InMemory, Memory, Enough
  <2>5. OnDisk'
    BY <1>a, <2>1, <2>3, DiskFrame
  <2>6. QED BY <2>4, <2>5 DEF AuditInv
<1>5. CASE Kill
  BY <1>a, <1>5, KillKeeps
<1>6. ASSUME NEW l \in Loggers, Logging(l)
      PROVE  AuditInv'
  BY <1>a, <1>6, CheckKeeps, PopKeeps, WriteKeeps, FailKeeps DEF Logging
<1>7. ASSUME NEW t \in Tasks, TaskLogs(t)
      PROVE  AuditInv'
  BY <1>2, <1>7, <1>b DEF TaskLogs, Events
<1>8. ASSUME NEW b \in Browsers, Login(b)
      PROVE  AuditInv'
  BY <1>2, <1>8, <1>b DEF Login, LoopFree, Events
<1>9. CASE LoginFails
  BY <1>2, <1>9, <1>b DEF LoginFails, LoopFree, Events
<1>10. ASSUME NEW b \in Browsers, NEW q \in Slots, NEW path \in {"page", "logout"},
              Auth(q, b, path)
       PROVE  AuditInv'
  <2>1. /\ server = "up" /\ UNCHANGED <<server, files>>
        /\ UNCHANGED <<audit, logger, hist>> \/ Log("loop", "auth_required", None, 0)
    BY <1>10 DEF Auth, LoopFree
  <2>2. QED BY <1>1, <1>2, <1>b, <2>1 DEF Events
<1>11. ASSUME NEW q \in Slots, Logout(q)
       PROVE  AuditInv'
  <2>1. PICK s : s = request[q].sid
    OBVIOUS
  <2>2. /\ server = "up" /\ UNCHANGED <<server, files>>
        /\ Log("loop", "logout", s, Count(s)) /\ request[q].path = "logout"
    BY <1>11, <2>1 DEF Logout, LoopFree
  <2>3. s \in Sids /\ Count(s) \in Nat
    BY <1>a, <2>1, <2>2 DEF Passed, Count, UsersOK
  <2>4. QED BY <1>2, <1>b, <2>2, <2>3 DEF Events
<1>12. ASSUME NEW q \in Slots, Answer(q)
       PROVE  AuditInv'
  BY <1>1, <1>12 DEF Answer
<1>13. ASSUME NEW b \in Browsers, CookieExpires(b)
       PROVE  AuditInv'
  BY <1>1, <1>13 DEF CookieExpires
<1>14. CASE UNCHANGED vars
  BY <1>1, <1>14 DEF vars
<1>15. QED
  BY <1>3, <1>4, <1>5, <1>6, <1>7, <1>8, <1>9, <1>10, <1>11, <1>12, <1>13, <1>14
     DEF Next, Traffic

\* The audit page shows the newest entries, with no gap, whatever the threads of
\* the syncs log beside the event loop without a lock (state.py:79).
THEOREM NewestStayInMemory == Spec => []NewestInMemory
<1>1. AuditInv => NewestInMemory
  <2> SUFFICES ASSUME AuditInv, server = "up" PROVE NewestInMemory
    BY DEF NewestInMemory
  <2>1. LogTypes /\ Memory(audit, since)
    BY DEF AuditInv, InMemory
  <2>2. IsSuffix(audit, since)
    BY <2>1, EndsIsSuffix DEF Memory, LogTypes
  <2>3. /\ Cardinality(Trimming) <= Cardinality(InHand) /\ Cardinality(Trimming) \in Nat
        /\ Cardinality(InHand) \in Nat /\ Cardinality(Popping) \in Nat
        /\ Cardinality(Tasks) \in Nat /\ AuditLimit \in Nat
        /\ Len(audit) \in Nat /\ Len(since) \in Nat
    <3>1. Cardinality(Trimming) <= Cardinality(InHand)
      BY <2>1, TrimmingInHand, HandCounts, FS_Subset
    <3>2. QED BY <2>1, <3>1, HandCounts, LoggersFinite, AuditAssumption DEF LogTypes
  <2>4. Len(audit) <= AuditLimit + Cardinality(InHand)
    BY <2>1, <2>3 DEF Memory
  <2>5. Len(audit) >= Len(since) \/ Len(audit) + Cardinality(Tasks) >= AuditLimit
    BY <2>1, <2>3 DEF Memory, Enough
  <2>6. QED BY <2>2, <2>4, <2>5 DEF NewestInMemory
<1>2. UsersInv /\ AuditInv /\ [Next]_vars => UsersInv' /\ AuditInv'
  BY NextUsers, NextAudit
<1>3. QED BY <1>1, <1>2, InitUsers, InitAudit, PTL DEF Spec

\* A write that fails costs the file two entries at most, its own and the one
\* that is appended to its remains; a kill costs what was in hand; nothing else
\* is lost and nothing is written twice (state.py:109).
THEOREM LossesStayBounded == Spec => []LossesAreBounded
<1>1. AuditInv /\ UsersInv => LossesAreBounded
  <2> SUFFICES ASSUME AuditInv, UsersInv PROVE LossesAreBounded
    OBVIOUS
  <2>1. Len(trail) + Owed <= Cardinality(Kept) + Cardinality(InHand) + 2 * failed + interrupted
    BY DEF AuditInv, OnDisk
  <2>2. /\ Len(trail) \in Nat /\ failed \in Nat /\ interrupted \in Nat
        /\ Cardinality(Kept) \in Nat /\ Cardinality(InHand) \in Nat
    BY HandCounts, FS_CardinalityType DEF AuditInv, OnDisk, LogTypes, UsersInv, UsersOK
  <2>3. Owed \in Nat
    BY DEF Owed
  <2>4. Len(trail) <= Cardinality(Kept) + Cardinality(InHand) + 2 * failed + interrupted
    BY <2>1, <2>2, <2>3
  <2>5. QED BY <2>4 DEF LossesAreBounded, Kept
<1>2. UsersInv /\ AuditInv /\ [Next]_vars => UsersInv' /\ AuditInv'
  BY NextUsers, NextAudit
<1>3. QED BY <1>1, <1>2, InitUsers, InitAudit, PTL DEF Spec

\* No session is counted beyond the bound of the model.
Counted == \A s \in DOMAIN sessions : sessions[s] <= MaxRequests

LEMMA NextCounted ==
    ASSUME UsersInv, Counted, [Next]_vars
    PROVE  Counted'
<1>a. UsersOK
  BY DEF UsersInv
<1>1. CASE sessions' = sessions
  BY <1>1 DEF Counted
<1>2. ASSUME NEW b \in Browsers, Login(b)
      PROVE  Counted'
  BY <1>2, AuditAssumption DEF Login, Counted
<1>3. ASSUME NEW b \in Browsers, NEW q \in Slots, NEW path \in {"page", "logout"},
             Auth(q, b, path)
      PROVE  Counted'
  <2>1. CASE cookie[b] \in _SESSIONS
    <3>1. /\ cookie[b] \in DOMAIN sessions /\ sessions[cookie[b]] < MaxRequests
          /\ sessions' = [sessions EXCEPT ![cookie[b]] = @ + 1]
      BY <1>a, <1>3, <2>1 DEF Auth, Passes, Touch, UsersOK
    <3>2. QED BY <1>a, <3>1, AuditAssumption DEF Counted, UsersOK
  <2>2. QED BY <1>1, <1>3, <2>1 DEF Auth
<1>4. ASSUME NEW q \in Slots, Logout(q)
      PROVE  Counted'
  <2>1. sessions' = [s \in DOMAIN sessions \ {request[q].sid} |-> sessions[s]]
    BY <1>4 DEF Logout, EndSession
  <2>2. QED BY <2>1 DEF Counted
<1>5. CASE Kill
  BY <1>5 DEF Kill, Counted
<1>6. QED
  BY <1>1, <1>2, <1>3, <1>4, <1>5
     DEF Next, Traffic, vars, users, Start, StartFails, Logging, CheckLength, PopOldest,
         WriteLine, WriteFails, TaskLogs, LoginFails, Answer, CookieExpires

\* The lists of entries, the lines of the file, the counters and the cookies keep
\* their types: a logout, above all, never logs a missing count (server.py:160).
THEOREM TrailTypes == Spec => []TypeOK
<1>1. AuditInv /\ UsersInv /\ Counted => TypeOK
  <2> SUFFICES ASSUME AuditInv, UsersInv, Counted PROVE TypeOK
    OBVIOUS
  <2>1. LogTypes /\ UsersOK
    BY DEF AuditInv, UsersInv
  <2>2. \A i \in DOMAIN file : file[i] = Junk \/ file[i] \in Entry
    BY <2>1 DEF LogTypes, FileLine
  <2>3. \A l \in Loggers :
           \/ logger[l] = Idle
           \/ logger[l].pc \in {"check", "pop", "write"} /\ logger[l].entry \in Entry
    BY <2>1 DEF LogTypes, Writers
  <2>4. \A s \in DOMAIN sessions : sessions[s] \in 0..MaxRequests
    BY <2>1, AuditAssumption DEF Counted, UsersOK
  <2>5. DOMAIN request = Slots /\ _SESSIONS \in SUBSET Sids
    BY <2>1 DEF UsersOK
  <2>6. QED BY <2>1, <2>2, <2>3, <2>4, <2>5 DEF TypeOK, LogTypes, UsersOK
<1>2. UsersInv /\ AuditInv /\ Counted /\ [Next]_vars => UsersInv' /\ AuditInv' /\ Counted'
  BY NextUsers, NextAudit, NextCounted
<1>3. Init => Counted
  BY DEF Init, Counted
<1>4. QED BY <1>1, <1>2, <1>3, InitUsers, InitAudit, PTL DEF Spec
=============================================================================

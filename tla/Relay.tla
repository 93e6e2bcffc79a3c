------------------------------- MODULE Relay -------------------------------
(***************************************************************************)
(* The update directory of the relay, /var/www/mrija/updates, with its one *)
(* manifest.json: the three scripts that publish to it,                    *)
(*   - scripts/push-sqlite.sh, an SQLite archive for the client,           *)
(*   - scripts/push-update.sh, a MariaDB dump and attachments for the      *)
(*     installer,                                                          *)
(*   - dev/droplet/push-data.sh, an SQLite archive, without rotation,      *)
(* and the clients that read the manifest and fetch what it names some     *)
(* time later. A script may die between any two commands; nothing keeps    *)
(* two of them from running at once.                                       *)
(***************************************************************************)
EXTENDS Naturals, FiniteSets

CONSTANTS
    Publishers, \* slots for scripts running at the same time
    Clients,
    Scripts,    \* the scripts run in this instance
    Attach,     \* what push-update does about attachments in this instance
    Keep,       \* KEEP_DUMPS
    MaxPubs,    \* bound: publications
    None

ASSUME RelayAssumption ==
    /\ Scripts \subseteq {"push-sqlite", "push-update", "push-data"}
    /\ Attach \subseteq {"none", "pack", "reuse"}
    /\ Keep \in Nat \ {0}
    /\ MaxPubs \in Nat

\* mrija-archive-*.sqlite.gz, mrija-*.sql.gz, mrija-attachments-*.tar.zst: the
\* globs of the rotations. A name is one of them with a TIMESTAMP.
Globs == {"sqlite", "sql", "attachments"}
Names == Globs \X (1..MaxPubs)

VARIABLES
    stamped,  \* the last TIMESTAMP taken
    clock,    \* the last mtime given to a file
    archive,  \* the files under their final names: absent, partial, complete
    mtime,    \* their modification times
    manifest, \* manifest.json: is it written, and the names in it
    cached,   \* attachment archives kept in ATTACH_CACHE_DIR, with their mtimes
    pub,      \* the scripts
    overlap,  \* history: two scripts have run at the same time
    client    \* the clients: the archive the manifest named, and how many
              \* newer uploads matching the same glob have appeared

vars == <<stamped, clock, archive, mtime, manifest, cached, pub, overlap, client>>

Idle == [pc |-> "idle", script |-> None, stamp |-> 0, packed |-> 0,
         attach |-> None]
Waiting == [want |-> None, since |-> 0]

Pc(p) == pub[p].pc
At(p, from, to) == Pc(p) = from /\ pub' = [pub EXCEPT ![p].pc = to]

GlobOf(p)   == IF pub[p].script = "push-update" THEN "sql" ELSE "sqlite"
Database(p) == <<GlobOf(p), pub[p].stamp>>

\* Mutant: the manifest names the upload's temporary name, <name>.part.
ManifestOfPart(p) == [written |-> TRUE, database |-> <<"part", pub[p].stamp>>,
                      attachments |-> pub[p].attach]

\* The manifest a script writes; None where an entry is left out.
Manifest(p) == [written |-> TRUE, database |-> Database(p),
                attachments |-> pub[p].attach]
NoManifest == [written |-> FALSE, database |-> None, attachments |-> None]

-----------------------------------------------------------------------------
(* Making the archives, on the publisher's machine.                        *)

\* TIMESTAMP="$(date ...)"; two scripts are not started in the same second.
Begin(p) ==
    /\ Pc(p) = "idle" /\ stamped < MaxPubs
    /\ stamped' = stamped + 1
    /\ \E s \in Scripts :
         pub' = [pub EXCEPT ![p] = [Idle EXCEPT !.pc = "pack", !.script = s,
                                                !.stamp = stamped + 1]]
    /\ overlap' = (overlap \/ \E q \in Publishers : Pc(q) # "idle")
    /\ UNCHANGED <<clock, archive, mtime, manifest, cached, client>>

\* The build or the dump, gzip and sha256sum. push-update also packs the
\* attachments, keeping the archive or not, or takes an archive kept earlier
\* (ATTACH_ARCHIVE_PATH), or leaves them out (PUSH_ATTACHMENTS=0).
Pack(p) ==
    /\ Pc(p) = "pack"
    /\ clock' = clock + 1
    /\ \E how \in IF pub[p].script = "push-update" THEN Attach ELSE {"none"} :
       \E n \in 1..MaxPubs :
         /\ how \in {"none", "pack"} => n = pub[p].stamp
         /\ how = "reuse" => cached[n] # 0
         /\ pub' = [pub EXCEPT ![p].pc = "upload", ![p].packed = clock + 1,
                      ![p].attach = IF how = "none" THEN None
                                    ELSE <<"attachments", n>>]
         /\ cached' = IF how = "pack" /\ "reuse" \in Attach
                      THEN [cached EXCEPT ![n] = clock + 1] ELSE cached
    /\ UNCHANGED <<stamped, archive, mtime, manifest, client, overlap>>

-----------------------------------------------------------------------------
(* Uploading.                                                              *)

\* A file appears, or is replaced, under a final name.
Put(n, t, content) ==
    /\ archive' = [archive EXCEPT ![n] = content]
    /\ mtime' = [mtime EXCEPT ![n] = t]
    /\ client' = [c \in Clients |->
                    IF client[c].want # None /\ client[c].want[1] = n[1]
                    THEN [client[c] EXCEPT !.since = @ + 1] ELSE client[c]]

\* rsync -a to <name>.part, which no glob and no manifest sees, with the mtime
\* of the local file; then mv.
Upload(p) ==
    /\ pub[p].script # "push-data"
    /\ At(p, "upload", IF pub[p].attach = None THEN "manifest" ELSE "attachments")
    /\ Put(Database(p), pub[p].packed, "complete")
    /\ UNCHANGED <<stamped, clock, manifest, cached, overlap>>

UploadAttachments(p) ==
    /\ At(p, "attachments", "manifest")
    /\ LET n == pub[p].attach IN
       Put(n, IF cached[n[2]] # 0 THEN cached[n[2]] ELSE pub[p].packed,
          "complete")
    /\ UNCHANGED <<stamped, clock, manifest, cached, overlap>>

\* Mutant: scp runs in the background.
ScpAndGoOn(p) ==
    /\ pub[p].script = "push-data"
    /\ At(p, "upload", "manifest")
    /\ clock' = clock + 1
    /\ Put(Database(p), clock', "partial")
    /\ UNCHANGED <<stamped, manifest, cached, overlap>>

\* scp writes the final name, and the mtime is the relay's time.
BeginScp(p) ==
    /\ pub[p].script = "push-data"
    /\ At(p, "upload", "scp")
    /\ clock' = clock + 1
    /\ Put(Database(p), clock', "partial")
    /\ UNCHANGED <<stamped, manifest, cached, overlap>>

\* If a rotation has unlinked the file meanwhile the bytes go nowhere.
EndScp(p) ==
    /\ At(p, "scp", "manifest")
    /\ clock' = clock + 1
    /\ IF archive[Database(p)] = "absent" THEN UNCHANGED <<archive, mtime>>
       ELSE /\ archive' = [archive EXCEPT ![Database(p)] = "complete"]
            /\ mtime' = [mtime EXCEPT ![Database(p)] = clock']
    /\ UNCHANGED <<stamped, manifest, cached, client, overlap>>

-----------------------------------------------------------------------------
(* The manifest and the rotation, on the relay.                            *)

\* cat > manifest.json truncates it, ...
TruncateManifest(p) ==
    /\ At(p, "manifest", "write")
    /\ manifest' = NoManifest
    /\ UNCHANGED <<stamped, clock, archive, mtime, cached, client, overlap>>

\* ... writes it, and the rotation follows; push-data goes on to the service
\* of the droplet.
WriteManifest(p) ==
    /\ At(p, "write", IF pub[p].script = "push-data" THEN "done" ELSE "rotate")
    /\ manifest' = Manifest(p)
    /\ UNCHANGED <<stamped, clock, archive, mtime, cached, client, overlap>>

Present(g) == {n \in Names : n[1] = g /\ archive[n] # "absent"}

\* Mutant: tail -n +$KEEP_DUMPS.
SurplusByOne(g) ==
    {n \in Present(g) :
       Cardinality({k \in Present(g) : mtime[k] > mtime[n]}) >= Keep - 1}

\* Mutant: ls -1tr.
SurplusOldestFirst(g) ==
    {n \in Present(g) :
       Cardinality({k \in Present(g) : mtime[k] < mtime[n]}) >= Keep}

\* ls -1t | tail -n +$((KEEP_DUMPS + 1)): all but the newest by mtime.
Surplus(g) ==
    {n \in Present(g) :
       Cardinality({k \in Present(g) : mtime[k] > mtime[n]}) >= Keep}

Rotate(p) ==
    /\ At(p, "rotate", "done")
    /\ LET gone == IF pub[p].script = "push-sqlite" THEN Surplus("sqlite")
                   ELSE Surplus("sql") \cup Surplus("attachments") IN
       archive' = [n \in Names |-> IF n \in gone THEN "absent" ELSE archive[n]]
    /\ UNCHANGED <<stamped, clock, mtime, manifest, cached, client, overlap>>

\* "==> Done."
End(p) ==
    /\ Pc(p) = "done"
    /\ pub' = [pub EXCEPT ![p] = Idle]
    /\ UNCHANGED <<stamped, clock, archive, mtime, manifest, cached, client, overlap>>

\* set -e, a lost connection, Ctrl-C: a script ends where it is.
Die(p) ==
    /\ Pc(p) # "idle"
    /\ pub' = [pub EXCEPT ![p] = Idle]
    /\ UNCHANGED <<stamped, clock, archive, mtime, manifest, cached, client, overlap>>

-----------------------------------------------------------------------------
(* Clients (updater.py; the installer reads the same manifest).            *)

\* fetch_manifest; an empty one does not parse and ends the update. Uploads of
\* scripts that died before their manifest may be newer already.
ReadManifest(c) ==
    /\ client[c] = Waiting /\ manifest.written
    /\ LET n == manifest.database IN
       client' = [client EXCEPT ![c] =
         [want |-> n,
          since |-> Cardinality({k \in Present(n[1]) : mtime[k] > mtime[n]})]]
    /\ UNCHANGED <<stamped, clock, archive, mtime, manifest, cached, pub, overlap>>

\* download_archive, or 404.
Fetch(c) ==
    /\ client[c].want # None
    /\ client' = [client EXCEPT ![c] = Waiting]
    /\ UNCHANGED <<stamped, clock, archive, mtime, manifest, cached, pub, overlap>>

-----------------------------------------------------------------------------
Init ==
    /\ stamped = 0 /\ clock = 0
    /\ archive = [n \in Names |-> "absent"]
    /\ mtime = [n \in Names |-> 0]
    /\ manifest = NoManifest
    /\ cached = [n \in 1..MaxPubs |-> 0]
    /\ pub = [p \in Publishers |-> Idle] /\ overlap = FALSE
    /\ client = [c \in Clients |-> Waiting]

Publish(p) ==
    \/ Begin(p) \/ Pack(p) \/ Upload(p) \/ UploadAttachments(p) \/ BeginScp(p)
    \/ EndScp(p) \/ TruncateManifest(p) \/ WriteManifest(p) \/ Rotate(p)
    \/ End(p) \/ Die(p)

Next ==
    \/ \E p \in Publishers : Publish(p)
    \/ \E c \in Clients : ReadManifest(c) \/ Fetch(c)

Spec == Init /\ [][Next]_vars

-----------------------------------------------------------------------------
(* Properties.                                                             *)

Pcs == {"idle", "pack", "upload", "attachments", "scp", "manifest", "write",
        "rotate", "done"}

TypeOK ==
    /\ stamped \in 0..MaxPubs /\ clock \in Nat
    /\ archive \in [Names -> {"absent", "partial", "complete"}]
    /\ mtime \in [Names -> Nat]
    /\ manifest \in [written : BOOLEAN, database : Names \cup {None},
                     attachments : Names \cup {None}]
    /\ cached \in [1..MaxPubs -> Nat]
    /\ pub \in [Publishers -> [pc : Pcs, script : Scripts \cup {None},
                               stamp : 0..MaxPubs, packed : Nat,
                               attach : Names \cup {None}]]
    /\ overlap \in BOOLEAN
    /\ client \in [Clients -> [want : Names \cup {None}, since : Nat]]

Named == {manifest.database, manifest.attachments} \ {None}

\* While no two publishers have overlapped, though each may die anywhere: what
\* the manifest names is there and whole, also while the next one is at work.
ManifestFetchable == ~overlap => \A n \in Named : archive[n] = "complete"

\* Under the same condition a client that read the manifest can still fetch the
\* archive it named while fewer than KEEP_DUMPS newer uploads of its kind have
\* appeared. (Uploads, not publications: one whose script died before the
\* manifest counts.)
LateFetch ==
    ~overlap => \A c \in Clients :
      client[c].want # None /\ client[c].since < Keep =>
        archive[client[c].want] = "complete"

\* Whatever overlaps or dies, a manifest never names an archive that is cut
\* short: a client gets the right bytes or a 404, and no third thing.
NeverTorn == \A n \in Named : archive[n] # "partial"

\* push-update.sh pushes the archive "+ attachments ... to the DO relay": when
\* it is done, both are there.
PushedIsThere ==
    \A p \in Publishers : Pc(p) = "done" /\ pub[p].script = "push-update" =>
      \A n \in {Database(p), pub[p].attach} \ {None} : archive[n] = "complete"
=============================================================================

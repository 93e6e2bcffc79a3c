---------------------------- MODULE RelayProofs -----------------------------
(***************************************************************************)
(* Safety of Relay for any number of publishers, publications and clients  *)
(* and any KEEP_DUMPS.                                                     *)
(***************************************************************************)
EXTENDS Relay, FiniteSetTheorems, TLAPS

Slot == [pc : Pcs, script : Scripts \cup {None}, stamp : 0..MaxPubs, packed : Nat,
         attach : Names \cup {None}]

Running(p) == Pc(p) # "idle"

\* What a script knows at its steps.
RunOK(p) ==
    /\ Running(p) => pub[p].stamp \in 1..stamped /\ pub[p].script \in Scripts
    /\ pub[p].attach # None =>
         pub[p].attach[1] = "attachments" /\ pub[p].script = "push-update"
    /\ Pc(p) = "attachments" => pub[p].attach # None
    /\ Pc(p) = "scp" => pub[p].script = "push-data"
    /\ Pc(p) = "rotate" => pub[p].script # "push-data"

TypeInv == TypeOK /\ \A p \in Publishers : RunOK(p)

LEMMA DatabaseName ==
    ASSUME TypeInv, NEW p \in Publishers, Running(p)
    PROVE  /\ Database(p) \in Names /\ Database(p)[1] \in {"sqlite", "sql"}
           /\ Database(p)[2] = pub[p].stamp /\ pub[p].stamp \in 1..MaxPubs
BY DEF TypeInv, TypeOK, RunOK, Database, GlobOf, Names, Globs

LEMMA AtEffect ==
    ASSUME TypeInv, NEW p \in Publishers, NEW from, NEW to \in Pcs, At(p, from, to)
    PROVE  /\ Pc(p) = from /\ pub' \in [Publishers -> Slot]
           /\ pub'[p].pc = to
           /\ pub'[p] = [pub[p] EXCEPT !.pc = to]
           /\ \A q \in Publishers \ {p} : pub'[q] = pub[q]
BY DEF At, TypeInv, TypeOK, Slot, Pc

LEMMA NamesFinite == IsFiniteSet(Names)
<1>1. IsFiniteSet(Globs)
  <2>1. IsFiniteSet({"sqlite"})
    BY FS_Singleton
  <2>2. IsFiniteSet({"sqlite"} \cup {"sql"})
    BY <2>1, FS_AddElement
  <2>3. IsFiniteSet(({"sqlite"} \cup {"sql"}) \cup {"attachments"})
    BY <2>2, FS_AddElement
  <2>4. Globs = ({"sqlite"} \cup {"sql"}) \cup {"attachments"}
    BY DEF Globs
  <2>5. QED BY <2>3, <2>4
<1>2. IsFiniteSet(1..MaxPubs)
  BY FS_Interval, RelayAssumption
<1>3. QED BY <1>1, <1>2, FS_Product DEF Names

LEMMA PutTypes ==
    ASSUME TypeOK, NEW n \in Names, NEW t \in Nat, NEW content \in {"partial", "complete"},
           Put(n, t, content)
    PROVE  /\ archive' \in [Names -> {"absent", "partial", "complete"}]
           /\ mtime' \in [Names -> Nat]
           /\ client' \in [Clients -> [want : Names \cup {None}, since : Nat]]
BY DEF Put, TypeOK

LEMMA IdleSlot == Idle \in Slot /\ Idle.pc = "idle" /\ Idle.attach = None
BY RelayAssumption DEF Idle, Slot, Pcs

LEMMA InitTypeInv == Init => TypeInv
<1> SUFFICES ASSUME Init PROVE TypeInv
  OBVIOUS
<1>1. pub \in [Publishers -> Slot] /\ \A p \in Publishers : pub[p] = Idle
  BY IdleSlot DEF Init
<1>2. TypeOK
  <2>1. /\ NoManifest \in [written : BOOLEAN, database : Names \cup {None},
                          attachments : Names \cup {None}]
        /\ Waiting \in [want : Names \cup {None}, since : Nat]
    BY DEF NoManifest, Waiting
  <2>2. /\ archive \in [Names -> {"absent", "partial", "complete"}]
        /\ mtime \in [Names -> Nat] /\ cached \in [1..MaxPubs -> Nat]
        /\ stamped \in 0..MaxPubs /\ clock \in Nat
    BY RelayAssumption DEF Init
  <2>3. overlap \in BOOLEAN
    BY DEF Init
  <2>4. manifest = NoManifest /\ client = [c \in Clients |-> Waiting]
    BY DEF Init
  <2>5. QED BY <1>1, <2>1, <2>2, <2>3, <2>4 DEF TypeOK, Slot
<1>3. \A p \in Publishers : RunOK(p)
  BY <1>1, IdleSlot DEF RunOK, Running, Pc
<1>4. QED BY <1>2, <1>3 DEF TypeInv

LEMMA NextTypeInv ==
    ASSUME TypeInv, [Next]_vars
    PROVE  TypeInv'
<1>a. TypeOK /\ \A p \in Publishers : RunOK(p)
  BY DEF TypeInv
<1>1. CASE UNCHANGED vars
  BY <1>a, <1>1 DEF vars, TypeInv, TypeOK, RunOK, Running, Pc
<1>2. ASSUME NEW p \in Publishers, Begin(p)
      PROVE  TypeInv'
  <2>1. PICK s \in Scripts :
          pub' = [pub EXCEPT ![p] = [Idle EXCEPT !.pc = "pack", !.script = s,
                                                 !.stamp = stamped + 1]]
    BY <1>2 DEF Begin
  <2>2. stamped' = stamped + 1 /\ stamped' \in 1..MaxPubs
    BY <1>a, <1>2, RelayAssumption DEF Begin, TypeOK
  <2>3. /\ pub' \in [Publishers -> Slot]
        /\ pub'[p].pc = "pack" /\ pub'[p].script \in Scripts
        /\ pub'[p].stamp = stamped' /\ pub'[p].attach = None
        /\ \A q \in Publishers \ {p} : pub'[q] = pub[q]
    <3>1. PICK new : new = [Idle EXCEPT !.pc = "pack", !.script = s, !.stamp = stamped + 1]
      OBVIOUS
    <3>2. /\ new.pc = "pack" /\ new.script = s /\ new.stamp = stamped + 1
          /\ new.packed = 0 /\ new.attach = None
      BY <3>1 DEF Idle
    <3>3. stamped + 1 \in 0..MaxPubs
      BY <2>2, RelayAssumption
    <3>4. new \in Slot
      BY <3>1, <3>3 DEF Idle, Slot, Pcs
    <3>5. pub' = [pub EXCEPT ![p] = new] /\ pub'[p] = new
      BY <1>a, <2>1, <3>1 DEF TypeOK
    <3>6. QED BY <1>a, <2>2, <3>2, <3>4, <3>5 DEF TypeOK, Slot
  <2>4. overlap' \in BOOLEAN
    BY <1>a, <1>2 DEF Begin, TypeOK
  <2>5. TypeOK'
    BY <1>a, <1>2, <2>2, <2>3, <2>4 DEF Begin, TypeOK, Slot
  <2>6. \A q \in Publishers : RunOK(q)'
    BY <1>a, <2>2, <2>3 DEF RunOK, Running, Pc, TypeOK
  <2>7. QED BY <2>5, <2>6 DEF TypeInv
<1>3. ASSUME NEW p \in Publishers, Pack(p)
      PROVE  TypeInv'
  <2>1. PICK how \in IF pub[p].script = "push-update" THEN Attach ELSE {"none"},
             n \in 1..MaxPubs :
          /\ pub' = [pub EXCEPT ![p].pc = "upload", ![p].packed = clock + 1,
                       ![p].attach = IF how = "none" THEN None
                                     ELSE <<"attachments", n>>]
          /\ cached' = IF how = "pack" /\ "reuse" \in Attach
                       THEN [cached EXCEPT ![n] = clock + 1] ELSE cached
    BY <1>3 DEF Pack
  <2>2. <<"attachments", n>> \in Names /\ clock + 1 \in Nat
    BY <1>a DEF Names, Globs, TypeOK
  <2>3. /\ pub' \in [Publishers -> Slot]
        /\ pub'[p].pc = "upload" /\ pub'[p].script = pub[p].script
        /\ pub'[p].stamp = pub[p].stamp
        /\ pub'[p].attach = IF how = "none" THEN None ELSE <<"attachments", n>>
        /\ \A q \in Publishers \ {p} : pub'[q] = pub[q]
    <3>1. pub \in [Publishers -> Slot]
      BY <1>a DEF TypeOK, Slot
    <3>2. (IF how = "none" THEN None ELSE <<"attachments", n>>) \in Names \cup {None}
      BY <2>2
    <3>3. PICK a \in Names \cup {None} :
            /\ a = IF how = "none" THEN None ELSE <<"attachments", n>>
            /\ pub' = [pub EXCEPT ![p].pc = "upload", ![p].packed = clock + 1,
                                 ![p].attach = a]
      BY <2>1, <3>2
    <3>4. pub[p] \in Slot
      BY <3>1
    <3>5. [pub[p] EXCEPT !.pc = "upload", !.packed = clock + 1, !.attach = a] \in Slot
      BY <2>2, <3>4 DEF Slot, Pcs
    <3>6. pub' = [pub EXCEPT ![p] = [pub[p] EXCEPT !.pc = "upload", !.packed = clock + 1,
                                                   !.attach = a]]
      BY <3>1, <3>3, <3>4 DEF Slot
    <3>7. /\ pub'[p].pc = "upload" /\ pub'[p].script = pub[p].script
          /\ pub'[p].stamp = pub[p].stamp /\ pub'[p].attach = a
          /\ \A q \in Publishers \ {p} : pub'[q] = pub[q]
      BY <3>1, <3>4, <3>6 DEF Slot
    <3>8. pub' \in [Publishers -> Slot]
      BY <3>1, <3>5, <3>6
    <3>9. QED BY <3>3, <3>7, <3>8
  <2>4. cached' \in [1..MaxPubs -> Nat]
    BY <1>a, <2>1, <2>2 DEF TypeOK
  <2>5. TypeOK'
    BY <1>a, <1>3, <2>2, <2>3, <2>4 DEF Pack, TypeOK, Slot
  <2>6. \A q \in Publishers : RunOK(q)'
    BY <1>a, <1>3, <2>1, <2>3 DEF Pack, RunOK, Running, Pc
  <2>7. QED BY <2>5, <2>6 DEF TypeInv
<1>4. ASSUME NEW p \in Publishers,
             \/ Upload(p) \/ UploadAttachments(p) \/ BeginScp(p) \/ EndScp(p)
             \/ TruncateManifest(p) \/ WriteManifest(p) \/ Rotate(p)
      PROVE  TypeInv'
  <2>1. PICK to \in Pcs : At(p, Pc(p), to) /\ to # "idle"
    BY <1>4 DEF Upload, UploadAttachments, BeginScp, EndScp, TruncateManifest,
       WriteManifest, Rotate, At, Pcs
  <2>2. /\ Running(p)
        /\ to = "attachments" => pub[p].attach # None
        /\ to = "scp" => pub[p].script = "push-data"
        /\ to = "rotate" => pub[p].script # "push-data"
    <3>1. pub' = [pub EXCEPT ![p].pc = to] /\ pub'[p].pc = to
      BY <2>1, AtEffect DEF At
    <3>2. QED
      BY <1>4, <3>1, AtEffect DEF Upload, UploadAttachments, BeginScp, EndScp,
         TruncateManifest, WriteManifest, Rotate, Running, At, Pcs
  <2>3. /\ pub' \in [Publishers -> Slot] /\ pub'[p] = [pub[p] EXCEPT !.pc = to]
        /\ \A q \in Publishers \ {p} : pub'[q] = pub[q]
    BY <2>1, AtEffect
  <2>4. stamped' = stamped /\ overlap' = overlap
    BY <1>4 DEF Upload, UploadAttachments, BeginScp, EndScp, TruncateManifest,
       WriteManifest, Rotate
  <2>5. \A q \in Publishers : RunOK(q)'
    <3>1. /\ pub'[p].pc = to /\ pub'[p].script = pub[p].script
          /\ pub'[p].stamp = pub[p].stamp /\ pub'[p].attach = pub[p].attach
      BY <1>a, <2>3 DEF TypeOK
    <3>2. RunOK(p)'
      BY <1>a, <2>2, <2>4, <3>1 DEF RunOK, Running, Pc
    <3>3. ASSUME NEW q \in Publishers \ {p} PROVE RunOK(q)'
      BY <1>a, <2>3, <2>4 DEF RunOK, Running, Pc
    <3>4. QED BY <3>2, <3>3
  <2>6. /\ Database(p) \in Names /\ clock + 1 \in Nat
        /\ pub[p].packed \in Nat /\ pub[p].attach \in Names \cup {None}
    BY <1>a, <2>2, DatabaseName DEF TypeOK
  <2>7. CASE Upload(p)
    <3>1. Put(Database(p), pub[p].packed, "complete")
      BY <2>7 DEF Upload
    <3>2. QED BY <1>a, <2>3, <2>5, <2>6, <2>7, <3>1, PutTypes DEF Upload, TypeInv, TypeOK, Slot
  <2>8. CASE UploadAttachments(p)
    <3>1. pub[p].attach \in Names /\ pub[p].attach[2] \in 1..MaxPubs
      BY <1>a, <2>6, <2>8 DEF UploadAttachments, At, RunOK, Names
    <3>2. PICK t \in Nat : Put(pub[p].attach, t, "complete")
      BY <1>a, <2>6, <2>8, <3>1 DEF UploadAttachments, TypeOK
    <3>3. QED
      BY <1>a, <2>3, <2>5, <2>8, <3>1, <3>2, PutTypes
         DEF UploadAttachments, TypeInv, TypeOK, Slot
  <2>9. CASE BeginScp(p)
    <3>1. clock' = clock + 1 /\ Put(Database(p), clock + 1, "partial")
      BY <2>9 DEF BeginScp
    <3>2. QED BY <1>a, <2>3, <2>5, <2>6, <2>9, <3>1, PutTypes DEF BeginScp, TypeInv, TypeOK, Slot
  <2>10. CASE EndScp(p)
    <3>1. clock' = clock + 1 /\ clock' \in Nat
      BY <1>a, <2>10 DEF EndScp, TypeOK
    <3>2. /\ archive' \in [Names -> {"absent", "partial", "complete"}]
          /\ mtime' \in [Names -> Nat]
      <4>1. CASE archive[Database(p)] = "absent"
        BY <1>a, <2>10, <4>1 DEF EndScp, TypeOK
      <4>2. CASE archive[Database(p)] # "absent"
        BY <1>a, <2>10, <3>1, <4>2 DEF EndScp, TypeOK
      <4>3. QED BY <4>1, <4>2
    <3>3. QED BY <1>a, <2>3, <2>5, <2>10, <3>1, <3>2 DEF EndScp, TypeInv, TypeOK, Slot
  <2>11. CASE TruncateManifest(p)
    BY <1>a, <2>3, <2>5, <2>11 DEF TruncateManifest, TypeInv, TypeOK, Slot, NoManifest
  <2>12. CASE WriteManifest(p)
    BY <1>a, <2>3, <2>5, <2>6, <2>12 DEF WriteManifest, Manifest, TypeInv, TypeOK, Slot
  <2>13. CASE Rotate(p)
    BY <1>a, <2>3, <2>5, <2>13 DEF Rotate, TypeInv, TypeOK, Slot
  <2>14. QED BY <1>4, <2>7, <2>8, <2>9, <2>10, <2>11, <2>12, <2>13
<1>5. ASSUME NEW p \in Publishers, End(p) \/ Die(p)
      PROVE  TypeInv'
  <2>1. /\ pub' = [pub EXCEPT ![p] = Idle]
        /\ UNCHANGED <<stamped, clock, archive, mtime, manifest, cached, client, overlap>>
    BY <1>5 DEF End, Die
  <2>2. Idle \in Slot
    BY IdleSlot
  <2>3. pub' \in [Publishers -> Slot]
    BY <1>a, <2>1, <2>2 DEF TypeOK, Slot
  <2>4. TypeOK'
    BY <1>a, <2>1, <2>3 DEF TypeOK, Slot
  <2>5. \A q \in Publishers : RunOK(q)'
    BY <1>a, <2>1, <2>2 DEF RunOK, Running, Pc, Idle, TypeOK
  <2>6. QED BY <2>4, <2>5 DEF TypeInv
<1>6. ASSUME NEW c \in Clients, ReadManifest(c)
      PROVE  TypeInv'
  <2>1. IsFiniteSet({k \in Present(manifest.database[1]) :
                       mtime[k] > mtime[manifest.database]})
    BY NamesFinite, FS_Subset DEF Present
  <2>2. Cardinality({k \in Present(manifest.database[1]) :
                       mtime[k] > mtime[manifest.database]}) \in Nat
    BY <2>1, FS_CardinalityType
  <2>3. client' \in [Clients -> [want : Names \cup {None}, since : Nat]]
    BY <1>a, <1>6, <2>2 DEF ReadManifest, TypeOK
  <2>4. QED BY <1>a, <1>6, <2>3 DEF ReadManifest, TypeInv, TypeOK, RunOK, Running, Pc
<1>7. ASSUME NEW c \in Clients, Fetch(c)
      PROVE  TypeInv'
  BY <1>a, <1>7 DEF Fetch, Waiting, TypeInv, TypeOK, RunOK, Running, Pc
<1>8. QED BY <1>1, <1>2, <1>3, <1>4, <1>5, <1>6, <1>7 DEF Next, Publish

\* Every variable keeps its type: what the scripts hold, the names in the
\* manifest, and what the clients want.
THEOREM TypeCorrect == Spec => []TypeOK
<1>1. TypeInv => TypeOK
  BY DEF TypeInv
<1>2. QED BY <1>1, InitTypeInv, NextTypeInv, PTL DEF Spec

-----------------------------------------------------------------------------
(* What a script's step does to the scripts.                               *)

Step(p) == \/ Upload(p) \/ UploadAttachments(p) \/ BeginScp(p) \/ EndScp(p)
           \/ TruncateManifest(p) \/ WriteManifest(p) \/ Rotate(p)

Moves ==
    {<<"upload", "attachments">>, <<"upload", "manifest">>, <<"upload", "scp">>,
     <<"attachments", "manifest">>, <<"scp", "manifest">>, <<"manifest", "write">>,
     <<"write", "rotate">>, <<"write", "done">>, <<"rotate", "done">>}

\* The other scripts stay where they are.
Others(p) == \A q \in Publishers \ {p} : pub'[q] = pub[q]

LEMMA StepMoves ==
    ASSUME TypeInv, NEW p \in Publishers, Step(p)
    PROVE  /\ <<Pc(p), pub'[p].pc>> \in Moves /\ Running(p) /\ Others(p)
           /\ pub'[p].script = pub[p].script /\ pub'[p].stamp = pub[p].stamp
           /\ pub'[p].packed = pub[p].packed /\ pub'[p].attach = pub[p].attach
           /\ \A q \in Publishers : Database(q)' = Database(q)
           /\ UNCHANGED <<stamped, overlap, cached>>
<1>1. PICK to \in Pcs : At(p, Pc(p), to) /\ <<Pc(p), to>> \in Moves
  BY DEF Step, Upload, UploadAttachments, BeginScp, EndScp, TruncateManifest,
     WriteManifest, Rotate, At, Pcs, Moves
<1>2. pub'[p] = [pub[p] EXCEPT !.pc = to] /\ pub'[p].pc = to /\ Others(p)
  BY <1>1, AtEffect DEF Others
<1>3. pub[p] \in Slot
  BY DEF TypeInv, TypeOK, Slot
<1>4. /\ pub'[p].script = pub[p].script /\ pub'[p].stamp = pub[p].stamp
      /\ pub'[p].packed = pub[p].packed /\ pub'[p].attach = pub[p].attach
  BY <1>2, <1>3 DEF Slot
<1>5. \A q \in Publishers : Database(q)' = Database(q)
  BY <1>2, <1>4 DEF Others, Database, GlobOf
<1>6. Running(p)
  BY <1>1 DEF Moves, Running
<1>7. UNCHANGED <<stamped, overlap, cached>>
  BY DEF Step, Upload, UploadAttachments, BeginScp, EndScp, TruncateManifest,
     WriteManifest, Rotate
<1>8. QED BY <1>1, <1>2, <1>4, <1>5, <1>6, <1>7

LEMMA BeginMoves ==
    ASSUME TypeInv, NEW p \in Publishers, Begin(p)
    PROVE  /\ Pc(p) = "idle" /\ pub'[p].pc = "pack" /\ Others(p)
           /\ stamped' = stamped + 1 /\ pub'[p].stamp = stamped + 1
           /\ pub'[p].attach = None
           /\ UNCHANGED <<clock, archive, mtime, manifest, cached, client>>
           /\ overlap' = (overlap \/ \E q \in Publishers : Pc(q) # "idle")
<1>1. PICK s \in Scripts :
        pub' = [pub EXCEPT ![p] = [Idle EXCEPT !.pc = "pack", !.script = s,
                                               !.stamp = stamped + 1]]
  BY DEF Begin
<1>2. pub'[p] = [Idle EXCEPT !.pc = "pack", !.script = s, !.stamp = stamped + 1]
  BY <1>1 DEF TypeInv, TypeOK
<1>3. pub'[p].pc = "pack" /\ pub'[p].stamp = stamped + 1 /\ pub'[p].attach = None
  BY <1>2 DEF Idle
<1>4. Others(p)
  BY <1>1 DEF Others, TypeInv, TypeOK
<1>5. QED BY <1>3, <1>4 DEF Begin

LEMMA PackMoves ==
    ASSUME TypeInv, NEW p \in Publishers, Pack(p)
    PROVE  /\ Pc(p) = "pack" /\ pub'[p].pc = "upload" /\ Others(p)
           /\ pub'[p].script = pub[p].script /\ pub'[p].stamp = pub[p].stamp
           /\ pub'[p].packed = clock + 1
           /\ \/ pub'[p].attach = None
              \/ \E n \in 1..MaxPubs : pub'[p].attach = <<"attachments", n>>
           /\ \A q \in Publishers : Database(q)' = Database(q)
           /\ clock' = clock + 1
           /\ UNCHANGED <<stamped, archive, mtime, manifest, client, overlap>>
           /\ "reuse" \notin Attach => cached' = cached
<1>1. PICK how \in IF pub[p].script = "push-update" THEN Attach ELSE {"none"},
           n \in 1..MaxPubs :
        /\ pub' = [pub EXCEPT ![p].pc = "upload", ![p].packed = clock + 1,
                     ![p].attach = IF how = "none" THEN None
                                   ELSE <<"attachments", n>>]
        /\ cached' = IF how = "pack" /\ "reuse" \in Attach
                     THEN [cached EXCEPT ![n] = clock + 1] ELSE cached
  BY DEF Pack
<1>2. pub \in [Publishers -> Slot]
  BY DEF TypeInv, TypeOK, Slot
<1>3. /\ pub'[p].pc = "upload" /\ Others(p)
      /\ pub'[p].script = pub[p].script /\ pub'[p].stamp = pub[p].stamp
      /\ pub'[p].packed = clock + 1
      /\ pub'[p].attach = IF how = "none" THEN None ELSE <<"attachments", n>>
  BY <1>1, <1>2 DEF Others, Slot
<1>4. \A q \in Publishers : Database(q)' = Database(q)
  BY <1>3 DEF Others, Database, GlobOf
<1>5. QED BY <1>1, <1>3, <1>4 DEF Pack

LEMMA LeaveMoves ==
    ASSUME TypeInv, NEW p \in Publishers, End(p) \/ Die(p)
    PROVE  /\ pub'[p].pc = "idle" /\ pub'[p].attach = None /\ Others(p)
           /\ UNCHANGED <<stamped, clock, archive, mtime, manifest, cached, client, overlap>>
<1>1. pub' = [pub EXCEPT ![p] = Idle]
  BY DEF End, Die
<1>2. pub'[p] = Idle /\ Others(p)
  BY <1>1 DEF Others, TypeInv, TypeOK
<1>3. QED BY <1>2, IdleSlot DEF End, Die

-----------------------------------------------------------------------------
(* A manifest never names a torn archive.                                  *)

\* A script at these steps has not been in the manifest.
Before == {"pack", "upload", "attachments", "scp", "manifest", "write"}

Distinct ==
    \A p, q \in Publishers :
        p # q /\ Running(p) /\ Running(q) => pub[p].stamp # pub[q].stamp

ManifestOK ==
    /\ manifest.written => manifest.database \in Names
    /\ manifest.database # None =>
         /\ manifest.database[1] \in {"sqlite", "sql"}
         /\ manifest.database[2] \in 1..stamped
         /\ \A p \in Publishers : Pc(p) \in Before => manifest.database[2] # pub[p].stamp
    /\ manifest.attachments # None => manifest.attachments[1] = "attachments"

\* A file that scp is writing, or left unfinished, is one that no manifest and
\* no script on its way to the manifest names.
Cut ==
    \A n \in Names : archive[n] = "partial" =>
        /\ n[1] = "sqlite" /\ (n = manifest.database => n = None)
        /\ \A p \in Publishers : Pc(p) \in {"manifest", "write"} => Database(p) # n

TornInv == Distinct /\ ManifestOK /\ Cut

LEMMA InitTorn == Init => TornInv
BY IdleSlot DEF Init, TornInv, Distinct, ManifestOK, Cut, Running, Pc, NoManifest

LEMMA NextTorn ==
    ASSUME TypeInv, TornInv, [Next]_vars
    PROVE  TornInv'
<1>a. Distinct /\ ManifestOK /\ Cut /\ stamped \in Nat
  BY DEF TornInv, TypeInv, TypeOK
<1>b. \A q \in Publishers : Running(q) => pub[q].stamp \in 1..stamped
  BY DEF TypeInv, RunOK
<1>1. CASE UNCHANGED vars
  BY <1>a, <1>1 DEF vars, TornInv, Distinct, ManifestOK, Cut, Running, Pc, Database, GlobOf
<1>2. ASSUME NEW p \in Publishers, Begin(p)
      PROVE  TornInv'
  <2>1. /\ Pc(p) = "idle" /\ pub'[p].pc = "pack" /\ Others(p)
        /\ stamped' = stamped + 1 /\ pub'[p].stamp = stamped + 1
        /\ UNCHANGED <<archive, manifest>>
    BY <1>2, BeginMoves
  <2>2. Distinct'
    BY <1>a, <1>b, <2>1 DEF Distinct, Running, Pc, Others
  <2>3. ManifestOK'
    BY <1>a, <2>1 DEF ManifestOK, Pc, Others, Before
  <2>4. Cut'
    BY <1>a, <2>1 DEF Cut, Pc, Others, Database, GlobOf
  <2>5. QED BY <2>2, <2>3, <2>4 DEF TornInv
<1>3. ASSUME NEW p \in Publishers, Pack(p)
      PROVE  TornInv'
  <2>1. /\ Pc(p) = "pack" /\ pub'[p].pc = "upload" /\ Others(p)
        /\ pub'[p].stamp = pub[p].stamp
        /\ \A q \in Publishers : Database(q)' = Database(q)
        /\ UNCHANGED <<stamped, archive, manifest>>
    BY <1>3, PackMoves
  <2>2. Distinct'
    BY <1>a, <2>1 DEF Distinct, Running, Pc, Others
  <2>3. ManifestOK'
    BY <1>a, <2>1 DEF ManifestOK, Pc, Others, Before
  <2>4. Cut'
    BY <1>a, <2>1 DEF Cut, Pc, Others
  <2>5. QED BY <2>2, <2>3, <2>4 DEF TornInv
<1>4. ASSUME NEW p \in Publishers, Step(p)
      PROVE  TornInv'
  <2>1. /\ <<Pc(p), pub'[p].pc>> \in Moves /\ Running(p) /\ Others(p)
        /\ pub'[p].script = pub[p].script /\ pub'[p].stamp = pub[p].stamp
        /\ \A q \in Publishers : Database(q)' = Database(q)
        /\ stamped' = stamped
    BY <1>4, StepMoves
  <2>2. Distinct'
    BY <1>a, <2>1 DEF Distinct, Running, Pc, Others
  <2>3. /\ Database(p) \in Names /\ Database(p)[1] \in {"sqlite", "sql"}
        /\ Database(p)[2] = pub[p].stamp /\ pub[p].stamp \in 1..stamped
    BY <1>b, <2>1, DatabaseName
  <2>4. \A q \in Publishers \ {p} : Running(q) => Database(q) # Database(p)
    BY <1>a, <2>1, <2>3, DatabaseName DEF Distinct
  <2>5. ASSUME manifest' = manifest PROVE ManifestOK'
    BY <1>a, <2>1, <2>5 DEF ManifestOK, Pc, Others, Before, Moves
  <2>6. CASE Upload(p)
    <3>1. manifest' = manifest /\ archive' = [archive EXCEPT ![Database(p)] = "complete"]
      BY <2>6 DEF Upload, Put
    <3>2. \A n \in Names : archive'[n] = "partial" => archive[n] = "partial" /\ n # Database(p)
      BY <2>3, <3>1 DEF TypeInv, TypeOK
    <3>3. Cut'
      BY <1>a, <2>1, <3>1, <3>2 DEF Cut, Pc, Others
    <3>4. QED BY <2>2, <2>5, <3>1, <3>3 DEF TornInv
  <2>7. CASE UploadAttachments(p)
    <3>1. manifest' = manifest /\ Pc(p) = "attachments"
      BY <2>7 DEF UploadAttachments, At
    <3>2. archive' = [archive EXCEPT ![pub[p].attach] = "complete"]
      BY <2>7 DEF UploadAttachments, Put
    <3>3. \A n \in Names : archive'[n] = "partial" => archive[n] = "partial"
      BY <3>2 DEF TypeInv, TypeOK
    <3>4. GlobOf(p) = "sql"
      BY <3>1 DEF TypeInv, RunOK, GlobOf
    <3>5. Cut'
      BY <1>a, <2>1, <3>1, <3>3, <3>4 DEF Cut, Pc, Others, Database
    <3>6. QED BY <2>2, <2>5, <3>1, <3>5 DEF TornInv
  <2>8. CASE BeginScp(p)
    <3>1. /\ manifest' = manifest /\ archive' = [archive EXCEPT ![Database(p)] = "partial"]
          /\ Pc(p) = "upload" /\ pub'[p].pc = "scp" /\ pub[p].script = "push-data"
      BY <2>8, AtEffect DEF BeginScp, Put, At, Pcs
    <3>2. \A n \in Names : archive'[n] = "partial" => archive[n] = "partial" \/ n = Database(p)
      BY <2>3, <3>1 DEF TypeInv, TypeOK
    <3>3. Database(p)[1] = "sqlite" /\ (Database(p) = manifest.database => Database(p) = None)
      BY <1>a, <2>3, <3>1 DEF Database, GlobOf, ManifestOK, Before, TypeInv, TypeOK
    <3>4. \A q \in Publishers : Pc(q)' \in {"manifest", "write"} =>
            Pc(q) = Pc(q)' /\ q # p /\ Running(q)
      BY <2>1, <3>1 DEF Pc, Others, Running
    <3>5. Cut'
      BY <1>a, <2>1, <2>4, <3>1, <3>2, <3>3, <3>4 DEF Cut
    <3>6. QED BY <2>2, <2>5, <3>1, <3>5 DEF TornInv
  <2>9. CASE EndScp(p)
    <3>1. /\ manifest' = manifest
          /\ \/ archive' = [archive EXCEPT ![Database(p)] = "complete"]
             \/ archive' = archive /\ archive[Database(p)] = "absent"
      BY <2>9 DEF EndScp
    <3>2. \A n \in Names : archive'[n] = "partial" => archive[n] = "partial" /\ n # Database(p)
      BY <2>3, <3>1 DEF TypeInv, TypeOK
    <3>3. Cut'
      BY <1>a, <2>1, <3>1, <3>2 DEF Cut, Pc, Others
    <3>4. QED BY <2>2, <2>5, <3>1, <3>3 DEF TornInv
  <2>10. CASE TruncateManifest(p)
    <3>1. /\ manifest' = NoManifest /\ archive' = archive
          /\ Pc(p) = "manifest" /\ pub'[p].pc = "write"
      BY <2>10, AtEffect DEF TruncateManifest, At, Pcs
    <3>2. ManifestOK'
      BY <3>1 DEF ManifestOK, NoManifest
    <3>3. \A n \in Names : archive[n] = "partial" =>
            /\ n[1] = "sqlite"
            /\ \A q \in Publishers : Pc(q)' \in {"manifest", "write"} => Database(q)' # n
      BY <1>a, <2>1, <3>1 DEF Cut, Pc, Others
    <3>4. QED BY <2>2, <3>1, <3>2, <3>3 DEF TornInv, Cut, NoManifest
  <2>11. CASE WriteManifest(p)
    <3>1. /\ manifest' = Manifest(p) /\ archive' = archive
          /\ Pc(p) = "write" /\ pub'[p].pc \in {"rotate", "done"}
      BY <2>1, <2>11 DEF WriteManifest, At, Moves
    <3>2. /\ manifest'.written /\ manifest'.database = Database(p)
          /\ manifest'.attachments = pub[p].attach
      BY <3>1 DEF Manifest
    <3>3. \A q \in Publishers : Pc(q)' \in Before => q # p /\ Pc(q) = Pc(q)' /\ Running(q)
                                                  /\ pub'[q].stamp = pub[q].stamp
      BY <2>1, <3>1 DEF Pc, Others, Running, Before
    <3>4. ManifestOK'
      BY <1>a, <2>1, <2>3, <3>2, <3>3 DEF ManifestOK, Distinct, TypeInv, RunOK
    <3>5. Cut'
      BY <1>a, <2>1, <3>1, <3>2, <3>3 DEF Cut, Before
    <3>6. QED BY <2>2, <3>4, <3>5 DEF TornInv
  <2>12. CASE Rotate(p)
    <3>1. manifest' = manifest
      BY <2>12 DEF Rotate
    <3>2. \A n \in Names : archive'[n] \in {archive[n], "absent"}
      BY <2>12 DEF Rotate
    <3>3. Cut'
      BY <1>a, <2>1, <2>12, <3>1, <3>2 DEF Cut, Pc, Others, Rotate, At, Moves
    <3>4. QED BY <2>2, <2>5, <3>1, <3>3 DEF TornInv
  <2>13. QED BY <1>4, <2>6, <2>7, <2>8, <2>9, <2>10, <2>11, <2>12 DEF Step
<1>5. ASSUME NEW p \in Publishers, End(p) \/ Die(p)
      PROVE  TornInv'
  <2>1. pub'[p].pc = "idle" /\ Others(p) /\ UNCHANGED <<stamped, archive, manifest>>
    BY <1>5, LeaveMoves
  <2>2. QED
    BY <1>a, <2>1 DEF TornInv, Distinct, ManifestOK, Cut, Running, Pc, Others, Before,
       Database, GlobOf
<1>6. ASSUME NEW c \in Clients, ReadManifest(c) \/ Fetch(c)
      PROVE  TornInv'
  BY <1>a, <1>6 DEF ReadManifest, Fetch, TornInv, Distinct, ManifestOK, Cut, Running, Pc,
     Database, GlobOf
<1>7. QED BY <1>1, <1>2, <1>3, <1>4, <1>5, <1>6 DEF Next, Publish, Step

\* Whatever scripts overlap or die, the manifest never names an archive that is
\* cut short (push-data.sh:46, push-sqlite.sh:115).
THEOREM NeverNamesTorn == Spec => []NeverTorn
<1>1. TypeInv /\ TornInv => NeverTorn
  BY DEF TypeInv, TypeOK, TornInv, ManifestOK, Cut, NeverTorn, Named
<1>2. QED BY <1>1, InitTypeInv, NextTypeInv, InitTorn, NextTorn, PTL DEF Spec

-----------------------------------------------------------------------------
(* While no two scripts have overlapped.                                   *)

\* Attachments are packed anew or left out.
NoReuse == "reuse" \notin Attach

Alone == \A p, q \in Publishers : Running(p) /\ Running(q) => p = q

Mtimes == /\ \A n \in Names : mtime[n] <= clock
          /\ \A i \in 1..MaxPubs : cached[i] = 0

Holds == \A n \in Named : archive[n] = "complete"

\* The archive is there, and nothing is newer.
Placed(n) == archive[n] = "complete" /\ mtime[n] = clock

\* What the only script has done at its steps.
Work(p) ==
    /\ Pc(p) \in {"upload", "attachments"} => pub[p].packed = clock
    /\ Pc(p) \in {"attachments", "manifest", "write", "rotate"} => Placed(Database(p))
    /\ Pc(p) \in {"manifest", "write", "rotate"} /\ pub[p].attach # None =>
         Placed(pub[p].attach)
    /\ Pc(p) = "scp" => /\ archive[Database(p)] = "partial"
                        /\ mtime[Database(p)] = clock
                        /\ \A k \in Names \ {Database(p)} : mtime[k] < clock
    /\ Pc(p) = "rotate" => manifest = Manifest(p)

SoleInv ==
    ~overlap => Alone /\ Mtimes /\ Holds /\ \A p \in Publishers : Work(p)

LEMMA InitSole == Init => SoleInv
BY IdleSlot DEF Init, SoleInv, Alone, Mtimes, Holds, Named, NoManifest, Work, Running, Pc

\* The newest archive of its kind is not rotated away.
LEMMA NewestStays ==
    ASSUME TypeInv, Mtimes, NEW n \in Names, mtime[n] = clock, NEW g
    PROVE  n \notin Surplus(g)
<1>1. {k \in Present(g) : mtime[k] > mtime[n]} = {}
  BY DEF Mtimes, Present, TypeInv, TypeOK
<1>2. Cardinality({k \in Present(g) : mtime[k] > mtime[n]}) = 0
  BY <1>1, FS_EmptySet
<1>3. QED BY <1>2, RelayAssumption DEF Surplus

LEMMA NextSole ==
    ASSUME NoReuse, TypeInv, TornInv, SoleInv, [Next]_vars
    PROVE  SoleInv'
<1> SUFFICES ASSUME ~overlap'
             PROVE  /\ Alone' /\ Mtimes' /\ Holds'
                    /\ \A p \in Publishers : Work(p)'
  BY DEF SoleInv
<1>a. TypeOK /\ ManifestOK /\ \A p \in Publishers : RunOK(p)
  BY DEF TypeInv, TornInv
<1>1. CASE UNCHANGED vars
  BY <1>1 DEF vars, SoleInv, Alone, Mtimes, Holds, Named, Work, Placed, Running, Pc,
     Database, GlobOf, Manifest
<1>2. ASSUME NEW p \in Publishers, Begin(p)
      PROVE  Alone' /\ Mtimes' /\ Holds' /\ \A q \in Publishers : Work(q)'
  <2>1. /\ pub'[p].pc = "pack" /\ Others(p)
        /\ UNCHANGED <<clock, archive, mtime, manifest, cached>>
        /\ ~overlap /\ \A q \in Publishers : Pc(q) = "idle"
    BY <1>2, BeginMoves
  <2>2. \A q \in Publishers : Pc(q)' \in {"idle", "pack"} /\ (Running(q)' => q = p)
    BY <2>1 DEF Others, Pc, Running
  <2>3. QED BY <2>1, <2>2 DEF SoleInv, Alone, Mtimes, Holds, Named, Work
<1>3. ASSUME NEW p \in Publishers, Pack(p)
      PROVE  Alone' /\ Mtimes' /\ Holds' /\ \A q \in Publishers : Work(q)'
  <2>1. /\ Pc(p) = "pack" /\ pub'[p].pc = "upload" /\ Others(p)
        /\ pub'[p].packed = clock + 1 /\ clock' = clock + 1
        /\ UNCHANGED <<archive, mtime, manifest, cached, overlap>>
    BY <1>3, PackMoves DEF NoReuse
  <2>2. \A q \in Publishers \ {p} : Pc(q)' = "idle"
    BY <2>1 DEF SoleInv, Alone, Running, Pc, Others
  <2>3. Alone'
    BY <2>2 DEF Alone, Running
  <2>4. Mtimes' /\ Holds'
    BY <1>a, <2>1 DEF SoleInv, Mtimes, Holds, Named, TypeOK
  <2>5. \A q \in Publishers : Work(q)'
    BY <2>1, <2>2 DEF Work, Pc
  <2>6. QED BY <2>3, <2>4, <2>5
<1>4. ASSUME NEW p \in Publishers, Step(p)
      PROVE  Alone' /\ Mtimes' /\ Holds' /\ \A q \in Publishers : Work(q)'
  <2>1. /\ <<Pc(p), pub'[p].pc>> \in Moves /\ Running(p) /\ Others(p)
        /\ pub'[p].packed = pub[p].packed /\ pub'[p].attach = pub[p].attach
        /\ \A q \in Publishers : Database(q)' = Database(q)
        /\ UNCHANGED <<overlap, cached>>
    BY <1>4, StepMoves
  <2>2. /\ Alone /\ Mtimes /\ Holds /\ Work(p) /\ clock \in Nat
    BY <1>a, <2>1 DEF SoleInv, TypeOK
  <2>3. \A q \in Publishers \ {p} : Pc(q)' = "idle"
    BY <2>1, <2>2 DEF Alone, Running, Pc, Others
  <2>4. Alone' /\ \A q \in Publishers \ {p} : Work(q)'
    BY <2>3 DEF Alone, Running, Work
  <2>5. /\ Database(p) \in Names /\ Database(p)[1] \in {"sqlite", "sql"}
        /\ Database(p)[2] = pub[p].stamp
    BY <2>1, DatabaseName
  <2>6. pub[p].attach # None => pub[p].attach \in Names /\ pub[p].attach # Database(p)
    BY <1>a, <2>5 DEF TypeOK, RunOK
  <2>7. Pc(p) \in Before => Database(p) \notin Named
    BY <1>a, <2>5 DEF Named, ManifestOK
  <2>8. CASE Upload(p)
    <3>1. /\ Pc(p) = "upload" /\ pub'[p].pc \in {"attachments", "manifest"}
          /\ pub'[p].pc = "manifest" => pub[p].attach = None
          /\ UNCHANGED <<clock, manifest>>
      BY <2>1, <2>8, AtEffect DEF Upload, At, Moves, Pcs
    <3>2. /\ archive' = [archive EXCEPT ![Database(p)] = "complete"]
          /\ mtime' = [mtime EXCEPT ![Database(p)] = clock]
      BY <2>2, <2>8, <3>1 DEF Upload, Put, Work
    <3>3. Mtimes' /\ Holds'
      BY <1>a, <2>1, <2>2, <2>5, <3>1, <3>2 DEF Mtimes, Holds, Named, TypeOK
    <3>4. Work(p)'
      BY <1>a, <2>1, <2>2, <2>5, <3>1, <3>2 DEF Work, Pc, Placed, TypeOK
    <3>5. QED BY <2>4, <3>3, <3>4
  <2>9. CASE UploadAttachments(p)
    <3>1. /\ Pc(p) = "attachments" /\ pub'[p].pc = "manifest" /\ pub[p].attach # None
          /\ UNCHANGED <<clock, manifest>>
      BY <1>a, <2>1, <2>9 DEF UploadAttachments, At, Moves, RunOK
    <3>2. cached[pub[p].attach[2]] = 0
      BY <2>2, <2>6, <3>1 DEF Mtimes, Names
    <3>3. /\ archive' = [archive EXCEPT ![pub[p].attach] = "complete"]
          /\ mtime' = [mtime EXCEPT ![pub[p].attach] = clock]
      BY <2>2, <2>9, <3>1, <3>2 DEF UploadAttachments, Put, Work
    <3>4. Holds'
      BY <1>a, <2>2, <2>6, <3>1, <3>3 DEF Holds, Named, TypeOK
    <3>5. Mtimes'
      BY <1>a, <2>1, <2>2, <2>6, <3>1, <3>3 DEF Mtimes, TypeOK
    <3>6. Work(p)'
      BY <1>a, <2>1, <2>2, <2>5, <2>6, <3>1, <3>3 DEF Work, Pc, Placed, TypeOK
    <3>7. QED BY <2>4, <3>4, <3>5, <3>6
  <2>10. CASE BeginScp(p)
    <3>1. /\ Pc(p) = "upload" /\ pub'[p].pc = "scp"
          /\ manifest' = manifest /\ clock' = clock + 1
          /\ archive' = [archive EXCEPT ![Database(p)] = "partial"]
          /\ mtime' = [mtime EXCEPT ![Database(p)] = clock + 1]
      BY <2>10, AtEffect DEF BeginScp, Put, At, Pcs
    <3>2. Mtimes' /\ Holds'
      BY <1>a, <2>1, <2>2, <2>5, <2>7, <3>1 DEF Mtimes, Holds, Named, TypeOK, Before
    <3>3. Work(p)'
      BY <1>a, <2>1, <2>2, <2>5, <3>1 DEF Work, Pc, Mtimes, TypeOK
    <3>4. QED BY <2>4, <3>2, <3>3
  <2>11. CASE EndScp(p)
    <3>0. Pc(p) = "scp" /\ archive[Database(p)] = "partial"
      BY <2>2, <2>11 DEF EndScp, At, Work
    <3>1. /\ Pc(p) = "scp" /\ pub'[p].pc = "manifest"
          /\ manifest' = manifest /\ clock' = clock + 1
          /\ archive' = [archive EXCEPT ![Database(p)] = "complete"]
          /\ mtime' = [mtime EXCEPT ![Database(p)] = clock + 1]
      BY <2>11, <3>0, AtEffect DEF EndScp, At, Pcs
    <3>2. Mtimes' /\ Holds'
      BY <1>a, <2>1, <2>2, <2>5, <3>1 DEF Mtimes, Holds, Named, TypeOK
    <3>3. pub[p].attach = None
      BY <1>a, <3>1 DEF RunOK
    <3>4. Work(p)'
      BY <1>a, <2>1, <2>2, <2>5, <3>1, <3>3 DEF Work, Pc, Placed, TypeOK
    <3>5. QED BY <2>4, <3>2, <3>4
  <2>12. CASE TruncateManifest(p)
    <3>1. /\ Pc(p) = "manifest" /\ pub'[p].pc = "write" /\ manifest' = NoManifest
          /\ UNCHANGED <<clock, archive, mtime>>
      BY <2>12, AtEffect DEF TruncateManifest, At, Pcs
    <3>2. Mtimes' /\ Holds' /\ Work(p)'
      BY <2>1, <2>2, <3>1 DEF Mtimes, Holds, Named, NoManifest, Work, Pc, Placed
    <3>3. QED BY <2>4, <3>2
  <2>13. CASE WriteManifest(p)
    <3>1. /\ Pc(p) = "write" /\ pub'[p].pc \in {"rotate", "done"}
          /\ manifest' = Manifest(p) /\ UNCHANGED <<clock, archive, mtime>>
      BY <2>1, <2>13 DEF WriteManifest, At, Moves
    <3>2. Mtimes' /\ Holds'
      BY <2>1, <2>2, <3>1 DEF Mtimes, Holds, Named, Manifest, Work, Placed
    <3>3. Manifest(p)' = Manifest(p)
      BY <2>1 DEF Manifest
    <3>4. Work(p)'
      BY <2>1, <2>2, <3>1, <3>3 DEF Work, Pc, Placed
    <3>5. QED BY <2>4, <3>2, <3>4
  <2>14. CASE Rotate(p)
    <3>1. /\ Pc(p) = "rotate" /\ pub'[p].pc = "done"
          /\ UNCHANGED <<clock, mtime, manifest>>
          /\ \A n \in Names : archive'[n] # archive[n] => \E g : n \in Surplus(g)
      BY <2>14, AtEffect DEF Rotate, At, Pcs
    <3>2. \A n \in Named : n \in Names /\ Placed(n)
      BY <2>2, <2>5, <2>6, <3>1 DEF Work, Named, Manifest
    <3>3. Holds'
      BY <2>2, <3>1, <3>2, NewestStays DEF Holds, Named, Placed
    <3>4. Mtimes' /\ Work(p)'
      BY <2>1, <2>2, <3>1 DEF Mtimes, Work, Pc
    <3>5. QED BY <2>4, <3>3, <3>4
  <2>15. QED BY <1>4, <2>8, <2>9, <2>10, <2>11, <2>12, <2>13, <2>14 DEF Step
<1>5. ASSUME NEW p \in Publishers, End(p) \/ Die(p)
      PROVE  Alone' /\ Mtimes' /\ Holds' /\ \A q \in Publishers : Work(q)'
  <2>1. /\ pub'[p].pc = "idle" /\ Others(p)
        /\ UNCHANGED <<clock, archive, mtime, manifest, cached, overlap>>
    BY <1>5, LeaveMoves
  <2>2. Alone' /\ Mtimes' /\ Holds'
    BY <2>1 DEF SoleInv, Alone, Mtimes, Holds, Named, Running, Pc, Others
  <2>3. ASSUME NEW q \in Publishers \ {p} PROVE Work(q)'
    BY <2>1 DEF SoleInv, Work, Pc, Placed, Others, Database, GlobOf, Manifest
  <2>4. Work(p)'
    BY <2>1 DEF Work, Pc
  <2>5. QED BY <2>2, <2>3, <2>4
<1>6. ASSUME NEW c \in Clients, ReadManifest(c) \/ Fetch(c)
      PROVE  Alone' /\ Mtimes' /\ Holds' /\ \A q \in Publishers : Work(q)'
  BY <1>6 DEF ReadManifest, Fetch, SoleInv, Alone, Mtimes, Holds, Named, Work, Placed,
     Running, Pc, Database, GlobOf, Manifest
<1>7. QED BY <1>1, <1>2, <1>3, <1>4, <1>5, <1>6 DEF Next, Publish, Step

\* As long as no two scripts have overlapped, what the manifest names is there
\* and whole, wherever scripts died (push-sqlite.sh, push-update.sh,
\* push-data.sh), provided that no old archive of attachments is reused.
THEOREM ManifestAlwaysFetchable ==
    ASSUME NoReuse
    PROVE  Spec => []ManifestFetchable
<1>1. SoleInv => ManifestFetchable
  BY DEF SoleInv, Holds, ManifestFetchable
<1>2. TypeInv /\ TornInv /\ SoleInv /\ [Next]_vars => SoleInv'
  BY NextSole
<1>3. QED BY <1>1, <1>2, InitTypeInv, NextTypeInv, InitTorn, NextTorn, InitSole, PTL DEF Spec

-----------------------------------------------------------------------------
(* A client that fetches late.                                             *)

Newer(n) == {k \in Present(n[1]) : mtime[k] > mtime[n]}

\* The archive a client has read of: no script is about to write it, what has
\* appeared since accounts for all that is newer, and it has not been rotated
\* away too early.
Pending(c) ==
    LET w == client[c].want
    IN  /\ w[1] \in {"sqlite", "sql"} /\ w[2] \in 1..stamped
        /\ \A p \in Publishers : Pc(p) \in Before => w[2] # pub[p].stamp
        /\ Cardinality(Newer(w)) <= client[c].since
        /\ client[c].since < Keep => archive[w] = "complete"

LateInv ==
    ~overlap => \A c \in Clients : client[c].want # None => Pending(c)

LEMMA NewerFinite == \A n : IsFiniteSet(Newer(n)) /\ Cardinality(Newer(n)) \in Nat
BY NamesFinite, FS_Subset, FS_CardinalityType DEF Newer, Present

LEMMA NewerCount ==
    ASSUME NEW n
    PROVE  /\ Newer(n)' \subseteq Newer(n) => Cardinality(Newer(n)') <= Cardinality(Newer(n))
           /\ \A x : Newer(n)' \subseteq Newer(n) \cup {x} =>
                 Cardinality(Newer(n)') <= Cardinality(Newer(n)) + 1
<1>a. IsFiniteSet(Newer(n)) /\ Cardinality(Newer(n)) \in Nat
  BY NewerFinite
<1>1. ASSUME Newer(n)' \subseteq Newer(n)
      PROVE  Cardinality(Newer(n)') <= Cardinality(Newer(n))
  BY <1>a, <1>1, FS_Subset
<1>2. ASSUME NEW x, Newer(n)' \subseteq Newer(n) \cup {x}
      PROVE  Cardinality(Newer(n)') <= Cardinality(Newer(n)) + 1
  <2>1. /\ IsFiniteSet(Newer(n) \cup {x})
        /\ Cardinality(Newer(n) \cup {x}) =
             IF x \in Newer(n) THEN Cardinality(Newer(n)) ELSE Cardinality(Newer(n)) + 1
    BY <1>a, FS_AddElement
  <2>2. Cardinality(Newer(n)') <= Cardinality(Newer(n) \cup {x})
    BY <1>2, <2>1, FS_Subset
  <2>3. Cardinality(Newer(n)') \in Nat
    BY <1>2, <2>1, FS_Subset, FS_CardinalityType
  <2>4. QED BY <1>a, <2>1, <2>2, <2>3
<1>3. QED BY <1>1, <1>2

LEMMA PutClients ==
    ASSUME TypeInv, NEW n, NEW t, NEW content, Put(n, t, content), NEW c \in Clients
    PROVE  /\ client'[c].want = client[c].want
           /\ client[c].want # None =>
                client'[c].since = IF client[c].want[1] = n[1] THEN client[c].since + 1
                                   ELSE client[c].since
<1>1. client'[c] = IF client[c].want # None /\ client[c].want[1] = n[1]
                   THEN [client[c] EXCEPT !.since = @ + 1] ELSE client[c]
  BY DEF Put
<1>2. client[c] \in [want : Names \cup {None}, since : Nat]
  BY DEF TypeInv, TypeOK
<1>3. QED BY <1>1, <1>2

LEMMA InitLate == Init => LateInv
BY DEF Init, LateInv, Waiting

LEMMA NextLate ==
    ASSUME NoReuse, TypeInv, TornInv, SoleInv, LateInv, [Next]_vars
    PROVE  LateInv'
<1> SUFFICES ASSUME ~overlap', NEW c \in Clients, client'[c].want # None
             PROVE  Pending(c)'
  BY DEF LateInv
<1> SUFFICES ASSUME NEW w, w = client[c].want
             PROVE  Pending(c)'
  OBVIOUS
<1>a. TypeOK /\ stamped \in Nat /\ client[c].since \in Nat /\ clock \in Nat
      /\ (w # None => w \in Names)
  BY DEF TypeInv, TypeOK
<1>b. ~overlap /\ w # None => Pending(c)
  BY DEF LateInv
<1>c. /\ Cardinality(Newer(w)) \in Nat /\ Keep \in Nat \ {0}
  BY NewerFinite, RelayAssumption
<1>1. CASE UNCHANGED vars
  <2>1. ~overlap /\ w # None
    BY <1>1 DEF vars
  <2>2. QED BY <1>1, <1>b, <2>1 DEF vars, Pending, Newer, Present, Pc
<1>2. ASSUME NEW p \in Publishers, Begin(p) \/ Pack(p) \/ End(p) \/ Die(p)
      PROVE  Pending(c)'
  <2>1. /\ UNCHANGED <<archive, mtime, client>> /\ Others(p) /\ ~overlap
        /\ \/ stamped' = stamped + 1 /\ pub'[p].stamp = stamped + 1
           \/ /\ stamped' = stamped
              /\ \/ pub'[p].pc = "idle"
                 \/ Pc(p) = "pack" /\ pub'[p].stamp = pub[p].stamp
    BY <1>2, BeginMoves, PackMoves, LeaveMoves
  <2>2. Pending(c)
    BY <1>b, <2>1
  <2>3. QED BY <1>a, <2>1, <2>2 DEF Pending, Newer, Present, Pc, Others, Before
<1>3. ASSUME NEW p \in Publishers, Step(p)
      PROVE  Pending(c)'
  <2>1. /\ <<Pc(p), pub'[p].pc>> \in Moves /\ Running(p) /\ Others(p)
        /\ pub'[p].stamp = pub[p].stamp
        /\ UNCHANGED <<overlap, stamped, cached>>
    BY <1>3, StepMoves
  <2>2. /\ client'[c].want = w /\ w # None /\ w \in Names
        /\ Pending(c) /\ Mtimes /\ Work(p)
    <3>1. client'[c].want = w
      <4>1. CASE Upload(p) \/ UploadAttachments(p) \/ BeginScp(p)
        BY <4>1, PutClients DEF Upload, UploadAttachments, BeginScp
      <4>2. CASE EndScp(p) \/ TruncateManifest(p) \/ WriteManifest(p) \/ Rotate(p)
        BY <4>2 DEF EndScp, TruncateManifest, WriteManifest, Rotate
      <4>3. QED BY <1>3, <4>1, <4>2 DEF Step
    <3>2. QED BY <1>a, <1>b, <2>1, <3>1 DEF SoleInv
  <2>3. \A q \in Publishers : Pc(q)' \in Before => w[2] # pub'[q].stamp
    BY <2>1, <2>2 DEF Pending, Before, Pc, Others, Moves
  <2>4. ASSUME client'[c].since \in Nat,
               Cardinality(Newer(w)') <= client'[c].since,
               client'[c].since < Keep => archive'[w] = "complete"
        PROVE  Pending(c)'
    <3>1. Newer(client[c].want)' = Newer(w)'
      BY <2>2
    <3>2. QED BY <2>1, <2>2, <2>3, <2>4, <3>1 DEF Pending, Newer, Present
  <2>5. /\ Database(p) \in Names /\ Database(p)[2] = pub[p].stamp
    BY <2>1, DatabaseName
  <2>6. Pc(p) \in Before => w # Database(p)
    BY <2>2, <2>5 DEF Pending
  <2>7. ASSUME NEW t \in Nat, NEW content \in {"partial", "complete"}, Pc(p) = "upload",
               Put(Database(p), t, content)
        PROVE  Pending(c)'
    <3>1. /\ \A k \in Names \ {Database(p)} : archive'[k] = archive[k] /\ mtime'[k] = mtime[k]
          /\ client'[c].since = IF w[1] = Database(p)[1] THEN client[c].since + 1
                                ELSE client[c].since
      BY <1>a, <2>2, <2>5, <2>7, PutClients DEF Put, TypeOK
    <3>2. archive'[w] = archive[w] /\ mtime'[w] = mtime[w]
      BY <2>2, <2>6, <2>7, <3>1 DEF Before
    <3>3. Newer(w)' \subseteq Newer(w) \cup {Database(p)}
      BY <3>1, <3>2 DEF Newer, Present
    <3>4. CASE w[1] = Database(p)[1]
      <4>1. Cardinality(Newer(w)') <= Cardinality(Newer(w)) + 1
        BY <3>3, NewerCount
      <4>2. Cardinality(Newer(w)') <= client[c].since + 1
        <5>1. Cardinality(Newer(w)') \in Nat
          BY <3>3, <1>a, NewerFinite, FS_AddElement, FS_Subset, FS_CardinalityType
        <5>2. QED BY <1>a, <1>c, <2>2, <4>1, <5>1 DEF Pending
      <4>3. QED BY <1>a, <1>c, <2>2, <2>4, <3>1, <3>2, <3>4, <4>2 DEF Pending
    <3>5. CASE w[1] # Database(p)[1]
      <4>1. Newer(w)' \subseteq Newer(w)
        BY <3>3, <3>5 DEF Newer, Present
      <4>2. Cardinality(Newer(w)') <= client[c].since
        <5>1. Cardinality(Newer(w)') <= Cardinality(Newer(w))
          BY <4>1, NewerCount
        <5>2. Cardinality(Newer(w)') \in Nat
          BY <4>1, NewerFinite, FS_Subset, FS_CardinalityType
        <5>3. QED BY <1>a, <1>c, <2>2, <5>1, <5>2 DEF Pending
      <4>3. QED BY <1>a, <2>2, <2>4, <3>1, <3>2, <3>5, <4>2 DEF Pending
    <3>6. QED BY <3>4, <3>5
  <2>8. ASSUME Newer(w)' \subseteq Newer(w), client'[c].since = client[c].since,
               client[c].since < Keep => archive'[w] = "complete"
        PROVE  Pending(c)'
    <3>1. Cardinality(Newer(w)') <= Cardinality(Newer(w))
      BY <2>8, NewerCount
    <3>2. Cardinality(Newer(w)') \in Nat
      BY <2>8, NewerFinite, FS_Subset, FS_CardinalityType
    <3>3. Cardinality(Newer(w)') <= client[c].since
      BY <1>a, <1>c, <2>2, <3>1, <3>2 DEF Pending
    <3>4. QED BY <1>a, <2>4, <2>8, <3>3
  <2>9. CASE Upload(p)
    BY <1>a, <2>7, <2>9 DEF Upload, At, TypeOK
  <2>10. CASE BeginScp(p)
    BY <1>a, <2>7, <2>10 DEF BeginScp, At
  <2>11. CASE UploadAttachments(p)
    <3>1. PICK t : Put(pub[p].attach, t, "complete")
      BY <2>11 DEF UploadAttachments
    <3>2. pub[p].attach \in Names /\ pub[p].attach[1] = "attachments"
      BY <1>a, <2>11 DEF UploadAttachments, At, TypeOK, TypeInv, RunOK
    <3>3. w[1] # "attachments"
      BY <2>2 DEF Pending
    <3>4. /\ \A k \in Names : k[1] = w[1] => archive'[k] = archive[k] /\ mtime'[k] = mtime[k]
          /\ client'[c].since = client[c].since
      BY <1>a, <2>2, <3>1, <3>2, <3>3, PutClients DEF Put, TypeOK
    <3>5. Newer(w)' \subseteq Newer(w)
      BY <2>2, <3>4 DEF Newer, Present
    <3>6. QED BY <2>2, <2>8, <3>4, <3>5 DEF Pending
  <2>12. CASE EndScp(p)
    <3>0. Pc(p) = "scp" /\ archive[Database(p)] = "partial"
      BY <2>2, <2>12 DEF EndScp, At, Work
    <3>1. /\ Pc(p) = "scp" /\ clock' = clock + 1 /\ client' = client
          /\ archive' = [archive EXCEPT ![Database(p)] = "complete"]
          /\ mtime' = [mtime EXCEPT ![Database(p)] = clock + 1]
      BY <2>12, <3>0 DEF EndScp, At
    <3>2. /\ archive[Database(p)] = "partial" /\ mtime[Database(p)] = clock
          /\ \A k \in Names \ {Database(p)} : mtime[k] < clock
      BY <2>2, <3>1 DEF Work
    <3>3. w # Database(p)
      BY <2>6, <3>1 DEF Before
    <3>4. mtime[Database(p)] > mtime[w]
      BY <1>a, <2>2, <2>5, <3>2, <3>3 DEF TypeOK
    <3>5. Newer(w)' \subseteq Newer(w)
      BY <1>a, <2>2, <2>5, <3>1, <3>2, <3>3, <3>4 DEF Newer, Present, TypeOK
    <3>6. archive'[w] = archive[w]
      BY <1>a, <2>2, <3>1, <3>3 DEF TypeOK
    <3>7. QED BY <2>2, <2>8, <3>1, <3>5, <3>6 DEF Pending
  <2>13. CASE TruncateManifest(p) \/ WriteManifest(p)
    <3>1. UNCHANGED <<archive, mtime, client>>
      BY <2>13 DEF TruncateManifest, WriteManifest
    <3>2. Newer(w)' \subseteq Newer(w)
      BY <3>1 DEF Newer, Present
    <3>3. QED BY <2>2, <2>8, <3>1, <3>2 DEF Pending
  <2>14. CASE Rotate(p)
    <3>1. /\ UNCHANGED <<mtime, client>>
          /\ \A n \in Names : archive'[n] \in {archive[n], "absent"}
          /\ \A n \in Names : archive'[n] # archive[n] => \E g : n \in Surplus(g)
      BY <2>14 DEF Rotate
    <3>2. Newer(w)' \subseteq Newer(w)
      BY <3>1 DEF Newer, Present
    <3>3. ASSUME client[c].since < Keep PROVE archive'[w] = "complete"
      <4>1. \A g : w \in Surplus(g) => Cardinality(Newer(w)) >= Keep
        BY DEF Surplus, Newer, Present
      <4>2. ~(Cardinality(Newer(w)) >= Keep)
        BY <1>a, <1>c, <2>2, <3>3 DEF Pending
      <4>3. QED BY <2>2, <3>1, <3>3, <4>1, <4>2 DEF Pending
    <3>4. QED BY <2>8, <3>1, <3>2, <3>3
  <2>15. QED BY <1>3, <2>9, <2>10, <2>11, <2>12, <2>13, <2>14 DEF Step
<1>4. ASSUME NEW d \in Clients, ReadManifest(d) \/ Fetch(d)
      PROVE  Pending(c)'
  <2>1. UNCHANGED <<stamped, archive, mtime, pub, overlap>>
    BY <1>4 DEF ReadManifest, Fetch
  <2>2. \A n : Newer(n)' = Newer(n)
    BY <2>1 DEF Newer, Present
  <2>3. CASE client'[c] = client[c]
    <3>1. Pending(c)
      BY <1>b, <2>1, <2>3
    <3>2. QED BY <2>1, <2>2, <2>3, <3>1 DEF Pending, Pc
  <2>4. CASE client'[c] # client[c]
    <3>1. ReadManifest(c)
      BY <1>4, <2>4 DEF ReadManifest, Fetch, Waiting, TypeInv, TypeOK
    <3>2. /\ client'[c].want = manifest.database /\ manifest.written
          /\ client'[c].since = Cardinality(Newer(manifest.database))
      BY <3>1 DEF ReadManifest, Newer, TypeInv, TypeOK
    <3>3. /\ manifest.database \in Named /\ archive[manifest.database] = "complete"
      BY <2>1, <3>2 DEF Named, SoleInv, Holds
    <3>4. QED
      BY <2>1, <2>2, <3>2, <3>3, NewerFinite DEF Pending, Pc, TornInv, ManifestOK
  <2>5. QED BY <2>3, <2>4
<1>5. QED BY <1>1, <1>2, <1>3, <1>4 DEF Next, Publish, Step

\* As long as no two scripts have overlapped, the archive that a client read of
\* can be fetched while fewer than KEEP_DUMPS uploads of its kind have appeared
\* since (the rotations of push-sqlite.sh and push-update.sh).
THEOREM LateFetchSucceeds ==
    ASSUME NoReuse
    PROVE  Spec => []LateFetch
<1>1. LateInv => LateFetch
  BY DEF LateInv, Pending, LateFetch
<1>2. TypeInv /\ TornInv /\ SoleInv /\ LateInv /\ [Next]_vars => LateInv'
  BY NextLate
<1>3. TypeInv /\ TornInv /\ SoleInv /\ [Next]_vars => SoleInv'
  BY NextSole
<1>4. QED
  BY <1>1, <1>2, <1>3, InitTypeInv, NextTypeInv, InitTorn, NextTorn, InitSole, InitLate,
     PTL DEF Spec
=============================================================================

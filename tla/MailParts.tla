----------------------------- MODULE MailParts -----------------------------
(***************************************************************************)
(* What the tools that read a Maildir keep of a message: the walk over its *)
(* parts in parser.py (the library) and in the scripts maildir_scan.py     *)
(* (report) and maildir_attachments_py2.py (attachments). Names, types and *)
(* sizes matter as far as a tool decides by them whether it lists a part   *)
(* and compares its bytes.                                                 *)
(***************************************************************************)
EXTENDS Naturals, FiniteSets, SequencesExt

CONSTANTS
    Mails,      \* the messages; a message's file keeps its unique name
    Structure,  \* the parts of a message, in the order of Message.walk(),
                \* which goes into nested messages
    Date,       \* the date field of its record, as a number; 0 for none
    Payloads,   \* the bytes a part may decode to
    Size,       \* their length
    NoBytes     \* no bytes

AllTools == {"library", "report", "attachments"}

\* "text" is text/plain and text/html, "container" a multipart type the tools
\* know, "nested" is message/rfc822, "file" everything else.
Kinds == {"text", "container", "file", "nested"}
Part  == [kind : Kinds, named : BOOLEAN, bare : BOOLEAN, bytes : Payloads]

ASSUME PartsAssumption ==
    /\ Structure \in [Mails -> Seq(Part)]
    /\ Date \in [Mails -> Nat]
    /\ Size \in [Payloads -> Nat]
    /\ NoBytes \in Payloads /\ Size[NoBytes] = 0

\* The parts a tool keeps, as positions in the structure.
\* parse_email_file keeps every part that is not a nameless body or container,
\* whatever its size; the parts inside a nested message as well.
LibraryKeeps(p) == p.kind \in {"text", "container"} => p.named

\* get_payload(decode=True) of a container and of a nested message is None.
Payload(p) == IF p.kind \in {"container", "nested"} THEN NoBytes ELSE p.bytes
Length(p)  == Size[Payload(p)]

ReportKeeps(p) == Length(p) > 0 /\ (p.kind = "text" => Length(p) >= 64)

\* The Content-Disposition of a skipped type must be exactly "attachment" or
\* "inline".
AttachmentsKeep(p) == (p.kind # "file" => p.bare /\ p.named) /\ Length(p) >= 512

Keeps(t, p) ==
    CASE t = "library"     -> LibraryKeeps(p)
      [] t = "report"      -> ReportKeeps(p)
      [] t = "attachments" -> AttachmentsKeep(p)

PartsOf(t, m) == {i \in DOMAIN Structure[m] : Keeps(t, Structure[m][i])}

\* The digest a tool compares a part by: the library has one for every part,
\* of no bytes too; the report only above a size.
Digest(t, p) ==
    CASE t = "library"     -> <<p.bytes>>
      [] t = "attachments" -> <<Payload(p)>>
      [] t = "report"      -> IF Length(p) > 512 THEN <<Payload(p)>> ELSE <<>>

Hash(t, m, i) == Digest(t, Structure[m][i])

Hashes(t, m) == {Hash(t, m, i) : i \in PartsOf(t, m)} \ {<<>>}

\* The parts of m that repeat a digest of an earlier part of m or of "seen".
Repeats(t, m, seen) ==
    {i \in PartsOf(t, m) :
        /\ Hash(t, m, i) # <<>>
        /\ \/ Hash(t, m, i) \in seen
           \/ \E j \in PartsOf(t, m) : j < i /\ Hash(t, m, j) = Hash(t, m, i)}

\* What a tool has seen in the records it made so far.
Seen(t, rs) == UNION {Hashes(t, rs[i].mail) : i \in DOMAIN rs}

=============================================================================

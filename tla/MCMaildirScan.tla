--------------------------- MODULE MCMaildirScan ---------------------------
(* Instances of MaildirScan for TLC.                                       *)
EXTENDS MaildirScan, TLC

CONSTANTS m1, m2, m3, pdf, exact, note, none

TwoFolders == {".Sent", "INBOX"}
WalkOrder  == <<<<".Sent", "cur">>, <<".Sent", "new">>,
                <<"INBOX", "cur">>, <<"INBOX", "new">>>>

Lengths == (pdf :> 600) @@ (exact :> 512) @@ (note :> 40) @@ (none :> 0)

P(k, n, b) == [kind |-> k, named |-> n, bare |-> FALSE, bytes |-> b]
Body       == P("text", FALSE, note)

\* One message with the same attachment twice, one with that attachment in a
\* nested message, one without a byte.
Dates == [m \in Mails |-> 1]

Trees == [m \in Mails |->
   ((m1 :> <<Body, P("file", TRUE, pdf), P("file", FALSE, pdf)>>) @@
    (m2 :> <<P("container", FALSE, none), Body, P("nested", FALSE, exact),
             P("file", TRUE, pdf), P("file", TRUE, exact)>>) @@
    (m3 :> <<>>))[m]]

\* The first message often enough to hide from both listings.
Renames == (m1 :> 2) @@ (m2 :> 1)

FlagSymmetry == Permutations(Flags)
=============================================================================

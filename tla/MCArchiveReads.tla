--------------------------- MODULE MCArchiveReads ---------------------------
(* Instances of ArchiveReads for TLC: the installed archive has four mails *)
(* and an update adds a page of newer ones, so that the reader's second    *)
(* page may show the first one's mails again.                              *)
EXTENDS ArchiveReads, TLC

CONSTANTS base, v1, a, b, c, d, e, f

MailRows == (base :> <<a, b, d, c>>) @@ (v1 :> <<e, f, a, b, d, c>>)

ASSUME SameOrder
=============================================================================

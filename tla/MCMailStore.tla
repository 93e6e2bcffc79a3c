---------------------------- MODULE MCMailStore ----------------------------
(* Instances of MailStore for TLC: two mails of one mailbox that share an  *)
(* attachment, or one in each of two mailboxes.                            *)
EXTENDS MailStore, TLC

CONSTANTS m1, m2, box1, box2, a1, a2

OneBox   == (m1 :> box1) @@ (m2 :> box1)
TwoBoxes == (m1 :> box1) @@ (m2 :> box2)
Parts    == (m1 :> {a1}) @@ (m2 :> {a1, a2})

RunSymmetry == Permutations(Runs)
=============================================================================

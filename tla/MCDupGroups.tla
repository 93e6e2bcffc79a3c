---------------------------- MODULE MCDupGroups ----------------------------
(* Instances of DupGroups for TLC: messages that share the attachments x   *)
(* and y and a part of no bytes in a chain, of two dates.                  *)
EXTENDS DupGroups, TLC

CONSTANTS mX, mXY, mY, mZero, mNone, x, y, none

Lengths == (x :> 600) @@ (y :> 40) @@ (none :> 0)

File(p) == [kind |-> "file", named |-> TRUE, bare |-> FALSE, bytes |-> p]

Trees ==
    (mX :> <<File(x), File(x)>>) @@ (mXY :> <<File(x), File(y)>>) @@
    (mY :> <<File(y)>>) @@ (mZero :> <<File(none), File(y)>>) @@
    (mNone :> <<[kind |-> "text", named |-> FALSE, bare |-> FALSE, bytes |-> y]>>)

Dates == (mX :> 2) @@ (mXY :> 1) @@ (mY :> 2) @@ (mZero :> 0) @@ (mNone :> 1)
=============================================================================

----------------------------- MODULE MCDocument -----------------------------
(***************************************************************************)
(* Instances of Document for TLC: a root and up to three nodes under it.   *)
(***************************************************************************)
EXTENDS Document

Log == [slug |-> "log", tail |-> <<>>]
Log2 == [slug |-> "log", tail |-> <<2>>]
NodeTitle == [slug |-> "node", tail |-> <<>>]

\* Two nodes titled "log" are "log" and "log-2", which a third may be titled.
MCTitles == {Log}
MCNewNames == {Log2}

\* Two nodes titled "node" are "node" and "node-2".
MCNodeTitles == {NodeTitle}
=============================================================================

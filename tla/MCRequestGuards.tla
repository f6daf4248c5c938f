--------------------------- MODULE MCRequestGuards ---------------------------
(***************************************************************************)
(* Instances of RequestGuards for TLC.  The tree of every run:             *)
(*                                                                         *)
(*     1 root                                                              *)
(*       2 an island: a domain of its own                                  *)
(*         3 a split container in the domain of 2                          *)
(*           4 a domain nested in the island                               *)
(***************************************************************************)
EXTENDS RequestGuards

MCInitParent == <<0, 1, 2, 3>>
MCInitKind == <<"document", "plain", "split", "plain">>

Put(name, n, bytes) == [op |-> name, node |-> n, kind |-> "plain", bytes |-> bytes]
On(name, n) == Put(name, n, 0)

\* Writers of both domains and of the tree across them, one operation of each
\* kind of guard and of each way to be refused: node 4 can be gone when a
\* request names it, and two writes do not fit under the cap of 2 bytes.
MCOperations ==
    {Put("text", 4, 1), Put("content", 2, 2), Put("update", 4, 1), On("title", 4),
     On("append", 3), On("append", 4), On("remove", 2), On("remove", 4), On("read", 1)}
=============================================================================

---------------------------- MODULE MCUnitOfWork ----------------------------
(***************************************************************************)
(* Instances of UnitOfWork for TLC.  Units are interchangeable, and so are *)
(* rows and transactions: nothing in the module tells two of a kind apart. *)
(***************************************************************************)
EXTENDS UnitOfWork, TLC

CONSTANTS u1, u2, r1, r2, t1, t2, t3

Symmetry == Permutations(Units) \union Permutations(Rows) \union Permutations(TxIds)

\* No action reads reply, and of the reply of the state a step starts from the
\* properties only see whether it is an error of Commit.
CommitErrors == [u \in Units |->
    IF reply[u] \in {"error", "foreign"} THEN reply[u] ELSE "other"]
ButReply == <<contextTx, held, pc, tx, nested, todo, CommitErrors,
              state, writes, stored, reported>>
=============================================================================

---------------------------- MODULE NameHistory ----------------------------
(***************************************************************************)
(* What the existence check of a create is worth, when any number of       *)
(* creates, updates and deletes interleave and statements fail.            *)
(*                                                                         *)
(* ResourceService does not remember which row was inserted after which    *)
(* check, so two history variables are added to it here.  They record what *)
(* happened and never restrict a step: HistoryNext is Next with their      *)
(* updates.                                                                *)
(***************************************************************************)
EXTENDS ResourceService

VARIABLES
    cleared,    \* handlers on the way from a sound check to the commit
    vouched     \* ids of the rows that such a handler committed and that hold
                \* since what it wrote

historyVars == <<rows, nextId, pc, req, ent, out, cleared, vouched>>

Inserting(h) == pc[h] \in {"insert", "commit"}

\* In this step handler h finds the name of its create free, and no other
\* handler is about to insert that name.
Clears(h) ==
    /\ pc[h] = "check" /\ pc'[h] = "insert"
    /\ req[h].op = "Create"
    /\ ~CreateTaken(h)
    /\ \A g \in Handlers \ {h} : Inserting(g) => ent[g].name # req[h].name

\* In this step the transaction of a cleared handler puts its row under id i.
Vouches(i) ==
    /\ rows[i] = NoRow /\ rows'[i] # NoRow
    /\ \E h \in cleared : HeldBy(h) = i

Remember ==
    /\ cleared' = {h \in Handlers : Inserting(h)' /\ (h \in cleared \/ Clears(h))}
    /\ vouched' = {i \in Ids : \/ i \in vouched /\ rows'[i] = rows[i]
                               \/ Vouches(i)}

HistoryInit == Init /\ cleared = {} /\ vouched = {}
HistoryNext == Next /\ Remember
HistorySpec == HistoryInit /\ [][HistoryNext]_historyVars

(***************************************************************************)
(* The check of a create keeps names unique up to three ways around it: of *)
(* two rows with one name, at least one was changed by an update, was      *)
(* inserted after a check that failed (its error is dropped,               *)
(* service/v1/app_service.go:55), or was checked while another handler was *)
(* about to insert the same name (the check and the insert are two         *)
(* statements outside any transaction).  No interleaving with deletes,     *)
(* lost commits, upserts of deleted rows or updates that insert adds a     *)
(* fourth.                                                                 *)
(***************************************************************************)
VouchedNamesUnique ==
    \A i, j \in vouched : i # j => rows[i].name # rows[j].name
=============================================================================

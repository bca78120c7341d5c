----------------------------- MODULE UnitOfWork -----------------------------
(***************************************************************************)
(* The units of work of pkg/db/gorm/unit_work.go, each used by one         *)
(* goroutine, over one pool of connections.  A unit keeps one current      *)
(* transaction, contextTx; SaveChange opens a transaction of its own.      *)
(* One action is one database statement with the code around it, or a call *)
(* that returns without one.  Entities are rows of a table, saved in any   *)
(* order; a row is locked by the open transaction that wrote it.           *)
(***************************************************************************)
EXTENDS Naturals, FiniteSets

CONSTANTS
    Units,      \* units of work
    Rows,       \* entities, each a row of its own
    TxIds,      \* transaction ids, the bound on the number of transactions
    MaxOpen,    \* max-open-connections
    None,       \* Go's nil
    NilTx       \* an IDbContextTx that holds a nil *DbContextTx

ASSUME UnitAssumption ==
    /\ MaxOpen \in Nat \ {0}
    /\ IsFiniteSet(TxIds)
    /\ None \notin TxIds /\ NilTx \notin TxIds /\ None # NilTx

VARIABLES
    contextTx,  \* the current transaction of each unit
    held,       \* the transaction its caller holds and passes to Commit
    pc,         \* what each unit does next
    tx,         \* the local transaction of a SaveChange
    nested,     \* that SaveChange was called by Commit(nil, ...)
    todo,       \* the entities still to be saved
    reply,      \* what the last call of the unit returned
    state,      \* the state of each transaction
    writes,     \* the rows each transaction wrote
    stored,     \* the transaction each committed row was last written by
    reported    \* the transactions of the SaveChange calls that returned true

vars == <<contextTx, held, pc, tx, nested, todo, reply, state, writes, stored, reported>>
calls == <<pc, tx, nested, todo>>
database == <<state, writes, stored>>

PCs == {"idle", "begin", "open", "saveChange", "commit"}
\* "error" and "foreign" are errors of Commit, "failed" one of SaveChange or of
\* the transaction itself.
Replies == {"none", "ok", "error", "foreign", "failed", "panic", "recovered"}
States == {"unused", "broken", "active", "aborted", "committed", "rolledback"}

TypeOK ==
    /\ contextTx \in [Units -> TxIds \union {None}]
    /\ held \in [Units -> TxIds \union {None, NilTx}]
    /\ pc \in [Units -> PCs]
    /\ tx \in [Units -> TxIds \union {None}]
    /\ nested \in [Units -> BOOLEAN]
    /\ todo \in [Units -> SUBSET Rows]
    /\ reply \in [Units -> Replies]
    /\ state \in [TxIds -> States]
    /\ writes \in [TxIds -> SUBSET Rows]
    /\ stored \in [Rows -> TxIds \union {None}]
    /\ reported \subseteq TxIds
    /\ \A u \in Units : tx[u] # None <=> pc[u] = "saveChange"

Init ==
    /\ contextTx = [u \in Units |-> None]
    /\ held = [u \in Units |-> None]
    /\ pc = [u \in Units |-> "idle"]
    /\ tx = [u \in Units |-> None]
    /\ nested = [u \in Units |-> FALSE]
    /\ todo = [u \in Units |-> {}]
    /\ reply = [u \in Units |-> "none"]
    /\ state = [t \in TxIds |-> "unused"]
    /\ writes = [t \in TxIds |-> {}]
    /\ stored = [r \in Rows |-> None]
    /\ reported = {}

-----------------------------------------------------------------------------
\* The database

\* An aborted transaction keeps its connection until it is ended.
Open == {t \in TxIds : state[t] \in {"active", "aborted"}}
ConnectionFree == Cardinality(Open) < MaxOpen
Unlocked(r, t) == \A s \in Open \ {t} : r \notin writes[s]

\* Ending transactions that are not open has no effect.
Ended(ended) == [t \in TxIds |-> IF t \in ended \intersect Open THEN "rolledback" ELSE state[t]]

\* A transaction begins, or comes back broken: without a connection, every
\* later call through it an error.
BeginAs(t) ==
    /\ state[t] = "unused"
    /\ \/ ConnectionFree /\ state' = [state EXCEPT ![t] = "active"]
       \/ state' = [state EXCEPT ![t] = "broken"]
    /\ UNCHANGED <<writes, stored>>

WriteRow(t, r) ==
    /\ state[t] = "active"
    /\ Unlocked(r, t)
    /\ writes' = [writes EXCEPT ![t] = @ \union {r}]
    /\ UNCHANGED <<state, stored>>

\* All rows a transaction wrote become visible together.
Apply(t) ==
    /\ state' = [state EXCEPT ![t] = "committed"]
    /\ stored' = [r \in Rows |-> IF r \in writes[t] THEN t ELSE stored[r]]

\* A commit that takes effect is answered so, or the connection breaks before
\* the answer comes.  One that does not take effect ends the transaction: it
\* was not active, or the connection broke earlier.
CommitOf(t, acknowledged) ==
    \/ state[t] = "active" /\ Apply(t) /\ acknowledged \in BOOLEAN
    \/ ~acknowledged /\ state' = Ended({t}) /\ UNCHANGED stored

-----------------------------------------------------------------------------
\* Beginning and ending

\* Seeded fault: the local transaction of a SaveChange is not forgotten.
ReturnKeepsTx(u, answer) ==
    /\ pc' = [pc EXCEPT ![u] = "idle"]
    /\ reply' = [reply EXCEPT ![u] = answer]
    /\ todo' = [todo EXCEPT ![u] = {}]
    /\ UNCHANGED <<tx, nested>>

Return(u, answer) ==
    /\ pc' = [pc EXCEPT ![u] = "idle"]
    /\ reply' = [reply EXCEPT ![u] = answer]
    /\ tx' = [tx EXCEPT ![u] = None]
    /\ todo' = [todo EXCEPT ![u] = {}]
    /\ nested' = [nested EXCEPT ![u] = FALSE]

Goes(u, label, list) ==
    /\ pc[u] = "idle"
    /\ pc' = [pc EXCEPT ![u] = label]
    /\ todo' = [todo EXCEPT ![u] = list]

\* Seeded fault: the current transaction is not looked at.
BeginAlways(u) ==
    /\ Goes(u, "begin", {})
    /\ UNCHANGED <<held, contextTx, tx, nested, reply, database, reported>>

\* Begin returns nil while the unit has a transaction, even a finished one.
Begin(u) ==
    /\ \/ contextTx[u] = None /\ Goes(u, "begin", {}) /\ UNCHANGED <<held, tx, nested, reply>>
       \/ contextTx[u] # None /\ pc[u] = "idle" /\ Return(u, "none")
          /\ held' = [held EXCEPT ![u] = None]
    /\ UNCHANGED <<contextTx, database, reported>>

\* The caller goes on with the new transaction or with the one it held before.
BeginTx(u) ==
    /\ pc[u] = "begin"
    /\ \E t \in TxIds :
        /\ BeginAs(t)
        /\ contextTx' = [contextTx EXCEPT ![u] = t]
        /\ held' \in {held, [held EXCEPT ![u] = t]}
    /\ Return(u, "none")
    /\ UNCHANGED reported

\* Current hands out a nil pointer inside a non-nil interface when idle.
Current(u) ==
    /\ pc[u] = "idle"
    /\ held' = [held EXCEPT ![u] = IF contextTx[u] = None THEN NilTx ELSE contextTx[u]]
    /\ reply' = [reply EXCEPT ![u] = "none"]
    /\ UNCHANGED <<contextTx, calls, database, reported>>

\* Seeded fault: only the pointer is reset, the transaction stays open.
ForgetTx(u, other) ==
    /\ contextTx' = [contextTx EXCEPT ![u] = None]
    /\ state' = Ended(other)

\* What the method Rollback does, together with the other transactions its
\* caller rolls back.
RollbackUnit(u, other) ==
    /\ contextTx' = [contextTx EXCEPT ![u] = None]
    /\ state' = Ended(other \union {contextTx[u]})

Rollback(u) ==
    /\ pc[u] = "idle"
    /\ contextTx[u] # None
    /\ RollbackUnit(u, {})
    /\ Return(u, "none")
    /\ UNCHANGED <<held, writes, stored, reported>>

-----------------------------------------------------------------------------
\* SaveChange

SaveChange(u) == \E list \in SUBSET Rows :
    /\ Goes(u, "open", list)
    /\ UNCHANGED <<contextTx, held, tx, nested, reply, database, reported>>

\* Commit(nil, entity...) is a SaveChange.
CommitNil(u) == \E list \in SUBSET Rows :
    /\ held[u] = None
    /\ Goes(u, "open", list)
    /\ nested' = [nested EXCEPT ![u] = TRUE]
    /\ UNCHANGED <<contextTx, held, tx, reply, database, reported>>

OpenSave(u) ==
    /\ pc[u] = "open"
    /\ \E t \in TxIds : BeginAs(t) /\ tx' = [tx EXCEPT ![u] = t]
    /\ pc' = [pc EXCEPT ![u] = "saveChange"]
    /\ UNCHANGED <<contextTx, held, nested, todo, reply, reported>>

\* Every entity is saved: SaveChange returns true, its transaction open.
SaveChangeDone(u) ==
    /\ pc[u] = "saveChange" /\ todo[u] = {}
    /\ Return(u, "ok")
    /\ reported' = reported \union {tx[u]}
    /\ UNCHANGED <<contextTx, held, database>>

-----------------------------------------------------------------------------
\* Commit

\* A nil pointer, held or current, is dereferenced.
CommitPanics(u) ==
    /\ pc[u] = "idle"
    /\ held[u] # None
    /\ held[u] = NilTx \/ contextTx[u] = None
    /\ Return(u, "panic")
    /\ UNCHANGED <<contextTx, held, database, reported>>

\* "Transaction %s is not current"
CommitForeign(u) ==
    /\ pc[u] = "idle"
    /\ held[u] \in TxIds /\ contextTx[u] # None /\ held[u] # contextTx[u]
    /\ Return(u, "foreign")
    /\ UNCHANGED <<contextTx, held, database, reported>>

CommitCurrent(u) == \E list \in SUBSET Rows :
    /\ held[u] \in TxIds /\ held[u] = contextTx[u]
    /\ Goes(u, "commit", list)
    /\ UNCHANGED <<contextTx, held, tx, nested, reply, database, reported>>

\* Seeded fault: the error of the commit is not returned.
CommitErrorDropped(u) ==
    /\ pc[u] = "commit" /\ todo[u] = {}
    /\ \E acknowledged \in BOOLEAN : CommitOf(contextTx[u], acknowledged)
    /\ Return(u, "ok")
    /\ UNCHANGED <<contextTx, held, writes, reported>>

\* Seeded fault: a failed commit leaves the transaction current.
CommitKeepsUnit(u) ==
    /\ pc[u] = "commit" /\ todo[u] = {}
    /\ \E acknowledged \in BOOLEAN :
        /\ CommitOf(contextTx[u], acknowledged)
        /\ Return(u, IF acknowledged THEN "ok" ELSE "error")
    /\ UNCHANGED <<contextTx, held, writes, reported>>

\* Success leaves contextTx as it is, an error resets it.
CommitTx(u) ==
    /\ pc[u] = "commit" /\ todo[u] = {}
    /\ \/ CommitOf(contextTx[u], TRUE) /\ Return(u, "ok") /\ UNCHANGED contextTx
       \/ /\ CommitOf(contextTx[u], FALSE) /\ Return(u, "error")
          /\ contextTx' = [contextTx EXCEPT ![u] = None]
    /\ UNCHANGED <<held, writes, reported>>

\* Commit and Rollback of the transaction the caller holds, past its unit,
\* which goes on taking it for the current one.  (Of a nil pointer, both panic
\* and change nothing, as in CommitPanics.)
TxCommit(u) ==
    /\ pc[u] = "idle" /\ held[u] \in TxIds
    /\ \/ CommitOf(held[u], TRUE) /\ Return(u, "ok")
       \/ CommitOf(held[u], FALSE) /\ Return(u, "failed")
    /\ UNCHANGED <<contextTx, held, writes, reported>>

TxRollback(u) ==
    /\ pc[u] = "idle" /\ held[u] \in TxIds
    /\ state' = Ended({held[u]})
    /\ Return(u, "none")
    /\ UNCHANGED <<contextTx, held, writes, stored, reported>>

-----------------------------------------------------------------------------
\* Saving entities, for SaveChange and for Commit

Target(u) == IF pc[u] = "saveChange" THEN tx[u] ELSE contextTx[u]
Saving(u) == pc[u] \in {"saveChange", "commit"} /\ todo[u] # {}

SaveEntity(u) ==
    /\ Saving(u)
    /\ \E r \in todo[u] :
        /\ WriteRow(Target(u), r)
        /\ todo' = [todo EXCEPT ![u] = @ \ {r}]
    /\ UNCHANGED <<contextTx, held, pc, tx, nested, reply, reported>>

\* SaveChange rolls its transaction back; Commit then rolls the unit back, too.
SaveFails(u) ==
    /\ Saving(u)
    /\ \/ /\ pc[u] = "saveChange" /\ ~nested[u]
          /\ state' = Ended({tx[u]})
          /\ Return(u, "failed") /\ UNCHANGED contextTx
       \/ /\ pc[u] = "commit" \/ nested[u]
          /\ RollbackUnit(u, {tx[u]})
          /\ Return(u, "error")
    /\ UNCHANGED <<held, writes, stored, reported>>

\* Seeded fault: the panic is recovered and nothing rolled back.
SavePanicsKeepingTx(u) ==
    /\ Saving(u)
    /\ Return(u, "recovered")
    /\ UNCHANGED <<contextTx, held, database, reported>>

\* A panic below Save is recovered, the transaction rolled back and a nil error
\* returned; a Commit leaves contextTx set.
SavePanics(u) ==
    /\ Saving(u)
    /\ state' = Ended({Target(u)})
    /\ Return(u, "recovered")
    /\ UNCHANGED <<contextTx, held, writes, stored, reported>>

\* A repository of the store that datastore.Begin returns with the unit writes
\* through the same transaction; a failed statement aborts it.
RepositoryWrite(u) ==
    /\ pc[u] = "idle" /\ held[u] \in TxIds
    /\ \/ \E r \in Rows : WriteRow(held[u], r)
       \/ state[held[u]] = "active"
          /\ state' = [state EXCEPT ![held[u]] = "aborted"]
          /\ UNCHANGED <<writes, stored>>
    /\ UNCHANGED <<contextTx, held, calls, reply, reported>>

UnitStep(u) ==
    \/ Begin(u) \/ BeginTx(u) \/ Current(u) \/ Rollback(u)
    \/ SaveChange(u) \/ CommitNil(u) \/ OpenSave(u) \/ SaveChangeDone(u)
    \/ CommitPanics(u) \/ CommitForeign(u) \/ CommitCurrent(u) \/ CommitTx(u)
    \/ TxCommit(u) \/ TxRollback(u)
    \/ SaveEntity(u) \/ SaveFails(u) \/ SavePanics(u)
    \/ RepositoryWrite(u)

Next == \E u \in Units : UnitStep(u)

Spec == Init /\ [][Next]_vars

-----------------------------------------------------------------------------
\* Whose transaction it is: a unit's current one, or the local one of the
\* SaveChange it runs.
Owns(u, t) == contextTx[u] = t \/ (pc[u] = "saveChange" /\ tx[u] = t)

(***************************************************************************)
(* Every connection in use is accounted for: its transaction belongs to    *)
(* one unit, which can still end it, or a SaveChange left it behind; and   *)
(* there are never more than the pool has (unit_work.go:77, :115, :148).   *)
(***************************************************************************)
ConnectionsAccounted ==
    /\ Cardinality(Open) <= MaxOpen
    /\ \A t \in Open : t \in reported \/ \E u \in Units : Owns(u, t)
    /\ \A t \in TxIds : \A u, v \in Units : Owns(u, t) /\ Owns(v, t) => u = v

Waiting(u) == pc[u] \in {"begin", "open"}

(***************************************************************************)
(* The units never all wait for a connection unless SaveChange was used:   *)
(* either one left its connection behind, or one asks for a second         *)
(* connection beside the current transaction (unit_work.go:78, :86).       *)
(***************************************************************************)
NoHangWithoutSaveChange ==
    (\A u \in Units : Waiting(u)) /\ ~ConnectionFree =>
        \/ reported \intersect Open # {}
        \/ \E u \in Units : pc[u] = "open" /\ contextTx[u] \in Open

(***************************************************************************)
(* When Commit of the current transaction returns no error, and no panic   *)
(* was swallowed on the way, all that was written in it is visible         *)
(* (unit_work.go:147).                                                     *)
(***************************************************************************)
CommitAcksCommitted ==
    [][\A u \in Units :
        pc[u] = "commit" /\ pc'[u] = "idle" /\ reply'[u] = "ok" =>
            /\ state'[contextTx[u]] = "committed"
            /\ \A r \in writes[contextTx[u]] : stored'[r] = contextTx[u]]_vars

(***************************************************************************)
(* A batch of entities that stops half way, at an entity that cannot be    *)
(* saved or at a panic, is undone: its transaction is rolled back and none *)
(* of its rows is or becomes visible, neither by a later Commit nor by the *)
(* caller who takes the nil error after a panic for a success              *)
(* (unit_work.go:88, :100, :107, :136, :143).                              *)
(***************************************************************************)
StoppedIsUndone ==
    [][\A u \in Units :
        Saving(u) /\ pc'[u] = "idle" /\ Target(u) \in Open =>
            /\ state'[Target(u)] = "rolledback"
            /\ \A r \in Rows : stored'[r] # Target(u)]_vars

(***************************************************************************)
(* What an error of Commit means.  After "Transaction %s is not current"   *)
(* nothing has changed: the unit still has its current transaction, which  *)
(* stays as it was, and the one the caller holds is an older one that is   *)
(* closed.  After any other error the unit has no transaction, so Begin    *)
(* works again, and the one it had is closed.  (A recovered panic returns  *)
(* no error, and leaves the unit with a closed transaction.)               *)
(* (unit_work.go:127, :133, :143, :148)                                    *)
(***************************************************************************)
ErrorFreesUnit ==
    [][\A u \in Units :
        /\ reply'[u] = "foreign" =>
            /\ contextTx'[u] # None /\ UNCHANGED <<contextTx[u], state[contextTx[u]]>>
            /\ held'[u] \in TxIds \ Open'
        /\ reply'[u] = "error" =>
            contextTx'[u] = None /\ contextTx[u] \notin Open']_vars

-----------------------------------------------------------------------------
\* What the interface promises and the unit does not keep

(***************************************************************************)
(* What a SaveChange reports as saved, "SaveChange(value ...any) (bool,    *)
(* error)" (pkg/db/unit_work.go:34), has been committed.                   *)
(***************************************************************************)
SavedIsStored == \A t \in reported : state[t] = "committed" \/ writes[t] = {}
=============================================================================

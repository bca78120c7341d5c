-------------------------- MODULE UnitOfWorkProofs --------------------------
(***************************************************************************)
(* The properties of UnitOfWork, for any number of units, rows and         *)
(* transactions and any size of the pool.  What keeps them is that the     *)
(* transactions a SaveChange opens and those a unit hands out never meet:  *)
(* UnitInv says so, one conjunct for each way a transaction is referred    *)
(* to.                                                                     *)
(***************************************************************************)
EXTENDS UnitOfWork, FiniteSetTheorems, TLAPS

\* What a unit is in the middle of, and what it then has or has not.
CallInv ==
    \A u \in Units :
        /\ pc[u] = "begin" => contextTx[u] = None
        /\ pc[u] = "commit" => contextTx[u] # None
        /\ nested[u] => pc[u] \in {"open", "saveChange"}

\* Nothing refers to a transaction that has not begun.
BegunInv ==
    \A u \in Units :
        /\ contextTx[u] \in TxIds => state[contextTx[u]] # "unused"
        /\ held[u] \in TxIds => state[held[u]] # "unused"

\* A unit's current transaction is nobody else's.
CurrentInv ==
    \A u, v \in Units : contextTx[u] \in TxIds /\ contextTx[u] = contextTx[v] => u = v

\* The local transaction of a SaveChange is known to that call alone.
LocalInv ==
    \A u \in Units : tx[u] \in TxIds =>
        /\ state[tx[u]] \in {"active", "broken"}
        /\ tx[u] \notin reported
        /\ \A v \in Units : /\ contextTx[v] # tx[u] /\ held[v] # tx[u]
                            /\ tx[v] = tx[u] => v = u

\* A transaction that a SaveChange left behind is known to nobody.
ReportedInv ==
    \A t \in reported :
        /\ state[t] \in {"active", "broken"}
        /\ \A u \in Units : contextTx[u] # t /\ held[u] # t /\ tx[u] # t

\* An open transaction is a unit's current one, a local one, or left behind.
OwnedInv ==
    \A t \in Open : t \in reported \/ \E u \in Units : contextTx[u] = t \/ tx[u] = t

\* A caller may hold a transaction that is no longer its unit's current one,
\* never an open one and never another unit's.
HeldInv ==
    \A u \in Units : held[u] \in TxIds =>
        /\ held[u] # contextTx[u] => held[u] \notin Open
        /\ \A v \in Units : held[u] = contextTx[v] => u = v

\* What the last call answered, and what the unit has had since.
ReplyInv ==
    \A u \in Units :
        /\ reply[u] = "error" => contextTx[u] = None
        /\ reply[u] = "foreign" =>
               /\ contextTx[u] # None /\ held[u] \in TxIds \ {contextTx[u]}
               /\ ~nested[u]

\* Only what was committed is visible.
StoredInv == \A r \in Rows : stored[r] # None => state[stored[r]] = "committed"

PoolInv == Cardinality(Open) <= MaxOpen

UnitInv ==
    /\ TypeOK /\ CallInv /\ BegunInv /\ CurrentInv /\ LocalInv /\ ReportedInv
    /\ OwnedInv /\ PoolInv /\ StoredInv /\ HeldInv /\ ReplyInv

(***************************************************************************)
(* Every step keeps the types.                                             *)
(***************************************************************************)
LEMMA TypeStep ==
    TypeOK /\ CallInv /\ [Next]_vars => TypeOK'
  <1> SUFFICES ASSUME TypeOK /\ CallInv, [Next]_vars
               PROVE  TypeOK'
    OBVIOUS
  <1> USE UnitAssumption DEF TypeOK, CallInv, PCs, Replies, States,
          Goes, Return, RollbackUnit, Ended, Open,
          BeginAs, WriteRow, Apply, CommitOf, Target, Saving, calls, database
  <1>1. ASSUME NEW u \in Units, UnitStep(u) PROVE TypeOK'
    <2>1. CASE Begin(u)
      <3>1. CASE Goes(u, "begin", {}) /\ UNCHANGED <<held, tx, nested, reply>>
        BY <2>1, <3>1 DEF Begin
      <3>2. CASE pc[u] = "idle" /\ Return(u, "none") /\ held' = [held EXCEPT ![u] = None]
        BY <2>1, <3>2 DEF Begin
      <3> QED
        BY <2>1, <3>1, <3>2 DEF Begin
    <2>2. CASE Current(u)
      BY <2>2 DEF Current
    <2>3. CASE SaveChange(u)
      BY <2>3 DEF SaveChange
    <2>4. CASE CommitNil(u)
      BY <2>4 DEF CommitNil
    <2>5. CASE CommitPanics(u)
      BY <2>5 DEF CommitPanics
    <2>6. CASE CommitForeign(u)
      BY <2>6 DEF CommitForeign
    <2>7. CASE CommitCurrent(u)
      BY <2>7 DEF CommitCurrent
    <2>8. CASE BeginTx(u)
      BY <2>8 DEF BeginTx
    <2>9. CASE Rollback(u)
      BY <2>9 DEF Rollback
    <2>10. CASE OpenSave(u)
      BY <2>10 DEF OpenSave
    <2>11. CASE SaveChangeDone(u)
      BY <2>11 DEF SaveChangeDone
    <2>12. CASE CommitTx(u)
      <3>1. contextTx[u] \in TxIds
        BY <2>12 DEF CommitTx
      <3>2. state' \in [TxIds -> States] /\ stored' \in [Rows -> TxIds \union {None}]
        BY <2>12, <3>1 DEF CommitTx
      <3>3. PICK answer \in {"ok", "error"} : Return(u, answer)
        BY <2>12 DEF CommitTx
      <3>4. contextTx' \in [Units -> TxIds \union {None}]
        BY <2>12 DEF CommitTx
      <3>5. UNCHANGED <<held, writes, reported>>
        BY <2>12 DEF CommitTx
      <3>6. /\ pc' \in [Units -> PCs] /\ tx' \in [Units -> TxIds \union {None}]
            /\ nested' \in [Units -> BOOLEAN] /\ todo' \in [Units -> SUBSET Rows]
            /\ reply' \in [Units -> Replies]
            /\ \A v \in Units : tx'[v] /= None <=> pc'[v] = "saveChange"
        BY <3>3
      <3> QED
        BY <3>2, <3>4, <3>5, <3>6
    <2>13. CASE SaveEntity(u)
      BY <2>13 DEF SaveEntity
    <2>14. CASE SaveFails(u)
      <3>1. CASE state' = Ended({tx[u]}) /\ Return(u, "failed") /\ UNCHANGED contextTx
        BY <2>14, <3>1 DEF SaveFails
      <3>2. CASE RollbackUnit(u, {tx[u]}) /\ Return(u, "error")
        BY <2>14, <3>2 DEF SaveFails
      <3> QED
        BY <2>14, <3>1, <3>2 DEF SaveFails
    <2>15. CASE SavePanics(u)
      BY <2>15 DEF SavePanics
    <2>16. CASE RepositoryWrite(u)
      BY <2>16 DEF RepositoryWrite
    <2>17. CASE TxCommit(u)
      <3>1. state' \in [TxIds -> States] /\ stored' \in [Rows -> TxIds \union {None}]
        BY <2>17 DEF TxCommit
      <3>2. PICK answer \in {"ok", "failed"} : Return(u, answer)
        BY <2>17 DEF TxCommit
      <3>3. UNCHANGED <<contextTx, held, writes, reported>>
        BY <2>17 DEF TxCommit
      <3>4. /\ pc' \in [Units -> PCs] /\ tx' \in [Units -> TxIds \union {None}]
            /\ nested' \in [Units -> BOOLEAN] /\ todo' \in [Units -> SUBSET Rows]
            /\ reply' \in [Units -> Replies]
            /\ \A v \in Units : tx'[v] /= None <=> pc'[v] = "saveChange"
        BY <3>2
      <3> QED
        BY <3>1, <3>3, <3>4
    <2>18. CASE TxRollback(u)
      BY <2>18 DEF TxRollback
    <2> QED
      BY <1>1, <2>1, <2>2, <2>3, <2>4, <2>5, <2>6, <2>7, <2>8, <2>9,
         <2>10, <2>11, <2>12, <2>13, <2>14, <2>15, <2>16, <2>17, <2>18 DEF UnitStep
  <1>2. CASE UNCHANGED vars
    BY <1>2 DEF vars
  <1> QED
    BY <1>1, <1>2 DEF Next

(***************************************************************************)
(* A unit begins only without a transaction and commits only with one.     *)
(***************************************************************************)
LEMMA CallStep ==
    TypeOK /\ CallInv /\ [Next]_vars => CallInv'
  <1> SUFFICES ASSUME TypeOK /\ CallInv, [Next]_vars
               PROVE  CallInv'
    OBVIOUS
  <1> USE UnitAssumption DEF TypeOK, CallInv,
          Goes, Return, RollbackUnit, Ended, Open,
          BeginAs, WriteRow, Apply, CommitOf, Target, Saving, calls, database
  <1>1. ASSUME NEW u \in Units, UnitStep(u) PROVE CallInv'
    <2>1. CASE Begin(u) \/ Current(u) \/ SaveChange(u) \/ CommitNil(u)
               \/ CommitPanics(u) \/ CommitForeign(u) \/ CommitCurrent(u)
      BY <2>1 DEF Begin, Current, SaveChange, CommitNil,
               CommitPanics, CommitForeign, CommitCurrent
    <2>2. CASE BeginTx(u)
      BY <2>2 DEF BeginTx
    <2>3. CASE Rollback(u)
      BY <2>3 DEF Rollback
    <2>4. CASE OpenSave(u)
      BY <2>4 DEF OpenSave
    <2>5. CASE SaveChangeDone(u)
      BY <2>5 DEF SaveChangeDone
    <2>6. CASE CommitTx(u)
      BY <2>6 DEF CommitTx
    <2>7. CASE SaveEntity(u)
      BY <2>7 DEF SaveEntity
    <2>8. CASE SaveFails(u)
      BY <2>8 DEF SaveFails
    <2>9. CASE SavePanics(u)
      BY <2>9 DEF SavePanics
    <2>10. CASE RepositoryWrite(u)
      BY <2>10 DEF RepositoryWrite
    <2>11. CASE TxCommit(u)
      BY <2>11 DEF TxCommit
    <2>12. CASE TxRollback(u)
      BY <2>12 DEF TxRollback
    <2> QED
      BY <1>1, <2>1, <2>2, <2>3, <2>4, <2>5, <2>6, <2>7, <2>8,
         <2>9, <2>10, <2>11, <2>12 DEF UnitStep
  <1>2. CASE UNCHANGED vars
    BY <1>2 DEF vars
  <1> QED
    BY <1>1, <1>2 DEF Next

(***************************************************************************)
(* What a unit refers to has begun.                                        *)
(***************************************************************************)
LEMMA BegunStep ==
    TypeOK /\ CallInv /\ BegunInv /\ [Next]_vars => BegunInv'
  <1> SUFFICES ASSUME TypeOK /\ CallInv /\ BegunInv, [Next]_vars
               PROVE  BegunInv'
    OBVIOUS
  <1> USE UnitAssumption DEF TypeOK, CallInv, BegunInv,
          Goes, Return, RollbackUnit, Ended, Open,
          BeginAs, WriteRow, Apply, CommitOf, Target, Saving, calls, database
  <1>1. ASSUME NEW u \in Units, UnitStep(u) PROVE BegunInv'
    <2>1. CASE Begin(u) \/ Current(u) \/ SaveChange(u) \/ CommitNil(u)
               \/ CommitPanics(u) \/ CommitForeign(u) \/ CommitCurrent(u)
      BY <2>1 DEF Begin, Current, SaveChange, CommitNil,
               CommitPanics, CommitForeign, CommitCurrent
    <2>2. CASE BeginTx(u)
      BY <2>2 DEF BeginTx
    <2>3. CASE Rollback(u)
      BY <2>3 DEF Rollback
    <2>4. CASE OpenSave(u)
      BY <2>4 DEF OpenSave
    <2>5. CASE SaveChangeDone(u)
      BY <2>5 DEF SaveChangeDone
    <2>6. CASE CommitTx(u)
      BY <2>6 DEF CommitTx
    <2>7. CASE SaveEntity(u)
      BY <2>7 DEF SaveEntity
    <2>8. CASE SaveFails(u)
      BY <2>8 DEF SaveFails
    <2>9. CASE SavePanics(u)
      BY <2>9 DEF SavePanics
    <2>10. CASE RepositoryWrite(u)
      BY <2>10 DEF RepositoryWrite
    <2>11. CASE TxCommit(u)
      BY <2>11 DEF TxCommit
    <2>12. CASE TxRollback(u)
      BY <2>12 DEF TxRollback
    <2> QED
      BY <1>1, <2>1, <2>2, <2>3, <2>4, <2>5, <2>6, <2>7, <2>8,
         <2>9, <2>10, <2>11, <2>12 DEF UnitStep
  <1>2. CASE UNCHANGED vars
    BY <1>2 DEF vars
  <1> QED
    BY <1>1, <1>2 DEF Next

(***************************************************************************)
(* A new transaction is no other unit's.                                   *)
(***************************************************************************)
LEMMA CurrentStep ==
    TypeOK /\ CallInv /\ BegunInv /\ CurrentInv /\ [Next]_vars => CurrentInv'
  <1> SUFFICES ASSUME TypeOK /\ CallInv /\ BegunInv /\ CurrentInv, [Next]_vars
               PROVE  CurrentInv'
    OBVIOUS
  <1> USE UnitAssumption DEF TypeOK, CallInv, BegunInv, CurrentInv,
          Goes, Return, RollbackUnit, Ended, Open,
          BeginAs, WriteRow, Apply, CommitOf, Target, Saving, calls, database
  <1>1. ASSUME NEW u \in Units, UnitStep(u) PROVE CurrentInv'
    <2>1. CASE Begin(u) \/ Current(u) \/ SaveChange(u) \/ CommitNil(u)
               \/ CommitPanics(u) \/ CommitForeign(u) \/ CommitCurrent(u)
      BY <2>1 DEF Begin, Current, SaveChange, CommitNil,
               CommitPanics, CommitForeign, CommitCurrent
    <2>2. CASE BeginTx(u)
      BY <2>2 DEF BeginTx
    <2>3. CASE Rollback(u)
      BY <2>3 DEF Rollback
    <2>4. CASE OpenSave(u)
      BY <2>4 DEF OpenSave
    <2>5. CASE SaveChangeDone(u)
      BY <2>5 DEF SaveChangeDone
    <2>6. CASE CommitTx(u)
      BY <2>6 DEF CommitTx
    <2>7. CASE SaveEntity(u)
      BY <2>7 DEF SaveEntity
    <2>8. CASE SaveFails(u)
      BY <2>8 DEF SaveFails
    <2>9. CASE SavePanics(u)
      BY <2>9 DEF SavePanics
    <2>10. CASE RepositoryWrite(u)
      BY <2>10 DEF RepositoryWrite
    <2>11. CASE TxCommit(u)
      BY <2>11 DEF TxCommit
    <2>12. CASE TxRollback(u)
      BY <2>12 DEF TxRollback
    <2> QED
      BY <1>1, <2>1, <2>2, <2>3, <2>4, <2>5, <2>6, <2>7, <2>8,
         <2>9, <2>10, <2>11, <2>12 DEF UnitStep
  <1>2. CASE UNCHANGED vars
    BY <1>2 DEF vars
  <1> QED
    BY <1>1, <1>2 DEF Next

(***************************************************************************)
(* No unit gets hold of a local transaction, and none ends but by its      *)
(* SaveChange.                                                             *)
(***************************************************************************)
LEMMA LocalStep ==
    TypeOK /\ CallInv /\ BegunInv /\ LocalInv /\ ReportedInv /\ [Next]_vars => LocalInv'
  <1> SUFFICES ASSUME TypeOK /\ CallInv /\ BegunInv /\ LocalInv /\ ReportedInv, [Next]_vars
               PROVE  LocalInv'
    OBVIOUS
  <1> USE UnitAssumption DEF TypeOK, CallInv, BegunInv, LocalInv, ReportedInv,
          Goes, Return, RollbackUnit, Ended, Open,
          BeginAs, WriteRow, Apply, CommitOf, Target, Saving, calls, database
  <1>1. ASSUME NEW u \in Units, UnitStep(u) PROVE LocalInv'
    <2>1. CASE Begin(u) \/ Current(u) \/ SaveChange(u) \/ CommitNil(u)
               \/ CommitPanics(u) \/ CommitForeign(u) \/ CommitCurrent(u)
      BY <2>1 DEF Begin, Current, SaveChange, CommitNil,
               CommitPanics, CommitForeign, CommitCurrent
    <2>2. CASE BeginTx(u)
      BY <2>2 DEF BeginTx
    <2>3. CASE Rollback(u)
      BY <2>3 DEF Rollback
    <2>4. CASE OpenSave(u)
      BY <2>4 DEF OpenSave
    <2>5. CASE SaveChangeDone(u)
      BY <2>5 DEF SaveChangeDone
    <2>6. CASE CommitTx(u)
      BY <2>6 DEF CommitTx
    <2>7. CASE SaveEntity(u)
      BY <2>7 DEF SaveEntity
    <2>8. CASE SaveFails(u)
      BY <2>8 DEF SaveFails
    <2>9. CASE SavePanics(u)
      BY <2>9 DEF SavePanics
    <2>10. CASE RepositoryWrite(u)
      BY <2>10 DEF RepositoryWrite
    <2>11. CASE TxCommit(u)
      BY <2>11 DEF TxCommit
    <2>12. CASE TxRollback(u)
      BY <2>12 DEF TxRollback
    <2> QED
      BY <1>1, <2>1, <2>2, <2>3, <2>4, <2>5, <2>6, <2>7, <2>8,
         <2>9, <2>10, <2>11, <2>12 DEF UnitStep
  <1>2. CASE UNCHANGED vars
    BY <1>2 DEF vars
  <1> QED
    BY <1>1, <1>2 DEF Next

(***************************************************************************)
(* A local transaction stays as it is when its SaveChange returns.         *)
(***************************************************************************)
LEMMA ReportedStep ==
    TypeOK /\ CallInv /\ BegunInv /\ LocalInv /\ ReportedInv /\ [Next]_vars => ReportedInv'
  <1> SUFFICES ASSUME TypeOK /\ CallInv /\ BegunInv /\ LocalInv /\ ReportedInv, [Next]_vars
               PROVE  ReportedInv'
    OBVIOUS
  <1> USE UnitAssumption DEF TypeOK, CallInv, BegunInv, LocalInv, ReportedInv,
          Goes, Return, RollbackUnit, Ended, Open,
          BeginAs, WriteRow, Apply, CommitOf, Target, Saving, calls, database
  <1>1. ASSUME NEW u \in Units, UnitStep(u) PROVE ReportedInv'
    <2>1. CASE Begin(u) \/ Current(u) \/ SaveChange(u) \/ CommitNil(u)
               \/ CommitPanics(u) \/ CommitForeign(u) \/ CommitCurrent(u)
      BY <2>1 DEF Begin, Current, SaveChange, CommitNil,
               CommitPanics, CommitForeign, CommitCurrent
    <2>2. CASE BeginTx(u)
      BY <2>2 DEF BeginTx
    <2>3. CASE Rollback(u)
      BY <2>3 DEF Rollback
    <2>4. CASE OpenSave(u)
      BY <2>4 DEF OpenSave
    <2>5. CASE SaveChangeDone(u)
      BY <2>5 DEF SaveChangeDone
    <2>6. CASE CommitTx(u)
      BY <2>6 DEF CommitTx
    <2>7. CASE SaveEntity(u)
      BY <2>7 DEF SaveEntity
    <2>8. CASE SaveFails(u)
      BY <2>8 DEF SaveFails
    <2>9. CASE SavePanics(u)
      BY <2>9 DEF SavePanics
    <2>10. CASE RepositoryWrite(u)
      BY <2>10 DEF RepositoryWrite
    <2>11. CASE TxCommit(u)
      BY <2>11 DEF TxCommit
    <2>12. CASE TxRollback(u)
      BY <2>12 DEF TxRollback
    <2> QED
      BY <1>1, <2>1, <2>2, <2>3, <2>4, <2>5, <2>6, <2>7, <2>8,
         <2>9, <2>10, <2>11, <2>12 DEF UnitStep
  <1>2. CASE UNCHANGED vars
    BY <1>2 DEF vars
  <1> QED
    BY <1>1, <1>2 DEF Next

(***************************************************************************)
(* A unit lets go of a transaction only when it has ended it, or reports   *)
(* it saved.                                                               *)
(***************************************************************************)
LEMMA OwnedStep ==
    TypeOK /\ CallInv /\ BegunInv /\ OwnedInv /\ [Next]_vars => OwnedInv'
  <1> SUFFICES ASSUME TypeOK /\ CallInv /\ BegunInv /\ OwnedInv, [Next]_vars
               PROVE  OwnedInv'
    OBVIOUS
  <1> USE UnitAssumption DEF TypeOK, CallInv, BegunInv, OwnedInv,
          Goes, Return, RollbackUnit, Ended, Open,
          BeginAs, WriteRow, Apply, CommitOf, Target, Saving, calls, database
  <1>1. ASSUME NEW u \in Units, UnitStep(u) PROVE OwnedInv'
    <2>1. CASE Begin(u) \/ Current(u) \/ SaveChange(u) \/ CommitNil(u)
               \/ CommitPanics(u) \/ CommitForeign(u) \/ CommitCurrent(u)
      BY <2>1 DEF Begin, Current, SaveChange, CommitNil,
               CommitPanics, CommitForeign, CommitCurrent
    <2>2. CASE BeginTx(u)
      BY <2>2 DEF BeginTx
    <2>3. CASE Rollback(u)
      BY <2>3 DEF Rollback
    <2>4. CASE OpenSave(u)
      BY <2>4 DEF OpenSave
    <2>5. CASE SaveChangeDone(u)
      BY <2>5 DEF SaveChangeDone
    <2>6. CASE CommitTx(u)
      BY <2>6 DEF CommitTx
    <2>7. CASE SaveEntity(u)
      BY <2>7 DEF SaveEntity
    <2>8. CASE SaveFails(u)
      BY <2>8 DEF SaveFails
    <2>9. CASE SavePanics(u)
      BY <2>9 DEF SavePanics
    <2>10. CASE RepositoryWrite(u)
      BY <2>10 DEF RepositoryWrite
    <2>11. CASE TxCommit(u)
      BY <2>11 DEF TxCommit
    <2>12. CASE TxRollback(u)
      BY <2>12 DEF TxRollback
    <2> QED
      BY <1>1, <2>1, <2>2, <2>3, <2>4, <2>5, <2>6, <2>7, <2>8,
         <2>9, <2>10, <2>11, <2>12 DEF UnitStep
  <1>2. CASE UNCHANGED vars
    BY <1>2 DEF vars
  <1> QED
    BY <1>1, <1>2 DEF Next

(***************************************************************************)
(* A committed transaction stays committed.                                *)
(***************************************************************************)
LEMMA StoredStep ==
    TypeOK /\ CallInv /\ StoredInv /\ [Next]_vars => StoredInv'
  <1> SUFFICES ASSUME TypeOK /\ CallInv /\ StoredInv, [Next]_vars
               PROVE  StoredInv'
    OBVIOUS
  <1> USE UnitAssumption DEF TypeOK, CallInv, StoredInv,
          Goes, Return, RollbackUnit, Ended, Open,
          BeginAs, WriteRow, Apply, CommitOf, Target, Saving, calls, database
  <1>1. ASSUME NEW u \in Units, UnitStep(u) PROVE StoredInv'
    <2>1. CASE Begin(u) \/ Current(u) \/ SaveChange(u) \/ CommitNil(u)
               \/ CommitPanics(u) \/ CommitForeign(u) \/ CommitCurrent(u)
      BY <2>1 DEF Begin, Current, SaveChange, CommitNil,
               CommitPanics, CommitForeign, CommitCurrent
    <2>2. CASE BeginTx(u)
      BY <2>2 DEF BeginTx
    <2>3. CASE Rollback(u)
      BY <2>3 DEF Rollback
    <2>4. CASE OpenSave(u)
      BY <2>4 DEF OpenSave
    <2>5. CASE SaveChangeDone(u)
      BY <2>5 DEF SaveChangeDone
    <2>6. CASE CommitTx(u)
      BY <2>6 DEF CommitTx
    <2>7. CASE SaveEntity(u)
      BY <2>7 DEF SaveEntity
    <2>8. CASE SaveFails(u)
      BY <2>8 DEF SaveFails
    <2>9. CASE SavePanics(u)
      BY <2>9 DEF SavePanics
    <2>10. CASE RepositoryWrite(u)
      BY <2>10 DEF RepositoryWrite
    <2>11. CASE TxCommit(u)
      BY <2>11 DEF TxCommit
    <2>12. CASE TxRollback(u)
      BY <2>12 DEF TxRollback
    <2> QED
      BY <1>1, <2>1, <2>2, <2>3, <2>4, <2>5, <2>6, <2>7, <2>8,
         <2>9, <2>10, <2>11, <2>12 DEF UnitStep
  <1>2. CASE UNCHANGED vars
    BY <1>2 DEF vars
  <1> QED
    BY <1>1, <1>2 DEF Next

(***************************************************************************)
(* What a caller keeps of a former transaction is closed, for a unit gets   *)
(* rid of its current one only by ending it.                               *)
(***************************************************************************)
LEMMA HeldStep ==
    TypeOK /\ CallInv /\ BegunInv /\ CurrentInv /\ HeldInv /\ [Next]_vars => HeldInv'
  <1> SUFFICES ASSUME TypeOK /\ CallInv /\ BegunInv /\ CurrentInv /\ HeldInv, [Next]_vars
               PROVE  HeldInv'
    OBVIOUS
  <1> USE UnitAssumption DEF TypeOK, CallInv, BegunInv, CurrentInv, HeldInv,
          Goes, Return, RollbackUnit, Ended, Open,
          BeginAs, WriteRow, Apply, CommitOf, Target, Saving, calls, database
  <1>1. ASSUME NEW u \in Units, UnitStep(u) PROVE HeldInv'
    <2>1. CASE Begin(u) \/ Current(u) \/ SaveChange(u) \/ CommitNil(u)
               \/ CommitPanics(u) \/ CommitForeign(u) \/ CommitCurrent(u)
      BY <2>1 DEF Begin, Current, SaveChange, CommitNil,
               CommitPanics, CommitForeign, CommitCurrent
    <2>2. CASE BeginTx(u)
      BY <2>2 DEF BeginTx
    <2>3. CASE Rollback(u)
      BY <2>3 DEF Rollback
    <2>4. CASE OpenSave(u)
      BY <2>4 DEF OpenSave
    <2>5. CASE SaveChangeDone(u)
      BY <2>5 DEF SaveChangeDone
    <2>6. CASE CommitTx(u)
      BY <2>6 DEF CommitTx
    <2>7. CASE SaveEntity(u)
      BY <2>7 DEF SaveEntity
    <2>8. CASE SaveFails(u)
      BY <2>8 DEF SaveFails
    <2>9. CASE SavePanics(u)
      BY <2>9 DEF SavePanics
    <2>10. CASE RepositoryWrite(u)
      BY <2>10 DEF RepositoryWrite
    <2>11. CASE TxCommit(u)
      BY <2>11 DEF TxCommit
    <2>12. CASE TxRollback(u)
      BY <2>12 DEF TxRollback
    <2> QED
      BY <1>1, <2>1, <2>2, <2>3, <2>4, <2>5, <2>6, <2>7, <2>8,
         <2>9, <2>10, <2>11, <2>12 DEF UnitStep
  <1>2. CASE UNCHANGED vars
    BY <1>2 DEF vars
  <1> QED
    BY <1>1, <1>2 DEF Next

(***************************************************************************)
(* A unit that answered an error has no transaction until the next call,   *)
(* one that answered "foreign" still has its own.                          *)
(***************************************************************************)
LEMMA ReplyStep ==
    TypeOK /\ CallInv /\ ReplyInv /\ [Next]_vars => ReplyInv'
  <1> SUFFICES ASSUME TypeOK /\ CallInv /\ ReplyInv, [Next]_vars
               PROVE  ReplyInv'
    OBVIOUS
  <1> USE UnitAssumption DEF TypeOK, CallInv, ReplyInv,
          Goes, Return, RollbackUnit, Ended, Open,
          BeginAs, WriteRow, Apply, CommitOf, Target, Saving, calls, database
  <1>1. ASSUME NEW u \in Units, UnitStep(u) PROVE ReplyInv'
    <2>1. CASE Begin(u) \/ Current(u) \/ SaveChange(u) \/ CommitNil(u)
               \/ CommitPanics(u) \/ CommitForeign(u) \/ CommitCurrent(u)
      BY <2>1 DEF Begin, Current, SaveChange, CommitNil,
               CommitPanics, CommitForeign, CommitCurrent
    <2>2. CASE BeginTx(u)
      BY <2>2 DEF BeginTx
    <2>3. CASE Rollback(u)
      BY <2>3 DEF Rollback
    <2>4. CASE OpenSave(u)
      BY <2>4 DEF OpenSave
    <2>5. CASE SaveChangeDone(u)
      BY <2>5 DEF SaveChangeDone
    <2>6. CASE CommitTx(u)
      BY <2>6 DEF CommitTx
    <2>7. CASE SaveEntity(u)
      BY <2>7 DEF SaveEntity
    <2>8. CASE SaveFails(u)
      BY <2>8 DEF SaveFails
    <2>9. CASE SavePanics(u)
      BY <2>9 DEF SavePanics
    <2>10. CASE RepositoryWrite(u)
      BY <2>10 DEF RepositoryWrite
    <2>11. CASE TxCommit(u)
      BY <2>11 DEF TxCommit
    <2>12. CASE TxRollback(u)
      BY <2>12 DEF TxRollback
    <2> QED
      BY <1>1, <2>1, <2>2, <2>3, <2>4, <2>5, <2>6, <2>7, <2>8,
         <2>9, <2>10, <2>11, <2>12 DEF UnitStep
  <1>2. CASE UNCHANGED vars
    BY <1>2 DEF vars
  <1> QED
    BY <1>1, <1>2 DEF Next

\* How the set of open transactions may change in a step.
Grows ==
    \/ Open' \subseteq Open
    \/ ConnectionFree /\ \E t \in TxIds : Open' = Open \union {t}

(***************************************************************************)
(* A step opens at most one transaction, and only when a connection is     *)
(* free; all others it leaves open were open.                              *)
(***************************************************************************)
LEMMA OpenStep ==
    TypeOK /\ CallInv /\ [Next]_vars => Grows
  <1> SUFFICES ASSUME TypeOK /\ CallInv, [Next]_vars
               PROVE  Grows
    OBVIOUS
  <1> USE UnitAssumption DEF TypeOK, CallInv,
          Goes, Return, RollbackUnit, Ended, Open,
          BeginAs, WriteRow, Apply, CommitOf, Target, Saving, calls, database, Grows
  <1>1. ASSUME NEW u \in Units, UnitStep(u) PROVE Grows
    <2>1. CASE Begin(u) \/ Current(u) \/ SaveChange(u) \/ CommitNil(u)
               \/ CommitPanics(u) \/ CommitForeign(u) \/ CommitCurrent(u)
      BY <2>1 DEF Begin, Current, SaveChange, CommitNil,
               CommitPanics, CommitForeign, CommitCurrent
    <2>2. CASE BeginTx(u)
      BY <2>2 DEF BeginTx
    <2>3. CASE Rollback(u)
      BY <2>3 DEF Rollback
    <2>4. CASE OpenSave(u)
      BY <2>4 DEF OpenSave
    <2>5. CASE SaveChangeDone(u)
      BY <2>5 DEF SaveChangeDone
    <2>6. CASE CommitTx(u)
      BY <2>6 DEF CommitTx
    <2>7. CASE SaveEntity(u)
      BY <2>7 DEF SaveEntity
    <2>8. CASE SaveFails(u)
      BY <2>8 DEF SaveFails
    <2>9. CASE SavePanics(u)
      BY <2>9 DEF SavePanics
    <2>10. CASE RepositoryWrite(u)
      BY <2>10 DEF RepositoryWrite
    <2>11. CASE TxCommit(u)
      BY <2>11 DEF TxCommit
    <2>12. CASE TxRollback(u)
      BY <2>12 DEF TxRollback
    <2> QED
      BY <1>1, <2>1, <2>2, <2>3, <2>4, <2>5, <2>6, <2>7, <2>8,
         <2>9, <2>10, <2>11, <2>12 DEF UnitStep
  <1>2. CASE UNCHANGED vars
    BY <1>2 DEF vars
  <1> QED
    BY <1>1, <1>2 DEF Next

(***************************************************************************)
(* The pool never runs over.                                               *)
(***************************************************************************)
LEMMA PoolStep == TypeOK /\ CallInv /\ PoolInv /\ [Next]_vars => PoolInv'
  <1> SUFFICES ASSUME TypeOK, CallInv, PoolInv, [Next]_vars PROVE PoolInv'
    OBVIOUS
  <1>1. IsFiniteSet(Open) /\ IsFiniteSet(Open')
    BY UnitAssumption, FS_Subset DEF Open
  <1>2. Cardinality(Open) \in Nat /\ Cardinality(Open') \in Nat
    BY <1>1, FS_CardinalityType
  <1>3. Grows
    BY OpenStep
  <1>4. CASE Open' \subseteq Open
    <2>1. Cardinality(Open') <= Cardinality(Open)
      BY <1>1, <1>4, FS_Subset
    <2> QED
      BY <1>2, <2>1, UnitAssumption DEF PoolInv
  <1>5. CASE ConnectionFree /\ \E t \in TxIds : Open' = Open \union {t}
    <2>1. PICK t \in TxIds : Open' = Open \union {t}
      BY <1>5
    <2>2. Cardinality(Open') <= Cardinality(Open) + 1
      BY <1>1, <1>2, <2>1, FS_AddElement
    <2> QED
      BY <1>2, <1>5, <2>2, UnitAssumption DEF PoolInv, ConnectionFree
  <1> QED
    BY <1>3, <1>4, <1>5 DEF Grows

-----------------------------------------------------------------------------
(***************************************************************************)
(* Nothing has begun: the initial state satisfies the invariant.           *)
(***************************************************************************)
LEMMA InitUnit == Init => UnitInv
  <1> SUFFICES ASSUME Init PROVE UnitInv
    OBVIOUS
  <1>1. Open = {}
    BY DEF Init, Open
  <1>2. PoolInv
    BY <1>1, FS_EmptySet, UnitAssumption DEF PoolInv
  <1> QED
    BY <1>1, <1>2, UnitAssumption
       DEF Init, UnitInv, TypeOK, PCs, Replies, States, CallInv, BegunInv,
           CurrentInv, LocalInv, ReportedInv, OwnedInv, StoredInv, HeldInv, ReplyInv

(***************************************************************************)
(* The invariant holds whatever the units do.                              *)
(***************************************************************************)
THEOREM UnitInvariance == Spec => []UnitInv
  <1>1. UnitInv /\ [Next]_vars => UnitInv'
    BY TypeStep, CallStep, BegunStep, CurrentStep, LocalStep, ReportedStep,
       OwnedStep, PoolStep, StoredStep, HeldStep, ReplyStep DEF UnitInv
  <1> QED
    BY <1>1, InitUnit, PTL DEF Spec

(***************************************************************************)
(* The variables stay within their types, and a unit has a local           *)
(* transaction just while it runs a SaveChange.                            *)
(***************************************************************************)
THEOREM UnitTypeCorrect == Spec => []TypeOK
  <1>1. UnitInv => TypeOK
    BY DEF UnitInv
  <1> QED
    BY <1>1, UnitInvariance, PTL

(***************************************************************************)
(* Every open transaction holds a connection of the pool that is accounted *)
(* for, for any size of the pool.                                          *)
(***************************************************************************)
THEOREM ConnectionsAreAccounted == Spec => []ConnectionsAccounted
  <1>1. UnitInv => ConnectionsAccounted
    <2> SUFFICES ASSUME UnitInv PROVE ConnectionsAccounted
      OBVIOUS
    <2>1. \A t \in Open : t \in reported \/ \E u \in Units : Owns(u, t)
      BY UnitAssumption DEF UnitInv, OwnedInv, TypeOK, Open, Owns
    <2>2. \A t \in TxIds : \A u, v \in Units : Owns(u, t) /\ Owns(v, t) => u = v
      BY UnitAssumption DEF UnitInv, CurrentInv, LocalInv, TypeOK, Owns
    <2> QED
      BY <2>1, <2>2 DEF UnitInv, PoolInv, ConnectionsAccounted
  <1> QED
    BY <1>1, UnitInvariance, PTL

(***************************************************************************)
(* Units that all wait for a connection owe it to SaveChange: an open      *)
(* transaction is left behind, or belongs to a unit that runs a SaveChange *)
(* beside it, for nobody who waits in Begin has one.                       *)
(***************************************************************************)
THEOREM HangsNeedSaveChange == Spec => []NoHangWithoutSaveChange
  <1>1. UnitInv => NoHangWithoutSaveChange
    <2> SUFFICES ASSUME UnitInv, \A u \in Units : Waiting(u), ~ConnectionFree
                 PROVE  \/ reported \intersect Open # {}
                        \/ \E u \in Units : pc[u] = "open" /\ contextTx[u] \in Open
      BY DEF NoHangWithoutSaveChange
    <2>1. Open # {}
      BY FS_EmptySet, UnitAssumption DEF ConnectionFree
    <2>2. PICK t \in Open : TRUE
      BY <2>1
    <2>3. CASE t \in reported
      BY <2>3
    <2>4. CASE \E u \in Units : contextTx[u] = t \/ tx[u] = t
      <3>1. PICK u \in Units : contextTx[u] = t \/ tx[u] = t
        BY <2>4
      <3>2. t \in TxIds /\ t # None
        BY UnitAssumption DEF Open
      <3>3. pc[u] \in {"begin", "open"}
        BY DEF Waiting
      <3> QED
        BY <3>1, <3>2, <3>3 DEF UnitInv, TypeOK, CallInv
    <2> QED
      BY <2>2, <2>3, <2>4 DEF UnitInv, OwnedInv
  <1> QED
    BY <1>1, UnitInvariance, PTL

-----------------------------------------------------------------------------
(***************************************************************************)
(* Only a unit's own steps move it, and one that is committing or saving   *)
(* comes back by one of four of them.                                      *)
(***************************************************************************)
LEMMA CallReturns ==
    ASSUME UnitInv, Next, NEW u \in Units,
           pc[u] = "commit" \/ pc[u] = "saveChange", pc'[u] = "idle"
    PROVE  CommitTx(u) \/ SaveChangeDone(u) \/ SaveFails(u) \/ SavePanics(u)
  <1>1. PICK v \in Units : UnitStep(v)
    BY DEF Next
  <1>2. v = u
    <2> SUFFICES ASSUME v # u PROVE pc'[u] = pc[u]
      OBVIOUS
    <2> QED
      BY <1>1
         DEF UnitStep, UnitInv, TypeOK, Goes, Return, calls,
           Begin, BeginTx, Current, Rollback, SaveChange, CommitNil,
           OpenSave, SaveChangeDone, CommitPanics, CommitForeign, CommitCurrent, CommitTx,
           TxCommit, TxRollback, SaveEntity, SaveFails, SavePanics, RepositoryWrite
  <1> QED
    BY <1>1, <1>2 DEF UnitStep, UnitInv, TypeOK, Goes, Return, calls,
       Begin, BeginTx, Current, Rollback, SaveChange, CommitNil, OpenSave, CommitPanics,
       CommitForeign, CommitCurrent, TxCommit, TxRollback, SaveEntity, RepositoryWrite

(***************************************************************************)
(* An acknowledged Commit has made all its rows visible.                   *)
(***************************************************************************)
THEOREM AcksAreCommitted == Spec => CommitAcksCommitted
  <1>1. UnitInv /\ [Next]_vars =>
            [\A u \in Units :
                pc[u] = "commit" /\ pc'[u] = "idle" /\ reply'[u] = "ok" =>
                    /\ state'[contextTx[u]] = "committed"
                    /\ \A r \in writes[contextTx[u]] : stored'[r] = contextTx[u]]_vars
    <2> SUFFICES ASSUME UnitInv, Next, NEW u \in Units,
                        pc[u] = "commit", pc'[u] = "idle", reply'[u] = "ok"
                 PROVE  /\ state'[contextTx[u]] = "committed"
                        /\ \A r \in writes[contextTx[u]] : stored'[r] = contextTx[u]
      OBVIOUS
    <2>1. contextTx[u] \in TxIds
      BY DEF UnitInv, TypeOK, CallInv
    <2>2. CommitTx(u)
      BY CallReturns DEF UnitInv, TypeOK, SaveChangeDone, SaveFails, SavePanics, Return
    <2>3. CommitOf(contextTx[u], TRUE)
      BY <2>2 DEF CommitTx, Return, UnitInv, TypeOK
    <2> QED
      BY <2>1, <2>3 DEF CommitOf, Apply, UnitInv, TypeOK
  <1> QED
    BY <1>1, UnitInvariance, PTL DEF Spec, CommitAcksCommitted

(***************************************************************************)
(* A batch that stops half way leaves nothing: the transaction is rolled   *)
(* back by the very step that stops it, and was never visible.             *)
(***************************************************************************)
THEOREM StoppedBatchIsUndone == Spec => StoppedIsUndone
  <1>1. UnitInv /\ [Next]_vars =>
            [\A u \in Units :
                Saving(u) /\ pc'[u] = "idle" /\ Target(u) \in Open =>
                    /\ state'[Target(u)] = "rolledback"
                    /\ \A r \in Rows : stored'[r] # Target(u)]_vars
    <2> SUFFICES ASSUME UnitInv, Next, NEW u \in Units,
                        Saving(u), pc'[u] = "idle", Target(u) \in Open
                 PROVE  /\ state'[Target(u)] = "rolledback"
                        /\ \A r \in Rows : stored'[r] # Target(u)
      OBVIOUS
    <2>1. SaveFails(u) \/ SavePanics(u)
      BY CallReturns DEF Saving, CommitTx, SaveChangeDone
    <2>2. state'[Target(u)] = "rolledback" /\ UNCHANGED stored
      <3>1. CASE SavePanics(u)
        BY <3>1 DEF SavePanics, Ended, Open
      <3>2. CASE SaveFails(u)
        BY <3>2 DEF SaveFails, RollbackUnit, Target, Saving, Ended, Open,
                    UnitInv, CallInv
      <3> QED
        BY <2>1, <3>1, <3>2
    <2>3. Target(u) # None /\ state[Target(u)] # "committed"
      BY UnitAssumption DEF Open
    <2> QED
      BY <2>2, <2>3 DEF UnitInv, StoredInv
  <1> QED
    BY <1>1, UnitInvariance, PTL DEF Spec, StoppedIsUndone

-----------------------------------------------------------------------------
(***************************************************************************)
(* While its last answer is "foreign", neither the unit's own steps nor    *)
(* another unit's touch its current transaction.                           *)
(***************************************************************************)
LEMMA ForeignKeeps ==
    ASSUME UnitInv, Next, NEW u \in Units, reply'[u] = "foreign"
    PROVE  UNCHANGED <<contextTx[u], state[contextTx[u]]>>
  <1> USE UnitAssumption
          DEF UnitInv, TypeOK, CallInv, BegunInv, CurrentInv, LocalInv, HeldInv, ReplyInv,
              Goes, Return, RollbackUnit, Ended, Open,
              BeginAs, WriteRow, Apply, CommitOf, Target, Saving, calls, database
  <1>1. PICK v \in Units : UnitStep(v)
    BY DEF Next
  <1>2. CASE Begin(v) \/ Current(v) \/ SaveChange(v) \/ CommitNil(v)
             \/ CommitPanics(v) \/ CommitForeign(v) \/ CommitCurrent(v)
    BY <1>2 DEF Begin, Current, SaveChange, CommitNil,
                CommitPanics, CommitForeign, CommitCurrent
  <1>3. CASE SaveChangeDone(v) \/ SaveEntity(v)
    BY <1>3 DEF SaveChangeDone, SaveEntity
  <1>4. contextTx[u] \in TxIds
    <2>1. reply[u] = "foreign" \/ CommitForeign(u)
      BY <1>1 DEF UnitStep, Begin, BeginTx, Current, Rollback, SaveChange, CommitNil,
         OpenSave, SaveChangeDone, CommitPanics, CommitForeign, CommitCurrent, CommitTx,
         TxCommit, TxRollback, SaveEntity, SaveFails, SavePanics, RepositoryWrite
    <2> QED
      BY <2>1 DEF CommitForeign
  <1>5. CASE BeginTx(v)
    BY <1>4, <1>5 DEF BeginTx
  <1>6. CASE Rollback(v)
    BY <1>4, <1>6 DEF Rollback
  <1>7. CASE OpenSave(v)
    BY <1>4, <1>7 DEF OpenSave
  <1>8. CASE CommitTx(v)
    BY <1>4, <1>8 DEF CommitTx
  <1>9. CASE SaveFails(v)
    BY <1>4, <1>9 DEF SaveFails
  <1>10. CASE SavePanics(v)
    BY <1>4, <1>10 DEF SavePanics
  <1>11. CASE RepositoryWrite(v)
    BY <1>4, <1>11 DEF RepositoryWrite
  <1>12. CASE TxCommit(v)
    BY <1>4, <1>12 DEF TxCommit
  <1>13. CASE TxRollback(v)
    BY <1>4, <1>13 DEF TxRollback
  <1> QED
    BY <1>1, <1>2, <1>3, <1>5, <1>6, <1>7, <1>8, <1>9, <1>10, <1>11, <1>12, <1>13
       DEF UnitStep

(***************************************************************************)
(* A unit without a transaction after an error had one that is closed.     *)
(***************************************************************************)
LEMMA ErrorCloses ==
    ASSUME UnitInv, Next, NEW u \in Units, reply'[u] = "error"
    PROVE  contextTx[u] \notin Open'
  <1> USE UnitAssumption
          DEF UnitInv, TypeOK, CallInv, LocalInv, ReplyInv,
              Return, RollbackUnit, Ended, Open, CommitOf, Apply
  <1>1. CASE reply[u] = "error"
    BY <1>1
  <1>2. CASE reply[u] # "error"
    <2>1. PICK v \in Units : UnitStep(v)
      BY DEF Next
    <2>2. CommitTx(u) \/ SaveFails(u)
      BY <1>2, <2>1 DEF UnitStep, Goes, calls, Begin, BeginTx, Current, Rollback,
         SaveChange, CommitNil, OpenSave, SaveChangeDone, CommitPanics, CommitForeign,
         CommitCurrent, CommitTx, TxCommit, TxRollback, SaveEntity, SaveFails, SavePanics,
         RepositoryWrite
    <2>3. CASE CommitTx(u)
      BY <1>2, <2>3 DEF CommitTx
    <2>4. CASE SaveFails(u)
      BY <1>2, <2>4 DEF SaveFails
    <2> QED
      BY <2>2, <2>3, <2>4
  <1> QED
    BY <1>1, <1>2

(***************************************************************************)
(* An error of Commit leaves its unit without a transaction, the one it    *)
(* had closed; but "not current" leaves everything as it was.              *)
(***************************************************************************)
THEOREM ErrorsFreeTheUnit == Spec => ErrorFreesUnit
  <1>1. UnitInv /\ UnitInv' /\ [Next]_vars =>
            [\A u \in Units :
                /\ reply'[u] = "foreign" =>
                    /\ contextTx'[u] # None /\ UNCHANGED <<contextTx[u], state[contextTx[u]]>>
                    /\ held'[u] \in TxIds \ Open'
                /\ reply'[u] = "error" =>
                    contextTx'[u] = None /\ contextTx[u] \notin Open']_vars
    <2> SUFFICES ASSUME UnitInv, UnitInv', Next, NEW u \in Units
                 PROVE  /\ reply'[u] = "foreign" =>
                            /\ contextTx'[u] # None
                            /\ UNCHANGED <<contextTx[u], state[contextTx[u]]>>
                            /\ held'[u] \in TxIds \ Open'
                        /\ reply'[u] = "error" =>
                            contextTx'[u] = None /\ contextTx[u] \notin Open'
      OBVIOUS
    <2>1. CASE reply'[u] = "foreign"
      <3>1. contextTx'[u] # None /\ held'[u] \in TxIds /\ held'[u] # contextTx'[u]
        BY <2>1 DEF UnitInv, ReplyInv
      <3>2. held'[u] \notin Open'
        BY <3>1 DEF UnitInv, HeldInv
      <3> QED
        BY <2>1, <3>1, <3>2, ForeignKeeps
    <2>2. CASE reply'[u] = "error"
      BY <2>2, ErrorCloses DEF UnitInv, ReplyInv
    <2> QED
      BY <2>1, <2>2
  <1> QED
    BY <1>1, UnitInvariance, PTL DEF Spec, ErrorFreesUnit

=============================================================================

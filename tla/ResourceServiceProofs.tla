----------------------- MODULE ResourceServiceProofs -----------------------
(***************************************************************************)
(* The safety properties of ResourceService, for any handlers, payloads,   *)
(* sequence length, pool size and faults.                                  *)
(*                                                                         *)
(* TypeOK is not inductive: the AfterCreate hook writes under the id of    *)
(* the entity in memory, so the type of the table depends on that entity   *)
(* having been given an id by the sequence.  ServiceInv adds what is known *)
(* of the entity a handler holds at each point of its request.             *)
(***************************************************************************)
EXTENDS NameHistory, TLAPS

\* What is known of the row under id i.
RowInv(i) ==
    rows[i] # NoRow =>
        /\ i < nextId
        /\ rows[i].inst = InstanceOf(i)
        /\ Payload(rows[i].name, rows[i].desc) \in Payloads

\* What is known of the entity handler h holds.
EntityInv(h) ==
    /\ ent[h].id < nextId
    /\ pc[h] = "idle" => ent[h].id = 0
    /\ pc[h] \in {"check", "save", "upsert"} /\ ent[h].id # 0
          => ent[h].inst = InstanceOf(ent[h].id)
    /\ pc[h] \in {"commit", "save", "upsert"} => ent[h].id # 0
    /\ pc[h] \in {"insert", "commit", "save", "upsert"}
          => Payload(ent[h].name, ent[h].desc) \in Payloads

\* An id that is issued but not committed is known to its handler alone.
PrivateInv(h) ==
    pc[h] = "commit" =>
        /\ rows[ent[h].id] = NoRow
        /\ \A g \in Handlers \ {h} : ent[g].id # ent[h].id

ServiceInv ==
    /\ TypeOK
    /\ \A i \in Ids : RowInv(i)
    /\ \A h \in Handlers : EntityInv(h)
    /\ \A h \in Handlers : PrivateInv(h)

-----------------------------------------------------------------------------
\* Lemmas about the operators the handlers are built from

\* A create or an update carries one of the payloads clients send.
LEMMA RequestPayload ==
    ASSUME NEW r \in Requests, r.op \in {"Create", "Update"}
    PROVE  Payload(r.name, r.desc) \in Payloads
<1>1. PICK p \in Payloads : r.name = p.name /\ r.desc = p.desc
  BY DEF Requests, Request
<1>2. Payload(p.name, p.desc) = p
  BY ConstantsAssumption DEF Payload
<1>3. QED
  BY <1>1, <1>2

\* The parts of a well-typed request are well typed.
LEMMA RequestType ==
    ASSUME NEW r \in Requests \union {NoRequest}
    PROVE  r.name \in Texts /\ r.desc \in Texts /\ r.id \in RequestIds
BY ConstantsAssumption
   DEF Requests, NoRequest, Request, NoPayload, Payload, RequestIds

\* The entity GetById returns: of a live row, or the zero entity.
LEMMA LookupEntity ==
    ASSUME TypeOK, \A i \in Ids : RowInv(i), NEW i \in RequestIds
    PROVE  /\ Lookup(i) \in Entity
           /\ Lookup(i).id < nextId
           /\ Lookup(i).id # 0 => /\ Lookup(i).id \in Live
                                  /\ Lookup(i).inst = InstanceOf(Lookup(i).id)
<1>1. CASE i \in Live
  <2>1. rows[i] \in Row /\ i < nextId /\ rows[i].inst = InstanceOf(i)
    BY <1>1 DEF TypeOK, RowInv, Live
  <2>2. Lookup(i) = EntityOf(i)
    BY <1>1 DEF Lookup
  <2>3. QED
    BY <1>1, <2>1, <2>2 DEF EntityOf, Row, Entity, Live
<1>2. CASE i \notin Live
  BY <1>2, ConstantsAssumption
     DEF Lookup, ZeroEntity, Entity, Instances, TypeOK
<1>3. QED
  BY <1>1, <1>2

-----------------------------------------------------------------------------
\* The invariant holds initially

LEMMA InvInit == Init => ServiceInv
<1> SUFFICES ASSUME Init PROVE ServiceInv
  OBVIOUS
<1>1. TypeOK
  BY ConstantsAssumption
     DEF Init, TypeOK, PCs, ZeroEntity, Entity, Instances, Outs
<1>2. \A i \in Ids : RowInv(i)
  BY DEF Init, RowInv
<1>3. \A h \in Handlers : EntityInv(h)
  BY DEF Init, EntityInv, ZeroEntity
<1>4. \A h \in Handlers : PrivateInv(h)
  BY DEF Init, PrivateInv
<1>5. QED
  BY <1>1, <1>2, <1>3, <1>4 DEF ServiceInv

-----------------------------------------------------------------------------
\* Steps that leave the table and the sequence alone

\* A handler that leaves its entity as it is, or gives up, keeps the invariant.
LEMMA QuietStep ==
    ASSUME ServiceInv, NEW h \in Handlers,
           UNCHANGED <<rows, nextId, ent>>,
           NEW label \in {"reply", "upsert", "find", "delete", "list", "check"},
           label = "check" => ent[h].id = 0,
           label = "upsert" => pc[h] = "save",
           pc' = [pc EXCEPT ![h] = label],
           TypeOK'
    PROVE  ServiceInv'
<1>1. \A i \in Ids : RowInv(i)'
  BY DEF ServiceInv, RowInv
<1>2. ASSUME NEW g \in Handlers PROVE EntityInv(g)'
  BY DEF ServiceInv, EntityInv, TypeOK
<1>3. ASSUME NEW g \in Handlers PROVE PrivateInv(g)'
  BY DEF ServiceInv, PrivateInv, TypeOK
<1>4. QED
  BY <1>1, <1>2, <1>3 DEF ServiceInv

-----------------------------------------------------------------------------
\* Steps that write the table

\* A write answers the caller; each row of the new table is the old one, none,
\* or the row of the entity the handler holds.
LEMMA WriteStep ==
    ASSUME ServiceInv, NEW h \in Handlers,
           NEW e \in Entity, e.id < nextId, e.id = ent[h].id,
           ent' = [ent EXCEPT ![h] = e],
           NEW table \in [Ids -> Row \union {NoRow}],
           \A i \in Ids : \/ table[i] = rows[i]
                          \/ table[i] = NoRow
                          \/ /\ i = e.id /\ table[i] = RowOf(e)
                             /\ e.inst = InstanceOf(i)
                             /\ Payload(e.name, e.desc) \in Payloads,
           pc[h] \in {"commit", "save", "upsert", "delete"},
           Write(h, table),
           UNCHANGED <<nextId, req>>
    PROVE  ServiceInv'
<1>1. /\ rows' = rows \/ rows' = table
      /\ pc' = [pc EXCEPT ![h] = "reply"]
      /\ out' \in [Handlers -> Outs]
  BY DEF Write, Answer, ServiceInv, TypeOK, Outs, ErrorCodes
<1>2. TypeOK'
  BY <1>1 DEF ServiceInv, TypeOK, PCs
<1>3. ASSUME NEW i \in Ids PROVE RowInv(i)'
  <2>1. CASE rows'[i] = rows[i] \/ rows'[i] = NoRow
    BY <2>1 DEF ServiceInv, RowInv
  <2>2. CASE i = e.id /\ rows'[i] = RowOf(e) /\ e.inst = InstanceOf(i)
             /\ Payload(e.name, e.desc) \in Payloads
    BY <2>2 DEF RowInv, RowOf
  <2>3. QED
    BY <1>1, <2>1, <2>2
<1>4. ASSUME NEW g \in Handlers PROVE EntityInv(g)'
  BY <1>1 DEF ServiceInv, TypeOK, EntityInv
<1>5. ASSUME NEW g \in Handlers PROVE PrivateInv(g)'
  <2>1. SUFFICES ASSUME pc'[g] = "commit"
                 PROVE  /\ rows'[ent'[g].id] = NoRow
                        /\ \A k \in Handlers \ {g} : ent'[k].id # ent'[g].id
    BY DEF PrivateInv
  <2>2. /\ g # h /\ pc[g] = "commit" /\ ent'[g] = ent[g]
        /\ rows[ent[g].id] = NoRow
        /\ \A k \in Handlers \ {g} : ent[k].id # ent[g].id
    BY <1>1, <2>1 DEF ServiceInv, TypeOK, PrivateInv
  <2>3. ent[g].id \in Ids
    BY <2>2 DEF ServiceInv, TypeOK, EntityInv, Entity
  <2>4. e.id # ent[g].id
    BY <2>2
  <2>5. rows'[ent[g].id] = NoRow
    BY <1>1, <2>2, <2>3, <2>4
  <2>6. ASSUME NEW k \in Handlers \ {g} PROVE ent'[k].id # ent'[g].id
    BY <2>2, <2>4 DEF ServiceInv, TypeOK
  <2>7. QED
    BY <2>2, <2>5, <2>6
<1>6. QED
  BY <1>2, <1>3, <1>4, <1>5 DEF ServiceInv

-----------------------------------------------------------------------------
\* Every action keeps the invariant

LEMMA AcceptStep ==
    ASSUME ServiceInv, NEW h \in Handlers, NEW r \in Requests, Accept(h, r)
    PROVE  ServiceInv'
<1>1. FirstStep(r.op) \in {"check", "find", "delete", "list"}
  BY ConstantsAssumption DEF Accept, FirstStep, AllOps
<1>2. TypeOK'
  BY <1>1 DEF Accept, ServiceInv, TypeOK, PCs
<1>3. ent[h].id = 0
  BY DEF Accept, ServiceInv, EntityInv
<1>4. QED
  BY <1>1, <1>2, <1>3, QuietStep DEF Accept

LEMMA MalformedStep ==
    ASSUME ServiceInv, NEW h \in Handlers, Malformed(h)
    PROVE  ServiceInv'
<1>1. TypeOK'
  BY DEF Malformed, Answer, ServiceInv, TypeOK, PCs, Outs, ErrorCodes
<1>2. QED
  BY <1>1, QuietStep DEF Malformed, Answer

LEMMA ReplyStep ==
    ASSUME ServiceInv, NEW h \in Handlers, Reply(h)
    PROVE  ServiceInv'
<1>1. ZeroEntity \in Entity /\ ZeroEntity.id = 0
  BY ConstantsAssumption DEF ZeroEntity, Entity, Instances
<1>2. TypeOK'
  BY <1>1 DEF Reply, ServiceInv, TypeOK, PCs, Outs
<1>3. \A i \in Ids : RowInv(i)'
  BY DEF Reply, ServiceInv, RowInv
<1>4. ASSUME NEW g \in Handlers PROVE EntityInv(g)'
  BY <1>1 DEF Reply, ServiceInv, TypeOK, EntityInv
<1>5. ASSUME NEW g \in Handlers PROVE PrivateInv(g)'
  BY <1>1 DEF Reply, ServiceInv, TypeOK, EntityInv, PrivateInv
<1>6. QED
  BY <1>2, <1>3, <1>4, <1>5 DEF ServiceInv

\* GetFind and UpdateFind: the handler holds the record it looked up.
LEMMA FindStep ==
    ASSUME ServiceInv, NEW h \in Handlers,
           ent' = [ent EXCEPT ![h] = Lookup(req[h].id)],
           NEW label \in {"check", "reply"},
           pc' = [pc EXCEPT ![h] = label],
           out' \in [Handlers -> Outs],
           UNCHANGED <<rows, nextId, req>>
    PROVE  ServiceInv'
<1> DEFINE e == Lookup(req[h].id)
<1>1. /\ e \in Entity /\ e.id < nextId
      /\ e.id # 0 => e.id \in Live /\ e.inst = InstanceOf(e.id)
  BY LookupEntity, RequestType DEF ServiceInv, TypeOK
<1> HIDE DEF e
<1>2. ent' = [ent EXCEPT ![h] = e]
  BY DEF e
<1>3. TypeOK'
  BY <1>1, <1>2 DEF ServiceInv, TypeOK, PCs
<1>4. \A i \in Ids : RowInv(i)'
  BY DEF ServiceInv, RowInv
<1>5. ASSUME NEW g \in Handlers PROVE EntityInv(g)'
  BY <1>1, <1>2 DEF ServiceInv, TypeOK, EntityInv
<1>6. ASSUME NEW g \in Handlers PROVE PrivateInv(g)'
  BY <1>1, <1>2 DEF ServiceInv, TypeOK, EntityInv, PrivateInv, Live
<1>7. QED
  BY <1>3, <1>4, <1>5, <1>6 DEF ServiceInv

LEMMA GetFindStep ==
    ASSUME ServiceInv, NEW h \in Handlers, GetFind(h)
    PROVE  ServiceInv'
<1>1. out' \in [Handlers -> Outs]
  BY DEF GetFind, Answer, ServiceInv, TypeOK, Outs
<1>2. CASE ent' = [ent EXCEPT ![h] = Lookup(req[h].id)]
  BY <1>1, <1>2, FindStep DEF GetFind, Answer
<1>3. CASE UNCHANGED ent
  <2>1. TypeOK'
    BY <1>1, <1>3 DEF GetFind, Answer, ServiceInv, TypeOK, PCs
  <2>2. QED
    BY <1>3, <2>1, QuietStep DEF GetFind, Answer
<1>4. QED
  BY <1>2, <1>3 DEF GetFind

LEMMA UpdateFindStep ==
    ASSUME ServiceInv, NEW h \in Handlers, UpdateFind(h)
    PROVE  ServiceInv'
<1>1. out' \in [Handlers -> Outs]
  BY DEF UpdateFind, Answer, ServiceInv, TypeOK, Outs, ErrorCodes
<1>2. CASE ent' = [ent EXCEPT ![h] = Lookup(req[h].id)] /\ pc' = [pc EXCEPT ![h] = "check"]
  BY <1>1, <1>2, FindStep DEF UpdateFind
<1>3. CASE UNCHANGED ent /\ pc' = [pc EXCEPT ![h] = "reply"]
  <2>1. TypeOK'
    BY <1>1, <1>3 DEF UpdateFind, ServiceInv, TypeOK, PCs
  <2>2. QED
    BY <1>3, <2>1, QuietStep DEF UpdateFind
<1>4. QED
  BY <1>2, <1>3 DEF UpdateFind, Answer

LEMMA ListRowsStep ==
    ASSUME ServiceInv, NEW h \in Handlers, ListRows(h)
    PROVE  ServiceInv'
<1>1. TypeOK'
  BY DEF ListRows, Answer, ServiceInv, TypeOK, PCs, Outs, ErrorCodes
<1>2. QED
  BY <1>1, QuietStep DEF ListRows, Answer

\* The checks of a create and an update: the handler assigns the request's
\* fields to its entity and goes on to a write.
LEMMA AssignStep ==
    ASSUME ServiceInv, NEW h \in Handlers,
           req[h].op \in {"Create", "Update"},
           NEW e \in Entity, e.id < nextId,
           e.id # 0 => e.inst = InstanceOf(e.id),
           e.id # 0 => e.id = ent[h].id,
           pc[h] = "check",
           ent' = [ent EXCEPT ![h] = Assign(e, req[h])],
           NEW label \in {"insert", "save"},
           label = "save" => e.id # 0,
           pc' = [pc EXCEPT ![h] = label],
           UNCHANGED <<rows, nextId, req, out>>
    PROVE  ServiceInv'
<1> DEFINE f == Assign(e, req[h])
<1>1. Payload(req[h].name, req[h].desc) \in Payloads
  BY RequestPayload DEF ServiceInv, TypeOK, NoRequest, Request
<1>2. /\ f \in Entity /\ f.id = e.id /\ f.inst = e.inst
      /\ Payload(f.name, f.desc) \in Payloads
  BY <1>1, RequestType DEF Assign, ServiceInv, TypeOK, Entity, Payload
<1> HIDE DEF f
<1>3. ent' = [ent EXCEPT ![h] = f]
  BY DEF f
<1>4. TypeOK'
  BY <1>2, <1>3 DEF ServiceInv, TypeOK, PCs
<1>5. \A i \in Ids : RowInv(i)'
  BY DEF ServiceInv, RowInv
<1>6. ASSUME NEW g \in Handlers PROVE EntityInv(g)'
  BY <1>2, <1>3 DEF ServiceInv, TypeOK, EntityInv
<1>7. ASSUME NEW g \in Handlers PROVE PrivateInv(g)'
  BY <1>2, <1>3 DEF ServiceInv, TypeOK, EntityInv, PrivateInv
<1>8. QED
  BY <1>4, <1>5, <1>6, <1>7 DEF ServiceInv

LEMMA CreateCheckStep ==
    ASSUME ServiceInv, NEW h \in Handlers, CreateCheck(h)
    PROVE  ServiceInv'
<1>1. CASE UNCHANGED ent /\ Answer(h, <<"ErrValidation">>)
  <2>1. TypeOK'
    BY <1>1 DEF CreateCheck, Answer, ServiceInv, TypeOK, PCs, Outs, ErrorCodes
  <2>2. QED
    BY <1>1, <2>1, QuietStep DEF CreateCheck, Answer
<1>2. CASE /\ ent' = [ent EXCEPT ![h] = Assign(ZeroEntity, req[h])]
           /\ pc' = [pc EXCEPT ![h] = "insert"]
           /\ UNCHANGED out
  <2>1. ZeroEntity \in Entity /\ ZeroEntity.id = 0 /\ 0 < nextId
    BY ConstantsAssumption
       DEF ZeroEntity, Entity, Instances, ServiceInv, TypeOK
  <2>2. QED
    BY <1>2, <2>1, AssignStep DEF CreateCheck, At
<1>3. QED
  BY <1>1, <1>2 DEF CreateCheck

LEMMA UpdateCheckStep ==
    ASSUME ServiceInv, NEW h \in Handlers, UpdateCheck(h)
    PROVE  ServiceInv'
<1>1. CASE UNCHANGED ent /\ Answer(h, <<"ErrValidation">>)
  <2>1. TypeOK'
    BY <1>1 DEF UpdateCheck, Answer, ServiceInv, TypeOK, PCs, Outs, ErrorCodes
  <2>2. QED
    BY <1>1, <2>1, QuietStep DEF UpdateCheck, Answer
<1>2. CASE /\ ent' = [ent EXCEPT ![h] = Assign(ent[h], req[h])]
           /\ pc' = [pc EXCEPT ![h] = IF ent[h].id = 0 THEN "insert" ELSE "save"]
           /\ UNCHANGED out
  <2>1. /\ ent[h] \in Entity /\ ent[h].id < nextId /\ pc[h] = "check"
        /\ ent[h].id # 0 => ent[h].inst = InstanceOf(ent[h].id)
    BY DEF UpdateCheck, At, ServiceInv, TypeOK, EntityInv
  <2>2. QED
    BY <1>2, <2>1, AssignStep DEF UpdateCheck
<1>3. QED
  BY <1>1, <1>2 DEF UpdateCheck

LEMMA InsertRowStep ==
    ASSUME ServiceInv, NEW h \in Handlers, InsertRow(h)
    PROVE  ServiceInv'
<1>1. CASE UNCHANGED <<nextId, ent>> /\ Answer(h, <<"ErrDatabase">>)
  <2>1. TypeOK'
    BY <1>1 DEF InsertRow, Answer, ServiceInv, TypeOK, PCs, Outs, ErrorCodes
  <2>2. QED
    BY <1>1, <2>1, QuietStep DEF InsertRow, Answer
<1>2. CASE /\ SequenceHasNext
           /\ ent' = [ent EXCEPT ![h].id = nextId]
           /\ nextId' = nextId + 1
           /\ pc' = [pc EXCEPT ![h] = "commit"]
           /\ UNCHANGED out
  <2>1. nextId \in Ids /\ rows[nextId] = NoRow
    BY <1>2, ConstantsAssumption
       DEF SequenceHasNext, Ids, ServiceInv, TypeOK, RowInv
  <2>2. TypeOK'
    BY <1>2, <2>1, ConstantsAssumption
       DEF InsertRow, SequenceHasNext, Ids, ServiceInv, TypeOK, PCs, Entity
  <2>3. \A i \in Ids : RowInv(i)'
    BY <1>2, ConstantsAssumption
       DEF InsertRow, Ids, ServiceInv, TypeOK, RowInv
  <2>4. ASSUME NEW g \in Handlers PROVE EntityInv(g)'
    BY <1>2, <2>1, ConstantsAssumption
       DEF InsertRow, At, Ids, ServiceInv, TypeOK, EntityInv, Entity
  <2>5. ASSUME NEW g \in Handlers PROVE PrivateInv(g)'
    BY <1>2, <2>1, ConstantsAssumption
       DEF InsertRow, Ids, ServiceInv, TypeOK, EntityInv, PrivateInv, Entity
  <2>6. QED
    BY <2>2, <2>3, <2>4, <2>5 DEF ServiceInv
<1>3. QED
  BY <1>1, <1>2 DEF InsertRow

LEMMA AfterCreateStep ==
    ASSUME ServiceInv, NEW h \in Handlers, AfterCreate(h)
    PROVE  ServiceInv'
<1> DEFINE e == Stamp(ent[h])
<1>1. /\ pc[h] = "commit" /\ ent[h] \in Entity
      /\ ent[h].id \in Ids /\ ent[h].id < nextId
      /\ Payload(ent[h].name, ent[h].desc) \in Payloads
  BY DEF AfterCreate, HookCanRun, ServiceInv, TypeOK, EntityInv, Entity
<1>2. /\ e \in Entity /\ e.id = ent[h].id /\ e.inst = InstanceOf(e.id)
      /\ Payload(e.name, e.desc) \in Payloads
  BY <1>1 DEF Stamp, Entity, Instances
<1> HIDE DEF e
<1>3. /\ ent' = [ent EXCEPT ![h] = e]
      /\ Write(h, [rows EXCEPT ![e.id] = RowOf(e)])
      /\ UNCHANGED <<nextId, req>>
  BY DEF AfterCreate, e
<1>4. [rows EXCEPT ![e.id] = RowOf(e)] \in [Ids -> Row \union {NoRow}]
  BY <1>2 DEF ServiceInv, TypeOK, RowOf, Row, Entity
<1>5. \A i \in Ids : [rows EXCEPT ![e.id] = RowOf(e)][i] =
                        IF i = e.id THEN RowOf(e) ELSE rows[i]
  BY DEF ServiceInv, TypeOK
<1>6. QED
  BY <1>1, <1>2, <1>3, <1>4, <1>5, WriteStep

\* SaveRow and UpsertRow write the entity's row under its id.
LEMMA StoreStep ==
    ASSUME ServiceInv, NEW h \in Handlers, pc[h] \in {"save", "upsert"},
           Write(h, [rows EXCEPT ![ent[h].id] = RowOf(ent[h])]),
           UNCHANGED <<nextId, req, ent>>
    PROVE  ServiceInv'
<1> DEFINE e == ent[h]
           table == [rows EXCEPT ![e.id] = RowOf(e)]
<1>1. /\ e \in Entity /\ e.id \in Ids /\ e.id < nextId
      /\ e.inst = InstanceOf(e.id) /\ Payload(e.name, e.desc) \in Payloads
      /\ ent' = [ent EXCEPT ![h] = e]
  BY DEF ServiceInv, TypeOK, EntityInv, Entity
<1>2. table \in [Ids -> Row \union {NoRow}]
  BY <1>1 DEF ServiceInv, TypeOK, RowOf, Row, Entity
<1>3. \A i \in Ids : table[i] = IF i = e.id THEN RowOf(e) ELSE rows[i]
  BY DEF ServiceInv, TypeOK
<1>4. QED
  BY <1>1, <1>2, <1>3, WriteStep

LEMMA SaveRowStep ==
    ASSUME ServiceInv, NEW h \in Handlers, SaveRow(h)
    PROVE  ServiceInv'
<1>1. pc[h] = "save" /\ UNCHANGED <<nextId, req, ent>>
  BY DEF SaveRow, At
<1>2. CASE Write(h, [rows EXCEPT ![ent[h].id] = RowOf(ent[h])])
  BY <1>1, <1>2, StoreStep
<1>3. CASE pc' = [pc EXCEPT ![h] = "upsert"] /\ UNCHANGED <<rows, out>>
  <2>1. TypeOK'
    BY <1>1, <1>3 DEF ServiceInv, TypeOK, PCs
  <2>2. QED
    BY <1>1, <1>3, <2>1, QuietStep
<1>4. CASE Answer(h, <<"ErrDatabase">>) /\ UNCHANGED rows
  <2>1. TypeOK'
    BY <1>1, <1>4 DEF Answer, ServiceInv, TypeOK, PCs, Outs, ErrorCodes
  <2>2. QED
    BY <1>1, <1>4, <2>1, QuietStep DEF Answer
<1>5. QED
  BY <1>2, <1>3, <1>4 DEF SaveRow

LEMMA UpsertRowStep ==
    ASSUME ServiceInv, NEW h \in Handlers, UpsertRow(h)
    PROVE  ServiceInv'
BY StoreStep DEF UpsertRow, At

LEMMA DeleteRowStep ==
    ASSUME ServiceInv, NEW h \in Handlers, DeleteRow(h)
    PROVE  ServiceInv'
<1> DEFINE table == [i \in Ids |-> IF i = req[h].id THEN NoRow ELSE rows[i]]
<1>1. pc[h] = "delete" /\ UNCHANGED <<nextId, req, ent>>
  BY DEF DeleteRow, At
<1>2. CASE Write(h, table)
  <2>1. /\ ent[h] \in Entity /\ ent[h].id < nextId
        /\ ent' = [ent EXCEPT ![h] = ent[h]]
    BY <1>1 DEF ServiceInv, TypeOK, EntityInv
  <2>2. table \in [Ids -> Row \union {NoRow}]
    BY DEF ServiceInv, TypeOK
  <2>3. \A i \in Ids : table[i] = rows[i] \/ table[i] = NoRow
    OBVIOUS
  <2>4. QED
    BY <1>1, <1>2, <2>1, <2>2, <2>3, WriteStep
<1>3. CASE Answer(h, <<"ErrDatabase">>) /\ UNCHANGED rows
  <2>1. TypeOK'
    BY <1>1, <1>3 DEF Answer, ServiceInv, TypeOK, PCs, Outs, ErrorCodes
  <2>2. QED
    BY <1>1, <1>3, <2>1, QuietStep DEF Answer
<1>4. QED
  BY <1>2, <1>3 DEF DeleteRow

LEMMA InvStep == ServiceInv /\ [Next]_vars => ServiceInv'
<1> SUFFICES ASSUME ServiceInv, [Next]_vars PROVE ServiceInv'
  OBVIOUS
<1>1. CASE UNCHANGED vars
  BY <1>1 DEF vars, ServiceInv, TypeOK, RowInv, EntityInv, PrivateInv
<1>2. ASSUME NEW h \in Handlers, NEW r \in Requests, Accept(h, r)
      PROVE  ServiceInv'
  BY <1>2, AcceptStep
<1>3. ASSUME NEW h \in Handlers, Malformed(h) PROVE ServiceInv'
  BY <1>3, MalformedStep
<1>4. ASSUME NEW h \in Handlers, Serve(h) PROVE ServiceInv'
  BY <1>4, GetFindStep, ListRowsStep, CreateCheckStep, InsertRowStep,
     AfterCreateStep, UpdateFindStep, UpdateCheckStep, SaveRowStep,
     UpsertRowStep, DeleteRowStep, ReplyStep
     DEF Serve
<1>5. QED
  BY <1>1, <1>2, <1>3, <1>4 DEF Next

-----------------------------------------------------------------------------
\* Theorems

(***************************************************************************)
(* The inductive invariant holds in every reachable state.                 *)
(***************************************************************************)
THEOREM Invariance == Spec => []ServiceInv
BY InvInit, InvStep, PTL DEF Spec

(***************************************************************************)
(* The table, the sequence and the handlers' variables stay well typed.    *)
(***************************************************************************)
THEOREM TypeCorrect == Spec => []TypeOK
<1>1. ServiceInv => TypeOK
  BY DEF ServiceInv
<1>2. QED
  BY <1>1, Invariance, PTL

(***************************************************************************)
(* No request ever sees a row without its own instance id, whichever path  *)
(* inserted it (AfterCreate in model/v1/app_service.go:49).                *)
(***************************************************************************)
THEOREM InstanceIdsCorrect == Spec => []InstanceMatchesId
<1>1. ServiceInv => InstanceMatchesId
  BY DEF ServiceInv, InstanceMatchesId, Live, RowInv
<1>2. QED
  BY <1>1, Invariance, PTL

(***************************************************************************)
(* No interleaving of creates and updates mixes two requests in one row.   *)
(***************************************************************************)
THEOREM NoTornRows == Spec => []RowsAreUntorn
<1>1. ServiceInv => RowsAreUntorn
  BY DEF ServiceInv, RowsAreUntorn, Live, RowInv
<1>2. QED
  BY <1>1, Invariance, PTL

(***************************************************************************)
(* Every row is under an id of the sequence, and an id in an open          *)
(* transaction belongs to one handler.                                     *)
(***************************************************************************)
THEOREM IdsFromSequence == Spec => []IdsComeFromSequence
<1>1. ServiceInv => IdsComeFromSequence
  <2> SUFFICES ASSUME ServiceInv PROVE IdsComeFromSequence
    OBVIOUS
  <2>1. \A i \in Live : i < nextId
    BY DEF ServiceInv, Live, RowInv
  <2>2. ASSUME NEW h \in InTransaction
        PROVE  /\ ent[h].id \in Ids /\ ent[h].id < nextId
               /\ ent[h].id \notin Live
               /\ \A g \in Handlers \ {h} : ent[g].id # ent[h].id
    BY DEF InTransaction, ServiceInv, TypeOK, EntityInv, PrivateInv, Entity, Live
  <2>3. QED
    BY <2>1, <2>2 DEF IdsComeFromSequence
<1>2. QED
  BY <1>1, Invariance, PTL

(***************************************************************************)
(* A deleted id stays dead unless an update read it before it was deleted: *)
(* the only steps that fill an empty row are the commit of an INSERT and   *)
(* the upsert of gorm's Save, both under the id their handler holds.       *)
(***************************************************************************)
THEOREM DeadIdsNeverReissued == Spec => DeadIdsStayDead
<1>1. ServiceInv /\ [Next]_vars
        => [\A i \in Ids : DeadForGood(i) => DeadForGood(i)']_vars
  <2> SUFFICES ASSUME ServiceInv, Next, NEW i \in Ids, DeadForGood(i)
               PROVE  DeadForGood(i)'
    OBVIOUS
  <2>1. /\ rows[i] = NoRow /\ i < nextId /\ i # 0 /\ i \in Nat
        /\ nextId \in Nat
        /\ \A g \in Handlers : ~Holds(g, i)
    BY ConstantsAssumption DEF DeadForGood, Live, Ids, ServiceInv, TypeOK
  <2>2. ASSUME nextId' = nextId \/ nextId' = nextId + 1,
               rows'[i] = NoRow, \A g \in Handlers : ~Holds(g, i)'
        PROVE  DeadForGood(i)'
    BY <2>1, <2>2 DEF DeadForGood, Live
  <2>3. ASSUME NEW h \in Handlers, AfterCreate(h) PROVE DeadForGood(i)'
    <3>1. Stamp(ent[h]).id = ent[h].id
      BY DEF Stamp, ServiceInv, TypeOK, Entity
    <3>2. i # ent[h].id
      BY <2>1, <2>3 DEF AfterCreate, HookCanRun, Holds
    <3>3. rows'[i] = NoRow
      BY <2>1, <2>3, <3>1, <3>2 DEF AfterCreate, Write, ServiceInv, TypeOK
    <3>4. \A g \in Handlers : ~Holds(g, i)'
      BY <2>1, <2>3, <3>1, <3>2
         DEF AfterCreate, Write, Answer, Holds, ServiceInv, TypeOK
    <3>5. QED
      BY <2>2, <2>3, <3>3, <3>4 DEF AfterCreate
  <2>4. ASSUME NEW h \in Handlers, SaveRow(h) PROVE DeadForGood(i)'
    <3>1. rows'[i] = NoRow
      BY <2>1, <2>4
         DEF SaveRow, At, Holds, Write, ServiceInv, TypeOK
    <3>2. \A g \in Handlers : ~Holds(g, i)'
      BY <2>1, <2>4
         DEF SaveRow, At, Holds, Write, Answer, ServiceInv, TypeOK
    <3>3. QED
      BY <2>2, <2>4, <3>1, <3>2 DEF SaveRow
  <2>5. ASSUME NEW h \in Handlers, UpsertRow(h) PROVE DeadForGood(i)'
    <3>1. rows'[i] = NoRow
      BY <2>1, <2>5 DEF UpsertRow, At, Holds, Write, ServiceInv, TypeOK
    <3>2. \A g \in Handlers : ~Holds(g, i)'
      BY <2>1, <2>5 DEF UpsertRow, At, Holds, Write, Answer, ServiceInv, TypeOK
    <3>3. QED
      BY <2>2, <2>5, <3>1, <3>2 DEF UpsertRow
  <2>6. ASSUME NEW h \in Handlers, DeleteRow(h) PROVE DeadForGood(i)'
    <3>1. rows'[i] = NoRow
      BY <2>1, <2>6 DEF DeleteRow, Write, ServiceInv, TypeOK
    <3>2. \A g \in Handlers : ~Holds(g, i)'
      BY <2>1, <2>6 DEF DeleteRow, Write, Answer, Holds, ServiceInv, TypeOK
    <3>3. QED
      BY <2>2, <2>6, <3>1, <3>2 DEF DeleteRow
  <2>7. ASSUME NEW h \in Handlers, InsertRow(h) PROVE DeadForGood(i)'
    <3>1. \A g \in Handlers : ~Holds(g, i)'
      BY <2>1, <2>7 DEF InsertRow, At, Answer, Holds, ServiceInv, TypeOK, Entity
    <3>2. QED
      BY <2>1, <2>2, <2>7, <3>1 DEF InsertRow
  <2>8. ASSUME NEW h \in Handlers, UpdateFind(h) PROVE DeadForGood(i)'
    <3>1. Lookup(req[h].id).id # i
      BY <2>1 DEF Lookup, EntityOf, ZeroEntity, Live
    <3>2. \A g \in Handlers : ~Holds(g, i)'
      BY <2>1, <2>8, <3>1 DEF UpdateFind, At, Answer, Holds, ServiceInv, TypeOK
    <3>3. QED
      BY <2>1, <2>2, <2>8, <3>2 DEF UpdateFind
  <2>9. ASSUME NEW h \in Handlers, CreateCheck(h) \/ UpdateCheck(h)
        PROVE  DeadForGood(i)'
    <3>1. Assign(ent[h], req[h]).id = ent[h].id /\ Assign(ZeroEntity, req[h]).id = 0
      BY DEF Assign, ZeroEntity, ServiceInv, TypeOK, Entity
    <3>2. \A g \in Handlers : ~Holds(g, i)'
      BY <2>1, <2>9, <3>1
         DEF CreateCheck, UpdateCheck, At, Answer, Holds, ServiceInv, TypeOK
    <3>3. QED
      BY <2>1, <2>2, <2>9, <3>2 DEF CreateCheck, UpdateCheck
  <2>10. ASSUME NEW h \in Handlers,
                GetFind(h) \/ ListRows(h) \/ Reply(h) \/ Malformed(h)
         PROVE  DeadForGood(i)'
    <3>1. \A g \in Handlers : ~Holds(g, i)'
      BY <2>1, <2>10
         DEF GetFind, ListRows, Reply, Malformed, Answer, Holds, ServiceInv, TypeOK
    <3>2. QED
      BY <2>1, <2>2, <2>10, <3>1 DEF GetFind, ListRows, Reply, Malformed
  <2>11. ASSUME NEW h \in Handlers, NEW r \in Requests, Accept(h, r)
         PROVE  DeadForGood(i)'
    <3>1. ent[h].id = 0
      BY <2>11 DEF Accept, ServiceInv, EntityInv
    <3>2. \A g \in Handlers : ~Holds(g, i)'
      BY <2>1, <2>11, <3>1 DEF Accept, Holds, ServiceInv, TypeOK
    <3>3. QED
      BY <2>1, <2>2, <2>11, <3>2 DEF Accept
  <2>12. QED
    BY <2>3, <2>4, <2>5, <2>6, <2>7, <2>8, <2>9, <2>10, <2>11 DEF Next, Serve
<1>2. QED
  BY <1>1, Invariance, PTL DEF Spec, DeadIdsStayDead

-----------------------------------------------------------------------------
\* Requests write under the id they name

\* The record handler h looked up is the one its request names.
NamedInv(h) ==
    pc[h] \in {"check", "save", "upsert"} /\ ent[h].id # 0 => ent[h].id = req[h].id

LEMMA NamedStep ==
    ASSUME ServiceInv, \A h \in Handlers : NamedInv(h), [Next]_vars, NEW h \in Handlers
    PROVE  NamedInv(h)'
<1>1. CASE UNCHANGED vars
  BY <1>1 DEF vars, NamedInv
<1>2. ASSUME NEW g \in Handlers, NEW r \in Requests, Accept(g, r) PROVE NamedInv(h)'
  <2>1. ent[g].id = 0
    BY <1>2 DEF Accept, ServiceInv, EntityInv
  <2>2. QED
    BY <1>2, <2>1 DEF Accept, NamedInv, ServiceInv, TypeOK
<1>3. ASSUME NEW g \in Handlers,
             Malformed(g) \/ Reply(g) \/ GetFind(g) \/ ListRows(g) \/ DeleteRow(g)
                 \/ AfterCreate(g)
      PROVE  NamedInv(h)'
  <2>1. /\ pc' = [pc EXCEPT ![g] = "idle"] \/ pc' = [pc EXCEPT ![g] = "reply"]
        /\ \A k \in Handlers \ {g} : ent'[k] = ent[k] /\ req'[k] = req[k]
    BY <1>3 DEF Malformed, Reply, GetFind, ListRows, DeleteRow, AfterCreate,
                Write, Answer, ServiceInv, TypeOK
  <2>2. QED
    BY <2>1 DEF NamedInv, ServiceInv, TypeOK
<1>4. ASSUME NEW g \in Handlers, CreateCheck(g) \/ InsertRow(g) PROVE NamedInv(h)'
  BY <1>4 DEF CreateCheck, InsertRow, Answer, NamedInv, ServiceInv, TypeOK
<1>5. ASSUME NEW g \in Handlers, UpdateFind(g) PROVE NamedInv(h)'
  <2>1. Lookup(req[g].id).id \in {0, req[g].id}
    BY DEF Lookup, EntityOf, ZeroEntity
  <2>2. QED
    BY <1>5, <2>1 DEF UpdateFind, Answer, NamedInv, ServiceInv, TypeOK
<1>6. ASSUME NEW g \in Handlers, UpdateCheck(g) PROVE NamedInv(h)'
  <2>1. Assign(ent[g], req[g]).id = ent[g].id
    BY DEF Assign, ServiceInv, TypeOK, Entity
  <2>2. QED
    BY <1>6, <2>1 DEF UpdateCheck, At, Answer, NamedInv, ServiceInv, TypeOK
<1>7. ASSUME NEW g \in Handlers, SaveRow(g) \/ UpsertRow(g) PROVE NamedInv(h)'
  BY <1>7 DEF SaveRow, UpsertRow, At, Write, Answer, NamedInv, ServiceInv, TypeOK
<1>8. QED
  BY <1>1, <1>2, <1>3, <1>4, <1>5, <1>6, <1>7 DEF Next, Serve

(***************************************************************************)
(* No request touches a row another request put under another id: what an  *)
(* update saves is the record it looked up under the id it names, or one   *)
(* that the sequence gives a new id (service/v1/app_service.go:73, :91).   *)
(***************************************************************************)
THEOREM OtherRowsAreSpared == Spec => RequestsSpareOtherRows
<1>1. Init => \A h \in Handlers : NamedInv(h)
  BY DEF Init, NamedInv
<1>2. ServiceInv /\ (\A h \in Handlers : NamedInv(h)) /\ [Next]_vars
        => (\A h \in Handlers : NamedInv(h))'
  BY NamedStep
<1>3. ServiceInv /\ (\A h \in Handlers : NamedInv(h)) /\ [Next]_vars
        => [\A h \in Handlers :
              pc'[h] # pc[h] => \A i \in Live \ {req[h].id} : rows'[i] = rows[i]]_vars
  <2> SUFFICES ASSUME ServiceInv, \A h \in Handlers : NamedInv(h), Next,
                      NEW h \in Handlers, pc'[h] # pc[h],
                      NEW i \in Live \ {req[h].id}
               PROVE  rows'[i] = rows[i]
    OBVIOUS
  <2>1. i \in Ids /\ i # req[h].id /\ rows[i] # NoRow
    BY DEF Live
  <2>2. PICK g \in Handlers : Serve(g) \/ Malformed(g) \/ \E r \in Requests : Accept(g, r)
    BY DEF Next
  <2>3. CASE rows' = rows
    BY <2>3
  <2>4. CASE AfterCreate(g)
    <3>1. g = h
      BY <2>4 DEF AfterCreate, Write, Answer, ServiceInv, TypeOK
    <3>2. Stamp(ent[h]).id = ent[h].id
      BY DEF Stamp, ServiceInv, TypeOK, Entity
    <3>3. i # ent[h].id
      BY <2>1, <2>4, <3>1 DEF AfterCreate, HookCanRun, ServiceInv, PrivateInv
    <3>4. QED
      BY <2>1, <2>4, <3>1, <3>2, <3>3 DEF AfterCreate, Write, ServiceInv, TypeOK
  <2>5. CASE SaveRow(g) \/ UpsertRow(g)
    <3>1. g = h
      BY <2>5 DEF SaveRow, UpsertRow, Write, Answer, ServiceInv, TypeOK
    <3>2. ent[h].id = req[h].id
      BY <2>5, <3>1 DEF SaveRow, UpsertRow, At, NamedInv, ServiceInv, EntityInv
    <3>3. QED
      BY <2>1, <2>5, <3>1, <3>2 DEF SaveRow, UpsertRow, Write, ServiceInv, TypeOK
  <2>6. CASE DeleteRow(g)
    <3>1. g = h
      BY <2>6 DEF DeleteRow, Write, Answer, ServiceInv, TypeOK
    <3>2. QED
      BY <2>1, <2>6, <3>1 DEF DeleteRow, Write
  <2>7. CASE \/ Malformed(g) \/ \E r \in Requests : Accept(g, r)
             \/ GetFind(g) \/ ListRows(g) \/ CreateCheck(g) \/ InsertRow(g)
             \/ UpdateFind(g) \/ UpdateCheck(g) \/ Reply(g)
    BY <2>3, <2>7 DEF Malformed, Accept, GetFind, ListRows, CreateCheck, InsertRow,
                      UpdateFind, UpdateCheck, Reply
  <2>8. QED
    BY <2>2, <2>4, <2>5, <2>6, <2>7 DEF Serve
<1>4. QED
  BY <1>1, <1>2, <1>3, Invariance, PTL DEF Spec, RequestsSpareOtherRows

-----------------------------------------------------------------------------
\* Names are unique where the existence check of a create can be relied on

\* No create checks between the check and the commit of another one.
CreatesAreSerial ==
    \A g, h \in Handlers :
        pc[g] \in {"insert", "commit"} /\ pc[h] \in {"insert", "commit"} => g = h

\* No live row has the name of the entity that handler h is about to insert.
NameIsNew(h) ==
    ent[h].name # Blank => \A i \in Live : rows[i].name # ent[h].name

\* NameUnique depends on what the check of a create in progress has found.
UniqueInv ==
    /\ NameUnique
    /\ \A h \in Handlers :
        /\ req[h].op # "Update"
        /\ pc[h] \notin {"save", "upsert"}
        /\ pc[h] \in {"insert", "commit"} => NameIsNew(h)

LEMMA UniqueInit == Init => UniqueInv
BY DEF Init, UniqueInv, NameUnique, Live, NoRequest, Request

\* A step that adds no row, and after which only handlers that have checked a
\* name are about to insert it.
LEMMA UniqueStill ==
    ASSUME ServiceInv, UniqueInv,
           \A i \in Ids : rows'[i] = rows[i] \/ rows'[i] = NoRow,
           \A h \in Handlers :
               /\ req'[h].op # "Update"
               /\ pc'[h] \notin {"save", "upsert"}
               /\ pc'[h] \in {"insert", "commit"} =>
                    \/ NameIsNew(h) /\ ent'[h].name = ent[h].name
                    \/ \A i \in Live : rows[i].name # ent'[h].name
                    \/ ent'[h].name = Blank
    PROVE  UniqueInv'
<1>1. \A i \in Live' : i \in Live /\ rows'[i] = rows[i]
  BY DEF Live
<1>2. NameUnique'
  BY <1>1 DEF UniqueInv, NameUnique
<1>3. ASSUME NEW h \in Handlers, pc'[h] \in {"insert", "commit"}
      PROVE  NameIsNew(h)'
  BY <1>1, <1>3 DEF NameIsNew
<1>4. QED
  BY <1>2, <1>3 DEF UniqueInv

\* The commit of a create is the only step that adds a row.
LEMMA UniqueCommit ==
    ASSUME ServiceInv, UniqueInv, CreatesAreSerial,
           NEW h \in Handlers, AfterCreate(h)
    PROVE  UniqueInv'
<1> DEFINE e == Stamp(ent[h])
<1>1. /\ pc[h] = "commit" /\ ent[h] \in Entity /\ ent[h].id \in Ids
      /\ NameIsNew(h)
  BY DEF AfterCreate, HookCanRun, ServiceInv, TypeOK, EntityInv, UniqueInv, Entity
<1>2. e.id = ent[h].id /\ e.name = ent[h].name
  BY <1>1 DEF Stamp, Entity
<1>3. /\ pc' = [pc EXCEPT ![h] = "reply"]
      /\ req' = req
      /\ rows' = rows \/ rows' = [rows EXCEPT ![e.id] = RowOf(e)]
  BY DEF AfterCreate, Write, Answer
<1>4. \A i \in Ids : i # ent[h].id => rows'[i] = rows[i]
  BY <1>2, <1>3 DEF ServiceInv, TypeOK
<1>5. rows'[ent[h].id] = rows[ent[h].id] \/ rows'[ent[h].id].name = ent[h].name
  BY <1>1, <1>2, <1>3 DEF RowOf, ServiceInv, TypeOK
<1>6. rows[ent[h].id] = NoRow
  BY <1>1 DEF ServiceInv, PrivateInv
<1>7. NameUnique'
  <2>1. ASSUME NEW i \in Live', NEW j \in Live', i # j, rows'[i].name # Blank
        PROVE  rows'[i].name # rows'[j].name
    <3>1. i \in Ids /\ j \in Ids /\ rows'[i] # NoRow /\ rows'[j] # NoRow
      BY DEF Live
    <3>2. CASE i # ent[h].id /\ j # ent[h].id
      <4>1. i \in Live /\ j \in Live /\ rows'[i] = rows[i] /\ rows'[j] = rows[j]
        BY <1>4, <3>1, <3>2 DEF Live
      <4>2. QED
        BY <2>1, <4>1 DEF UniqueInv, NameUnique
    <3>3. CASE i = ent[h].id
      <4>1. j \in Live /\ rows'[j] = rows[j]
        BY <1>4, <2>1, <3>1, <3>3 DEF Live
      <4>2. rows'[i].name = ent[h].name
        BY <1>5, <1>6, <3>1, <3>3
      <4>3. QED
        BY <1>1, <2>1, <4>1, <4>2 DEF NameIsNew
    <3>4. CASE j = ent[h].id
      <4>1. i \in Live /\ rows'[i] = rows[i]
        BY <1>4, <2>1, <3>1, <3>4 DEF Live
      <4>2. rows'[j].name = ent[h].name
        BY <1>5, <1>6, <3>1, <3>4
      <4>3. QED
        BY <1>1, <2>1, <4>1, <4>2 DEF NameIsNew
    <3>5. QED
      BY <3>2, <3>3, <3>4
  <2>2. QED
    BY <2>1 DEF NameUnique
<1>8. ASSUME NEW g \in Handlers
      PROVE  /\ req'[g].op # "Update"
             /\ pc'[g] \notin {"save", "upsert"}
             /\ pc'[g] \notin {"insert", "commit"}
  BY <1>1, <1>3 DEF UniqueInv, CreatesAreSerial, ServiceInv, TypeOK
<1>9. QED
  BY <1>7, <1>8 DEF UniqueInv

LEMMA UniqueStep ==
    ASSUME "Update" \notin Ops, Faults = {},
           ServiceInv, UniqueInv, CreatesAreSerial, [Next]_vars
    PROVE  UniqueInv'
<1>1. CASE UNCHANGED vars
  BY <1>1, UniqueStill DEF vars, UniqueInv
<1>2. ASSUME NEW h \in Handlers, NEW r \in Requests, Accept(h, r)
      PROVE  UniqueInv'
  <2>1. FirstStep(r.op) \in {"check", "find", "delete", "list"} /\ r.op # "Update"
    BY <1>2, ConstantsAssumption DEF Accept, FirstStep, AllOps
  <2>2. QED
    BY <1>2, <2>1, UniqueStill DEF Accept, UniqueInv, ServiceInv, TypeOK
<1>3. ASSUME NEW h \in Handlers,
             Malformed(h) \/ GetFind(h) \/ ListRows(h) \/ Reply(h)
      PROVE  UniqueInv'
  <2>1. /\ rows' = rows
        /\ \E label \in {"reply", "idle"} : pc' = [pc EXCEPT ![h] = label]
        /\ \A g \in Handlers \ {h} : ent'[g] = ent[g]
    BY <1>3 DEF Malformed, GetFind, ListRows, Reply, Answer, ServiceInv, TypeOK
  <2>2. req' = req \/ req' = [req EXCEPT ![h] = NoRequest]
    BY <1>3 DEF Malformed, GetFind, ListRows, Reply
  <2>3. \A g \in Handlers : req'[g].op # "Update"
    BY <2>2 DEF UniqueInv, ServiceInv, TypeOK, NoRequest, Request
  <2>4. QED
    BY <2>1, <2>3, UniqueStill DEF UniqueInv, ServiceInv, TypeOK
<1>4. ASSUME NEW h \in Handlers, CreateCheck(h) PROVE UniqueInv'
  <2>1. CASE UNCHANGED ent /\ Answer(h, <<"ErrValidation">>)
    BY <1>4, <2>1, UniqueStill
       DEF CreateCheck, Answer, UniqueInv, ServiceInv, TypeOK
  <2>2. CASE /\ ~CreateTaken(h)
             /\ ent' = [ent EXCEPT ![h] = Assign(ZeroEntity, req[h])]
             /\ pc' = [pc EXCEPT ![h] = "insert"]
    <3>1. Assign(ZeroEntity, req[h]).name = req[h].name
      BY DEF Assign, ZeroEntity
    <3>2. ent'[h].name = req[h].name /\ \A g \in Handlers \ {h} : ent'[g] = ent[g]
      BY <2>2, <3>1 DEF ServiceInv, TypeOK
    <3>3. \A i \in Live : rows[i].name # req[h].name
      BY <2>2 DEF CreateTaken
    <3>4. rows' = rows /\ req' = req
      BY <1>4 DEF CreateCheck
    <3>5. QED
      BY <2>2, <3>2, <3>3, <3>4, UniqueStill DEF UniqueInv, ServiceInv, TypeOK
  <2>3. QED
    BY <1>4, <2>1, <2>2 DEF CreateCheck
<1>5. ASSUME NEW h \in Handlers, InsertRow(h) PROVE UniqueInv'
  <2>1. /\ rows' = rows /\ req' = req /\ pc[h] = "insert"
        /\ pc' = [pc EXCEPT ![h] = "commit"] \/ pc' = [pc EXCEPT ![h] = "reply"]
    BY <1>5 DEF InsertRow, At, Answer
  <2>2. \A g \in Handlers : ent'[g].name = ent[g].name
    BY <1>5 DEF InsertRow, ServiceInv, TypeOK, Entity
  <2>3. QED
    BY <2>1, <2>2, UniqueStill DEF UniqueInv, ServiceInv, TypeOK
<1>6. ASSUME NEW h \in Handlers, AfterCreate(h) PROVE UniqueInv'
  BY <1>6, UniqueCommit
<1>7. ASSUME NEW h \in Handlers, DeleteRow(h) PROVE UniqueInv'
  <2>1. /\ \A i \in Ids : rows'[i] = rows[i] \/ rows'[i] = NoRow
        /\ req' = req /\ ent' = ent /\ pc' = [pc EXCEPT ![h] = "reply"]
    BY <1>7 DEF DeleteRow, Write, Answer
  <2>2. QED
    BY <2>1, UniqueStill DEF UniqueInv, ServiceInv, TypeOK
<1>8. ASSUME NEW h \in Handlers
      PROVE  ~UpdateFind(h) /\ ~UpdateCheck(h) /\ ~SaveRow(h) /\ ~UpsertRow(h)
  BY DEF UniqueInv, UpdateFind, UpdateCheck, SaveRow, UpsertRow, At
<1>9. QED
  BY <1>1, <1>2, <1>3, <1>4, <1>5, <1>6, <1>7, <1>8 DEF Next, Serve

(***************************************************************************)
(* Without updates and failing statements, names are unique as long as no  *)
(* create is checked before the one in progress has committed, however     *)
(* many deletes and reads run meanwhile: the check and the insert are two  *)
(* statements outside any transaction (service/v1/app_service.go:55).      *)
(***************************************************************************)
THEOREM SerialCreatesKeepNamesUnique ==
    ASSUME "Update" \notin Ops, Faults = {}
    PROVE  Spec /\ []CreatesAreSerial => []NameUnique
<1>1. UniqueInv => NameUnique
  BY DEF UniqueInv
<1>2. ServiceInv /\ UniqueInv /\ CreatesAreSerial /\ [Next]_vars => UniqueInv'
  BY UniqueStep
<1>3. QED
  BY <1>1, <1>2, UniqueInit, Invariance, PTL DEF Spec

(***************************************************************************)
(* In particular the checks suffice for a client that has them to itself.  *)
(***************************************************************************)
THEOREM OneHandlerKeepsNamesUnique ==
    ASSUME NEW h, Handlers = {h}, "Update" \notin Ops, Faults = {}
    PROVE  Spec => []NameUnique
<1>1. CreatesAreSerial
  BY DEF CreatesAreSerial
<1>2. QED
  BY <1>1, SerialCreatesKeepNamesUnique, PTL

-----------------------------------------------------------------------------
\* What the check of a create is worth with everything else going on

\* A handler that is cleared has a name no other one has, and no vouched row.
HistoryInv ==
    /\ \A h \in cleared : h \in Handlers /\ Inserting(h)
    /\ \A i \in vouched : i \in Live
    /\ VouchedNamesUnique
    /\ \A h \in cleared, i \in vouched : rows[i].name # ent[h].name
    /\ \A g, h \in cleared : g # h => ent[g].name # ent[h].name

\* On its way to the commit a handler keeps the name it inserts.
LEMMA NameKept ==
    ASSUME ServiceInv, [Next]_vars, NEW h \in Handlers, Inserting(h), Inserting(h)'
    PROVE  ent'[h].name = ent[h].name
<1> USE DEF Inserting
<1>1. CASE UNCHANGED vars
  BY <1>1 DEF vars
<1>2. ASSUME NEW g \in Handlers, NEW r \in Requests, Accept(g, r)
      PROVE  ent'[h].name = ent[h].name
  BY <1>2 DEF Accept
<1>3. ASSUME NEW g \in Handlers, Malformed(g) \/ ListRows(g) \/ SaveRow(g)
                                 \/ UpsertRow(g) \/ DeleteRow(g)
      PROVE  ent'[h].name = ent[h].name
  BY <1>3 DEF Malformed, ListRows, SaveRow, UpsertRow, DeleteRow
<1>4. ASSUME NEW g \in Handlers, GetFind(g) \/ UpdateFind(g) \/ Reply(g)
                                 \/ CreateCheck(g) \/ UpdateCheck(g)
      PROVE  ent'[h].name = ent[h].name
  <2>1. /\ pc[g] \in {"find", "reply", "check"}
        /\ \A k \in Handlers \ {g} : ent'[k] = ent[k]
    BY <1>4 DEF GetFind, UpdateFind, Reply, CreateCheck, UpdateCheck, At,
                ServiceInv, TypeOK
  <2>2. QED
    BY <2>1
<1>5. ASSUME NEW g \in Handlers, InsertRow(g)
      PROVE  ent'[h].name = ent[h].name
  BY <1>5 DEF InsertRow, ServiceInv, TypeOK, Entity
<1>6. ASSUME NEW g \in Handlers, AfterCreate(g)
      PROVE  ent'[h].name = ent[h].name
  <2>1. Stamp(ent[g]).name = ent[g].name
    BY DEF Stamp, ServiceInv, TypeOK, Entity
  <2>2. QED
    BY <1>6, <2>1 DEF AfterCreate, ServiceInv, TypeOK
<1>7. QED
  BY <1>1, <1>2, <1>3, <1>4, <1>5, <1>6 DEF Next, Serve

\* A handler that is cleared in a step takes the name of its request, and
\* nobody else moves.
LEMMA ClearingStep ==
    ASSUME ServiceInv, [Next]_vars, NEW h \in Handlers, Clears(h)
    PROVE  /\ ent'[h].name = req[h].name
           /\ rows' = rows
           /\ \A g \in Handlers \ {h} : pc'[g] = pc[g] /\ ent'[g] = ent[g]
<1>1. /\ pc[h] = "check" /\ pc'[h] = "insert" /\ pc'[h] # pc[h]
      /\ req[h].op = "Create"
  BY DEF Clears
<1>2. CreateCheck(h)
  <2>1. PICK g \in Handlers : Serve(g) \/ Malformed(g) \/ \E r \in Requests : Accept(g, r)
    BY <1>1 DEF vars, Next
  <2>2. CASE \E r \in Requests : Accept(g, r)
    BY <1>1, <2>2, ConstantsAssumption
       DEF Accept, FirstStep, AllOps, ServiceInv, TypeOK
  <2>3. CASE Malformed(g) \/ GetFind(g) \/ ListRows(g) \/ Reply(g) \/ AfterCreate(g)
             \/ UpsertRow(g) \/ DeleteRow(g)
    <3>1. pc' = [pc EXCEPT ![g] = "reply"] \/ pc' = [pc EXCEPT ![g] = "idle"]
      BY <2>3 DEF Malformed, GetFind, ListRows, Reply, AfterCreate, UpsertRow,
                  DeleteRow, Write, Answer
    <3>2. QED
      BY <1>1, <3>1 DEF ServiceInv, TypeOK
  <2>4. CASE InsertRow(g) \/ SaveRow(g) \/ UpdateFind(g) \/ UpdateCheck(g)
    <3>1. /\ pc[g] \in {"insert", "save", "find"} \/ req[g].op = "Update"
          /\ \A k \in Handlers \ {g} : pc'[k] = pc[k]
      BY <2>4 DEF InsertRow, SaveRow, UpdateFind, UpdateCheck, At, Write, Answer,
                  ServiceInv, TypeOK
    <3>2. QED
      BY <1>1, <3>1
  <2>5. CASE CreateCheck(g)
    <3>1. \A k \in Handlers \ {g} : pc'[k] = pc[k]
      BY <2>5 DEF CreateCheck, Answer, ServiceInv, TypeOK
    <3>2. QED
      BY <1>1, <2>5, <3>1
  <2>6. QED
    BY <2>1, <2>2, <2>3, <2>4, <2>5 DEF Serve
<1>3. Assign(ZeroEntity, req[h]).name = req[h].name
  BY DEF Assign, ZeroEntity
<1>4. /\ ent' = [ent EXCEPT ![h] = Assign(ZeroEntity, req[h])]
      /\ pc' = [pc EXCEPT ![h] = "insert"]
      /\ rows' = rows
  BY <1>1, <1>2 DEF CreateCheck, Answer, ServiceInv, TypeOK
<1>5. QED
  BY <1>3, <1>4 DEF ServiceInv, TypeOK

\* The row that a handler's transaction adds has the name of its entity, and
\* the handler has then left.
LEMMA VouchingStep ==
    ASSUME ServiceInv, [Next]_vars, NEW h \in Handlers, NEW i \in Ids,
           HeldBy(h) = i, rows[i] = NoRow, rows'[i] # NoRow
    PROVE  /\ rows'[i].name = ent[h].name
           /\ pc'[h] = "reply"
           /\ \A j \in Ids \ {i} : rows'[j] = rows[j]
           /\ \A g \in Handlers \ {h} : pc'[g] = pc[g]
<1>1. /\ pc[h] = "commit" /\ ent[h].id = i
      /\ \A g \in Handlers \ {h} : ent[g].id # i
  BY ConstantsAssumption DEF HeldBy, Ids, ServiceInv, PrivateInv
<1>2. AfterCreate(h)
  <2>1. PICK g \in Handlers : Serve(g) \/ Malformed(g) \/ \E r \in Requests : Accept(g, r)
    BY DEF vars, Next
  <2>2. CASE \/ Malformed(g) \/ \E r \in Requests : Accept(g, r)
             \/ GetFind(g) \/ ListRows(g) \/ CreateCheck(g) \/ InsertRow(g)
             \/ UpdateFind(g) \/ UpdateCheck(g) \/ Reply(g)
    BY <2>2 DEF Malformed, Accept, GetFind, ListRows, CreateCheck, InsertRow,
                UpdateFind, UpdateCheck, Reply
  <2>3. CASE SaveRow(g) \/ UpsertRow(g)
    <3>1. g # h /\ ent[g].id # i
      BY <1>1, <2>3 DEF SaveRow, UpsertRow, At
    <3>2. QED
      BY <2>3, <3>1 DEF SaveRow, UpsertRow, Write, ServiceInv, TypeOK
  <2>4. CASE DeleteRow(g)
    BY <2>4 DEF DeleteRow, Write
  <2>5. CASE AfterCreate(g)
    <3>1. Stamp(ent[g]).id = ent[g].id
      BY DEF Stamp, ServiceInv, TypeOK, Entity
    <3>2. ent[g].id = i
      BY <2>5, <3>1 DEF AfterCreate, Write, ServiceInv, TypeOK
    <3>3. QED
      BY <1>1, <2>5, <3>2
  <2>6. QED
    BY <2>1, <2>2, <2>3, <2>4, <2>5 DEF Serve
<1>3. Stamp(ent[h]).id = ent[h].id /\ Stamp(ent[h]).name = ent[h].name
  BY DEF Stamp, ServiceInv, TypeOK, Entity
<1>4. /\ rows' = rows \/ rows' = [rows EXCEPT ![i] = RowOf(Stamp(ent[h]))]
      /\ pc' = [pc EXCEPT ![h] = "reply"]
  BY <1>1, <1>2, <1>3 DEF AfterCreate, Write, Answer
<1>5. RowOf(Stamp(ent[h])).name = ent[h].name
  BY <1>3 DEF RowOf
<1>6. QED
  BY <1>4, <1>5 DEF ServiceInv, TypeOK

LEMMA HistoryStep ==
    ASSUME ServiceInv, HistoryInv, [HistoryNext]_historyVars
    PROVE  HistoryInv'
<1>1. CASE UNCHANGED historyVars
  BY <1>1 DEF historyVars, HistoryInv, Inserting, Live, VouchedNamesUnique
<1> SUFFICES ASSUME Next, Remember PROVE HistoryInv'
  BY <1>1 DEF HistoryNext
<1>2. ASSUME NEW h \in cleared'
      PROVE  /\ h \in Handlers /\ Inserting(h)'
             /\ \/ h \in cleared /\ Inserting(h) /\ ent'[h].name = ent[h].name
                \/ Clears(h)
  <2>1. h \in Handlers /\ Inserting(h)' /\ (h \in cleared \/ Clears(h))
    BY DEF Remember
  <2>2. QED
    BY <2>1, NameKept DEF HistoryInv
<1>3. ASSUME NEW i \in vouched'
      PROVE  /\ i \in Ids
             /\ \/ i \in vouched /\ i \in Live /\ rows'[i] = rows[i]
                \/ Vouches(i)
  BY DEF Remember, HistoryInv
<1>4. ASSUME NEW i \in vouched', NEW h \in Handlers, Clears(h)
      PROVE  i \in vouched /\ rows[i].name # req[h].name /\ rows'[i] = rows[i]
  <2>1. rows' = rows /\ ~CreateTaken(h)
    BY <1>4, ClearingStep DEF Clears
  <2>2. i \in vouched /\ i \in Live
    BY <1>3, <2>1 DEF Vouches
  <2>3. QED
    BY <2>1, <2>2 DEF CreateTaken
<1>5. ASSUME NEW i \in Ids, Vouches(i)
      PROVE  \E h \in cleared : /\ h \in Handlers /\ ~Inserting(h)'
                                /\ rows'[i].name = ent[h].name
                                /\ \A j \in Ids \ {i} : rows'[j] = rows[j]
  <2>1. PICK h \in cleared : HeldBy(h) = i
    BY <1>5 DEF Vouches
  <2>2. h \in Handlers
    BY DEF HistoryInv
  <2>3. QED
    BY <1>5, <2>1, <2>2, VouchingStep DEF Vouches, Inserting
<1>6. \A i \in vouched' : i \in Live'
  BY <1>3 DEF Live, Vouches
<1>7. ASSUME NEW i \in vouched', NEW j \in vouched', i # j
      PROVE  rows'[i].name # rows'[j].name
  <2>1. CASE i \in vouched /\ j \in vouched /\ rows'[i] = rows[i] /\ rows'[j] = rows[j]
    BY <1>7, <2>1 DEF HistoryInv, VouchedNamesUnique
  <2>2. ASSUME NEW k \in vouched', NEW l \in vouched', k # l, Vouches(k)
        PROVE  rows'[k].name # rows'[l].name
    <3>1. PICK h \in cleared : /\ h \in Handlers
                               /\ rows'[k].name = ent[h].name
                               /\ \A m \in Ids \ {k} : rows'[m] = rows[m]
      BY <1>3, <1>5, <2>2
    <3>2. l \in vouched /\ rows'[l] = rows[l]
      BY <1>3, <2>2, <3>1 DEF Vouches
    <3>3. QED
      BY <3>1, <3>2 DEF HistoryInv
  <2>3. QED
    BY <1>3, <1>7, <2>1, <2>2
<1>8. ASSUME NEW h \in cleared', NEW i \in vouched'
      PROVE  rows'[i].name # ent'[h].name
  <2>1. CASE Clears(h)
    BY <1>2, <1>4, <2>1, ClearingStep
  <2>2. CASE /\ h \in cleared /\ ent'[h].name = ent[h].name
             /\ i \in vouched /\ rows'[i] = rows[i]
    BY <2>2 DEF HistoryInv
  <2>3. CASE h \in cleared /\ ent'[h].name = ent[h].name /\ Vouches(i)
    <3>1. PICK g \in cleared : /\ g \in Handlers /\ ~Inserting(g)'
                               /\ rows'[i].name = ent[g].name
      BY <1>3, <1>5, <2>3
    <3>2. g # h
      BY <1>2, <3>1
    <3>3. QED
      BY <2>3, <3>1, <3>2 DEF HistoryInv
  <2>4. QED
    BY <1>2, <1>3, <2>1, <2>2, <2>3
<1>9. ASSUME NEW g \in cleared', NEW h \in cleared', g # h
      PROVE  ent'[g].name # ent'[h].name
  <2>1. ASSUME NEW k \in cleared', NEW l \in cleared', k # l, Clears(k)
        PROVE  ent'[k].name # ent'[l].name
    <3>1. /\ k \in Handlers /\ l \in Handlers /\ Inserting(l)'
          /\ ent'[k].name = req[k].name
          /\ pc'[l] = pc[l] /\ ent'[l] = ent[l]
      BY <1>2, <2>1, ClearingStep
    <3>2. Inserting(l)
      BY <3>1 DEF Inserting
    <3>3. ent[l].name # req[k].name
      BY <2>1, <3>1, <3>2 DEF Clears
    <3>4. QED
      BY <3>1, <3>3
  <2>2. CASE g \in cleared /\ h \in cleared /\ ent'[g].name = ent[g].name
             /\ ent'[h].name = ent[h].name
    BY <1>9, <2>2 DEF HistoryInv
  <2>3. QED
    BY <1>2, <1>9, <2>1, <2>2
<1>10. QED
  BY <1>2, <1>6, <1>7, <1>8, <1>9 DEF HistoryInv, VouchedNamesUnique

(***************************************************************************)
(* Two rows of one name need an update, a check that failed or two creates *)
(* that overlap, for any number of handlers and whatever else they do: the *)
(* check of a create (service/v1/app_service.go:55) misses nothing else.   *)
(***************************************************************************)
THEOREM ChecksKeepNamesUnique == HistorySpec => []VouchedNamesUnique
<1>1. HistoryInit => HistoryInv
  BY DEF HistoryInit, HistoryInv, VouchedNamesUnique
<1>2. HistoryInit => Init
  BY DEF HistoryInit
<1>3. [HistoryNext]_historyVars => [Next]_vars
  BY DEF HistoryNext, historyVars, vars
<1>4. HistoryInv => VouchedNamesUnique
  BY DEF HistoryInv
<1>5. HistorySpec => Spec
  BY <1>2, <1>3, PTL DEF HistorySpec, Spec
<1>6. ServiceInv /\ HistoryInv /\ [HistoryNext]_historyVars => HistoryInv'
  BY HistoryStep
<1>7. QED
  BY <1>1, <1>4, <1>5, <1>6, Invariance, PTL DEF HistorySpec
=============================================================================

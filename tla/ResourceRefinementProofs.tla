---------------------- MODULE ResourceRefinementProofs ----------------------
(***************************************************************************)
(* ResourceService implements ResourceCatalog, for every value of the      *)
(* constants.                                                              *)
(***************************************************************************)
EXTENDS ResourceServiceProofs

\* Where a handler is determines the kind of request it serves, and ties the
\* entity it holds to that request.
Serves(h) ==
    /\ pc[h] = "idle" => req[h] = NoRequest
    /\ pc[h] = "find" => req[h].op \in {"Get", "Update"}
    /\ pc[h] = "list" => req[h].op = "List"
    /\ pc[h] = "delete" => req[h].op = "Delete"
    /\ pc[h] \in {"check", "insert", "commit"} => req[h].op \in {"Create", "Update"}
    /\ pc[h] = "check" => ent[h].id \in {0, req[h].id}
    /\ pc[h] \in {"save", "upsert"} => req[h].op = "Update" /\ ent[h].id = req[h].id
    /\ pc[h] \in {"insert", "commit", "save", "upsert"}
          => ent[h].name = req[h].name /\ ent[h].desc = req[h].desc

ServesInv == \A h \in Handlers : Serves(h)

-----------------------------------------------------------------------------
\* The second invariant

LEMMA ServesInit == Init => ServesInv
BY DEF Init, ServesInv, Serves

\* A handler that answers, or returns to idle, no longer serves anything that
\* Serves speaks of; the other handlers are where they were.
LEMMA ServesStep == ServiceInv /\ ServesInv /\ [Next]_vars => ServesInv'
<1> SUFFICES ASSUME ServiceInv, ServesInv, [Next]_vars PROVE ServesInv'
  OBVIOUS
<1> USE DEF ServesInv, Serves
<1>1. CASE UNCHANGED vars
  BY <1>1 DEF vars
<1>2. SUFFICES ASSUME NEW h \in Handlers,
                      \/ \E r \in Requests : Accept(h, r)
                      \/ Malformed(h) \/ Serve(h)
               PROVE  ServesInv'
  BY <1>1 DEF Next
<1> USE DEF ServiceInv, TypeOK
<1>3. ASSUME NEW r \in Requests, Accept(h, r) PROVE ServesInv'
  <2>1. \/ r.op = "Create" /\ FirstStep(r.op) = "check"
        \/ r.op \in {"Update", "Get"} /\ FirstStep(r.op) = "find"
        \/ r.op = "Delete" /\ FirstStep(r.op) = "delete"
        \/ r.op = "List" /\ FirstStep(r.op) = "list"
    BY <1>3, ConstantsAssumption DEF Accept, FirstStep, AllOps
  <2>2. ent[h].id = 0
    BY <1>3 DEF Accept, EntityInv
  <2>3. QED
    BY <1>3, <2>1, <2>2 DEF Accept
<1>4. CASE Malformed(h)
  BY <1>4 DEF Malformed, Answer
<1>5. CASE Reply(h)
  BY <1>5 DEF Reply
<1>6. CASE GetFind(h) \/ ListRows(h)
  BY <1>6 DEF GetFind, ListRows, At, Answer
<1>7. CASE CreateCheck(h)
  <2>1. /\ Assign(ZeroEntity, req[h]).name = req[h].name
        /\ Assign(ZeroEntity, req[h]).desc = req[h].desc
    BY DEF Assign, ZeroEntity
  <2>2. QED
    BY <1>7, <2>1 DEF CreateCheck, At, Answer
<1>8. CASE InsertRow(h)
  BY <1>8 DEF InsertRow, At, Answer, Entity
<1>9. CASE AfterCreate(h)
  BY <1>9 DEF AfterCreate, HookCanRun, Write, Answer
<1>10. CASE UpdateFind(h)
  <2>1. Lookup(req[h].id).id \in {0, req[h].id}
    BY DEF Lookup, EntityOf, ZeroEntity
  <2>2. QED
    BY <1>10, <2>1 DEF UpdateFind, At, Answer
<1>11. CASE UpdateCheck(h)
  <2>1. /\ Assign(ent[h], req[h]).name = req[h].name
        /\ Assign(ent[h], req[h]).desc = req[h].desc
        /\ Assign(ent[h], req[h]).id = ent[h].id
    BY DEF Assign, Entity
  <2>2. QED
    BY <1>11, <2>1 DEF UpdateCheck, At, Answer
<1>12. CASE SaveRow(h) \/ UpsertRow(h) \/ DeleteRow(h)
  BY <1>12 DEF SaveRow, UpsertRow, DeleteRow, At, Write, Answer
<1>13. QED
  BY <1>2, <1>3, <1>4, <1>5, <1>6, <1>7, <1>8, <1>9, <1>10, <1>11, <1>12 DEF Serve

-----------------------------------------------------------------------------
\* How the mapped variables move

\* The answer of one handler moves its phase and its held id, no one else's.
LEMMA PhaseStep ==
    ASSUME ServiceInv, NEW h \in Handlers, NEW label \in PCs,
           pc' = [pc EXCEPT ![h] = label],
           NEW a \in Outs, out' = [out EXCEPT ![h] = a],
           NEW e \in Entity, ent' = [ent EXCEPT ![h] = e]
    PROVE  /\ [g \in Handlers |-> PhaseOf(g)'] =
                [[g \in Handlers |-> PhaseOf(g)] EXCEPT ![h] = PhaseOf(h)']
           /\ [g \in Handlers |-> HeldBy(g)'] =
                [[g \in Handlers |-> HeldBy(g)] EXCEPT ![h] = HeldBy(h)']
           /\ PhaseOf(h)' = IF label = "idle" THEN "idle"
                            ELSE IF label # "reply" THEN "open"
                            ELSE IF a = <<"ok">> THEN "applied"
                            ELSE IF a \in Refusals THEN "refused" ELSE "failed"
           /\ HeldBy(h)' = IF label = "commit" THEN e.id ELSE 0
<1>1. pc'[h] = label /\ out'[h] = a /\ ent'[h] = e
  BY DEF ServiceInv, TypeOK
<1>2. ASSUME NEW g \in Handlers \ {h}
      PROVE  pc'[g] = pc[g] /\ out'[g] = out[g] /\ ent'[g] = ent[g]
  BY DEF ServiceInv, TypeOK
<1>3. ASSUME NEW g \in Handlers \ {h}
      PROVE  PhaseOf(g)' = PhaseOf(g) /\ HeldBy(g)' = HeldBy(g)
  BY <1>2 DEF PhaseOf, HeldBy
<1>4. /\ PhaseOf(h)' = IF label = "idle" THEN "idle"
                       ELSE IF label # "reply" THEN "open"
                       ELSE IF a = <<"ok">> THEN "applied"
                       ELSE IF a \in Refusals THEN "refused" ELSE "failed"
      /\ HeldBy(h)' = IF label = "commit" THEN e.id ELSE 0
  BY <1>1 DEF PhaseOf, HeldBy
<1>5. [g \in Handlers |-> PhaseOf(g)'] =
        [[g \in Handlers |-> PhaseOf(g)] EXCEPT ![h] = PhaseOf(h)']
  BY <1>3
<1>6. [g \in Handlers |-> HeldBy(g)'] =
        [[g \in Handlers |-> HeldBy(g)] EXCEPT ![h] = HeldBy(h)']
  BY <1>3
<1>7. QED
  BY <1>4, <1>5, <1>6

\* A handler in the middle of its request has an open call, and holds an id
\* only while its transaction is open.
LEMMA PhaseNow ==
    ASSUME NEW h \in Handlers, pc[h] \notin {"idle", "reply"}
    PROVE  /\ [g \in Handlers |-> PhaseOf(g)][h] = "open"
           /\ [g \in Handlers |-> HeldBy(g)][h] =
                IF pc[h] = "commit" THEN ent[h].id ELSE 0
BY DEF PhaseOf, HeldBy

\* A refusal or a failure before any effect.
LEMMA AbandonRefines ==
    ASSUME ServiceInv, NEW h \in Handlers, pc[h] \notin {"idle", "reply"},
           NEW a \in Outs \ {<<"ok">>}, Answer(h, a),
           NEW e \in Entity, ent' = [ent EXCEPT ![h] = e],
           UNCHANGED <<rows, nextId, req>>
    PROVE  Catalog!Abandon(h)
<1>1. /\ \/ [g \in Handlers |-> PhaseOf(g)'] =
               [[g \in Handlers |-> PhaseOf(g)] EXCEPT ![h] = "refused"]
         \/ [g \in Handlers |-> PhaseOf(g)'] =
               [[g \in Handlers |-> PhaseOf(g)] EXCEPT ![h] = "failed"]
      /\ [g \in Handlers |-> HeldBy(g)'] =
            [[g \in Handlers |-> HeldBy(g)] EXCEPT ![h] = 0]
  <2>1. "reply" \in PCs
    BY DEF PCs
  <2>2. QED
    BY <2>1, PhaseStep DEF Answer
<1>2. [g \in Handlers |-> PhaseOf(g)][h] = "open"
  BY PhaseNow
<1>3. [i \in Ids |-> ValueOf(i)'] = [i \in Ids |-> ValueOf(i)]
  BY DEF ValueOf
<1>4. QED
  BY <1>1, <1>2, <1>3 DEF Catalog!Abandon, Catalog!Move, Catalog!Release

\* A read or a check that does not answer yet: the catalogue does not notice.
LEMMA SilentRefines ==
    ASSUME ServiceInv, NEW h \in Handlers,
           pc[h] \in {"find", "check", "save"},
           NEW label \in {"check", "insert", "save", "upsert"},
           pc' = [pc EXCEPT ![h] = label],
           NEW e \in Entity, ent' = [ent EXCEPT ![h] = e],
           UNCHANGED <<rows, nextId, req, out>>
    PROVE  UNCHANGED Catalog!catalogVars
<1>1. label \in PCs /\ out[h] \in Outs /\ out' = [out EXCEPT ![h] = out[h]]
  BY DEF ServiceInv, TypeOK, PCs
<1>2. /\ [g \in Handlers |-> PhaseOf(g)'] =
            [[g \in Handlers |-> PhaseOf(g)] EXCEPT ![h] = "open"]
      /\ [g \in Handlers |-> HeldBy(g)'] =
            [[g \in Handlers |-> HeldBy(g)] EXCEPT ![h] = 0]
  BY <1>1, PhaseStep
<1>3. /\ [g \in Handlers |-> PhaseOf(g)][h] = "open"
      /\ [g \in Handlers |-> HeldBy(g)][h] = 0
  BY PhaseNow
<1>4. [i \in Ids |-> ValueOf(i)'] = [i \in Ids |-> ValueOf(i)]
  BY DEF ValueOf
<1>5. QED
  BY <1>2, <1>3, <1>4 DEF Catalog!catalogVars

\* What a statement that had its effect may be answered with.
LEMMA NoRefusal == <<"ok">> \notin Refusals /\ <<"ErrDatabase">> \notin Refusals
BY DEF Refusals

\* A statement that has its effect, and answers so or reports a failure.
LEMMA ApplyRefines ==
    ASSUME ServiceInv, NEW h \in Handlers, pc[h] \notin {"idle", "reply"},
           NEW a \in Outs \ Refusals, Answer(h, a),
           NEW e \in Entity, ent' = [ent EXCEPT ![h] = e],
           Catalog!Effect(h),
           UNCHANGED <<nextId, req>>
    PROVE  Catalog!Apply(h)
<1>1. /\ \/ [g \in Handlers |-> PhaseOf(g)'] =
               [[g \in Handlers |-> PhaseOf(g)] EXCEPT ![h] = "applied"]
         \/ [g \in Handlers |-> PhaseOf(g)'] =
               [[g \in Handlers |-> PhaseOf(g)] EXCEPT ![h] = "failed"]
      /\ [g \in Handlers |-> HeldBy(g)'] =
            [[g \in Handlers |-> HeldBy(g)] EXCEPT ![h] = 0]
  <2>1. "reply" \in PCs
    BY DEF PCs
  <2>2. QED
    BY <2>1, PhaseStep DEF Answer
<1>2. [g \in Handlers |-> PhaseOf(g)][h] = "open"
  BY PhaseNow
<1>3. QED
  BY <1>1, <1>2 DEF Catalog!Apply, Catalog!Move, Catalog!Release

\* A write applies its effect or, if it fails, abandons the call.
LEMMA WriteRefines ==
    ASSUME ServiceInv, NEW h \in Handlers, pc[h] \notin {"idle", "reply"},
           NEW table, Write(h, table),
           NEW e \in Entity, ent' = [ent EXCEPT ![h] = e],
           rows' = table => Catalog!Effect(h),
           UNCHANGED <<nextId, req>>
    PROVE  Catalog!Apply(h) \/ Catalog!Abandon(h)
<1>1. PICK o \in {"ok"} \union Faults :
        /\ rows' = IF o = "fail" THEN rows ELSE table
        /\ Answer(h, IF o = "ok" THEN <<"ok">> ELSE <<"ErrDatabase">>)
  BY DEF Write
<1>2. <<"ok">> \in Outs /\ <<"ErrDatabase">> \in Outs \ {<<"ok">>}
  BY DEF Outs, ErrorCodes
<1>3. CASE o = "fail"
  <2>1. UNCHANGED rows /\ Answer(h, <<"ErrDatabase">>)
    BY <1>1, <1>3
  <2>2. QED
    BY <1>2, <2>1, AbandonRefines
<1>4. CASE o # "fail"
  <2>1. Catalog!Effect(h)
    BY <1>1, <1>4
  <2>2. PICK a \in {<<"ok">>, <<"ErrDatabase">>} : Answer(h, a)
    BY <1>1
  <2>3. a \in Outs \ Refusals
    BY <1>2, <2>2, NoRefusal
  <2>4. QED
    BY <2>1, <2>2, <2>3, ApplyRefines
<1>5. QED
  BY <1>3, <1>4

-----------------------------------------------------------------------------
\* Every step of the handlers is a step of the catalogue, or invisible in it

LEMMA InvokeRefines ==
    ASSUME ServiceInv, NEW h \in Handlers, NEW r \in Requests, Accept(h, r)
    PROVE  Catalog!Invoke(h)
<1>1. FirstStep(r.op) \in {"check", "find", "delete", "list"}
  BY ConstantsAssumption DEF Accept, FirstStep, AllOps
<1>2. /\ out[h] \in Outs /\ out' = [out EXCEPT ![h] = out[h]]
      /\ ent[h] \in Entity /\ ent' = [ent EXCEPT ![h] = ent[h]]
      /\ FirstStep(r.op) \in PCs
      /\ pc[h] = "idle" /\ pc' = [pc EXCEPT ![h] = FirstStep(r.op)]
  BY <1>1 DEF Accept, ServiceInv, TypeOK, PCs
<1>3. /\ [g \in Handlers |-> PhaseOf(g)'] =
            [[g \in Handlers |-> PhaseOf(g)] EXCEPT ![h] = "open"]
      /\ [g \in Handlers |-> HeldBy(g)'] =
            [[g \in Handlers |-> HeldBy(g)] EXCEPT ![h] = 0]
  BY <1>1, <1>2, PhaseStep
<1>4. /\ [g \in Handlers |-> PhaseOf(g)][h] = "idle"
      /\ [g \in Handlers |-> HeldBy(g)][h] = 0
  BY <1>2 DEF PhaseOf, HeldBy
<1>5. [g \in Handlers |-> CallOf(req'[g])] =
        [[g \in Handlers |-> CallOf(req[g])] EXCEPT ![h] = CallOf(r)]
  BY DEF Accept, ServiceInv, TypeOK
<1>6. [i \in Ids |-> ValueOf(i)'] = [i \in Ids |-> ValueOf(i)]
  BY DEF Accept, ValueOf
<1>7. UNCHANGED nextId
  BY DEF Accept
<1>8. [g \in Handlers |-> HeldBy(g)'] = [g \in Handlers |-> HeldBy(g)]
  BY <1>3, <1>4
<1>9. QED
  BY <1>3, <1>4, <1>5, <1>6, <1>7, <1>8 DEF Catalog!Invoke, Catalog!Move

LEMMA RefuseRefines ==
    ASSUME ServiceInv, NEW h \in Handlers, Malformed(h)
    PROVE  Catalog!Refuse(h)
<1>1. /\ <<"ErrBind">> \in Outs /\ <<"ErrBind">> # <<"ok">>
      /\ ent[h] \in Entity /\ ent' = [ent EXCEPT ![h] = ent[h]]
      /\ "reply" \in PCs
      /\ pc[h] = "idle" /\ pc' = [pc EXCEPT ![h] = "reply"]
      /\ out' = [out EXCEPT ![h] = <<"ErrBind">>]
  BY DEF Malformed, Answer, ServiceInv, TypeOK, PCs, Outs, ErrorCodes
<1>2. /\ [g \in Handlers |-> PhaseOf(g)'] =
            [[g \in Handlers |-> PhaseOf(g)] EXCEPT ![h] = "refused"]
      /\ [g \in Handlers |-> HeldBy(g)'] =
            [[g \in Handlers |-> HeldBy(g)] EXCEPT ![h] = 0]
  BY <1>1, PhaseStep DEF Refusals
<1>3. /\ [g \in Handlers |-> PhaseOf(g)][h] = "idle"
      /\ [g \in Handlers |-> HeldBy(g)][h] = 0
  BY <1>1 DEF PhaseOf, HeldBy
<1>4. [i \in Ids |-> ValueOf(i)'] = [i \in Ids |-> ValueOf(i)]
  BY DEF Malformed, ValueOf
<1>5. UNCHANGED <<nextId, req>>
  BY DEF Malformed
<1>6. [g \in Handlers |-> HeldBy(g)'] = [g \in Handlers |-> HeldBy(g)]
  BY <1>2, <1>3
<1>7. QED
  BY <1>2, <1>3, <1>4, <1>5, <1>6 DEF Catalog!Refuse, Catalog!Move

LEMMA RespondRefines ==
    ASSUME ServiceInv, NEW h \in Handlers, Reply(h)
    PROVE  Catalog!Respond(h)
<1>1. /\ <<>> \in Outs /\ ZeroEntity \in Entity /\ "idle" \in PCs
      /\ pc[h] = "reply" /\ pc' = [pc EXCEPT ![h] = "idle"]
      /\ out' = [out EXCEPT ![h] = <<>>] /\ ent' = [ent EXCEPT ![h] = ZeroEntity]
  BY ConstantsAssumption
     DEF Reply, Outs, ZeroEntity, Entity, Instances, PCs
<1>2. /\ [g \in Handlers |-> PhaseOf(g)'] =
            [[g \in Handlers |-> PhaseOf(g)] EXCEPT ![h] = "idle"]
      /\ [g \in Handlers |-> HeldBy(g)'] =
            [[g \in Handlers |-> HeldBy(g)] EXCEPT ![h] = 0]
  BY <1>1, PhaseStep
<1>3. /\ [g \in Handlers |-> PhaseOf(g)][h] \in {"applied", "refused", "failed"}
      /\ [g \in Handlers |-> HeldBy(g)][h] = 0
  BY <1>1 DEF PhaseOf, HeldBy
<1>4. [g \in Handlers |-> CallOf(req'[g])] =
        [[g \in Handlers |-> CallOf(req[g])] EXCEPT ![h] = CallOf(NoRequest)]
  BY DEF Reply, ServiceInv, TypeOK
<1>5. [i \in Ids |-> ValueOf(i)'] = [i \in Ids |-> ValueOf(i)]
  BY DEF Reply, ValueOf
<1>6. UNCHANGED nextId
  BY DEF Reply
<1>7. [g \in Handlers |-> HeldBy(g)'] = [g \in Handlers |-> HeldBy(g)]
  BY <1>2, <1>3
<1>8. QED
  BY <1>2, <1>3, <1>4, <1>5, <1>6, <1>7 DEF Catalog!Respond, Catalog!Move

\* The effect of a read is none.
LEMMA ReadEffect ==
    ASSUME NEW h \in Handlers, req[h].op \in {"Get", "List"}, UNCHANGED rows
    PROVE  Catalog!Effect(h)
<1>1. [i \in Ids |-> ValueOf(i)'] = [i \in Ids |-> ValueOf(i)]
  BY DEF ValueOf
<1>2. [g \in Handlers |-> CallOf(req[g])][h].op \in {"Get", "List"}
  BY DEF CallOf
<1>3. QED
  BY <1>1, <1>2 DEF Catalog!Effect

LEMMA GetFindRefines ==
    ASSUME ServiceInv, NEW h \in Handlers, GetFind(h)
    PROVE  Catalog!Apply(h) \/ Catalog!Abandon(h)
<1>1. /\ pc[h] = "find" /\ req[h].op = "Get" /\ UNCHANGED <<rows, nextId, req>>
      /\ <<"ok">> \in Outs /\ <<"ErrDatabase", "ok">> \in Outs \ {<<"ok">>}
  BY DEF GetFind, At, Outs
<1>2. CASE /\ ent' = [ent EXCEPT ![h] = Lookup(req[h].id)]
           /\ Answer(h, <<"ok">>)
  <2>1. Lookup(req[h].id) \in Entity
    BY LookupEntity, RequestType DEF ServiceInv, TypeOK
  <2>2. QED
    BY <1>1, <1>2, <2>1, ReadEffect, NoRefusal, ApplyRefines
<1>3. CASE Answer(h, <<"ErrDatabase", "ok">>) /\ UNCHANGED ent
  <2>1. ent[h] \in Entity /\ ent' = [ent EXCEPT ![h] = ent[h]]
    BY <1>3 DEF ServiceInv, TypeOK
  <2>2. QED
    BY <1>1, <1>3, <2>1, AbandonRefines
<1>4. QED
  BY <1>2, <1>3 DEF GetFind

LEMMA ListRowsRefines ==
    ASSUME ServiceInv, ServesInv, NEW h \in Handlers, ListRows(h)
    PROVE  Catalog!Apply(h) \/ Catalog!Abandon(h)
<1>1. /\ pc[h] = "list" /\ UNCHANGED <<rows, nextId, req>>
      /\ <<"ok">> \in Outs /\ <<"ErrDatabase">> \in Outs \ {<<"ok">>}
      /\ ent[h] \in Entity /\ ent' = [ent EXCEPT ![h] = ent[h]]
  BY DEF ListRows, At, Outs, ErrorCodes, ServiceInv, TypeOK
<1>2. req[h].op = "List"
  BY <1>1 DEF ServesInv, Serves
<1>3. CASE Answer(h, <<"ok">>)
  BY <1>1, <1>2, <1>3, ReadEffect, NoRefusal, ApplyRefines
<1>4. CASE Answer(h, <<"ErrDatabase">>)
  BY <1>1, <1>4, AbandonRefines
<1>5. QED
  BY <1>3, <1>4 DEF ListRows

LEMMA CreateCheckRefines ==
    ASSUME ServiceInv, NEW h \in Handlers, CreateCheck(h)
    PROVE  Catalog!Abandon(h) \/ UNCHANGED Catalog!catalogVars
<1>1. pc[h] = "check" /\ UNCHANGED <<rows, nextId, req>> /\ req[h].op = "Create"
  BY DEF CreateCheck, At
<1>2. CASE UNCHANGED ent /\ Answer(h, <<"ErrValidation">>)
  <2>1. /\ ent[h] \in Entity /\ ent' = [ent EXCEPT ![h] = ent[h]]
        /\ <<"ErrValidation">> \in Outs \ {<<"ok">>}
    BY <1>2 DEF ServiceInv, TypeOK, Outs, ErrorCodes
  <2>2. QED
    BY <1>1, <1>2, <2>1, AbandonRefines
<1>3. CASE /\ ent' = [ent EXCEPT ![h] = Assign(ZeroEntity, req[h])]
           /\ pc' = [pc EXCEPT ![h] = "insert"]
           /\ UNCHANGED out
  <2>1. Assign(ZeroEntity, req[h]) \in Entity
    BY ConstantsAssumption, RequestType
       DEF Assign, ZeroEntity, Entity, Instances, ServiceInv, TypeOK
  <2>2. QED
    BY <1>1, <1>3, <2>1, SilentRefines
<1>4. QED
  BY <1>2, <1>3 DEF CreateCheck

LEMMA UpdateFindRefines ==
    ASSUME ServiceInv, NEW h \in Handlers, UpdateFind(h)
    PROVE  Catalog!Abandon(h) \/ UNCHANGED Catalog!catalogVars
<1>1. pc[h] = "find" /\ UNCHANGED <<rows, nextId, req>>
  BY DEF UpdateFind, At
<1>2. CASE UNCHANGED ent /\ Answer(h, <<"ErrPageNotFound">>)
  <2>1. /\ ent[h] \in Entity /\ ent' = [ent EXCEPT ![h] = ent[h]]
        /\ <<"ErrPageNotFound">> \in Outs \ {<<"ok">>}
    BY <1>2 DEF ServiceInv, TypeOK, Outs, ErrorCodes
  <2>2. QED
    BY <1>1, <1>2, <2>1, AbandonRefines
<1>3. CASE /\ ent' = [ent EXCEPT ![h] = Lookup(req[h].id)]
           /\ pc' = [pc EXCEPT ![h] = "check"]
           /\ UNCHANGED out
  <2>1. Lookup(req[h].id) \in Entity
    BY LookupEntity, RequestType DEF ServiceInv, TypeOK
  <2>2. QED
    BY <1>1, <1>3, <2>1, SilentRefines
<1>4. QED
  BY <1>2, <1>3 DEF UpdateFind

LEMMA UpdateCheckRefines ==
    ASSUME ServiceInv, NEW h \in Handlers, UpdateCheck(h)
    PROVE  Catalog!Abandon(h) \/ UNCHANGED Catalog!catalogVars
<1>1. pc[h] = "check" /\ UNCHANGED <<rows, nextId, req>> /\ req[h].op = "Update"
  BY DEF UpdateCheck, At
<1>2. CASE UNCHANGED ent /\ Answer(h, <<"ErrValidation">>)
  <2>1. /\ ent[h] \in Entity /\ ent' = [ent EXCEPT ![h] = ent[h]]
        /\ <<"ErrValidation">> \in Outs \ {<<"ok">>}
    BY <1>2 DEF ServiceInv, TypeOK, Outs, ErrorCodes
  <2>2. QED
    BY <1>1, <1>2, <2>1, AbandonRefines
<1>3. CASE /\ ent' = [ent EXCEPT ![h] = Assign(ent[h], req[h])]
           /\ pc' = [pc EXCEPT ![h] = IF ent[h].id = 0 THEN "insert" ELSE "save"]
           /\ UNCHANGED out
  <2>1. Assign(ent[h], req[h]) \in Entity
    BY RequestType DEF Assign, Entity, ServiceInv, TypeOK
  <2>2. QED
    BY <1>1, <1>3, <2>1, SilentRefines
<1>4. QED
  BY <1>2, <1>3 DEF UpdateCheck

\* The sequence hands out an id nobody had.
LEMMA InsertRowRefines ==
    ASSUME ServiceInv, ServesInv, NEW h \in Handlers, InsertRow(h)
    PROVE  Catalog!Reserve(h) \/ Catalog!Abandon(h)
<1>1. pc[h] = "insert" /\ UNCHANGED <<rows, req>> /\ req[h].op \in {"Create", "Update"}
  BY DEF InsertRow, At, ServesInv, Serves
<1>2. CASE UNCHANGED <<nextId, ent>> /\ Answer(h, <<"ErrDatabase">>)
  <2>1. /\ ent[h] \in Entity /\ ent' = [ent EXCEPT ![h] = ent[h]]
        /\ <<"ErrDatabase">> \in Outs \ {<<"ok">>}
    BY <1>2 DEF ServiceInv, TypeOK, Outs, ErrorCodes
  <2>2. QED
    BY <1>1, <1>2, <2>1, AbandonRefines
<1>3. CASE /\ SequenceHasNext
           /\ ent' = [ent EXCEPT ![h].id = nextId]
           /\ nextId' = nextId + 1
           /\ pc' = [pc EXCEPT ![h] = "commit"]
           /\ UNCHANGED out
  <2> DEFINE e == [ent[h] EXCEPT !.id = nextId]
  <2>1. nextId \in Ids /\ nextId \in Nat
    BY <1>3, ConstantsAssumption DEF SequenceHasNext, Ids, ServiceInv, TypeOK
  <2>2. /\ e \in Entity /\ e.id = nextId /\ ent' = [ent EXCEPT ![h] = e]
        /\ out[h] \in Outs /\ out' = [out EXCEPT ![h] = out[h]]
        /\ "commit" \in PCs
    BY <1>3, <2>1 DEF ServiceInv, TypeOK, Entity, PCs
  <2> HIDE DEF e
  <2>3. /\ [g \in Handlers |-> PhaseOf(g)'] =
              [[g \in Handlers |-> PhaseOf(g)] EXCEPT ![h] = "open"]
        /\ [g \in Handlers |-> HeldBy(g)'] =
              [[g \in Handlers |-> HeldBy(g)] EXCEPT ![h] = nextId]
    <3>1. pc' = [pc EXCEPT ![h] = "commit"]
      BY <1>3
    <3>2. /\ [g \in Handlers |-> PhaseOf(g)'] =
                [[g \in Handlers |-> PhaseOf(g)] EXCEPT ![h] = PhaseOf(h)']
          /\ [g \in Handlers |-> HeldBy(g)'] =
                [[g \in Handlers |-> HeldBy(g)] EXCEPT ![h] = HeldBy(h)']
          /\ PhaseOf(h)' = "open" /\ HeldBy(h)' = e.id
      BY <2>2, <3>1, PhaseStep
    <3>3. QED
      BY <2>2, <3>2
  <2>4. /\ [g \in Handlers |-> PhaseOf(g)][h] = "open"
        /\ [g \in Handlers |-> HeldBy(g)][h] = 0
    BY <1>1, PhaseNow
  <2>5. [g \in Handlers |-> PhaseOf(g)'] = [g \in Handlers |-> PhaseOf(g)]
    BY <2>3, <2>4
  <2>6. nextId \in Ids \ (1 .. (nextId - 1))
    BY <2>1
  <2>7. 1 .. (nextId' - 1) = 1 .. (nextId - 1) \union {nextId}
    BY <1>3, <2>1, ConstantsAssumption DEF Ids
  <2>8. [i \in Ids |-> ValueOf(i)'] = [i \in Ids |-> ValueOf(i)]
    BY <1>1 DEF ValueOf
  <2>9. [g \in Handlers |-> CallOf(req[g])][h].op \in {"Create", "Update"}
    BY <1>1 DEF CallOf
  <2>10. QED
    BY <1>1, <2>3, <2>4, <2>5, <2>6, <2>7, <2>8, <2>9 DEF Catalog!Reserve
<1>4. QED
  BY <1>2, <1>3 DEF InsertRow

\* The row of an entity is the value of the call that assigned it.
LEMMA StoredValue ==
    ASSUME ServiceInv, ServesInv, NEW h \in Handlers,
           pc[h] \in {"commit", "save", "upsert"},
           NEW e, e.id = ent[h].id, e.name = ent[h].name, e.desc = ent[h].desc,
           RowOf(e) \in Row,
           rows' = [rows EXCEPT ![e.id] = RowOf(e)]
    PROVE  [i \in Ids |-> ValueOf(i)'] =
             [[i \in Ids |-> ValueOf(i)] EXCEPT
                ![e.id] = [g \in Handlers |-> CallOf(req[g])][h].value]
<1>1. e.id \in Ids
  BY DEF ServiceInv, TypeOK, EntityInv, Entity
<1>2. e.name = req[h].name /\ e.desc = req[h].desc
  BY DEF ServesInv, Serves
<1>3. rows'[e.id] = RowOf(e) /\ RowOf(e) # NoRow
  BY <1>1, ConstantsAssumption DEF ServiceInv, TypeOK
<1>4. ValueOf(e.id)' = Payload(req[h].name, req[h].desc)
  BY <1>2, <1>3 DEF ValueOf, RowOf
<1>5. [g \in Handlers |-> CallOf(req[g])][h].value = Payload(req[h].name, req[h].desc)
  BY DEF CallOf
<1>6. ASSUME NEW i \in Ids \ {e.id} PROVE ValueOf(i)' = ValueOf(i)
  BY <1>6 DEF ValueOf, ServiceInv, TypeOK
<1>7. QED
  BY <1>1, <1>4, <1>5, <1>6

LEMMA AfterCreateRefines ==
    ASSUME ServiceInv, ServesInv, NEW h \in Handlers, AfterCreate(h)
    PROVE  Catalog!Apply(h) \/ Catalog!Abandon(h)
<1> DEFINE e == Stamp(ent[h])
<1>1. /\ pc[h] = "commit" /\ ent[h] \in Entity /\ ent[h].id \in Ids
      /\ req[h].op \in {"Create", "Update"}
  BY DEF AfterCreate, HookCanRun, ServiceInv, TypeOK, EntityInv, Entity,
         ServesInv, Serves
<1>2. /\ e \in Entity /\ e.id = ent[h].id /\ e.name = ent[h].name
      /\ e.desc = ent[h].desc
  BY <1>1 DEF Stamp, Entity, Instances
<1> HIDE DEF e
<1>3. RowOf(e) \in Row
  BY <1>1, <1>2 DEF RowOf, Row, Entity
<1>4. /\ ent' = [ent EXCEPT ![h] = e]
      /\ Write(h, [rows EXCEPT ![e.id] = RowOf(e)])
      /\ UNCHANGED <<nextId, req>>
  BY DEF AfterCreate, e
<1>5. ASSUME rows' = [rows EXCEPT ![e.id] = RowOf(e)] PROVE Catalog!Effect(h)
  <2>1. [i \in Ids |-> ValueOf(i)'] =
          [[i \in Ids |-> ValueOf(i)] EXCEPT
             ![e.id] = [g \in Handlers |-> CallOf(req[g])][h].value]
    BY <1>1, <1>2, <1>3, <1>5, StoredValue
  <2>2. [g \in Handlers |-> HeldBy(g)][h] = e.id /\ e.id # 0
    BY <1>1, <1>2 DEF HeldBy, Ids
  <2>3. [g \in Handlers |-> CallOf(req[g])][h].op \in {"Create", "Update"}
    BY <1>1 DEF CallOf
  <2>4. QED
    BY <2>1, <2>2, <2>3 DEF Catalog!Effect
<1>6. QED
  BY <1>1, <1>2, <1>4, <1>5, WriteRefines

\* SaveRow and UpsertRow: the row the update names.
LEMMA StoreRefines ==
    ASSUME ServiceInv, ServesInv, NEW h \in Handlers,
           pc[h] \in {"save", "upsert"},
           Write(h, [rows EXCEPT ![ent[h].id] = RowOf(ent[h])]),
           UNCHANGED <<nextId, req, ent>>
    PROVE  Catalog!Apply(h) \/ Catalog!Abandon(h)
<1> DEFINE e == ent[h]
<1>1. /\ e \in Entity /\ ent' = [ent EXCEPT ![h] = e]
      /\ e.id \in 1 .. (nextId - 1) /\ RowOf(e) \in Row
      /\ req[h].op = "Update" /\ e.id = req[h].id
  BY ConstantsAssumption
     DEF ServiceInv, TypeOK, EntityInv, Entity, Ids, RowOf, Row, ServesInv, Serves
<1>2. ASSUME rows' = [rows EXCEPT ![e.id] = RowOf(e)] PROVE Catalog!Effect(h)
  <2>1. [i \in Ids |-> ValueOf(i)'] =
          [[i \in Ids |-> ValueOf(i)] EXCEPT
             ![e.id] = [g \in Handlers |-> CallOf(req[g])][h].value]
    BY <1>1, <1>2, StoredValue
  <2>2. [g \in Handlers |-> HeldBy(g)][h] = 0
    BY DEF HeldBy
  <2>3. /\ [g \in Handlers |-> CallOf(req[g])][h].op = "Update"
        /\ [g \in Handlers |-> CallOf(req[g])][h].id = e.id
    BY <1>1 DEF CallOf
  <2>4. QED
    BY <1>1, <2>1, <2>2, <2>3 DEF Catalog!Effect
<1>3. QED
  BY <1>1, <1>2, WriteRefines

LEMMA SaveRowRefines ==
    ASSUME ServiceInv, ServesInv, NEW h \in Handlers, SaveRow(h)
    PROVE  \/ Catalog!Apply(h) \/ Catalog!Abandon(h)
           \/ UNCHANGED Catalog!catalogVars
<1>1. /\ pc[h] = "save" /\ UNCHANGED <<nextId, req, ent>>
      /\ ent[h] \in Entity /\ ent' = [ent EXCEPT ![h] = ent[h]]
      /\ <<"ErrDatabase">> \in Outs \ {<<"ok">>}
  BY DEF SaveRow, At, ServiceInv, TypeOK, Outs, ErrorCodes
<1>2. CASE Write(h, [rows EXCEPT ![ent[h].id] = RowOf(ent[h])])
  BY <1>1, <1>2, StoreRefines
<1>3. CASE pc' = [pc EXCEPT ![h] = "upsert"] /\ UNCHANGED <<rows, out>>
  BY <1>1, <1>3, SilentRefines
<1>4. CASE Answer(h, <<"ErrDatabase">>) /\ UNCHANGED rows
  BY <1>1, <1>4, AbandonRefines
<1>5. QED
  BY <1>2, <1>3, <1>4 DEF SaveRow

LEMMA DeleteRowRefines ==
    ASSUME ServiceInv, ServesInv, NEW h \in Handlers, DeleteRow(h)
    PROVE  Catalog!Apply(h) \/ Catalog!Abandon(h)
<1> DEFINE table == [i \in Ids |-> IF i = req[h].id THEN NoRow ELSE rows[i]]
<1>1. /\ pc[h] = "delete" /\ UNCHANGED <<nextId, req>>
      /\ ent[h] \in Entity /\ ent' = [ent EXCEPT ![h] = ent[h]]
      /\ <<"ErrDatabase">> \in Outs \ {<<"ok">>}
  BY DEF DeleteRow, At, ServiceInv, TypeOK, Outs, ErrorCodes
<1>2. CASE Write(h, table)
  <2>1. ASSUME rows' = table PROVE Catalog!Effect(h)
    <3>1. ASSUME NEW i \in Ids
          PROVE  ValueOf(i)' = IF i = req[h].id THEN NoRow
                               ELSE [j \in Ids |-> ValueOf(j)][i]
      BY <2>1 DEF ValueOf
    <3>2. /\ [g \in Handlers |-> CallOf(req[g])][h].op = "Delete"
          /\ [g \in Handlers |-> CallOf(req[g])][h].id = req[h].id
      BY <1>1 DEF CallOf, ServesInv, Serves
    <3>3. QED
      BY <3>1, <3>2 DEF Catalog!Effect
  <2>2. QED
    BY <1>1, <1>2, <2>1, WriteRefines
<1>3. CASE Answer(h, <<"ErrDatabase">>) /\ UNCHANGED rows
  BY <1>1, <1>3, AbandonRefines
<1>4. QED
  BY <1>2, <1>3 DEF DeleteRow

-----------------------------------------------------------------------------
\* The refinement

LEMMA CatalogInitRefined == Init => Catalog!CatalogInit
<1> SUFFICES ASSUME Init PROVE Catalog!CatalogInit
  OBVIOUS
<1>1. [i \in Ids |-> ValueOf(i)] = [i \in Ids |-> NoRow]
  BY DEF Init, ValueOf
<1>2. 1 .. (nextId - 1) = {}
  BY DEF Init
<1>3. [h \in Handlers |-> CallOf(req[h])] = [h \in Handlers |-> CallOf(NoRequest)]
  BY DEF Init
<1>4. [h \in Handlers |-> PhaseOf(h)] = [h \in Handlers |-> "idle"]
  BY DEF Init, PhaseOf
<1>5. [h \in Handlers |-> HeldBy(h)] = [h \in Handlers |-> 0]
  BY DEF Init, HeldBy
<1>6. QED
  BY <1>1, <1>2, <1>3, <1>4, <1>5 DEF Catalog!CatalogInit

LEMMA CatalogStepRefined ==
    ServiceInv /\ ServesInv /\ [Next]_vars => [Catalog!CatalogNext]_(Catalog!catalogVars)
<1> SUFFICES ASSUME ServiceInv, ServesInv, [Next]_vars
             PROVE  [Catalog!CatalogNext]_(Catalog!catalogVars)
  OBVIOUS
<1>1. CASE UNCHANGED vars
  BY <1>1 DEF vars, Catalog!catalogVars, ValueOf, PhaseOf, HeldBy
<1>2. ASSUME NEW h \in Handlers,
             \/ Catalog!Invoke(h) \/ Catalog!Refuse(h) \/ Catalog!Reserve(h)
             \/ Catalog!Apply(h) \/ Catalog!Abandon(h) \/ Catalog!Respond(h)
             \/ UNCHANGED Catalog!catalogVars
      PROVE  [Catalog!CatalogNext]_(Catalog!catalogVars)
  BY <1>2 DEF Catalog!CatalogNext
<1>3. ASSUME NEW h \in Handlers, NEW r \in Requests, Accept(h, r)
      PROVE  [Catalog!CatalogNext]_(Catalog!catalogVars)
  BY <1>2, <1>3, InvokeRefines
<1>4. ASSUME NEW h \in Handlers, Malformed(h)
      PROVE  [Catalog!CatalogNext]_(Catalog!catalogVars)
  BY <1>2, <1>4, RefuseRefines
<1>5. ASSUME NEW h \in Handlers, UpsertRow(h)
      PROVE  Catalog!Apply(h) \/ Catalog!Abandon(h)
  BY <1>5, StoreRefines DEF UpsertRow, At
<1>6. ASSUME NEW h \in Handlers, Serve(h)
      PROVE  [Catalog!CatalogNext]_(Catalog!catalogVars)
  BY <1>2, <1>5, <1>6, GetFindRefines, ListRowsRefines, CreateCheckRefines,
     InsertRowRefines, AfterCreateRefines, UpdateFindRefines,
     UpdateCheckRefines, SaveRowRefines, DeleteRowRefines, RespondRefines
     DEF Serve
<1>7. QED
  BY <1>1, <1>3, <1>4, <1>6 DEF Next

(***************************************************************************)
(* The handlers implement the catalogue: every request has at most one     *)
(* effect, exactly one if it is answered "ok" and none if it is refused,   *)
(* whatever the interleaving and the faults (service/v1/app_service.go:50  *)
(* and :72, gorm/repository.go:42 and :50).                                *)
(***************************************************************************)
THEOREM RefinesCatalog == Spec => CatalogRefined
<1>1. ServesInv /\ ServiceInv /\ [Next]_vars => ServesInv'
  BY ServesStep
<1>2. Spec => [](ServiceInv /\ ServesInv)
  BY <1>1, Invariance, ServesInit, PTL DEF Spec
<1>3. QED
  BY <1>2, CatalogInitRefined, CatalogStepRefined, PTL
     DEF Spec, CatalogRefined, Catalog!CatalogSpec

=============================================================================

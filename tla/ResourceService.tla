-------------------------- MODULE ResourceService --------------------------
(***************************************************************************)
(* One REST resource of sea-apiserver (application services or application *)
(* templates; the two stacks are line-for-line the same), from the gin     *)
(* handler down to the SQL statements of the generic gorm repository.      *)
(*                                                                         *)
(* Every request runs in a goroutine of its own (a handler) and no lock or *)
(* transaction spans two of its statements, so the statements of different *)
(* handlers interleave freely.  One action is one database statement with  *)
(* the code around it up to the next statement; only an INSERT and the     *)
(* AfterCreate hook share a transaction, which the handler holds open on a *)
(* connection of its own.                                                  *)
(***************************************************************************)
EXTENDS Naturals, FiniteSets, Sequences

CONSTANTS
    Handlers,   \* goroutines serving requests
    Ops,        \* the routes clients call, a subset of AllOps
    Texts,      \* names and descriptions
    Blank,      \* the text that util.Trim reduces to ""
    Payloads,   \* the (name, description) bodies clients send
    Prefix,     \* the resource's instance id prefix, "app_service-"
    NoRow,      \* no live row under this id
    MaxId,      \* the largest value of the id sequence (2^63 - 1)
    PoolSize,   \* max-open-connections
    Faults      \* what a statement may suffer: "fail" (no effect, error)
                \* or "lost" (committed, but the answer is an error)

AllOps == {"Create", "Update", "Delete", "Get", "List"}
Ids == 1 .. MaxId
\* Id 0 is Go's zero value; MaxId + 1 stands for every uint64 above 2^63 - 1,
\* which parses but cannot be sent to a bigint column.
RequestIds == 0 .. (MaxId + 1)

Payload(n, d) == [name |-> n, desc |-> d]
NoPayload == Payload(Blank, Blank)

\* InstanceID is an injective encoding of the id, behind the resource's prefix.
InstanceOf(i) == <<Prefix, i>>
NoInstance == <<>>
Instances == {InstanceOf(i) : i \in Ids} \union {NoInstance}

Row == [inst : Instances, name : Texts, desc : Texts]
Entity == [id : Ids \union {0}, inst : Instances, name : Texts, desc : Texts]
ZeroEntity == [id |-> 0, inst |-> NoInstance, name |-> Blank, desc |-> Blank]

ASSUME ConstantsAssumption ==
    /\ Ops \subseteq AllOps
    /\ Blank \in Texts
    /\ Payloads \subseteq [name : Texts, desc : Texts]
    /\ NoRow \notin Row
    /\ MaxId \in Nat
    /\ PoolSize \in Nat \ {0}
    /\ Faults \subseteq {"fail", "lost"}

Request(op, i, p) == [op |-> op, id |-> i, name |-> p.name, desc |-> p.desc]
NoRequest == Request("None", 0, NoPayload)
Requests ==
    {Request("Create", 0, p) : p \in Payloads}
    \union {Request("Update", i, p) : i \in RequestIds, p \in Payloads}
    \union {Request(op, i, NoPayload) : op \in {"Delete", "Get"}, i \in RequestIds}
    \union {Request("List", 0, NoPayload)}

VARIABLES
    rows,       \* the table: the live row of each id, or NoRow
    nextId,     \* the next value of the id sequence
    pc,         \* what each handler does next
    req,        \* the request it serves
    ent,        \* the entity it holds in memory (the variables svc and temp)
    out         \* the responses it is about to write, oldest first

vars == <<rows, nextId, pc, req, ent, out>>

Live == {i \in Ids : rows[i] # NoRow}

PCs == {"idle", "find", "check", "insert", "commit", "save", "upsert",
        "delete", "list", "reply"}
ErrorCodes == {"ErrBind", "ErrValidation", "ErrPageNotFound", "ErrDatabase"}
Outs == {<<>>, <<"ErrDatabase", "ok">>}
        \union {<<a>> : a \in ErrorCodes \union {"ok"}}

TypeOK ==
    /\ rows \in [Ids -> Row \union {NoRow}]
    /\ nextId \in 1 .. (MaxId + 1)
    /\ pc \in [Handlers -> PCs]
    /\ req \in [Handlers -> Requests \union {NoRequest}]
    /\ ent \in [Handlers -> Entity]
    /\ out \in [Handlers -> Outs]

Init ==
    /\ rows = [i \in Ids |-> NoRow]
    /\ nextId = 1
    /\ pc = [h \in Handlers |-> "idle"]
    /\ req = [h \in Handlers |-> NoRequest]
    /\ ent = [h \in Handlers |-> ZeroEntity]
    /\ out = [h \in Handlers |-> <<>>]

-----------------------------------------------------------------------------
\* Helpers

Answer(h, answers) ==
    /\ pc' = [pc EXCEPT ![h] = "reply"]
    /\ out' = [out EXCEPT ![h] = answers]

\* An open transaction keeps its connection; any other statement borrows one
\* of the pool for its duration only, and waits until one is free.
InTransaction == {g \in Handlers : pc[g] = "commit"}
ConnectionFree == Cardinality(InTransaction) < PoolSize
At(h, label) == pc[h] = label /\ ConnectionFree

\* The id of the request can be sent as a bigint.
Encodable(h) == req[h].id <= MaxId
ReadFails(h) == Faults # {} \/ ~Encodable(h)

RowOf(e) == [inst |-> e.inst, name |-> e.name, desc |-> e.desc]
EntityOf(i) ==
    [id |-> i, inst |-> rows[i].inst, name |-> rows[i].name, desc |-> rows[i].desc]

\* Seeded fault: a missing record comes back under the id asked for.
LookupKeepsId(i) ==
    IF i \in Live THEN EntityOf(i)
    ELSE [ZeroEntity EXCEPT !.id = IF i \in Ids THEN i ELSE 0]

\* Seeded fault: the id is given to gorm in a struct, whose zero fields it
\* leaves out of the query.
LookupByStruct(i) ==
    IF i = 0 /\ Live # {} THEN EntityOf(CHOOSE j \in Live : \A k \in Live : j <= k)
    ELSE IF i \in Live THEN EntityOf(i) ELSE ZeroEntity

\* What GetById returns: a missing record is not an error but a zero entity.
Lookup(i) == IF i \in Live THEN EntityOf(i) ELSE ZeroEntity

\* Seeded fault: the error of a write is answered like that of a lookup.
WriteErrorNotFound(h, table) ==
    \E o \in {"ok"} \union Faults :
        /\ rows' = IF o = "fail" THEN rows ELSE table
        /\ Answer(h, IF o = "ok" THEN <<"ok">> ELSE <<"ErrPageNotFound">>)

\* The last statement of a write: it commits and answers, or fails.
Write(h, table) ==
    \E o \in {"ok"} \union Faults :
        /\ rows' = IF o = "fail" THEN rows ELSE table
        /\ Answer(h, IF o = "ok" THEN <<"ok">> ELSE <<"ErrDatabase">>)

\* Seeded fault: the check of a create carries the update's predicate.
CreateTakenByBrokenQuery(h) == req[h].name = Blank /\ Live # {}

\* The existence check of a create: an empty expression when the name is blank,
\* which every live row satisfies.
CreateTaken(h) ==
    \E i \in Live : req[h].name = Blank \/ rows[i].name = req[h].name

\* The existence check of an update: the predicate "if not in (?)" names no
\* column, so the query with a nonblank name fails and its error is dropped.
UpdateTaken(h) == req[h].name = Blank /\ Live # {}

\* Seeded fault: a blank name means "leave the name alone".
AssignUnlessBlank(e, r) ==
    [e EXCEPT !.name = IF r.name = Blank THEN e.name ELSE r.name, !.desc = r.desc]

\* Both fields of the request go into the entity.
Assign(e, r) == [e EXCEPT !.name = r.name, !.desc = r.desc]

\* Seeded fault: a BeforeCreate hook, when the id is still zero.
StampTooEarly(e) == [e EXCEPT !.inst = InstanceOf(0)]

\* Seeded fault: the hook forgets the instance id.
StampForgotten(e) == e

\* AfterCreate derives the instance id from the id the INSERT returned.
Stamp(e) == [e EXCEPT !.inst = InstanceOf(e.id)]

\* nextval fails when the sequence is exhausted.
SequenceHasNext == nextId <= MaxId

\* Seeded fault: the hook saves through the global handle, on a second
\* connection.
HookNeedsConnection(h) == At(h, "commit")

\* AfterCreate saves through tx, on the connection the INSERT holds.
HookCanRun(h) == pc[h] = "commit"

FirstStep(op) ==
    CASE op = "Create" -> "check"
      [] op \in {"Update", "Get"} -> "find"
      [] op = "Delete" -> "delete"
      [] op = "List" -> "list"

-----------------------------------------------------------------------------
\* The controllers: binding the request and writing the response

Accept(h, r) ==
    /\ pc[h] = "idle"
    /\ r.op \in Ops
    /\ pc' = [pc EXCEPT ![h] = FirstStep(r.op)]
    /\ req' = [req EXCEPT ![h] = r]
    /\ UNCHANGED <<rows, nextId, ent, out>>

\* A body that is not JSON, or an id that ParseUint64 rejects.
Malformed(h) ==
    /\ pc[h] = "idle"
    /\ Answer(h, <<"ErrBind">>)
    /\ UNCHANGED <<rows, nextId, req, ent>>

Reply(h) ==
    /\ pc[h] = "reply"
    /\ pc' = [pc EXCEPT ![h] = "idle"]
    /\ req' = [req EXCEPT ![h] = NoRequest]
    /\ ent' = [ent EXCEPT ![h] = ZeroEntity]
    /\ out' = [out EXCEPT ![h] = <<>>]
    /\ UNCHANGED <<rows, nextId>>

-----------------------------------------------------------------------------
\* Reads

\* The controller does not return after writing the error of a failed read,
\* and goes on to write an empty success.
GetFind(h) ==
    /\ At(h, "find")
    /\ req[h].op = "Get"
    /\ \/ /\ Encodable(h)
          /\ ent' = [ent EXCEPT ![h] = Lookup(req[h].id)]
          /\ Answer(h, <<"ok">>)
       \/ /\ ReadFails(h)
          /\ Answer(h, <<"ErrDatabase", "ok">>)
          /\ UNCHANGED ent
    /\ UNCHANGED <<rows, nextId, req>>

ListRows(h) ==
    /\ At(h, "list")
    /\ \/ Answer(h, <<"ok">>)
       \/ Faults # {} /\ Answer(h, <<"ErrDatabase">>)
    /\ UNCHANGED <<rows, nextId, req, ent>>

-----------------------------------------------------------------------------
\* Create

CreateCheck(h) ==
    /\ At(h, "check")
    /\ req[h].op = "Create"
    /\ \/ /\ CreateTaken(h)
          /\ Answer(h, <<"ErrValidation">>)
          /\ UNCHANGED ent
       \/ /\ ~CreateTaken(h) \/ Faults # {}   \* exit, _ := ...
          /\ ent' = [ent EXCEPT ![h] = Assign(ZeroEntity, req[h])]
          /\ pc' = [pc EXCEPT ![h] = "insert"]
          /\ UNCHANGED out
    /\ UNCHANGED <<rows, nextId, req>>

\* INSERT ... RETURNING id, inside the transaction gorm opens for it.
InsertRow(h) ==
    /\ At(h, "insert")
    /\ \/ /\ SequenceHasNext
          /\ ent' = [ent EXCEPT ![h].id = nextId]
          /\ nextId' = nextId + 1
          /\ pc' = [pc EXCEPT ![h] = "commit"]
          /\ UNCHANGED out
       \/ /\ Faults # {} \/ ~SequenceHasNext
          /\ Answer(h, <<"ErrDatabase">>)
          /\ UNCHANGED <<nextId, ent>>
    /\ UNCHANGED <<rows, req>>

\* AfterCreate: stamp the instance id, save it in the same transaction, commit.
AfterCreate(h) ==
    /\ HookCanRun(h)
    /\ LET e == Stamp(ent[h]) IN
        /\ ent' = [ent EXCEPT ![h] = e]
        /\ Write(h, [rows EXCEPT ![e.id] = RowOf(e)])
    /\ UNCHANGED <<nextId, req>>

-----------------------------------------------------------------------------
\* Update

UpdateFind(h) ==
    /\ At(h, "find")
    /\ req[h].op = "Update"
    /\ \/ /\ Encodable(h)
          /\ ent' = [ent EXCEPT ![h] = Lookup(req[h].id)]
          /\ pc' = [pc EXCEPT ![h] = "check"]
          /\ UNCHANGED out
       \/ /\ ReadFails(h)
          /\ Answer(h, <<"ErrPageNotFound">>)
          /\ UNCHANGED ent
    /\ UNCHANGED <<rows, nextId, req>>

\* gorm's Save inserts an entity whose primary key is zero.
UpdateCheck(h) ==
    /\ At(h, "check")
    /\ req[h].op = "Update"
    /\ \/ /\ UpdateTaken(h)
          /\ Answer(h, <<"ErrValidation">>)
          /\ UNCHANGED ent
       \/ /\ ~UpdateTaken(h) \/ Faults # {}   \* exit, _ := ...
          /\ ent' = [ent EXCEPT ![h] = Assign(ent[h], req[h])]
          /\ pc' = [pc EXCEPT ![h] = IF ent[h].id = 0 THEN "insert" ELSE "save"]
          /\ UNCHANGED out
    /\ UNCHANGED <<rows, nextId, req>>

\* UPDATE ... WHERE is_deleted = false AND id = ?; when it matches no row,
\* gorm's Save goes on with an upsert.
SaveRow(h) ==
    /\ At(h, "save")
    /\ \/ /\ ent[h].id \in Live
          /\ Write(h, [rows EXCEPT ![ent[h].id] = RowOf(ent[h])])
       \/ /\ ent[h].id \notin Live
          /\ pc' = [pc EXCEPT ![h] = "upsert"]
          /\ UNCHANGED <<rows, out>>
       \/ /\ Faults # {}
          /\ Answer(h, <<"ErrDatabase">>)
          /\ UNCHANGED rows
    /\ UNCHANGED <<nextId, req, ent>>

\* INSERT ... ON CONFLICT (id) DO UPDATE SET every column, hooks skipped.
UpsertRow(h) ==
    /\ At(h, "upsert")
    /\ Write(h, [rows EXCEPT ![ent[h].id] = RowOf(ent[h])])
    /\ UNCHANGED <<nextId, req, ent>>

-----------------------------------------------------------------------------
\* Delete: a missing row is not an error

DeleteRow(h) ==
    /\ At(h, "delete")
    /\ \/ /\ Encodable(h)
          /\ Write(h, [i \in Ids |-> IF i = req[h].id THEN NoRow ELSE rows[i]])
       \/ /\ ~Encodable(h)
          /\ Answer(h, <<"ErrDatabase">>)
          /\ UNCHANGED rows
    /\ UNCHANGED <<nextId, req, ent>>

-----------------------------------------------------------------------------
Serve(h) ==
    \/ GetFind(h) \/ ListRows(h)
    \/ CreateCheck(h) \/ InsertRow(h) \/ AfterCreate(h)
    \/ UpdateFind(h) \/ UpdateCheck(h) \/ SaveRow(h) \/ UpsertRow(h)
    \/ DeleteRow(h)
    \/ Reply(h)

Next == \E h \in Handlers :
    \/ \E r \in Requests : Accept(h, r)
    \/ Malformed(h)
    \/ Serve(h)

Spec == Init /\ [][Next]_vars

\* The goroutine scheduler runs every handler, PostgreSQL answers every
\* statement, and database/sql hands each connection that is returned to one
\* of the callers that wait for it, so none of them is passed over for ever.
FairSpec == Spec /\ \A h \in Handlers : SF_vars(Serve(h))
-----------------------------------------------------------------------------
\* Safety

(***************************************************************************)
(* A row that other requests can see carries the instance id derived from  *)
(* its own id: although the INSERT leaves it empty and only the AfterCreate *)
(* hook fills it in, although an update of a missing record inserts too,   *)
(* and although an upsert skips the hook (model/v1/app_service.go:49).     *)
(***************************************************************************)
InstanceMatchesId == \A i \in Live : rows[i].inst = InstanceOf(i)

(***************************************************************************)
(* The name and the description of a row were sent together in one         *)
(* request: updates overwrite an entity that was read earlier, and may     *)
(* interleave, but no row mixes two of them (service/v1/app_service.go:90). *)
(***************************************************************************)
RowsAreUntorn == \A i \in Live : Payload(rows[i].name, rows[i].desc) \in Payloads

(***************************************************************************)
(* Ids come from the sequence alone: every live row is under an id that    *)
(* was issued, and an id that is issued but not committed is in no row and *)
(* in no other handler's memory.  An update takes its id from the URL, yet *)
(* writes only under ids that were read or issued.                         *)
(***************************************************************************)
IdsComeFromSequence ==
    /\ \A i \in Live : i < nextId
    /\ \A h \in InTransaction :
        /\ ent[h].id \in Ids /\ ent[h].id < nextId
        /\ ent[h].id \notin Live
        /\ \A g \in Handlers \ {h} : ent[g].id # ent[h].id

Holds(h, i) == ent[h].id = i /\ pc[h] \in {"check", "commit", "save", "upsert"}

\* An id that was issued, has no row, and that no handler is about to write.
DeadForGood(i) == i < nextId /\ i \notin Live /\ \A h \in Handlers : ~Holds(h, i)

(***************************************************************************)
(* A deleted id that no handler has in memory stays dead: only an update   *)
(* that read the row before it was deleted can bring it back.  No request  *)
(* that arrives afterwards does, or as much as gets hold of the id,        *)
(* whatever id it names.                                                   *)
(***************************************************************************)
DeadIdsStayDead == [][\A i \in Ids : DeadForGood(i) => DeadForGood(i)']_vars

(***************************************************************************)
(* No two live rows have the same nonblank name.  The existence checks are *)
(* there for this (service/v1/app_service.go:55, :82), and it holds when   *)
(* creates run one at a time, no statement fails and nothing is updated.   *)
(***************************************************************************)
NameUnique ==
    \A i, j \in Live : i # j /\ rows[i].name # Blank => rows[i].name # rows[j].name

(***************************************************************************)
(* A request changes or removes no row but the one it names.  An update    *)
(* writes what it has in memory, in up to three statements after it looked *)
(* the id up, and may add a row under an id of the sequence, but it never  *)
(* overwrites a row that is there under another id                         *)
(* (service/v1/app_service.go:73, :91).                                    *)
(***************************************************************************)
RequestsSpareOtherRows ==
    [][\A h \in Handlers :
        pc'[h] # pc[h] => \A i \in Live \ {req[h].id} : rows'[i] = rows[i]]_vars

\* The answers by which a request is turned down, and not a failed statement
\* reported: whoever gets one may rely on nothing having been written.
Refusals == {<<"ErrBind">>, <<"ErrValidation">>, <<"ErrPageNotFound">>}

\* The refinement mapping: the catalogue sees the name and description of each
\* live row, and a call as open until its answer is known.
ValueOf(i) == IF rows[i] = NoRow THEN NoRow ELSE Payload(rows[i].name, rows[i].desc)
CallOf(r) == [op |-> r.op, id |-> r.id, value |-> Payload(r.name, r.desc)]
PhaseOf(h) ==
    IF pc[h] = "idle" THEN "idle"
    ELSE IF pc[h] # "reply" THEN "open"
    ELSE IF out[h] = <<"ok">> THEN "applied"
    ELSE IF out[h] \in Refusals THEN "refused" ELSE "failed"
HeldBy(h) == IF pc[h] = "commit" THEN ent[h].id ELSE 0

Catalog == INSTANCE ResourceCatalog WITH
    Callers <- Handlers,
    Values <- Payloads,
    Calls <- {CallOf(r) : r \in Requests},
    NoCall <- CallOf(NoRequest),
    NoValue <- NoRow,
    catalog <- [i \in Ids |-> ValueOf(i)],
    issued <- 1 .. (nextId - 1),
    call <- [h \in Handlers |-> CallOf(req[h])],
    phase <- [h \in Handlers |-> PhaseOf(h)],
    held <- [h \in Handlers |-> HeldBy(h)]

(***************************************************************************)
(* Each call takes effect at most once, an "ok" means it did, a refusal    *)
(* (ErrBind, ErrValidation, ErrPageNotFound) means it did not, after       *)
(* ErrDatabase it may have, and only the ids of the sequence are used: the *)
(* handlers implement the abstract catalogue, although an update may run   *)
(* three statements and a failed commit may have been carried out.         *)
(***************************************************************************)
CatalogRefined == Catalog!CatalogSpec

-----------------------------------------------------------------------------
\* What the repository says of itself and the handlers do not keep

(***************************************************************************)
(* An update changes the row it names or nothing: "Update update a         *)
(* application service by the id identifier" (appservice/update.go:28).    *)
(***************************************************************************)
UpdateByIdOnly ==
    [][\A h \in Handlers :
        req[h].op = "Update" /\ pc[h] # "reply" /\ pc'[h] = "reply"
            => \A i \in Ids \ {req[h].id} : rows'[i] = rows[i]]_vars

(***************************************************************************)
(* A request is answered once: a result that has a code field is a failure *)
(* (docs/guide/zh-CN/api/error_code_generated.md:7), so no response may be *)
(* an error and a success at once.                                         *)
(***************************************************************************)
OneAnswer == \A h \in Handlers : pc[h] = "reply" => Len(out[h]) = 1

-----------------------------------------------------------------------------
\* Liveness

(***************************************************************************)
(* Every request is answered, however small the connection pool: no        *)
(* handler waits for a connection while it holds one.                      *)
(***************************************************************************)
EveryRequestAnswered == \A h \in Handlers : pc[h] # "idle" ~> pc[h] = "idle"
=============================================================================

-------------------------- MODULE ResourceCatalog --------------------------
(***************************************************************************)
(* What the resource API promises its callers, without statements,         *)
(* transactions or entities in memory: a catalogue of rows on which every  *)
(* call takes effect at most once, in one atomic step between the request  *)
(* and its response.  A call that is answered "ok" has taken effect        *)
(* exactly once, a refused one has not, and after a failure the caller     *)
(* cannot know.  An id is handed out once and never again.                 *)
(***************************************************************************)
EXTENDS Naturals

CONSTANTS
    Callers,    \* who has calls in progress
    Ids,        \* identifiers of rows
    Values,     \* what a row holds for its caller
    Calls,      \* the calls: records with fields op, id and value
    NoCall,     \* no call in progress
    NoValue     \* no row under this id

VARIABLES
    catalog,    \* the value of each live row
    issued,     \* the ids handed out so far
    call,       \* the call each caller has in progress
    phase,      \* how far it is: "idle", "open", or how it ended, "applied",
                \* "refused" or "failed"
    held        \* the id it was handed out, 0 if none

catalogVars == <<catalog, issued, call, phase, held>>

CatalogInit ==
    /\ catalog = [i \in Ids |-> NoValue]
    /\ issued = {}
    /\ call = [c \in Callers |-> NoCall]
    /\ phase = [c \in Callers |-> "idle"]
    /\ held = [c \in Callers |-> 0]

Move(c, from, to) == phase[c] = from /\ phase' = [phase EXCEPT ![c] = to]
Release(c) == held' = [held EXCEPT ![c] = 0]

Invoke(c) ==
    /\ Move(c, "idle", "open")
    /\ \E k \in Calls : call' = [call EXCEPT ![c] = k]
    /\ UNCHANGED <<catalog, issued, held>>

\* A malformed request never becomes a call.
Refuse(c) ==
    /\ Move(c, "idle", "refused")
    /\ UNCHANGED <<catalog, issued, call, held>>

\* A call that creates a row is handed out an id nobody had before.
Reserve(c) ==
    /\ phase[c] = "open"
    /\ call[c].op \in {"Create", "Update"}
    /\ held[c] = 0
    /\ \E i \in Ids \ issued :
        /\ issued' = issued \union {i}
        /\ held' = [held EXCEPT ![c] = i]
    /\ UNCHANGED <<catalog, call, phase>>

\* The one effect a call may have on the catalogue: a row under the id it was
\* handed out; for an update, the row it names, provided that id was issued;
\* for a deletion, no row under the id; for a read, nothing.
Effect(c) ==
    \/ /\ call[c].op \in {"Create", "Update"}
       /\ held[c] # 0
       /\ catalog' = [catalog EXCEPT ![held[c]] = call[c].value]
    \/ /\ call[c].op = "Update"
       /\ held[c] = 0
       /\ call[c].id \in issued
       /\ catalog' = [catalog EXCEPT ![call[c].id] = call[c].value]
    \/ /\ call[c].op = "Delete"
       /\ catalog' = [i \in Ids |-> IF i = call[c].id THEN NoValue ELSE catalog[i]]
    \/ /\ call[c].op \in {"Get", "List"}
       /\ UNCHANGED catalog

\* The call takes effect; its answer is "ok" or, all the same, a failure.  A
\* refused call never comes here.
Apply(c) ==
    /\ Move(c, "open", "applied") \/ Move(c, "open", "failed")
    /\ Effect(c)
    /\ Release(c)
    /\ UNCHANGED <<issued, call>>

\* The call is refused or fails without an effect.
Abandon(c) ==
    /\ Move(c, "open", "refused") \/ Move(c, "open", "failed")
    /\ Release(c)
    /\ UNCHANGED <<catalog, issued, call>>

Respond(c) ==
    /\ \E ended \in {"applied", "refused", "failed"} : Move(c, ended, "idle")
    /\ call' = [call EXCEPT ![c] = NoCall]
    /\ UNCHANGED <<catalog, issued, held>>

CatalogNext == \E c \in Callers :
    \/ Invoke(c) \/ Refuse(c) \/ Reserve(c)
    \/ Apply(c) \/ Abandon(c) \/ Respond(c)

CatalogSpec == CatalogInit /\ [][CatalogNext]_catalogVars
=============================================================================

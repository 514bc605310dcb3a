---------------------------- MODULE RouteTable ----------------------------
(***************************************************************************)
(* The table of model routes and the table of model aliases, and those who  *)
(* write them: the administrator's handlers and the synchronisation of an   *)
(* upstream's model list.  Each of them reads with queries of their own,    *)
(* decides, and then writes in one transaction; anyone may write between,   *)
(* or delete the upstream, which takes its routes along.  The reload that   *)
(* ends each handler is Catalog's.                                          *)
(***************************************************************************)
EXTENDS Integers, FiniteSets

CONSTANTS
    ModelNames,         \* names of models, patterns without a wildcard and aliases
    SyncUpstreams,      \* ids of upstreams
    Editors,            \* handlers and tasks in flight
    MaxRouteIds,        \* bound on the ids the database hands out
    MaxOperations       \* bound on the operations begun

ASSUME RouteAssumption ==
    /\ IsFiniteSet(ModelNames) /\ IsFiniteSet(Editors)
    /\ MaxRouteIds \in Nat /\ MaxOperations \in Nat

VARIABLES
    known,      \* ids of the rows of upstreams
    routes,     \* model_routes: [id, pattern, up, auto]
    aliases,    \* model_aliases: alias -> model (its id is the row's, kept by UPDATE)
    ids,        \* number of route ids handed out
    editor,     \* what each editor has read and is about to write
    begun,      \* number of operations begun
    touched     \* ghost: editors during whose work someone else wrote routes

routeVars == <<known, routes, aliases, ids, editor, begun, touched>>

EditorIdle == [op |-> "idle"]

RouteInit ==
    /\ known = SyncUpstreams /\ routes = {} /\ aliases = {} /\ ids = 0 /\ begun = 0 /\ touched = {}
    /\ editor = [e \in Editors |-> EditorIdle]

Patterns(rs) == {r.pattern : r \in rs}
AliasNames == {a.alias : a \in aliases}

\* A handler or a task starts.
Begins(e, what) ==
    /\ editor[e].op = "idle" /\ begun < MaxOperations
    /\ editor' = [editor EXCEPT ![e] = what]
    /\ begun' = begun + 1
    /\ touched' = touched \ {e}
    /\ UNCHANGED <<known, routes, aliases, ids>>

Goes(e, what) == editor' = [editor EXCEPT ![e] = what]
Stops(e) == Goes(e, EditorIdle)

\* Whoever else is at work has now read something old.
WroteRoutes(e) == touched' = (touched \cup {f \in Editors \ {e} : editor[f].op # "idle"}) \ {e}

\* The routes for these patterns, with ids that are new
NewRoutes(patterns, up, auto) ==
    LET number == CHOOSE f \in [patterns -> 1 .. Cardinality(patterns)] :
                      \A m, n \in patterns : m # n => f[m] # f[n]
    IN  {[id |-> ids + number[m], pattern |-> m, up |-> up, auto |-> auto] : m \in patterns}

\* The foreign key of routes: a route that is inserted belongs to an upstream that is there.
MayInsert(patterns, up) == patterns = {} \/ up \in known

(* delete_upstream: the routes of the upstream go with it (ON DELETE CASCADE). *)
delete_upstream_row(e) ==
    /\ editor[e].op = "idle" /\ begun < MaxOperations
    /\ \E u \in known : known' = known \ {u} /\ routes' = {r \in routes : r.up # u}
    /\ begun' = begun + 1
    /\ WroteRoutes(e)
    /\ UNCHANGED <<aliases, ids, editor>>

-----------------------------------------------------------------------------
(* The synchronisation of upstream u, with the list it has fetched.          *)

\* run_model_sync_task and sync_now: the list comes from the upstream, which the snapshot may
\* still hold after it was deleted.
SyncBegins(e, u) ==
    \E fetched, exclude \in SUBSET ModelNames :
        Begins(e, [op |-> "sync_own", up |-> u, desired |-> fetched \ exclude])

\* The upstream does not answer, or its row is gone: this round is skipped.
FetchFails(e) ==
    /\ editor[e].op = "sync_own"
    /\ Stops(e)
    /\ UNCHANGED <<known, routes, aliases, ids, begun, touched>>

SyncReadsOwn(e) ==
    /\ editor[e].op = "sync_own" /\ editor[e].up \in known
    /\ Goes(e, [op |-> "sync_others", up |-> editor[e].up, desired |-> editor[e].desired,
                own |-> {r \in routes : r.up = editor[e].up}])
    /\ UNCHANGED <<known, routes, aliases, ids, begun, touched>>

SyncReadsOthers(e) ==
    /\ editor[e].op = "sync_others"
    /\ Goes(e, [op |-> "sync_write", up |-> editor[e].up, desired |-> editor[e].desired, own |-> editor[e].own,
                others |-> Patterns({r \in routes : r.up # editor[e].up})])
    /\ UNCHANGED <<known, routes, aliases, ids, begun, touched>>

\* Bug: the routes are removed by their pattern
Unwanted_ByPattern(e) ==
    {r \in routes : /\ r.up = editor[e].up
                    /\ \E o \in editor[e].own : o.auto /\ o.pattern = r.pattern /\ o.pattern \notin editor[e].desired}

\* Managed routes that were read and are not desired, removed by their id
Unwanted(e) ==
    {r \in routes : \E o \in editor[e].own : o.id = r.id /\ o.auto /\ o.pattern \notin editor[e].desired}

Missing(e) == editor[e].desired \ (Patterns(editor[e].own) \cup editor[e].others)

\* The unique index on (model_pattern, upstream_id) of managed routes
IndexHolds(rs) == \A r, s \in rs : r.auto /\ s.auto /\ r.pattern = s.pattern /\ r.up = s.up => r.id = s.id

sync_auto(e) ==
    /\ editor[e].op = "sync_write" /\ ids + Cardinality(Missing(e)) <= MaxRouteIds
    /\ LET new == (routes \ Unwanted(e)) \cup NewRoutes(Missing(e), editor[e].up, TRUE)
       IN  IF IndexHolds(new) /\ MayInsert(Missing(e), editor[e].up)
           THEN routes' = new /\ ids' = ids + Cardinality(Missing(e)) /\ WroteRoutes(e)
           ELSE UNCHANGED <<routes, ids, touched>>      \* the transaction is rolled back
    /\ Stops(e)
    /\ UNCHANGED <<known, aliases, begun>>

-----------------------------------------------------------------------------
(* add_manual_routes: models that have no route yet, for an upstream.        *)
add_manual_read(e, u) ==
    \E models \in SUBSET ModelNames \ {{}} :
        Begins(e, [op |-> "add", up |-> u, models |-> models \ Patterns(routes)])

add_manual_routes(e) ==
    /\ editor[e].op = "add" /\ ids + Cardinality(editor[e].models) <= MaxRouteIds
    /\ IF MayInsert(editor[e].models, editor[e].up)
       THEN /\ routes' = routes \cup NewRoutes(editor[e].models, editor[e].up, FALSE)
            /\ ids' = ids + Cardinality(editor[e].models)
            /\ WroteRoutes(e)
       ELSE UNCHANGED <<routes, ids, touched>>
    /\ Stops(e)
    /\ UNCHANGED <<known, aliases, begun>>

(* replace_routes: the whole table, from what the page showed.  The checks   *)
(* (fields, upstream ids, names that are aliases) come first.                *)
replace_check(e) ==
    \E up \in SyncUpstreams, auto, manual \in SUBSET ModelNames :
        /\ MayInsert(auto \cup manual, up)
        /\ (auto \cup manual) \cap AliasNames = {}
        /\ Begins(e, [op |-> "replace", up |-> up, auto |-> auto, manual |-> manual \ auto])

replace_routes(e) ==
    /\ editor[e].op = "replace"
    /\ LET n == Cardinality(editor[e].auto \cup editor[e].manual)
           new == NewRoutes(editor[e].auto \cup editor[e].manual, editor[e].up, FALSE)
       IN  /\ ids + n <= MaxRouteIds
           /\ IF MayInsert(editor[e].auto \cup editor[e].manual, editor[e].up)
              THEN /\ ids' = ids + n
                   /\ routes' = {[r EXCEPT !.auto = r.pattern \in editor[e].auto] : r \in new}
                   /\ WroteRoutes(e)
              ELSE UNCHANGED <<routes, ids, touched>>
    /\ Stops(e)
    /\ UNCHANGED <<known, aliases, begun>>

-----------------------------------------------------------------------------
(* Aliases.  id 0 stands for none: create_alias.                             *)

\* The first query of check_conflicts
alias_check_route(e, id) ==
    \E alias, model \in ModelNames :
        /\ alias # model /\ alias \notin Patterns(routes)
        /\ Begins(e, [op |-> "alias_chain", id |-> id, alias |-> alias, model |-> model])

\* The second one: the model is not an alias (of another row).
check_conflicts(e) ==
    /\ editor[e].op = "alias_chain"
    /\ IF \E a \in aliases : a.alias = editor[e].model /\ a.id # editor[e].id
       THEN Stops(e)
       ELSE Goes(e, [editor[e] EXCEPT !.op = "alias_write"])
    /\ UNCHANGED <<known, routes, aliases, ids, begun, touched>>

AliasIds == Cardinality(aliases) + begun     \* above every id in use
AliasRow(e, id) == [id |-> id, alias |-> editor[e].alias, model |-> editor[e].model]

\* alias is UNIQUE: a second row of that name is refused.
create_alias(e) ==
    /\ editor[e].op = "alias_write" /\ editor[e].id = 0
    /\ aliases' = IF editor[e].alias \in AliasNames THEN aliases ELSE aliases \cup {AliasRow(e, AliasIds + 1)}
    /\ Stops(e)
    /\ UNCHANGED <<known, routes, ids, begun, touched>>

update_alias(e) ==
    /\ editor[e].op = "alias_write" /\ editor[e].id # 0
    /\ LET row == {a \in aliases : a.id = editor[e].id}
           taken == \E a \in aliases \ row : a.alias = editor[e].alias
       IN  aliases' = IF row = {} \/ taken THEN aliases ELSE (aliases \ row) \cup {AliasRow(e, editor[e].id)}
    /\ Stops(e)
    /\ UNCHANGED <<known, routes, ids, begun, touched>>

delete_alias(e) ==
    /\ editor[e].op = "idle" /\ begun < MaxOperations
    /\ \E a \in aliases : aliases' = aliases \ {a}
    /\ begun' = begun + 1
    /\ UNCHANGED <<known, routes, ids, editor, touched>>

RouteNext ==
    \E e \in Editors :
        \/ \E u \in SyncUpstreams : SyncBegins(e, u) \/ add_manual_read(e, u)
        \/ FetchFails(e) \/ SyncReadsOwn(e) \/ SyncReadsOthers(e) \/ sync_auto(e)
        \/ add_manual_routes(e) \/ replace_check(e) \/ replace_routes(e)
        \/ \E id \in {0} \cup {a.id : a \in aliases} : alias_check_route(e, id)
        \/ check_conflicts(e) \/ create_alias(e) \/ update_alias(e) \/ delete_alias(e)
        \/ delete_upstream_row(e)

RouteSpec == RouteInit /\ [][RouteNext]_routeVars

-----------------------------------------------------------------------------
RouteRows == [id : 1 .. MaxRouteIds, pattern : ModelNames, up : SyncUpstreams, auto : BOOLEAN]

EditorStates ==
    {EditorIdle}
    \cup [op : {"sync_own"}, up : SyncUpstreams, desired : SUBSET ModelNames]
    \cup [op : {"sync_others"}, up : SyncUpstreams, desired : SUBSET ModelNames, own : SUBSET RouteRows]
    \cup [op : {"sync_write"}, up : SyncUpstreams, desired : SUBSET ModelNames, own : SUBSET RouteRows,
          others : SUBSET ModelNames]
    \cup [op : {"add"}, up : SyncUpstreams, models : SUBSET ModelNames]
    \cup [op : {"replace"}, up : SyncUpstreams, auto : SUBSET ModelNames, manual : SUBSET ModelNames]
    \cup [op : {"alias_chain", "alias_write"}, id : 0 .. 2 * MaxOperations, alias : ModelNames, model : ModelNames]

RouteTypeOK ==
    /\ known \subseteq SyncUpstreams /\ \A r \in routes : r.up \in known
    /\ routes \subseteq RouteRows /\ ids \in 0 .. MaxRouteIds /\ begun \in 0 .. MaxOperations /\ touched \subseteq Editors
    /\ DOMAIN editor = Editors /\ \A e \in Editors : editor[e] \in EditorStates
    /\ aliases \subseteq [id : 1 .. 2 * MaxOperations, alias : ModelNames, model : ModelNames]
    /\ \A a, b \in aliases : a.alias = b.alias => a = b
    /\ IndexHolds(routes)

\* The step removes no route that an administrator made, not even one that took the place
\* of a managed route after it was read.
ManualKept == \A r \in routes : ~r.auto => r \in routes'

\* After the step every model the upstream offers has a route, and the upstream has no
\* managed route for any other model.
SyncComplete(e) ==
    /\ editor[e].desired \subseteq Patterns(routes')
    /\ \A r \in routes' : r.auto /\ r.up = editor[e].up => r.pattern \in editor[e].desired

\* A synchronisation (model_sync.rs) keeps every route an administrator made, whatever
\* happened since it read them, and is complete if nobody disturbed it.
SyncSafe ==
    [][\A e \in Editors :
        sync_auto(e) => ManualKept /\ (e \notin touched => SyncComplete(e))]_routeVars

\* No alias leads to another alias, as check_conflicts means to ensure.
\* (Refuted: it looks whether the model is an alias, not whether the alias
\* is the model of another.)
NoChains == \A a, b \in aliases : a.model # b.alias

\* No name is both an alias and a route.  (Refuted: the synchronisation and
\* add_manual_routes do not look at the aliases.)
NoAmbiguity == AliasNames \cap Patterns(routes) = {}
=============================================================================

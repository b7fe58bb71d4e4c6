------------------------------- MODULE GraphDb -------------------------------
(***************************************************************************)
(* The graph database: the graph in memory, the write transaction with its *)
(* undo journal (src/graph_db/database.cpp, transaction.cpp), and the      *)
(* incremental save that carries the graph to the cold store (graph.cpp,   *)
(* edge.cpp, serialize.cpp).                                               *)
(*                                                                         *)
(* One flow writes at a time (the write lease of Graph); the only writes   *)
(* that run beside it are content updates of single vertices.  A command   *)
(* is one step, except where it loops over entities or journal entries:    *)
(* the strip after a freed label, the rollback and the save are stepped,   *)
(* and "act" says which loop the writing flow is in.                       *)
(*                                                                         *)
(* "Sym" stands for label ids and property type ids.  The two registries   *)
(* are separate and alike, so one stands for both: an entity carries a     *)
(* value (or nothing) for each symbol, and a label is a symbol carried     *)
(* with a fixed value.  The direction of an edge is journaled and restored *)
(* with its values and is one of them.                                     *)
(***************************************************************************)
EXTENDS Integers, Sequences, FiniteSets

CONSTANTS
  Vertex, Edge,     \* guids of vertices and of edges
  Sym, Name,        \* label and property type ids, and their names
  Key,              \* external keys
  KeyLabel,         \* the label of a key
  Value,            \* values an entity may carry for a symbol
  Content,          \* contents of a vertex
  None,             \* no record
  Cap,              \* max_journal_bytes; 0: no cap
  ReportWarning,    \* KeyMode::report_warning
  SelfEdges, ParallelEdges,   \* allow_self_edges, allow_parallel_edges
  PersistOnCommit,  \* persist_on_commit
  InMemory          \* opened without a directory: nothing is ever saved

Load == [Sym -> Value \cup {None}]
VertexRec == [key : Key \cup {None}, load : Load]
EdgeRec == [origin : Vertex, target : Vertex, load : Load]
OptEdges == [Edge -> EdgeRec \cup {None}]
Graph == [vertex : [Vertex -> VertexRec \cup {None}],
          edge : OptEdges,
          schema : [Sym -> Name \cup {None}],
          keys : [Key -> Vertex \cup {None}]]

ASSUME IdAssumption ==
  /\ Vertex \cap Edge = {} /\ Sym \cap (Vertex \cup Edge) = {}
  /\ IsFiniteSet(Edge)
ASSUME KeyAssumption == KeyLabel \in [Key -> Sym]
ASSUME ContentAssumption == 0 \in Content      \* the empty content
ASSUME NoneAssumption ==
  /\ None \notin Vertex \cup Edge \cup Sym \cup Name \cup Key \cup Value
  /\ None \notin VertexRec
  /\ None \notin EdgeRec
ASSUME OptionAssumption ==
  /\ Cap \in Nat
  /\ ReportWarning \in BOOLEAN
  /\ SelfEdges \in BOOLEAN
  /\ ParallelEdges \in BOOLEAN
  /\ PersistOnCommit \in BOOLEAN
  /\ InMemory \in BOOLEAN

VARIABLES
  graph,      \* the graph, its key index and its schema
  content,    \* the contents of the vertices
  used,       \* ids minted so far: a guid or a symbol id is never minted twice
  tx,         \* the open transaction: Database::_tx
  journal,    \* its undo journal
  bytes,      \* Transaction::_journal_bytes
  act,        \* the loop the writing flow is in
  strip,      \* the symbol a strip removes
  dirty,      \* ids whose record the next save writes
  gone,       \* ids the next save writes a tombstone for
  batch,      \* the save in flight
  disk,       \* the cold store
  saved,      \* history: the graph when the transaction began
  lost,       \* history: some change in a transaction had no undo record, or
              \* some undo record no change
  adrift      \* history: edges an undo put back, or whose tombstone it
              \* dropped, and no save has written since

vars == <<graph, content, used, tx, journal, bytes, act, strip, dirty, gone,
          batch, disk, saved, lost, adrift>>
-----------------------------------------------------------------------------
(***************************************************************************)
(* What the graph operations do to a graph.                                *)
(***************************************************************************)

LiveV(g) == {v \in Vertex : g.vertex[v] # None}
LiveE(g) == {e \in Edge : g.edge[e] # None}

Ends(r) == {r.origin, r.target}
Incident(g, v) == {e \in LiveE(g) : v \in Ends(g.edge[e])}
Neighbours(g, v) == UNION {Ends(g.edge[e]) : e \in Incident(g, v)} \ {v}

\* An id the schema does not know is refused.
Registered(g, load) == \A s \in Sym : load[s] # None => g.schema[s] # None

put_vertex(g, v, r) ==
  [g EXCEPT !.vertex[v] = r,
            !.keys = IF r.key # None /\ @[r.key] = None
                       THEN [@ EXCEPT ![r.key] = v] ELSE @]

put_edge(g, e, r) == [g EXCEPT !.edge[e] = r]
put_name(g, s, n) == [g EXCEPT !.schema[s] = n]
put_load(g, v, load) == [g EXCEPT !.vertex[v] = [@ EXCEPT !.load = load]]

\* Mutant: the key index keeps the key of a removed vertex.
remove_vertex_keyed(g, v) ==
  IF g.vertex[v] = None THEN g
  ELSE [g EXCEPT !.vertex[v] = None,
                 !.edge = [e \in Edge |-> IF e \in Incident(g, v) THEN None ELSE g.edge[e]]]

\* Detach the vertex, drop its edges and its entry of the key index.
remove_vertex(g, v) ==
  IF g.vertex[v] = None THEN g
  ELSE [g EXCEPT !.vertex[v] = None,
                 !.edge = [e \in Edge |-> IF e \in Incident(g, v) THEN None ELSE g.edge[e]],
                 !.keys = IF g.vertex[v].key = None THEN @
                          ELSE [@ EXCEPT ![g.vertex[v].key] = None]]

adopt_vertex(g, v, r) == IF g.vertex[v] # None THEN g ELSE put_vertex(g, v, r)

Adoptable(g, e, r) ==
  /\ g.edge[e] = None
  /\ Ends(r) \subseteq LiveV(g)
  /\ SelfEdges \/ r.origin # r.target

\* "removed" maps every edge to the record to put back, or to None.
adopt_edges(g, removed) ==
  [g EXCEPT !.edge = [e \in Edge |->
     IF removed[e] # None /\ Adoptable(g, e, removed[e]) THEN removed[e] ELSE g.edge[e]]]

\* A new origin or target must be live.  Neither self nor parallel edges
\* are refused here.
move_endpoint(g, e, o, t) ==
  IF {o, t} \subseteq LiveV(g)
    THEN put_edge(g, e, [g.edge[e] EXCEPT !.origin = o, !.target = t]) ELSE g

NameTaken(g, s, n) == \E t \in Sym \ {s} : g.schema[t] = n

rename_label(g, s, n) ==
  IF g.schema[s] = None \/ NameTaken(g, s, n) THEN g ELSE put_name(g, s, n)

restore_label(g, s, n) ==
  IF g.schema[s] # None \/ NameTaken(g, s, n) THEN g ELSE put_name(g, s, n)
-----------------------------------------------------------------------------
(***************************************************************************)
(* The undo journal.  Every entry carries the fields its kind needs:       *)
(*   vertex_created, edge_created, sym_created      id                     *)
(*   vertex_removed   id, rec, edges (the cascade), flags (its dirty ones) *)
(*   edge_removed     id, edges, flags                                     *)
(*   vertex_payload   id, load                                             *)
(*   edge_state       id, rec                                              *)
(*   sym_renamed, sym_freed                         id, name               *)
(***************************************************************************)

Slim == {"vertex_created", "edge_created", "sym_created"}

Entry ==
  [kind : {"vertex_created"}, id : Vertex]
  \cup [kind : {"edge_created"}, id : Edge]
  \cup [kind : {"sym_created"}, id : Sym]
  \cup [kind : {"vertex_removed"}, id : Vertex, rec : VertexRec, edges : OptEdges,
        flags : SUBSET Edge]
  \cup [kind : {"edge_removed"}, id : Edge, edges : OptEdges, flags : SUBSET Edge]
  \cup [kind : {"vertex_payload"}, id : Vertex, load : Load]
  \cup [kind : {"edge_state"}, id : Edge, rec : EdgeRec]
  \cup [kind : {"sym_renamed", "sym_freed"}, id : Sym, name : Name]

\* approximate_bytes: an entry, its payload, and the edges of a cascade.
Bytes(j) ==
  IF j.kind \in Slim THEN 1
  ELSE 2 + IF j.kind # "vertex_removed" THEN 0
           ELSE Cardinality({e \in Edge : j.edges[e] # None})

InTx == tx \in {"write", "bulk"}
Fits(j) == Cap = 0 \/ bytes + Bytes(j) <= Cap

\* The journal keeps the entry; a step that cannot push it is refused with
\* error_size_limit and changes nothing.
Logged(j) ==
  IF InTx THEN /\ Fits(j)
               /\ journal' = Append(journal, j)
               /\ bytes' = bytes + Bytes(j)
          ELSE UNCHANGED <<journal, bytes>>

Created(kind, id) == [kind |-> kind, id |-> id]
\* Mutant: the cascade of a freed vertex is not journaled.
VertexRemovedAlone(g, v) ==
  [kind |-> "vertex_removed", id |-> v, rec |-> g.vertex[v],
   edges |-> [e \in Edge |-> None], flags |-> {}]

VertexRemoved(g, v) ==
  [kind |-> "vertex_removed", id |-> v, rec |-> g.vertex[v],
   edges |-> [e \in Edge |-> IF e \in Incident(g, v) THEN g.edge[e] ELSE None],
   flags |-> Incident(g, v) \cap dirty]
EdgeRemoved(g, e) ==
  [kind |-> "edge_removed", id |-> e,
   edges |-> [d \in Edge |-> IF d = e THEN g.edge[d] ELSE None], flags |-> {}]
VertexPayload(g, v) == [kind |-> "vertex_payload", id |-> v, load |-> g.vertex[v].load]
EdgeState(g, e) == [kind |-> "edge_state", id |-> e, rec |-> g.edge[e]]
\* Mutant: the entry is built after the name is erased.
SymNamedLate(kind, g, s) ==
  [kind |-> kind, id |-> s, name |-> IF kind = "sym_freed" THEN None ELSE g.schema[s]]
SymNamed(kind, g, s) == [kind |-> kind, id |-> s, name |-> g.schema[s]]

\* One turn of the rollback loop: the graph before the entry was pushed.
Undo(j, g) ==
  CASE j.kind = "vertex_created" -> remove_vertex(g, j.id)
    [] j.kind = "vertex_removed" -> adopt_edges(adopt_vertex(g, j.id, j.rec), j.edges)
    [] j.kind = "vertex_payload" ->
         IF g.vertex[j.id] = None THEN g ELSE put_load(g, j.id, j.load)
    [] j.kind = "edge_created" -> put_edge(g, j.id, None)
    [] j.kind = "edge_removed" -> adopt_edges(g, j.edges)
    [] j.kind = "edge_state" ->
         IF g.edge[j.id] = None THEN g
         ELSE LET h == move_endpoint(g, j.id, j.rec.origin, g.edge[j.id].target)
                  k == move_endpoint(h, j.id, h.edge[j.id].origin, j.rec.target)
              IN  put_edge(k, j.id, [k.edge[j.id] EXCEPT !.load = j.rec.load])
    [] j.kind = "sym_created" -> put_name(g, j.id, None)
    [] j.kind = "sym_renamed" -> rename_label(g, j.id, j.name)
    [] j.kind = "sym_freed" -> restore_label(g, j.id, j.name)

\* Edges the adoption of an undo inserts into the edge table, and those of
\* them it links.  The insertion alone drops the tombstone.
Inserted(j, g) ==
  {e \in Edge : /\ j.edges[e] # None
                /\ g.edge[e] = None
                /\ SelfEdges \/ j.edges[e].origin # j.edges[e].target}
Adopted(j, g) == {e \in Inserted(j, g) : Ends(j.edges[e]) \subseteq LiveV(Undo(j, g))}

\* The dirty marks a removal, an adoption and an edit leave.  A change of
\* the links of a vertex marks the vertex; a removed record is not indexed;
\* an adopted edge keeps the flag it had when it was removed, except that an
\* edge_removed entry rebuilds its edge clean.
DirtyRemoval(g, v) == (dirty \ ({v} \cup Incident(g, v))) \cup Neighbours(g, v)

UndoDirty(j, g) ==
  CASE j.kind = "vertex_created" ->
         IF g.vertex[j.id] = None THEN dirty ELSE DirtyRemoval(g, j.id)
    [] j.kind \in {"vertex_removed", "edge_removed"} ->
         dirty \cup ({j.id} \cap Vertex) \cup (j.flags \cap Adopted(j, g))
               \cup UNION {Ends(j.edges[e]) : e \in Adopted(j, g)}
    [] j.kind = "vertex_payload" ->
         IF g.vertex[j.id] = None THEN dirty ELSE dirty \cup {j.id}
    [] j.kind = "edge_created" ->
         IF g.edge[j.id] = None THEN dirty ELSE (dirty \ {j.id}) \cup Ends(g.edge[j.id])
    [] j.kind = "edge_state" ->
         IF g.edge[j.id] = None THEN dirty
         ELSE dirty \cup {j.id} \cup
              IF j.rec.origin = g.edge[j.id].origin /\ j.rec.target = g.edge[j.id].target
              THEN {} ELSE Ends(j.rec) \cup Ends(g.edge[j.id])
    [] OTHER -> dirty

\* Mutant: what an undo puts back keeps its tombstone.
UndoGoneKept(j, g) ==
  CASE j.kind = "vertex_created" ->
         IF g.vertex[j.id] = None THEN gone ELSE gone \cup {j.id} \cup Incident(g, j.id)
    [] j.kind = "edge_created" -> IF g.edge[j.id] = None THEN gone ELSE gone \cup {j.id}
    [] OTHER -> gone

UndoGone(j, g) ==
  CASE j.kind = "vertex_created" ->
         IF g.vertex[j.id] = None THEN gone ELSE gone \cup {j.id} \cup Incident(g, j.id)
    [] j.kind \in {"vertex_removed", "edge_removed"} ->
         gone \ ((IF j.kind = "vertex_removed" THEN {j.id} ELSE {}) \cup Inserted(j, g))
    [] j.kind = "edge_created" -> IF g.edge[j.id] = None THEN gone ELSE gone \cup {j.id}
    [] OTHER -> gone
-----------------------------------------------------------------------------
(***************************************************************************)
(* The commands.  A write is refused in a read-only scope; inside a batch  *)
(* only its rows run.                                                      *)
(***************************************************************************)

NoBatch == [ids |-> {}, content |-> [v \in Vertex |-> 0], gone |-> {}, touched |-> {}]

EmptyGraph ==
  [vertex |-> [v \in Vertex |-> None], edge |-> [e \in Edge |-> None],
   schema |-> [s \in Sym |-> None], keys |-> [k \in Key |-> None]]

Init ==
  /\ graph = EmptyGraph
  /\ content = [v \in Vertex |-> 0]
  /\ used = {}
  /\ tx = "none" /\ journal = <<>> /\ bytes = 0
  /\ act = "idle" /\ strip = None
  /\ dirty = {} /\ gone = {} /\ batch = NoBatch
  /\ disk = [vertex |-> EmptyGraph.vertex, edge |-> EmptyGraph.edge,
             schema |-> EmptyGraph.schema, content |-> [v \in Vertex |-> 0], minted |-> {}]
  /\ saved = EmptyGraph /\ lost = FALSE /\ adrift = {}

Writing == act = "idle" /\ tx \in {"none", "write"}
storeVars == <<content, batch, disk>>
scopeVars == <<tx, act, strip, saved>>

\* Graph::create_vertex and the journal entry of Database::create_vertex; the
\* vertex is freed again when the journal is full.
add_vertex(v, k, load) ==
  /\ v \in Vertex \ used
  /\ k # None => graph.keys[k] = None /\ graph.schema[KeyLabel[k]] # None
  /\ used' = used \cup {v}
  /\ LET j == Created("vertex_created", v) IN
       IF InTx /\ ~Fits(j)
         THEN gone' = gone \cup {v} /\ UNCHANGED <<graph, journal, bytes, dirty>>
         ELSE /\ Logged(j)
              /\ graph' = put_vertex(graph, v, [key |-> k, load |-> load])
              /\ dirty' = dirty \cup {v}
              /\ UNCHANGED gone
  /\ UNCHANGED <<scopeVars, storeVars, lost, adrift>>

create_vertex(v, k, load) ==
  /\ Writing \/ (act = "idle" /\ tx = "bulk")
  /\ Registered(graph, load)
  /\ add_vertex(v, k, load)

\* A key that exists returns its vertex untouched; the labels and the values
\* of a new vertex are not validated here.
get_or_create_vertex(v, k, load) == Writing /\ add_vertex(v, k, load)

\* KeyMode::report_warning: the existing vertex comes back with a warning,
\* which is no error, so the command goes on to journal a creation, or to undo
\* one when the journal is full.
create_vertex_warning(k) ==
  /\ Writing \/ (act = "idle" /\ tx = "bulk")
  /\ ReportWarning /\ InTx
  /\ graph.schema[KeyLabel[k]] # None
  /\ graph.keys[k] # None
  /\ LET v == graph.keys[k]
         j == Created("vertex_created", v) IN
       IF Fits(j)
         THEN Logged(j) /\ UNCHANGED <<graph, dirty, gone>>
         ELSE /\ graph' = Undo(j, graph)
              /\ dirty' = UndoDirty(j, graph)
              /\ gone' = UndoGone(j, graph)
              /\ UNCHANGED <<journal, bytes>>
  /\ lost' = TRUE
  /\ UNCHANGED <<used, scopeVars, storeVars, adrift>>

\* The vertex and its edges are gone before the entry is pushed: when the
\* journal is full the entry, and the vertex with it, is dropped.
free_vertex(v) ==
  /\ Writing
  /\ v \in LiveV(graph)
  /\ graph' = remove_vertex(graph, v)
  /\ dirty' = DirtyRemoval(graph, v)
  /\ gone' = gone \cup {v} \cup Incident(graph, v)
  /\ LET j == VertexRemoved(graph, v) IN
       IF InTx /\ ~Fits(j) THEN lost' = TRUE /\ UNCHANGED <<journal, bytes>>
                           ELSE Logged(j) /\ UNCHANGED lost
  /\ UNCHANGED <<used, scopeVars, storeVars, adrift>>

free_vertex_guarded(v) == Incident(graph, v) = {} /\ free_vertex(v)

\* add_label, remove_label, add_property, set_property, update_property and
\* remove_properties: the old payload is journaled, then one symbol changes.
\* An edit the vertex refuses is journaled and changes nothing; one that
\* writes the value already there may or may not mark the vertex.
edit_vertex(v, s, x) ==
  /\ Writing
  /\ v \in LiveV(graph)
  /\ x # None => graph.schema[s] # None
  /\ Logged(VertexPayload(graph, v))
  /\ graph' = put_load(graph, v, [graph.vertex[v].load EXCEPT ![s] = x])
  /\ \/ dirty' = dirty \cup {v}
     \/ x = graph.vertex[v].load[s] /\ UNCHANGED dirty
  /\ UNCHANGED <<used, gone, scopeVars, storeVars, lost, adrift>>

\* The uid is minted or chosen by the caller, who may name a dead edge.
edge_create(e, o, t, load) ==
  /\ Writing
  /\ Registered(graph, load)
  /\ graph.edge[e] = None
  /\ {o, t} \subseteq LiveV(graph)
  /\ SelfEdges \/ o # t
  /\ ParallelEdges \/ \A d \in LiveE(graph) : <<graph.edge[d].origin, graph.edge[d].target>> # <<o, t>>
  /\ LET j == Created("edge_created", e) IN
       IF InTx /\ ~Fits(j)
         THEN /\ gone' = gone \cup {e}
              /\ dirty' = dirty \cup {o, t}
              /\ UNCHANGED <<graph, journal, bytes>>
         ELSE /\ Logged(j)
              /\ graph' = put_edge(graph, e, [origin |-> o, target |-> t, load |-> load])
              /\ gone' = gone \ {e}
              /\ dirty' = dirty \cup {e, o, t}
  /\ UNCHANGED <<used, scopeVars, storeVars, lost, adrift>>

edge_free(e) ==
  /\ Writing
  /\ e \in LiveE(graph)
  /\ Logged(EdgeRemoved(graph, e))
  /\ graph' = put_edge(graph, e, None)
  /\ dirty' = (dirty \ {e}) \cup Ends(graph.edge[e])
  /\ gone' = gone \cup {e}
  /\ UNCHANGED <<used, scopeVars, storeVars, lost, adrift>>

\* set_edge_origin and set_edge_target: journaled even when the new endpoint
\* does not exist and nothing moves.
move_edge(e, o, t) ==
  /\ Writing
  /\ e \in LiveE(graph)
  /\ o = graph.edge[e].origin \/ t = graph.edge[e].target
  /\ Logged(EdgeState(graph, e))
  /\ graph' = move_endpoint(graph, e, o, t)
  /\ dirty' = IF graph'.edge[e] = graph.edge[e] THEN dirty
              ELSE dirty \cup {e, o, t} \cup Ends(graph.edge[e])
  /\ UNCHANGED <<used, gone, scopeVars, storeVars, lost, adrift>>

\* set_edge_direction and the edge label and property commands.
edit_edge(e, s, x) ==
  /\ Writing
  /\ e \in LiveE(graph)
  /\ x # None => graph.schema[s] # None
  /\ Logged(EdgeState(graph, e))
  /\ graph' = put_edge(graph, e, [graph.edge[e] EXCEPT !.load = [@ EXCEPT ![s] = x]])
  /\ \/ dirty' = dirty \cup {e}
     \/ x = graph.edge[e].load[s] /\ UNCHANGED dirty
  /\ UNCHANGED <<used, gone, scopeVars, storeVars, lost, adrift>>

-----------------------------------------------------------------------------
(***************************************************************************)
(* The schema.  Freeing a symbol strips it from every entity that carries  *)
(* it, one entity a step.                                                  *)
(***************************************************************************)

create_sym(s, n) ==
  /\ Writing
  /\ s \in Sym \ used
  /\ ~NameTaken(graph, s, n)
  /\ used' = used \cup {s}
  /\ LET j == Created("sym_created", s) IN
       IF InTx /\ ~Fits(j) THEN UNCHANGED <<graph, journal, bytes>>
                           ELSE Logged(j) /\ graph' = put_name(graph, s, n)
  /\ UNCHANGED <<dirty, gone, scopeVars, storeVars, lost, adrift>>

\* update_label and update_property_type: journaled first, then refused when
\* the name is taken or live values pin the declaration.
update_sym(s, n) ==
  /\ Writing
  /\ graph.schema[s] # None
  /\ Logged(SymNamed("sym_renamed", graph, s))
  /\ graph' \in {graph, rename_label(graph, s, n)}
  /\ UNCHANGED <<used, dirty, gone, scopeVars, storeVars, lost, adrift>>

IsKeyLabel(g, s) ==
  \E v \in LiveV(g) : g.vertex[v].key # None /\ KeyLabel[g.vertex[v].key] = s

free_sym(s) ==
  /\ Writing
  /\ graph.schema[s] # None
  /\ ~IsKeyLabel(graph, s)
  /\ Logged(SymNamed("sym_freed", graph, s))
  /\ graph' = put_name(graph, s, None)
  /\ act' = "strip" /\ strip' = s
  /\ UNCHANGED <<used, tx, saved, dirty, gone, storeVars, lost, adrift>>

CarriersV == {v \in LiveV(graph) : graph.vertex[v].load[strip] # None}
CarriersE == {e \in LiveE(graph) : graph.edge[e].load[strip] # None}

\* A strip does not look at what the journal answered.
StripLogged(j) ==
  IF InTx /\ ~Fits(j) THEN lost' = TRUE /\ UNCHANGED <<journal, bytes>>
                      ELSE Logged(j) /\ UNCHANGED lost

strip_vertex(v) ==
  /\ act = "strip" /\ v \in CarriersV
  /\ StripLogged(VertexPayload(graph, v))
  /\ graph' = put_load(graph, v, [graph.vertex[v].load EXCEPT ![strip] = None])
  /\ dirty' = dirty \cup {v}
  /\ UNCHANGED <<used, gone, scopeVars, storeVars, adrift>>

strip_edge(e) ==
  /\ act = "strip" /\ CarriersV = {} /\ e \in CarriersE
  /\ StripLogged(EdgeState(graph, e))
  /\ graph' = put_edge(graph, e, [graph.edge[e] EXCEPT !.load = [@ EXCEPT ![strip] = None]])
  /\ dirty' = dirty \cup {e}
  /\ UNCHANGED <<used, gone, scopeVars, storeVars, adrift>>

strip_done ==
  /\ act = "strip" /\ CarriersV = {} /\ CarriersE = {}
  /\ act' = "idle" /\ strip' = None
  /\ UNCHANGED <<graph, used, tx, journal, bytes, saved, dirty, gone, storeVars, lost, adrift>>
-----------------------------------------------------------------------------
(***************************************************************************)
(* Transactions.  "read" and "collective" scopes are read-only; "bulk" is  *)
(* the scope create_vertices_bulk opens when the caller has none.          *)
(***************************************************************************)

Open(scope) ==
  /\ act = "idle" /\ tx = "none"
  /\ tx' = scope
  /\ saved' = graph
  /\ UNCHANGED <<graph, used, journal, bytes, act, strip, dirty, gone, storeVars, lost, adrift>>

begin_transaction(read_only) == Open(IF read_only THEN "read" ELSE "write")
begin_collective == Open("collective")
bulk_begin == Open("bulk")

\* GraphSerializer::_write, collect: a full save marks everything first; the
\* tombstones are taken out of the graph.
Collect(full) ==
  LET all == IF full THEN dirty \cup LiveV(graph) \cup LiveE(graph) ELSE dirty IN
  /\ dirty' = all /\ gone' = {}
  /\ batch' = [NoBatch EXCEPT !.ids = all, !.gone = gone]
  /\ act' = "encode"

commit ==
  /\ act = "idle" /\ tx \in {"write", "read", "collective"}
  /\ tx' = "none" /\ journal' = <<>> /\ bytes' = 0
  /\ IF PersistOnCommit /\ tx = "write" /\ ~InMemory
       THEN Collect(FALSE) ELSE UNCHANGED <<dirty, gone, batch, act>>
  /\ UNCHANGED <<graph, content, used, strip, disk, saved, lost, adrift>>

bulk_end ==
  /\ act = "idle" /\ tx = "bulk"
  /\ tx' = "none" /\ journal' = <<>> /\ bytes' = 0
  /\ UNCHANGED <<graph, used, act, strip, dirty, gone, storeVars, saved, lost, adrift>>

Rollback(loop) ==
  /\ act' = loop /\ bytes' = 0
  /\ UNCHANGED <<graph, used, tx, journal, strip, dirty, gone, storeVars, saved, lost, adrift>>

abort == act = "idle" /\ tx \in {"write", "read", "collective"} /\ Rollback("abort")

\* The first row a batch cannot create undoes the journal: its own, or the
\* whole journal of the transaction the caller opened, which stays open.
bulk_fail == act = "idle" /\ InTx /\ Rollback(IF tx = "bulk" THEN "abort" ELSE "batch")

undo_entry ==
  /\ act \in {"abort", "batch"} /\ journal # <<>>
  /\ LET j == journal[Len(journal)] IN
       /\ graph' = Undo(j, graph)
       /\ dirty' = UndoDirty(j, graph)
       /\ gone' = UndoGone(j, graph)
       /\ adrift' = IF j.kind \in {"vertex_removed", "edge_removed"}
                      THEN adrift \cup Inserted(j, graph) ELSE adrift
  /\ journal' = SubSeq(journal, 1, Len(journal) - 1)
  /\ UNCHANGED <<used, bytes, scopeVars, storeVars, lost>>

rollback_done ==
  /\ act \in {"abort", "batch"} /\ journal = <<>>
  /\ act' = "idle"
  /\ tx' = IF act = "abort" THEN "none" ELSE tx
  /\ UNCHANGED <<graph, used, journal, bytes, strip, dirty, gone, storeVars, saved, lost, adrift>>
-----------------------------------------------------------------------------
(***************************************************************************)
(* The save and the store.  The batch is one store transaction: all of it  *)
(* or none.  Only content updates run beside a save; they are read when    *)
(* the record is encoded, and the epoch of a touched vertex has moved when *)
(* the save comes to clear its mark.                                       *)
(***************************************************************************)

memVars == <<graph, used, tx, journal, bytes, strip, saved, lost>>

persist(full) ==
  /\ act = "idle" /\ tx # "bulk" /\ ~InMemory
  /\ Collect(full)
  /\ UNCHANGED <<memVars, content, disk, adrift>>

save_encode ==
  /\ act = "encode"
  /\ act' = "store"
  /\ batch' = [batch EXCEPT !.content = [v \in Vertex |->
                                           IF v \in batch.ids THEN content[v] ELSE 0]]
  /\ UNCHANGED <<memVars, content, dirty, gone, disk, adrift>>

Stored(old, new) ==
  [i \in DOMAIN old |-> IF i \in batch.gone THEN None
                        ELSE IF i \in batch.ids THEN new[i] ELSE old[i]]

\* Mutant: the edges go into a store transaction of their own, ahead of the
\* vertices.
save_batch_edges ==
  /\ act = "store"
  /\ act' = "clear"
  /\ disk' = [disk EXCEPT !.edge = Stored(@, graph.edge)]
  /\ adrift' = adrift \ batch.ids
  /\ gone' = gone \cup (batch.gone \cap Vertex)
  /\ batch' = [batch EXCEPT !.ids = @ \cap Edge, !.gone = {}]
  /\ UNCHANGED <<memVars, content, dirty>>

save_batch ==
  /\ act = "store"
  /\ act' = "clear"
  /\ disk' = [vertex |-> Stored(disk.vertex, graph.vertex),
              edge |-> Stored(disk.edge, graph.edge),
              content |-> [v \in Vertex |-> IF v \in batch.ids THEN batch.content[v]
                                            ELSE disk.content[v]],
              schema |-> graph.schema, minted |-> used \cap Sym]
  /\ adrift' = adrift \ batch.ids
  /\ batch' = [batch EXCEPT !.gone = {}]
  /\ UNCHANGED <<memVars, content, dirty, gone>>

\* Mutant: a refused batch takes the tombstones of its edges with it.
save_refused_forgetful ==
  /\ act = "store"
  /\ act' = "idle"
  /\ gone' = gone \cup (batch.gone \cap Vertex)
  /\ batch' = NoBatch
  /\ UNCHANGED <<memVars, content, dirty, disk, adrift>>

\* The store refused the batch: every mark stays and the tombstones go back.
save_refused ==
  /\ act = "store"
  /\ act' = "idle"
  /\ gone' = gone \cup batch.gone
  /\ batch' = NoBatch
  /\ UNCHANGED <<memVars, content, dirty, disk, adrift>>

\* Mutant: the marks are cleared whether the epoch moved or not.
clear_dirty_always ==
  /\ act = "clear"
  /\ act' = "idle"
  /\ dirty' = dirty \ batch.ids
  /\ batch' = NoBatch
  /\ UNCHANGED <<memVars, content, gone, disk, adrift>>

clear_dirty_if ==
  /\ act = "clear"
  /\ act' = "idle"
  /\ dirty' = dirty \ (batch.ids \ batch.touched)
  /\ batch' = NoBatch
  /\ UNCHANGED <<memVars, content, gone, disk, adrift>>

update_content(v, c) ==
  /\ v \in LiveV(graph)
  /\ c # content[v]
  /\ content' = [content EXCEPT ![v] = c]
  /\ dirty' = dirty \cup {v}
  /\ batch' = IF act \in {"encode", "store", "clear"}
                THEN [batch EXCEPT !.touched = @ \cup {v}] ELSE batch
  /\ UNCHANGED <<memVars, act, gone, disk, adrift>>

\* GraphDeserializer::load into an empty graph: the schema, every vertex, and
\* then the edges that can be adopted.
Loaded ==
  adopt_edges([vertex |-> disk.vertex, edge |-> EmptyGraph.edge, schema |-> disk.schema,
               keys |-> [k \in Key |->
                 LET owners == {v \in Vertex : disk.vertex[v] # None /\ disk.vertex[v].key = k}
                 IN  IF owners = {} THEN None ELSE CHOOSE v \in owners : TRUE]],
              disk.edge)

\* The process dies at any point and the database is opened again.
crash_open ==
  /\ ~InMemory
  /\ graph' = Loaded
  /\ content' = disk.content
  /\ used' = (used \cap Vertex) \cup disk.minted
  /\ tx' = "none" /\ journal' = <<>> /\ bytes' = 0
  /\ act' = "idle" /\ strip' = None
  /\ dirty' = {} /\ gone' = {} /\ batch' = NoBatch
  /\ saved' = Loaded
  /\ adrift' = {e \in adrift : Loaded.edge[e] # disk.edge[e]}
  /\ UNCHANGED <<disk, lost>>
-----------------------------------------------------------------------------
VertexCommand ==
  \/ \E v \in Vertex, k \in Key \cup {None}, load \in Load : create_vertex(v, k, load)
  \/ \E v \in Vertex, k \in Key \cup {None}, load \in Load : get_or_create_vertex(v, k, load)
  \/ \E k \in Key : create_vertex_warning(k)
  \/ \E v \in Vertex : free_vertex(v)
  \/ \E v \in Vertex : free_vertex_guarded(v)
  \/ \E v \in Vertex, s \in Sym, x \in Value \cup {None} : edit_vertex(v, s, x)

EdgeCommand ==
  \/ \E e \in Edge, o, t \in Vertex, load \in Load : edge_create(e, o, t, load)
  \/ \E e \in Edge : edge_free(e)
  \/ \E e \in Edge, o, t \in Vertex : move_edge(e, o, t)
  \/ \E e \in Edge, s \in Sym, x \in Value \cup {None} : edit_edge(e, s, x)

SchemaCommand ==
  \/ \E s \in Sym, n \in Name : create_sym(s, n)
  \/ \E s \in Sym, n \in Name : update_sym(s, n)
  \/ \E s \in Sym : free_sym(s)
  \/ \E v \in Vertex : strip_vertex(v)
  \/ \E e \in Edge : strip_edge(e)
  \/ strip_done

Scope ==
  \/ \E read_only \in BOOLEAN : begin_transaction(read_only)
  \/ begin_collective
  \/ bulk_begin
  \/ commit
  \/ bulk_end
  \/ abort
  \/ bulk_fail
  \/ undo_entry
  \/ rollback_done

Save ==
  \/ \E full \in BOOLEAN : persist(full)
  \/ save_encode
  \/ save_batch
  \/ save_refused
  \/ clear_dirty_if
  \/ \E v \in Vertex, c \in Content : update_content(v, c)
  \/ crash_open

Next == VertexCommand \/ EdgeCommand \/ SchemaCommand \/ Scope \/ Save

Spec == Init /\ [][Next]_vars
-----------------------------------------------------------------------------
(***************************************************************************)
(* Properties.                                                             *)
(***************************************************************************)

Id == Vertex \cup Edge

\* The journal holds undo records of the known kinds and everything else has
\* its type.
TypeOK ==
  /\ graph \in Graph /\ saved \in Graph
  /\ content \in [Vertex -> Content]
  /\ used \subseteq Vertex \cup Sym
  /\ tx \in {"none", "write", "read", "collective", "bulk"}
  /\ journal \in Seq(Entry)
  /\ bytes \in Nat
  /\ act \in {"idle", "strip", "abort", "batch", "encode", "store", "clear"}
  /\ strip \in Sym \cup {None}
  /\ dirty \subseteq Id /\ gone \subseteq Id /\ adrift \subseteq Edge
  /\ batch \in [ids : SUBSET Id, content : [Vertex -> Content], gone : SUBSET Id,
                touched : SUBSET Vertex]
  /\ disk \in [vertex : [Vertex -> VertexRec \cup {None}], edge : OptEdges,
               schema : [Sym -> Name \cup {None}], content : [Vertex -> Content],
               minted : SUBSET Sym]
  /\ lost \in BOOLEAN

\* Every edge links two live vertices.
NoDangling(g) == \A e \in LiveE(g) : Ends(g.edge[e]) \subseteq LiveV(g)

\* The key index finds exactly the live vertices that have a key.
KeysExact(g) ==
  \A k \in Key, v \in Vertex :
    g.keys[k] = v <=> g.vertex[v] # None /\ g.vertex[v].key = k

\* No two symbols have the same name.
NamesUnique(g) ==
  \A s, t \in Sym : g.schema[s] # None /\ g.schema[s] = g.schema[t] => s = t

\* The label of a live key is registered.
KeyLabelsLive(g) ==
  \A v \in LiveV(g) : g.vertex[v].key # None => g.schema[KeyLabel[g.vertex[v].key]] # None

Consistent(g) == NoDangling(g) /\ KeysExact(g) /\ NamesUnique(g) /\ KeyLabelsLive(g)

\* Whatever the commands, the undone transactions, the saves and the crashes:
\* no edge dangles, the key index finds exactly the live keyed vertices, names
\* are unique and the label of a key stays registered.
GraphOK == Consistent(graph)

\* Once the journal is replayed, the graph, its key index and its schema are
\* exactly what they were when the transaction began (transaction.h, database.h),
\* provided that the journal has one undo record for every change.
AbortRestores ==
  act \in {"abort", "batch"} /\ journal = <<>> /\ ~lost => graph = saved

\* The same without the proviso: what database.h promises.
AbortRestoresAlways ==
  act \in {"abort", "batch"} /\ journal = <<>> => graph = saved

\* No live entity waits for its tombstone, in the graph or in the save that is
\* in flight: a batch never carries a record and a tombstone for one key.
TombstonesDead == (gone \cup batch.gone) \cap (LiveV(graph) \cup LiveE(graph)) = {}

\* The incremental save misses no vertex: a vertex without a dirty mark is in
\* the store as it is in memory, content included, and a dead vertex is not in
\* the store unless its tombstone is on its way.
VertexImage ==
  ~InMemory =>
  \A v \in Vertex :
    IF graph.vertex[v] # None
      THEN v \notin dirty => disk.vertex[v] = graph.vertex[v] /\ disk.content[v] = content[v]
      ELSE v \notin gone \cup batch.gone => disk.vertex[v] = None

\* The same of edges, but for those an undo put back or tried to.
EdgeImage ==
  ~InMemory =>
  \A e \in Edge :
    IF graph.edge[e] # None
      THEN e \notin dirty \cup adrift => disk.edge[e] = graph.edge[e]
      ELSE e \notin gone \cup batch.gone \cup adrift => disk.edge[e] = None

\* An edge an undo put back is written by the next save too, or is in the store
\* (the comment at EdgeTable::_detach_dirty).
RebornEdgeImage ==
  ~InMemory => \A e \in LiveE(graph) : e \notin dirty => disk.edge[e] = graph.edge[e]

\* Whenever the process dies, the store loads whole: every stored edge has its
\* endpoints in the store, unless an undo dropped its tombstone.
StoredEdgesLoad ==
  \A e \in Edge \ adrift : disk.edge[e] # None =>
    \A v \in Ends(disk.edge[e]) : disk.vertex[v] # None
=============================================================================

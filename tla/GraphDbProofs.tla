--------------------------- MODULE GraphDbProofs ---------------------------
(***************************************************************************)
(* Proofs about the graph database.                                        *)
(***************************************************************************)
EXTENDS GraphDb, FiniteSetTheorems, SequenceTheorems, TLAPS

-----------------------------------------------------------------------------
(* Graphs are records: equal when their four fields are. *)
LEMMA GraphEq ==
  ASSUME NEW g \in Graph, NEW h \in Graph,
         g.vertex = h.vertex, g.edge = h.edge, g.schema = h.schema, g.keys = h.keys
  PROVE  g = h
  BY DEF Graph

(* A live vertex has a record, and so has a live edge. *)
LEMMA LiveRecords ==
  ASSUME NEW g \in Graph
  PROVE  /\ \A v \in LiveV(g) : v \in Vertex /\ g.vertex[v] \in VertexRec
         /\ \A e \in LiveE(g) : e \in Edge /\ g.edge[e] \in EdgeRec
  BY DEF Graph, OptEdges, LiveV, LiveE

LEMMA PutFields ==
  ASSUME NEW g \in Graph, NEW v \in Vertex, NEW r \in VertexRec
  PROVE  LET h == put_vertex(g, v, r) IN
         /\ h \in Graph
         /\ h.vertex = [g.vertex EXCEPT ![v] = r]
         /\ h.edge = g.edge
         /\ h.schema = g.schema
         /\ h.keys = IF r.key # None /\ g.keys[r.key] = None
                      THEN [g.keys EXCEPT ![r.key] = v] ELSE g.keys
<1>0. r.key \in Key \cup {None}
  BY DEF VertexRec
<1> QED BY <1>0 DEF Graph, put_vertex

LEMMA PutVertex ==
  ASSUME NEW g \in Graph, Consistent(g), NEW v \in Vertex, g.vertex[v] = None,
         NEW r \in VertexRec,
         r.key # None => g.keys[r.key] = None /\ g.schema[KeyLabel[r.key]] # None
  PROVE  /\ put_vertex(g, v, r) \in Graph
         /\ Consistent(put_vertex(g, v, r))
         /\ remove_vertex(put_vertex(g, v, r), v) = g
<1> DEFINE h == put_vertex(g, v, r)
<1>0. r.key \in Key \cup {None}
  BY DEF VertexRec
<1>1. h \in Graph
  BY PutFields
<1>2. /\ h.vertex = [g.vertex EXCEPT ![v] = r]
      /\ h.edge = g.edge
      /\ h.schema = g.schema
      /\ h.keys = IF r.key # None THEN [g.keys EXCEPT ![r.key] = v] ELSE g.keys
  BY PutFields
<1>3. Consistent(h)
  <2>1. NoDangling(h)
    BY <1>2, NoneAssumption DEF Consistent, NoDangling, LiveV, LiveE, Graph
  <2>2. KeysExact(h)
    BY <1>0, <1>2, NoneAssumption DEF Consistent, KeysExact, Graph
  <2>3. NamesUnique(h) /\ KeyLabelsLive(h)
    BY <1>0, <1>2, NoneAssumption DEF Consistent, NamesUnique, KeyLabelsLive, LiveV, Graph
  <2> QED BY <2>1, <2>2, <2>3 DEF Consistent
<1>4. remove_vertex(h, v) = g
  <2>1. h.vertex[v] = r /\ r # None
    BY <1>2, NoneAssumption DEF Graph
  <2>2. Incident(h, v) = {}
    BY <1>2 DEF Consistent, NoDangling, LiveV, LiveE, Incident, Graph
  <2> DEFINE k == remove_vertex(h, v)
  <2>3. k \in Graph
    BY <1>1, <2>1, <2>2, <1>0 DEF Graph, OptEdges, remove_vertex
  <2>4. /\ k.vertex = [h.vertex EXCEPT ![v] = None]
        /\ k.edge = [e \in Edge |-> h.edge[e]]
        /\ k.schema = h.schema
        /\ k.keys = IF r.key = None THEN h.keys ELSE [h.keys EXCEPT ![r.key] = None]
    BY <1>1, <2>1, <2>2, <1>0 DEF Graph, OptEdges, remove_vertex
  <2>5. k.vertex = g.vertex
    BY <2>4, <1>2 DEF Graph
  <2>6. k.edge = g.edge /\ k.schema = g.schema
    BY <2>4, <1>2 DEF Graph, OptEdges
  <2>7. k.keys = g.keys
    BY <2>4, <1>2, <1>0 DEF Graph
  <2> QED BY <2>3, <2>5, <2>6, <2>7, GraphEq
<1> QED BY <1>1, <1>3, <1>4

LEMMA RemoveVertex ==
  ASSUME NEW g \in Graph, NEW v \in LiveV(g)
  PROVE  LET h == remove_vertex(g, v)
             r == g.vertex[v] IN
         /\ h \in Graph
         /\ h.vertex = [g.vertex EXCEPT ![v] = None]
         /\ h.edge = [e \in Edge |-> IF e \in Incident(g, v) THEN None ELSE g.edge[e]]
         /\ h.schema = g.schema
         /\ h.keys = IF r.key = None THEN g.keys ELSE [g.keys EXCEPT ![r.key] = None]
         /\ Consistent(g) => Consistent(h)
<1> DEFINE h == remove_vertex(g, v)
           r == g.vertex[v]
<1>0. v \in Vertex /\ r \in VertexRec /\ r.key \in Key \cup {None} /\ r # None
  BY LiveRecords, NoneAssumption DEF VertexRec
<1>1. h \in Graph
  BY <1>0 DEF Graph, OptEdges, remove_vertex
<1>2. /\ h.vertex = [g.vertex EXCEPT ![v] = None]
      /\ h.edge = [e \in Edge |-> IF e \in Incident(g, v) THEN None ELSE g.edge[e]]
      /\ h.schema = g.schema
      /\ h.keys = IF r.key = None THEN g.keys ELSE [g.keys EXCEPT ![r.key] = None]
  BY <1>0 DEF Graph, OptEdges, remove_vertex
<1>3. ASSUME Consistent(g) PROVE Consistent(h)
  <2>1. NoDangling(h)
    <3> SUFFICES ASSUME NEW e \in LiveE(h) PROVE Ends(h.edge[e]) \subseteq LiveV(h)
      BY DEF NoDangling
    <3>1. e \in LiveE(g) /\ e \notin Incident(g, v) /\ h.edge[e] = g.edge[e]
      BY <1>2 DEF LiveE
    <3>2. Ends(g.edge[e]) \subseteq LiveV(g) /\ v \notin Ends(g.edge[e])
      BY <3>1, <1>3 DEF Consistent, NoDangling, Incident
    <3> QED BY <1>0, <1>2, <3>1, <3>2 DEF LiveV, Graph
  <2>2. KeysExact(h)
    BY <1>0, <1>2, <1>3, NoneAssumption DEF Consistent, KeysExact, Graph
  <2>3. NamesUnique(h) /\ KeyLabelsLive(h)
    BY <1>0, <1>2, <1>3, NoneAssumption DEF Consistent, NamesUnique, KeyLabelsLive, LiveV, Graph
  <2> QED BY <2>1, <2>2, <2>3 DEF Consistent
<1> QED BY <1>1, <1>2, <1>3

(* Adopting the removed vertex and then its edges undoes the removal. *)
LEMMA UndoRemoveVertex ==
  ASSUME SelfEdges, NEW g \in Graph, Consistent(g), NEW v \in LiveV(g)
  PROVE  LET cut == [e \in Edge |-> IF e \in Incident(g, v) THEN g.edge[e] ELSE None]
         IN  adopt_edges(adopt_vertex(remove_vertex(g, v), v, g.vertex[v]), cut) = g
<1> DEFINE cut == [e \in Edge |-> IF e \in Incident(g, v) THEN g.edge[e] ELSE None]
           h == remove_vertex(g, v)
           r == g.vertex[v]
           k == adopt_vertex(h, v, r)
           m == adopt_edges(k, cut)
<1>0. v \in Vertex /\ r \in VertexRec /\ r.key \in Key \cup {None} /\ r # None
  BY LiveRecords, NoneAssumption DEF VertexRec
<1>1. /\ h \in Graph
      /\ h.vertex = [g.vertex EXCEPT ![v] = None]
      /\ h.edge = [e \in Edge |-> IF e \in Incident(g, v) THEN None ELSE g.edge[e]]
      /\ h.schema = g.schema
      /\ h.keys = IF r.key = None THEN g.keys ELSE [g.keys EXCEPT ![r.key] = None]
  BY RemoveVertex
<1>2. r.key # None => g.keys[r.key] = v
  BY <1>0 DEF Consistent, KeysExact
<1> HIDE DEF h
<1>3. k = put_vertex(h, v, r)
  BY <1>0, <1>1 DEF adopt_vertex, Graph
<1>4a. r.key # None => h.keys[r.key] = None
  BY <1>0, <1>1 DEF Graph
<1>4. /\ k \in Graph
      /\ k.vertex = [h.vertex EXCEPT ![v] = r]
      /\ k.edge = h.edge
      /\ k.schema = h.schema
      /\ k.keys = IF r.key # None THEN [h.keys EXCEPT ![r.key] = v] ELSE h.keys
  <2> HIDE DEF k, r
  <2> QED BY <1>0, <1>1, <1>3, <1>4a, PutFields
<1>5. k.vertex = g.vertex /\ k.schema = g.schema /\ k.keys = g.keys
  <2>1. k.vertex = g.vertex
    BY <1>0, <1>1, <1>4 DEF Graph
  <2>2. k.keys = g.keys
    BY <1>0, <1>1, <1>2, <1>4 DEF Graph
  <2> QED BY <2>1, <2>2, <1>1, <1>4
<1> HIDE DEF k
<1>6. /\ m \in Graph
      /\ m.vertex = k.vertex /\ m.schema = k.schema /\ m.keys = k.keys
      /\ m.edge = [e \in Edge |->
           IF cut[e] # None /\ Adoptable(k, e, cut[e]) THEN cut[e] ELSE k.edge[e]]
  BY <1>4 DEF adopt_edges, Graph, OptEdges
<1>7. \A e \in Edge : m.edge[e] = g.edge[e]
  <2> TAKE e \in Edge
  <2>1. CASE e \in Incident(g, v)
    <3>1. cut[e] = g.edge[e] /\ g.edge[e] # None /\ k.edge[e] = None
      BY <2>1, <1>1, <1>4 DEF Incident, LiveE
    <3>2. Ends(g.edge[e]) \subseteq LiveV(k)
      BY <2>1, <1>5 DEF Consistent, NoDangling, Incident, LiveV
    <3> QED BY <3>1, <3>2, <1>6 DEF Adoptable
  <2>2. CASE e \notin Incident(g, v)
    BY <2>2, <1>1, <1>4, <1>6
  <2> QED BY <2>1, <2>2
<1>8. m.edge = g.edge
  BY <1>6, <1>7 DEF Graph, OptEdges
<1>9. m = g
  BY <1>5, <1>6, <1>8, GraphEq
<1> QED BY <1>9 DEF h, k

LEMMA VertexLoad ==
  ASSUME NEW g \in Graph, NEW v \in LiveV(g), NEW load \in Load
  PROVE  LET h == put_load(g, v, load) IN
         /\ h \in Graph
         /\ LiveV(h) = LiveV(g) /\ LiveE(h) = LiveE(g)
         /\ \A w \in Vertex \ {v} : h.vertex[w] = g.vertex[w]
         /\ h.edge = g.edge /\ h.schema = g.schema /\ h.keys = g.keys
         /\ Consistent(g) => Consistent(h)
         /\ put_load(h, v, g.vertex[v].load) = g
<1> DEFINE h == put_load(g, v, load)
           r == g.vertex[v]
           q == [r EXCEPT !.load = load]
<1>0. v \in Vertex /\ r \in VertexRec /\ r # None
  BY LiveRecords, NoneAssumption
<1>1. q \in VertexRec /\ q.key = r.key /\ q # None /\ r = [q EXCEPT !.load = r.load]
  BY <1>0, NoneAssumption DEF VertexRec
<1>2. /\ h \in Graph
      /\ h.vertex = [g.vertex EXCEPT ![v] = q]
      /\ h.edge = g.edge /\ h.schema = g.schema /\ h.keys = g.keys
  BY <1>0, <1>1 DEF put_load, Graph
<1> HIDE DEF h, q
<1>3. LiveV(h) = LiveV(g) /\ LiveE(h) = LiveE(g)
  BY <1>0, <1>1, <1>2 DEF LiveV, LiveE, Graph
<1>4. ASSUME Consistent(g) PROVE Consistent(h)
  <2>1. \A w \in LiveV(g) : h.vertex[w].key = g.vertex[w].key
    BY <1>0, <1>1, <1>2 DEF LiveV, Graph
  <2>2. NoDangling(h) /\ NamesUnique(h)
    BY <1>2, <1>3, <1>4 DEF Consistent, NoDangling, NamesUnique
  <2>3. KeyLabelsLive(h)
    BY <1>2, <1>3, <1>4, <2>1 DEF Consistent, KeyLabelsLive
  <2>4. KeysExact(h)
    BY <1>2, <1>3, <1>4, <2>1 DEF Consistent, KeysExact, LiveV
  <2> QED BY <2>2, <2>3, <2>4 DEF Consistent
<1>5. put_load(h, v, r.load) = g
  <2>1. h.vertex[v] = q
    BY <1>0, <1>2 DEF Graph
  <2>2. put_load(h, v, r.load) = [h EXCEPT !.vertex[v] = r]
    BY <2>1, <1>1 DEF put_load
  <2> DEFINE k == [h EXCEPT !.vertex[v] = r]
  <2>3. /\ k \in Graph /\ k.vertex = [h.vertex EXCEPT ![v] = r]
        /\ k.edge = h.edge /\ k.schema = h.schema /\ k.keys = h.keys
    BY <1>0, <1>2 DEF Graph
  <2>4. k.vertex = g.vertex
    <3> HIDE DEF k, r
    <3>1. g.vertex \in [Vertex -> VertexRec \cup {None}] /\ g.vertex[v] = r
      BY DEF Graph, r
    <3> QED BY <2>3, <1>0, <1>2, <3>1
  <2>5. k = g
    <3> HIDE DEF k
    <3> QED BY <2>3, <2>4, <1>2, GraphEq
  <2> QED BY <2>2, <2>5
<1> QED BY <1>2, <1>3, <1>4, <1>5 DEF h

(* Replacing the record of one edge, by a record or by None. *)
LEMMA EdgePut ==
  ASSUME NEW g \in Graph, NEW e \in Edge, NEW r \in EdgeRec \cup {None}
  PROVE  LET h == put_edge(g, e, r) IN
         /\ h \in Graph
         /\ h.edge = [g.edge EXCEPT ![e] = r]
         /\ h.vertex = g.vertex /\ h.schema = g.schema /\ h.keys = g.keys
         /\ LiveV(h) = LiveV(g)
         /\ Consistent(g) /\ (r # None => Ends(r) \subseteq LiveV(g)) => Consistent(h)
         /\ put_edge(h, e, g.edge[e]) = g
<1> DEFINE h == put_edge(g, e, r)
<1>1. /\ h \in Graph
      /\ h.edge = [g.edge EXCEPT ![e] = r]
      /\ h.vertex = g.vertex /\ h.schema = g.schema /\ h.keys = g.keys
  BY DEF put_edge, Graph, OptEdges
<1> HIDE DEF h
<1>2. LiveV(h) = LiveV(g)
  BY <1>1 DEF LiveV
<1>3. ASSUME Consistent(g), r # None => Ends(r) \subseteq LiveV(g)
      PROVE  Consistent(h)
  <2>1. NoDangling(h)
    BY <1>1, <1>2, <1>3 DEF Consistent, NoDangling, LiveE, Graph, OptEdges
  <2>2. KeysExact(h) /\ NamesUnique(h) /\ KeyLabelsLive(h)
    BY <1>1, <1>2, <1>3 DEF Consistent, KeysExact, NamesUnique, KeyLabelsLive
  <2> QED BY <2>1, <2>2 DEF Consistent
<1>4. put_edge(h, e, g.edge[e]) = g
  <2> DEFINE k == put_edge(h, e, g.edge[e])
  <2>1. /\ k \in Graph /\ k.edge = [h.edge EXCEPT ![e] = g.edge[e]]
        /\ k.vertex = h.vertex /\ k.schema = h.schema /\ k.keys = h.keys
    BY <1>1 DEF put_edge, Graph, OptEdges
  <2>2. k.edge = g.edge
    BY <2>1, <1>1 DEF Graph, OptEdges
  <2>3. k = g
    BY <2>1, <2>2, <1>1, GraphEq
  <2> QED BY <2>3
<1> QED BY <1>1, <1>2, <1>3, <1>4 DEF h

(* Giving a symbol a name, or none. *)
LEMMA SymName ==
  ASSUME NEW g \in Graph, NEW s \in Sym, NEW n \in Name \cup {None}
  PROVE  LET h == put_name(g, s, n) IN
         /\ h \in Graph
         /\ h.schema = [g.schema EXCEPT ![s] = n]
         /\ h.vertex = g.vertex /\ h.edge = g.edge /\ h.keys = g.keys
         /\ Consistent(g) /\ (n # None => ~NameTaken(g, s, n))
              /\ (n = None => ~IsKeyLabel(g, s))
              => Consistent(h)
         /\ put_name(h, s, g.schema[s]) = g
<1> DEFINE h == put_name(g, s, n)
<1>1. /\ h \in Graph
      /\ h.schema = [g.schema EXCEPT ![s] = n]
      /\ h.vertex = g.vertex /\ h.edge = g.edge /\ h.keys = g.keys
  BY DEF put_name, Graph
<1> HIDE DEF h
<1>2. LiveV(h) = LiveV(g) /\ LiveE(h) = LiveE(g)
  BY <1>1 DEF LiveV, LiveE
<1>3. ASSUME Consistent(g), n # None => ~NameTaken(g, s, n), n = None => ~IsKeyLabel(g, s)
      PROVE  Consistent(h)
  <2>1. NamesUnique(h)
    BY <1>1, <1>3 DEF Consistent, NamesUnique, NameTaken, Graph
  <2>2. NoDangling(h) /\ KeysExact(h)
    BY <1>1, <1>2, <1>3 DEF Consistent, NoDangling, KeysExact
  <2>3. KeyLabelsLive(h)
    <3> SUFFICES ASSUME NEW v \in LiveV(g), g.vertex[v].key # None
                 PROVE  h.schema[KeyLabel[g.vertex[v].key]] # None
      BY <1>1, <1>2 DEF KeyLabelsLive
    <3>1. KeyLabel[g.vertex[v].key] \in Sym /\ g.schema[KeyLabel[g.vertex[v].key]] # None
      BY <1>3, LiveRecords, KeyAssumption DEF Consistent, KeyLabelsLive, VertexRec
    <3> QED BY <1>1, <1>3, <3>1 DEF IsKeyLabel, Graph
  <2> QED BY <2>1, <2>2, <2>3 DEF Consistent
<1>4. put_name(h, s, g.schema[s]) = g
  <2> DEFINE k == put_name(h, s, g.schema[s])
  <2>1. /\ k \in Graph /\ k.schema = [h.schema EXCEPT ![s] = g.schema[s]]
        /\ k.vertex = h.vertex /\ k.edge = h.edge /\ k.keys = h.keys
    BY <1>1 DEF put_name, Graph
  <2>2. k.schema = g.schema
    BY <2>1, <1>1 DEF Graph
  <2>3. k = g
    BY <2>1, <2>2, <1>1, GraphEq
  <2> QED BY <2>3
<1> QED BY <1>1, <1>2, <1>3, <1>4 DEF h

-----------------------------------------------------------------------------
(***************************************************************************)
(* What one turn of the rollback loop does, kind by kind.                  *)
(***************************************************************************)

LEMMA UndoKinds ==
  ASSUME NEW j, NEW g
  PROVE  /\ j.kind = "vertex_created" => Undo(j, g) = remove_vertex(g, j.id)
         /\ j.kind = "vertex_removed" =>
              Undo(j, g) = adopt_edges(adopt_vertex(g, j.id, j.rec), j.edges)
         /\ j.kind = "vertex_payload" =>
              Undo(j, g) = IF g.vertex[j.id] = None THEN g ELSE put_load(g, j.id, j.load)
         /\ j.kind = "edge_created" => Undo(j, g) = put_edge(g, j.id, None)
         /\ j.kind = "edge_removed" => Undo(j, g) = adopt_edges(g, j.edges)
         /\ j.kind = "edge_state" /\ g.edge[j.id] = None => Undo(j, g) = g
         /\ j.kind = "sym_created" => Undo(j, g) = put_name(g, j.id, None)
         /\ j.kind = "sym_renamed" => Undo(j, g) = rename_label(g, j.id, j.name)
         /\ j.kind = "sym_freed" => Undo(j, g) = restore_label(g, j.id, j.name)
  BY DEF Undo

LEMMA PutTwice ==
  ASSUME NEW g \in Graph, NEW e \in Edge,
         NEW a \in EdgeRec \cup {None}, NEW b \in EdgeRec \cup {None}
  PROVE  put_edge(put_edge(g, e, a), e, b) = put_edge(g, e, b)
<1> DEFINE h == put_edge(g, e, a)
           k == put_edge(h, e, b)
           m == put_edge(g, e, b)
<1>1. /\ h \in Graph /\ h.edge = [g.edge EXCEPT ![e] = a]
      /\ h.vertex = g.vertex /\ h.schema = g.schema /\ h.keys = g.keys
  BY EdgePut
<1>2. /\ m \in Graph /\ m.edge = [g.edge EXCEPT ![e] = b]
      /\ m.vertex = g.vertex /\ m.schema = g.schema /\ m.keys = g.keys
  BY EdgePut
<1> HIDE DEF h, m
<1>3. /\ k \in Graph /\ k.edge = [h.edge EXCEPT ![e] = b]
      /\ k.vertex = h.vertex /\ k.schema = h.schema /\ k.keys = h.keys
  BY <1>1, EdgePut
<1>4. k.edge = m.edge
  BY <1>1, <1>2, <1>3 DEF Graph, OptEdges
<1> HIDE DEF k
<1>5. k = m
  BY <1>1, <1>2, <1>3, <1>4, GraphEq
<1> QED BY <1>5 DEF k, h, m

(* One endpoint moved, or refused: the edge stays where it was, between live vertices. *)
LEMMA MoveEndpoint ==
  ASSUME NEW g \in Graph, NEW e \in LiveE(g), NoDangling(g),
         NEW o \in Vertex, NEW t \in Vertex
  PROVE  \E q \in EdgeRec :
           /\ move_endpoint(g, e, o, t) = put_edge(g, e, q)
           /\ Ends(q) \subseteq LiveV(g)
           /\ q.load = g.edge[e].load
           /\ {o, t} \subseteq LiveV(g) => q.origin = o /\ q.target = t
           /\ {o, t} \subseteq LiveV(g) \/ q = g.edge[e]
<1> DEFINE r == g.edge[e]
<1>0. e \in Edge /\ r \in EdgeRec /\ Ends(r) \subseteq LiveV(g)
  BY LiveRecords DEF NoDangling
<1>1. CASE {o, t} \subseteq LiveV(g)
  <2> DEFINE q == [r EXCEPT !.origin = o, !.target = t]
  <2>1. q \in EdgeRec /\ q.origin = o /\ q.target = t /\ q.load = r.load
    BY <1>0 DEF EdgeRec
  <2>2. move_endpoint(g, e, o, t) = put_edge(g, e, q)
    BY <1>1 DEF move_endpoint
  <2>3. Ends(q) \subseteq LiveV(g)
    BY <2>1, <1>1 DEF Ends
  <2> HIDE DEF q
  <2> QED BY <1>1, <2>1, <2>2, <2>3
<1>2. CASE ~({o, t} \subseteq LiveV(g))
  <2>1. move_endpoint(g, e, o, t) = g
    BY <1>2 DEF move_endpoint
  <2>2. put_edge(put_edge(g, e, r), e, r) = g
    BY <1>0, EdgePut
  <2>3. put_edge(put_edge(g, e, r), e, r) = put_edge(g, e, r)
    <3> HIDE DEF r
    <3> QED BY <1>0, PutTwice
  <2> QED BY <1>0, <1>2, <2>1, <2>2, <2>3
<1> QED BY <1>1, <1>2

(* Putting an edge state back: the endpoints one after the other, then the payload. *)
LEMMA UndoEdgeState ==
  ASSUME NEW g \in Graph, NEW e \in LiveE(g), NoDangling(g), NEW r \in EdgeRec,
         NEW j, j.kind = "edge_state", j.id = e, j.rec = r
  PROVE  \E q \in EdgeRec :
           /\ Undo(j, g) = put_edge(g, e, q)
           /\ Ends(q) \subseteq LiveV(g)
           /\ Ends(r) \subseteq LiveV(g) => q = r
<1> DEFINE h == move_endpoint(g, e, r.origin, g.edge[e].target)
           k == move_endpoint(h, e, h.edge[e].origin, r.target)
<1>0. /\ e \in Edge /\ g.edge[e] \in EdgeRec /\ g.edge[e] # None
      /\ Ends(g.edge[e]) \subseteq LiveV(g) /\ LiveV(g) \subseteq Vertex
      /\ r.origin \in Vertex /\ r.target \in Vertex /\ r.load \in Load
  BY LiveRecords, NoneAssumption DEF NoDangling, EdgeRec, LiveV
<1>1. Undo(j, g) = put_edge(k, e, [k.edge[e] EXCEPT !.load = r.load])
  BY <1>0 DEF Undo
<1>2. PICK q \in EdgeRec :
        /\ h = put_edge(g, e, q)
        /\ Ends(q) \subseteq LiveV(g)
        /\ Ends(r) \subseteq LiveV(g) => q.origin = r.origin
  <2>1. g.edge[e].target \in LiveV(g)
    BY <1>0 DEF Ends
  <2> QED BY <2>1, <1>0, MoveEndpoint DEF Ends
<1> HIDE DEF h
<1>3. /\ h \in Graph /\ h.edge[e] = q /\ LiveV(h) = LiveV(g) /\ e \in LiveE(h) /\ NoDangling(h)
  <2>1. /\ h \in Graph /\ h.edge = [g.edge EXCEPT ![e] = q] /\ LiveV(h) = LiveV(g)
    BY <1>0, <1>2, EdgePut
  <2>2. h.edge[e] = q /\ q # None
    BY <1>0, <2>1, NoneAssumption DEF Graph, OptEdges
  <2>3. NoDangling(h)
    BY <2>1, <2>2, <1>0, <1>2 DEF NoDangling, LiveE, Graph, OptEdges
  <2> QED BY <2>1, <2>2, <2>3, <1>0 DEF LiveE
<1>4. PICK p \in EdgeRec :
        /\ k = put_edge(h, e, p)
        /\ Ends(p) \subseteq LiveV(g)
        /\ Ends(r) \subseteq LiveV(g) => p.origin = r.origin /\ p.target = r.target
  <2>1. q.origin \in LiveV(g) /\ q.origin \in Vertex
    BY <1>0, <1>2 DEF Ends
  <2> QED BY <2>1, <1>0, <1>2, <1>3, MoveEndpoint DEF Ends
<1> HIDE DEF k
<1>5. k = put_edge(g, e, p) /\ k.edge[e] = p
  <2>1. k = put_edge(g, e, p)
    BY <1>0, <1>2, <1>4, PutTwice
  <2>2. k.edge = [g.edge EXCEPT ![e] = p]
    BY <2>1, <1>0, EdgePut
  <2> QED BY <2>1, <2>2, <1>0 DEF Graph, OptEdges
<1> DEFINE z == [p EXCEPT !.load = r.load]
<1>6. /\ z \in EdgeRec /\ Ends(z) = Ends(p)
      /\ z.origin = p.origin /\ z.target = p.target /\ z.load = r.load
  BY <1>0 DEF EdgeRec, Ends
<1>7. Undo(j, g) = put_edge(g, e, z)
  BY <1>0, <1>1, <1>5, <1>6, PutTwice
<1>8. ASSUME Ends(r) \subseteq LiveV(g) PROVE z = r
  <2>1. z.origin = r.origin /\ z.target = r.target /\ z.load = r.load
    BY <1>4, <1>6, <1>8
  <2>2. z \in EdgeRec /\ r \in EdgeRec
    BY <1>6
  <2> HIDE DEF z
  <2> QED BY <2>1, <2>2 DEF EdgeRec
<1> QED BY <1>4, <1>6, <1>7, <1>8

LEMMA EntryKinds ==
  ASSUME NEW j \in Entry
  PROVE  \/ j.kind = "vertex_created" /\ j.id \in Vertex
         \/ j.kind = "edge_created" /\ j.id \in Edge
         \/ j.kind = "sym_created" /\ j.id \in Sym
         \/ /\ j.kind = "vertex_removed" /\ j.id \in Vertex /\ j.rec \in VertexRec
            /\ j.edges \in OptEdges /\ j.flags \subseteq Edge
         \/ /\ j.kind = "edge_removed" /\ j.id \in Edge
            /\ j.edges \in OptEdges /\ j.flags \subseteq Edge
         \/ j.kind = "vertex_payload" /\ j.id \in Vertex /\ j.load \in Load
         \/ j.kind = "edge_state" /\ j.id \in Edge /\ j.rec \in EdgeRec
         \/ j.kind \in {"sym_renamed", "sym_freed"} /\ j.id \in Sym /\ j.name \in Name
  BY DEF Entry

LEMMA AdoptEdges ==
  ASSUME NEW g \in Graph, NEW cut \in OptEdges
  PROVE  LET h == adopt_edges(g, cut) IN
         /\ h \in Graph
         /\ h.vertex = g.vertex /\ h.schema = g.schema /\ h.keys = g.keys
         /\ h.edge = [e \in Edge |-> IF cut[e] # None /\ Adoptable(g, e, cut[e])
                                      THEN cut[e] ELSE g.edge[e]]
         /\ NoDangling(g) => NoDangling(h)
<1> DEFINE h == adopt_edges(g, cut)
<1>1. /\ h \in Graph
      /\ h.vertex = g.vertex /\ h.schema = g.schema /\ h.keys = g.keys
      /\ h.edge = [e \in Edge |-> IF cut[e] # None /\ Adoptable(g, e, cut[e])
                                   THEN cut[e] ELSE g.edge[e]]
  BY DEF adopt_edges, Graph, OptEdges
<1> HIDE DEF h
<1>2. LiveV(h) = LiveV(g)
  BY <1>1 DEF LiveV
<1>3. ASSUME NoDangling(g) PROVE NoDangling(h)
  <2> SUFFICES ASSUME NEW e \in LiveE(h) PROVE Ends(h.edge[e]) \subseteq LiveV(g)
    BY <1>2 DEF NoDangling
  <2>1. CASE cut[e] # None /\ Adoptable(g, e, cut[e])
    BY <2>1, <1>1 DEF Adoptable, LiveE
  <2>2. CASE ~(cut[e] # None /\ Adoptable(g, e, cut[e]))
    BY <2>2, <1>1, <1>3 DEF NoDangling, LiveE
  <2> QED BY <2>1, <2>2
<1> QED BY <1>1, <1>3 DEF h

-----------------------------------------------------------------------------
(***************************************************************************)
(* The bookkeeping of the save: a step that leaves the graph h, the dirty  *)
(* marks d, the tombstones t and the edges a adrift leaves nothing that    *)
(* changed unmarked.                                                       *)
(***************************************************************************)
Covers(h, d, t, a) ==
  /\ h \in Graph /\ NoDangling(h)
  /\ d \subseteq Id /\ t \subseteq Id /\ a \subseteq Edge
  /\ t \cap (LiveV(h) \cup LiveE(h)) = {}
  /\ \A v \in Vertex :
       /\ h.vertex[v] # None /\ v \notin d => h.vertex[v] = graph.vertex[v] /\ v \notin dirty
       /\ h.vertex[v] = None /\ v \notin t => graph.vertex[v] = None /\ v \notin gone
  /\ \A e \in Edge :
       /\ h.edge[e] # None /\ e \notin d \cup a =>
            h.edge[e] = graph.edge[e] /\ e \notin dirty \cup adrift
       /\ h.edge[e] = None /\ e \notin t \cup a =>
            graph.edge[e] = None /\ e \notin gone \cup adrift

Marked == Covers(graph, dirty, gone, adrift)

LEMMA CoverRemoveVertex ==
  ASSUME Marked, NEW v \in LiveV(graph)
  PROVE  Covers(remove_vertex(graph, v), DirtyRemoval(graph, v),
                gone \cup {v} \cup Incident(graph, v), adrift)
<1> DEFINE h == remove_vertex(graph, v)
           d == DirtyRemoval(graph, v)
           t == gone \cup {v} \cup Incident(graph, v)
<1>0. graph \in Graph /\ v \in Vertex /\ NoDangling(graph)
  BY LiveRecords DEF Marked, Covers
<1>1. /\ h \in Graph
      /\ h.vertex = [graph.vertex EXCEPT ![v] = None]
      /\ h.edge = [e \in Edge |-> IF e \in Incident(graph, v) THEN None ELSE graph.edge[e]]
  BY <1>0, RemoveVertex
<1> HIDE DEF h
<1>2. Incident(graph, v) \subseteq Edge
  BY DEF Incident, LiveE
<1>3. Neighbours(graph, v) \subseteq Vertex
  BY <1>0, LiveRecords DEF Neighbours, Incident, NoDangling
<1>4. NoDangling(h)
  <2> SUFFICES ASSUME NEW e \in LiveE(h) PROVE Ends(h.edge[e]) \subseteq LiveV(h)
    BY DEF NoDangling
  <2>1. e \in LiveE(graph) /\ e \notin Incident(graph, v) /\ h.edge[e] = graph.edge[e]
    BY <1>1 DEF LiveE
  <2>2. Ends(graph.edge[e]) \subseteq LiveV(graph) /\ v \notin Ends(graph.edge[e])
    BY <2>1, <1>0 DEF NoDangling, Incident
  <2> QED BY <1>0, <1>1, <2>1, <2>2 DEF LiveV, Graph
<1>5. d \subseteq Id /\ t \subseteq Id
  BY <1>0, <1>2, <1>3 DEF DirtyRemoval, Marked, Covers, Id
<1>6. t \cap (LiveV(h) \cup LiveE(h)) = {}
  BY <1>0, <1>1, <1>2, IdAssumption DEF LiveV, LiveE, Marked, Covers, Graph
<1>7. \A w \in Vertex :
       /\ h.vertex[w] # None /\ w \notin d => h.vertex[w] = graph.vertex[w] /\ w \notin dirty
       /\ h.vertex[w] = None /\ w \notin t => graph.vertex[w] = None /\ w \notin gone
  BY <1>0, <1>1, <1>2, IdAssumption DEF DirtyRemoval, Graph
<1>8. \A e \in Edge :
       /\ h.edge[e] # None /\ e \notin d \cup adrift =>
            h.edge[e] = graph.edge[e] /\ e \notin dirty \cup adrift
       /\ h.edge[e] = None /\ e \notin t \cup adrift =>
            graph.edge[e] = None /\ e \notin gone \cup adrift
  BY <1>0, <1>1, IdAssumption DEF DirtyRemoval
<1> HIDE DEF d, t
<1>9. Covers(h, d, t, adrift)
  BY <1>1, <1>4, <1>5, <1>6, <1>7, <1>8 DEF Covers, Marked
<1> QED BY <1>9 DEF h, d, t

LEMMA CoverPutVertex ==
  ASSUME Marked, NEW v \in Vertex, NEW r \in VertexRec
  PROVE  Covers(put_vertex(graph, v, r), dirty \cup {v}, gone \ {v}, adrift)
<1> DEFINE h == put_vertex(graph, v, r)
<1>0. graph \in Graph
  BY DEF Marked, Covers
<1>1. /\ h \in Graph
      /\ h.vertex = [graph.vertex EXCEPT ![v] = r]
      /\ h.edge = graph.edge
  BY <1>0, PutFields
<1> HIDE DEF h
<1>2. r # None
  BY NoneAssumption
<1>3. LiveV(h) = LiveV(graph) \cup {v} /\ LiveE(h) = LiveE(graph)
  BY <1>1, <1>2 DEF LiveV, LiveE, Marked, Covers, Graph
<1>4. NoDangling(h)
  BY <1>1, <1>3 DEF NoDangling, Marked, Covers
<1>5. \A w \in Vertex : w # v => h.vertex[w] = graph.vertex[w]
  BY <1>1 DEF Marked, Covers, Graph
<1>6. /\ dirty \cup {v} \subseteq Id /\ gone \ {v} \subseteq Id
      /\ (gone \ {v}) \cap (LiveV(h) \cup LiveE(h)) = {}
      /\ h.vertex[v] = r
  <2>1. h.vertex[v] = r
    BY <1>1 DEF Marked, Covers, Graph
  <2> QED BY <2>1, <1>3, IdAssumption DEF Covers, Marked, Id, LiveE
<1>7. \A e \in Edge : e # v
  BY IdAssumption
<1>8. Covers(h, dirty \cup {v}, gone \ {v}, adrift)
  BY <1>1, <1>2, <1>4, <1>5, <1>6, <1>7 DEF Covers, Marked
<1> QED BY <1>8 DEF h

LEMMA CoverPutLoad ==
  ASSUME Marked, NEW v \in LiveV(graph), NEW load \in Load,
         NEW d \in {dirty, dirty \cup {v}},
         v \in d \/ load = graph.vertex[v].load
  PROVE  Covers(put_load(graph, v, load), d, gone, adrift)
<1> DEFINE h == put_load(graph, v, load)
<1>0. graph \in Graph /\ v \in Vertex /\ graph.vertex[v] \in VertexRec
  BY LiveRecords DEF Marked, Covers
<1>1. /\ h \in Graph /\ LiveV(h) = LiveV(graph) /\ LiveE(h) = LiveE(graph)
      /\ \A w \in Vertex \ {v} : h.vertex[w] = graph.vertex[w]
      /\ h.edge = graph.edge
  BY <1>0, VertexLoad
<1>2. load = graph.vertex[v].load => h.vertex[v] = graph.vertex[v]
  BY <1>0 DEF put_load, Graph, VertexRec
<1> HIDE DEF h
<1>3. NoDangling(h)
  BY <1>1 DEF NoDangling, Marked, Covers
<1>4. Covers(h, d, gone, adrift)
  BY <1>0, <1>1, <1>2, <1>3 DEF Covers, Marked, Id, LiveV
<1> QED BY <1>4 DEF h

(* An edge put, replaced or dropped; the endpoints of the step are marked too. *)
LEMMA CoverPutEdge ==
  ASSUME Marked, NEW e \in Edge, NEW r \in EdgeRec \cup {None},
         r # None => Ends(r) \subseteq LiveV(graph),
         NEW d, NEW t,
         d \subseteq Id, dirty \ {e} \subseteq d,
         r # None => (e \in d \/ (r = graph.edge[e] /\ e \notin dirty)) /\ t = gone \ {e},
         r = None => t = gone \cup {e}
  PROVE  Covers(put_edge(graph, e, r), d, t, adrift)
<1> DEFINE h == put_edge(graph, e, r)
<1>0. graph \in Graph /\ NoDangling(graph)
  BY DEF Marked, Covers
<1>1. /\ h \in Graph
      /\ h.edge = [graph.edge EXCEPT ![e] = r]
      /\ h.vertex = graph.vertex /\ LiveV(h) = LiveV(graph)
  BY <1>0, EdgePut
<1> HIDE DEF h
<1>2. NoDangling(h)
  BY <1>0, <1>1 DEF NoDangling, LiveE, Graph, OptEdges
<1>3. t \subseteq Id /\ e \notin Vertex
  BY IdAssumption DEF Marked, Covers, Id
<1>4. t \cap (LiveV(h) \cup LiveE(h)) = {}
  <2>1. \A x \in LiveE(h) : x # e => x \in LiveE(graph)
    BY <1>0, <1>1 DEF LiveE, Graph, OptEdges
  <2>2. r = None => e \notin LiveE(h)
    BY <1>0, <1>1 DEF LiveE, Graph, OptEdges
  <2>3. e \notin LiveV(h)
    BY <1>3 DEF LiveV
  <2> QED BY <1>1, <2>1, <2>2, <2>3 DEF Marked, Covers
<1>5. \A w \in Vertex :
       /\ h.vertex[w] # None /\ w \notin d => h.vertex[w] = graph.vertex[w] /\ w \notin dirty
       /\ h.vertex[w] = None /\ w \notin t => graph.vertex[w] = None /\ w \notin gone
  BY <1>1, <1>3
<1>6. \A x \in Edge :
       /\ h.edge[x] # None /\ x \notin d \cup adrift =>
            h.edge[x] = graph.edge[x] /\ x \notin dirty \cup adrift
       /\ h.edge[x] = None /\ x \notin t \cup adrift =>
            graph.edge[x] = None /\ x \notin gone \cup adrift
  BY <1>0, <1>1 DEF Graph, OptEdges
<1>7. Covers(h, d, t, adrift)
  BY <1>1, <1>2, <1>3, <1>4, <1>5, <1>6 DEF Covers, Marked
<1> QED BY <1>7 DEF h

LEMMA CoverPutRecord ==
  ASSUME Marked, NEW e \in Edge, NEW r \in EdgeRec, Ends(r) \subseteq LiveV(graph),
         NEW d, d \subseteq Id, dirty \ {e} \subseteq d, e \in d
  PROVE  Covers(put_edge(graph, e, r), d, gone \ {e}, adrift)
<1>1. r # None /\ r \in EdgeRec \cup {None}
  BY NoneAssumption
<1>2. \A t : t = gone \ {e} => Covers(put_edge(graph, e, r), d, t, adrift)
  <2> TAKE t
  <2> HAVE t = gone \ {e}
  <2> QED BY <1>1, CoverPutEdge
<1> QED BY <1>2

LEMMA CoverPutName ==
  ASSUME Marked, NEW s \in Sym, NEW n \in Name \cup {None}
  PROVE  Covers(put_name(graph, s, n), dirty, gone, adrift)
<1> DEFINE h == put_name(graph, s, n)
<1>0. graph \in Graph
  BY DEF Marked, Covers
<1>1. h \in Graph /\ h.vertex = graph.vertex /\ h.edge = graph.edge
  BY <1>0, SymName
<1> HIDE DEF h
<1>2. LiveV(h) = LiveV(graph) /\ LiveE(h) = LiveE(graph)
  BY <1>1 DEF LiveV, LiveE
<1>3. NoDangling(h)
  BY <1>1, <1>2 DEF Covers, Marked, NoDangling
<1>4. Covers(h, dirty, gone, adrift)
  BY <1>1, <1>2, <1>3 DEF Covers, Marked
<1> QED BY <1>4 DEF h

(* The adoptions of a vertex_removed or an edge_removed entry. *)
LEMMA CoverAdopt ==
  ASSUME Marked, NEW j \in Entry, j.kind \in {"vertex_removed", "edge_removed"}
  PROVE  Covers(Undo(j, graph), UndoDirty(j, graph), UndoGone(j, graph),
                adrift \cup Inserted(j, graph))
<1> DEFINE own == {j.id} \cap Vertex
           k == IF j.kind = "vertex_removed" THEN adopt_vertex(graph, j.id, j.rec) ELSE graph
           h == Undo(j, graph)
           d == UndoDirty(j, graph)
           t == UndoGone(j, graph)
           ins == Inserted(j, graph)
           new == Adopted(j, graph)
           a == adrift \cup ins
<1>0. /\ graph \in Graph /\ NoDangling(graph)
      /\ dirty \subseteq Id /\ gone \subseteq Id /\ adrift \subseteq Edge
      /\ gone \cap (LiveV(graph) \cup LiveE(graph)) = {}
  BY DEF Marked, Covers
<1>1. /\ j.edges \in OptEdges /\ j.flags \subseteq Edge
      /\ j.kind = "vertex_removed" => j.id \in Vertex /\ j.rec \in VertexRec
      /\ j.kind = "edge_removed" => j.id \in Edge
  BY EntryKinds
<1>2. /\ k \in Graph /\ NoDangling(k)
      /\ k.edge = graph.edge
      /\ \A v \in Vertex : v \notin own => k.vertex[v] = graph.vertex[v]
      /\ \A v \in own : k.vertex[v] # None
      /\ LiveV(k) = LiveV(graph) \cup own
  <2>1. CASE j.kind = "vertex_removed" /\ graph.vertex[j.id] = None
    <3> DEFINE p == put_vertex(graph, j.id, j.rec)
    <3>1. k = p /\ own = {j.id} /\ j.rec # None
      BY <2>1, <1>1, NoneAssumption DEF adopt_vertex
    <3>2. p \in Graph /\ p.vertex = [graph.vertex EXCEPT ![j.id] = j.rec] /\ p.edge = graph.edge
      <4>1. j.id \in Vertex /\ j.rec \in VertexRec /\ graph \in Graph
        BY <2>1, <1>0, <1>1
      <4> QED BY <4>1, PutFields
    <3> HIDE DEF p, k, own
    <3>3. /\ \A v \in Vertex : v # j.id => p.vertex[v] = graph.vertex[v]
          /\ p.vertex[j.id] # None
          /\ LiveV(p) = LiveV(graph) \cup {j.id}
      <4>1. graph.vertex \in [Vertex -> VertexRec \cup {None}] /\ j.id \in Vertex
        BY <2>1, <1>0, <1>1 DEF Graph
      <4>2. p.vertex[j.id] # None /\ \A v \in Vertex : v # j.id => p.vertex[v] = graph.vertex[v]
        BY <3>1, <3>2, <4>1
      <4> QED BY <4>1, <4>2 DEF LiveV
    <3>4. NoDangling(p)
      BY <3>2, <3>3, <1>0 DEF NoDangling, LiveE
    <3> QED BY <3>1, <3>2, <3>3, <3>4
  <2>2. CASE j.kind = "vertex_removed" /\ graph.vertex[j.id] # None
    BY <2>2, <1>0, <1>1 DEF adopt_vertex, LiveV
  <2>3. CASE j.kind = "edge_removed"
    BY <2>3, <1>0, <1>1, IdAssumption
  <2> QED BY <2>1, <2>2, <2>3
<1>3. h = adopt_edges(k, j.edges)
  BY UndoKinds
<1> HIDE DEF h, k
<1>4. /\ h \in Graph /\ NoDangling(h)
      /\ h.vertex = k.vertex /\ LiveV(h) = LiveV(k)
      /\ h.edge = [e \in Edge |-> IF j.edges[e] # None /\ Adoptable(k, e, j.edges[e])
                                   THEN j.edges[e] ELSE k.edge[e]]
  BY <1>1, <1>2, <1>3, AdoptEdges DEF LiveV
<1>5. \A e \in Edge :
        /\ e \in new => e \in ins /\ h.edge[e] # None /\ Ends(j.edges[e]) \subseteq Vertex
        /\ e \notin new => h.edge[e] = graph.edge[e]
  BY <1>1, <1>2, <1>4 DEF Adopted, Inserted, Adoptable, h, LiveV
<1>6. d = dirty \cup own \cup (j.flags \cap new) \cup UNION {Ends(j.edges[e]) : e \in new}
  BY DEF UndoDirty
<1>7. t = gone \ (own \cup ins)
  BY <1>1, IdAssumption DEF UndoGone
<1>8. ins \subseteq Edge /\ new \subseteq ins /\ own \subseteq Vertex
  BY DEF Inserted, Adopted
<1> HIDE DEF d, t, ins, new, own
<1>9. d \subseteq Id /\ t \subseteq Id /\ a \subseteq Edge
  BY <1>0, <1>1, <1>5, <1>6, <1>7, <1>8 DEF Id
<1>10. t \cap (LiveV(h) \cup LiveE(h)) = {}
  <2>1. LiveE(h) \subseteq LiveE(graph) \cup ins
    BY <1>5 DEF LiveE
  <2> QED BY <2>1, <1>0, <1>2, <1>4, <1>7
<1>11. \A v \in Vertex :
       /\ h.vertex[v] # None /\ v \notin d => h.vertex[v] = graph.vertex[v] /\ v \notin dirty
       /\ h.vertex[v] = None /\ v \notin t => graph.vertex[v] = None /\ v \notin gone
  BY <1>2, <1>4, <1>6, <1>7, <1>8, IdAssumption
<1>12. \A e \in Edge :
       /\ h.edge[e] # None /\ e \notin d \cup a =>
            h.edge[e] = graph.edge[e] /\ e \notin dirty \cup adrift
       /\ h.edge[e] = None /\ e \notin t \cup a =>
            graph.edge[e] = None /\ e \notin gone \cup adrift
  BY <1>5, <1>6, <1>7, <1>8, IdAssumption
<1> HIDE DEF a
<1>13. Covers(h, d, t, a)
  BY <1>4, <1>9, <1>10, <1>11, <1>12 DEF Covers
<1> QED BY <1>13 DEF h, d, t, a, ins

LEMMA CoverUndo ==
  ASSUME Marked, NEW j \in Entry
  PROVE  Covers(Undo(j, graph), UndoDirty(j, graph), UndoGone(j, graph),
                IF j.kind \in {"vertex_removed", "edge_removed"}
                  THEN adrift \cup Inserted(j, graph) ELSE adrift)
<1>0. /\ graph \in Graph /\ NoDangling(graph)
      /\ dirty \subseteq Id /\ gone \subseteq Id /\ adrift \subseteq Edge
      /\ gone \cap (LiveV(graph) \cup LiveE(graph)) = {}
  BY DEF Marked, Covers
<1>s. Covers(graph, dirty, gone, adrift)
  BY DEF Marked
<1>1. CASE j.kind = "vertex_created" /\ j.id \in Vertex
  <2>1. CASE graph.vertex[j.id] = None
    <3>1. Undo(j, graph) = graph /\ UndoDirty(j, graph) = dirty /\ UndoGone(j, graph) = gone
      BY <1>1, <2>1, UndoKinds DEF remove_vertex, UndoDirty, UndoGone
    <3> QED BY <1>1, <3>1, <1>s
  <2>2. CASE graph.vertex[j.id] # None
    <3>1. /\ Undo(j, graph) = remove_vertex(graph, j.id)
          /\ UndoDirty(j, graph) = DirtyRemoval(graph, j.id)
          /\ UndoGone(j, graph) = gone \cup {j.id} \cup Incident(graph, j.id)
      BY <1>1, <2>2, UndoKinds DEF UndoDirty, UndoGone
    <3>2. j.id \in LiveV(graph)
      BY <1>1, <2>2 DEF LiveV
    <3> QED BY <1>1, <3>1, <3>2, CoverRemoveVertex
  <2> QED BY <2>1, <2>2
<1>2. CASE j.kind \in {"vertex_removed", "edge_removed"}
  BY <1>2, CoverAdopt
<1>3. CASE j.kind = "vertex_payload" /\ j.id \in Vertex /\ j.load \in Load
  <2>0. UndoGone(j, graph) = gone
    BY <1>3 DEF UndoGone
  <2>1. CASE graph.vertex[j.id] = None
    <3>1. Undo(j, graph) = graph /\ UndoDirty(j, graph) = dirty
      BY <1>3, <2>1, UndoKinds DEF UndoDirty
    <3> QED BY <1>3, <2>0, <3>1, <1>s
  <2>2. CASE graph.vertex[j.id] # None
    <3>1. Undo(j, graph) = put_load(graph, j.id, j.load) /\ UndoDirty(j, graph) = dirty \cup {j.id}
      BY <1>3, <2>2, UndoKinds DEF UndoDirty
    <3>2. j.id \in LiveV(graph)
      BY <1>3, <2>2 DEF LiveV
    <3>3. Covers(put_load(graph, j.id, j.load), dirty \cup {j.id}, gone, adrift)
      BY <1>3, <3>2, CoverPutLoad
    <3> QED BY <1>3, <2>0, <3>1, <3>3
  <2> QED BY <2>1, <2>2
<1>4. CASE j.kind = "edge_created" /\ j.id \in Edge
  <2>0. Undo(j, graph) = put_edge(graph, j.id, None)
    BY <1>4, UndoKinds
  <2>1. CASE graph.edge[j.id] = None
    <3>1. UndoDirty(j, graph) = dirty /\ UndoGone(j, graph) = gone
      BY <1>4, <2>1 DEF UndoDirty, UndoGone
    <3>2. put_edge(graph, j.id, None) = graph
      <4>1. put_edge(put_edge(graph, j.id, None), j.id, graph.edge[j.id]) = graph
        BY <1>0, <1>4, EdgePut
      <4>2. put_edge(put_edge(graph, j.id, None), j.id, None) = put_edge(graph, j.id, None)
        BY <1>0, <1>4, PutTwice
      <4> QED BY <2>1, <4>1, <4>2
    <3> QED BY <1>4, <2>0, <3>1, <3>2, <1>s
  <2>2. CASE graph.edge[j.id] # None
    <3> DEFINE d == (dirty \ {j.id}) \cup Ends(graph.edge[j.id])
               t == gone \cup {j.id}
    <3>1. UndoDirty(j, graph) = d /\ UndoGone(j, graph) = t
      BY <1>4, <2>2 DEF UndoDirty, UndoGone
    <3>2. d \subseteq Id /\ dirty \ {j.id} \subseteq d
      BY <1>0, <1>4, <2>2 DEF NoDangling, LiveE, LiveV, Id
    <3> HIDE DEF d, t
    <3>3. Covers(put_edge(graph, j.id, None), d, t, adrift)
      BY <1>4, <3>2, CoverPutEdge DEF t
    <3> QED BY <1>4, <2>0, <3>1, <3>3
  <2> QED BY <2>1, <2>2
<1>5. CASE j.kind = "edge_state" /\ j.id \in Edge /\ j.rec \in EdgeRec
  <2>0. UndoGone(j, graph) = gone
    BY <1>5 DEF UndoGone
  <2>1. CASE graph.edge[j.id] = None
    <3>1. Undo(j, graph) = graph /\ UndoDirty(j, graph) = dirty
      BY <1>5, <2>1, UndoKinds DEF UndoDirty
    <3> QED BY <1>5, <2>0, <3>1, <1>s
  <2>2. CASE graph.edge[j.id] # None
    <3> DEFINE d == UndoDirty(j, graph)
    <3>1. j.id \in LiveE(graph)
      BY <1>5, <2>2 DEF LiveE
    <3>2. PICK q \in EdgeRec : Undo(j, graph) = put_edge(graph, j.id, q)
                                 /\ Ends(q) \subseteq LiveV(graph)
      BY <1>0, <1>5, <3>1, UndoEdgeState
    <3>3. d = dirty \cup {j.id} \cup
              IF j.rec.origin = graph.edge[j.id].origin /\ j.rec.target = graph.edge[j.id].target
              THEN {} ELSE Ends(j.rec) \cup Ends(graph.edge[j.id])
      BY <1>5, <2>2 DEF UndoDirty
    <3>4. Ends(j.rec) \subseteq Vertex /\ Ends(graph.edge[j.id]) \subseteq Vertex
      BY <1>0, <1>5, <3>1 DEF NoDangling, LiveV, Ends, EdgeRec
    <3>5. d \subseteq Id /\ dirty \ {j.id} \subseteq d /\ j.id \in d
      BY <1>0, <1>5, <3>3, <3>4 DEF Id
    <3>6. gone = gone \ {j.id} /\ q # None
      BY <1>0, <3>1, NoneAssumption
    <3> HIDE DEF d
    <3>7. Covers(put_edge(graph, j.id, q), d, gone \ {j.id}, adrift)
      BY <1>5, <3>2, <3>5, CoverPutRecord
    <3> QED BY <1>5, <2>0, <3>2, <3>6, <3>7 DEF d
  <2> QED BY <2>1, <2>2
<1>6. CASE \/ j.kind = "sym_created" /\ j.id \in Sym
           \/ j.kind \in {"sym_renamed", "sym_freed"} /\ j.id \in Sym /\ j.name \in Name
  <2>1. UndoDirty(j, graph) = dirty /\ UndoGone(j, graph) = gone
    BY <1>6 DEF UndoDirty, UndoGone
  <2>2. \/ Undo(j, graph) = graph
        \/ \E n \in Name \cup {None} : Undo(j, graph) = put_name(graph, j.id, n)
    BY <1>6, UndoKinds DEF rename_label, restore_label
  <2>3. Covers(Undo(j, graph), dirty, gone, adrift)
    BY <1>6, <2>2, <1>s, CoverPutName
  <2> QED BY <1>6, <2>1, <2>3
<1> QED BY <1>1, <1>2, <1>3, <1>4, <1>5, <1>6, EntryKinds

-----------------------------------------------------------------------------
(***************************************************************************)
(* The commands.  Recorded says what a command of the writing flow does:   *)
(* it marks what it changes, it uses no id twice, and, unless a change was *)
(* lost, it leaves the graph consistent and pushes the entry that undoes   *)
(* it.                                                                     *)
(***************************************************************************)
UsedOK ==
  /\ LiveV(graph) \subseteq used
  /\ gone \subseteq used \cup Edge
  /\ \A s \in Sym : graph.schema[s] # None => s \in used

\* The undo of a creation is the only one that may find a vertex unknown.
Known(j, ids) == j.kind = "vertex_created" \/ j.id \in ids \cup Edge

Stripping == act = "strip" => strip \in Sym /\ tx \in {"none", "write"}

Ready == TypeOK /\ Marked /\ UsedOK /\ Stripping

Sound == SelfEdges /\ Consistent(graph) /\ ~lost'

Journaled ==
  \/ journal' = journal /\ bytes' = bytes /\ (InTx /\ ~lost' => graph' = graph)
  \/ /\ InTx
     /\ \E j \in Entry :
          /\ journal' = Append(journal, j) /\ bytes' = bytes + Bytes(j)
          /\ Known(j, used')
          /\ Sound => Undo(j, graph') = graph

Recorded ==
  /\ Covers(graph', dirty', gone', adrift')
  /\ UNCHANGED <<tx, saved, content, batch, disk, adrift>>
  /\ used \subseteq used' /\ used' \subseteq Vertex \cup Sym
  /\ UsedOK'
  /\ act \in {"idle", "strip"} /\ act' \in {"idle", "strip"}
  /\ strip' \in Sym \cup {None} /\ Stripping'
  /\ lost' \in BOOLEAN /\ (lost => lost')
  /\ tx \in {"none", "write", "bulk"}
  /\ Journaled
  /\ Sound => Consistent(graph')

(* A pushed entry: what the undo of the step needs is all that is left. *)
LEMMA LoggedEntry ==
  ASSUME NEW j \in Entry, Logged(j), Known(j, used'),
         Sound => Undo(j, graph') = graph
  PROVE  Journaled
<1>1. CASE InTx
  BY <1>1 DEF Logged, Journaled
<1>2. CASE ~InTx
  BY <1>2 DEF Logged, Journaled
<1> QED BY <1>1, <1>2

LEMMA AddVertexRecorded ==
  ASSUME Ready, act = "idle", tx \in {"none", "write", "bulk"},
         NEW v \in Vertex, NEW k \in Key \cup {None}, NEW load \in Load, add_vertex(v, k, load)
  PROVE  Recorded
<1> DEFINE r == [key |-> k, load |-> load]
           j == Created("vertex_created", v)
<1>1. /\ graph \in Graph /\ v \notin used /\ used' = used \cup {v}
      /\ UNCHANGED <<tx, saved, content, batch, disk, adrift, act, strip, lost>>
  BY DEF Ready, TypeOK, add_vertex, scopeVars, storeVars
<1>0. graph.vertex[v] = None /\ v \notin gone
  BY <1>1, IdAssumption DEF Ready, UsedOK, LiveV
<1>2. r \in VertexRec /\ r.key = k /\ j \in Entry /\ j.kind = "vertex_created" /\ j.id = v
  BY DEF VertexRec, Entry, Created
<1>3. used \subseteq used' /\ used' \subseteq Vertex \cup Sym
  BY <1>1 DEF Ready, TypeOK
<1>4. act' = "idle" /\ strip' \in Sym \cup {None} /\ lost' \in BOOLEAN
  BY <1>1 DEF Ready, TypeOK
<1>5. CASE InTx /\ ~Fits(j)
  <2>1. gone' = gone \cup {v} /\ UNCHANGED <<graph, journal, bytes, dirty>>
    BY <1>5 DEF add_vertex
  <2>2. Covers(graph', dirty', gone', adrift')
    BY <1>0, <1>1, <2>1, IdAssumption DEF Ready, Marked, Covers, Id, LiveV, LiveE
  <2>3. UsedOK'
    BY <1>1, <2>1 DEF Ready, UsedOK, LiveV
  <2>4. Journaled /\ (Sound => Consistent(graph'))
    BY <2>1 DEF Journaled, Sound
  <2> QED BY <1>1, <1>3, <1>4, <2>2, <2>3, <2>4 DEF Recorded, Stripping
<1>6. CASE ~(InTx /\ ~Fits(j))
  <2>1. Logged(j) /\ graph' = put_vertex(graph, v, r) /\ dirty' = dirty \cup {v} /\ gone' = gone
    BY <1>6 DEF add_vertex
  <2>2. gone \ {v} = gone
    BY <1>0
  <2>3. Covers(put_vertex(graph, v, r), dirty \cup {v}, gone \ {v}, adrift)
    BY <1>2, CoverPutVertex DEF Ready
  <2>4. Covers(graph', dirty', gone', adrift')
    BY <1>1, <2>1, <2>2, <2>3
  <2> HIDE DEF r, j
  <2>5. graph'.vertex = [graph.vertex EXCEPT ![v] = r] /\ graph'.schema = graph.schema
    <3>1. LET h == put_vertex(graph, v, r) IN
          h.vertex = [graph.vertex EXCEPT ![v] = r] /\ h.schema = graph.schema
      BY <1>1, <1>2, PutFields
    <3> QED BY <2>1, <3>1 DEF r
  <2>6. UsedOK'
    BY <1>1, <2>1, <2>5 DEF Ready, UsedOK, LiveV, Graph
  <2>7. Sound => Consistent(graph') /\ Undo(j, graph') = graph
    <3> SUFFICES ASSUME Sound PROVE Consistent(graph') /\ Undo(j, graph') = graph
      OBVIOUS
    <3>1. k # None => graph.keys[k] = None /\ graph.schema[KeyLabel[k]] # None
      BY DEF add_vertex
    <3>2. Consistent(graph') /\ remove_vertex(graph', v) = graph
      BY <1>0, <1>1, <1>2, <2>1, <3>1, PutVertex DEF Sound, r
    <3> QED BY <1>2, <3>2, UndoKinds
  <2>8. Journaled
    BY <1>2, <2>1, <2>7, LoggedEntry DEF Known
  <2> QED BY <1>1, <1>3, <1>4, <2>4, <2>6, <2>7, <2>8 DEF Recorded, Stripping
<1> QED BY <1>5, <1>6

LEMMA RemovedRecorded ==
  ASSUME Ready, act = "idle", tx \in {"none", "write", "bulk"}, NEW v \in LiveV(graph),
         graph' = remove_vertex(graph, v), dirty' = DirtyRemoval(graph, v),
         gone' = gone \cup {v} \cup Incident(graph, v),
         UNCHANGED <<used, tx, saved, content, batch, disk, adrift, act, strip>>,
         lost' \in BOOLEAN, lost => lost', Journaled
  PROVE  Recorded
<1>1. graph \in Graph /\ v \in Vertex
  BY DEF Ready, TypeOK, LiveV
<1>2. Covers(graph', dirty', gone', adrift')
  BY CoverRemoveVertex DEF Ready
<1>3. LET h == remove_vertex(graph, v) IN
        /\ h.vertex = [graph.vertex EXCEPT ![v] = None] /\ h.schema = graph.schema
        /\ Consistent(graph) => Consistent(h)
  BY <1>1, RemoveVertex
<1>4. UsedOK'
  <2>1. graph'.vertex = [graph.vertex EXCEPT ![v] = None] /\ graph'.schema = graph.schema
    BY <1>3
  <2>2. LiveV(graph)' \subseteq used
    BY <1>1, <2>1 DEF Ready, UsedOK, LiveV, Graph
  <2>3. gone' \subseteq used \cup Edge
    BY DEF Ready, UsedOK, Incident, LiveE
  <2> QED BY <2>1, <2>2, <2>3 DEF Ready, UsedOK
<1>5. Sound => Consistent(graph')
  BY <1>3 DEF Sound
<1> QED BY <1>2, <1>4, <1>5 DEF Recorded, Stripping, Ready, TypeOK

(* An undo revives no id but the one of its entry. *)
LEMMA UndoUsed ==
  ASSUME Ready, NEW j \in Entry, Known(j, used)
  PROVE  /\ LiveV(Undo(j, graph)) \subseteq used
         /\ UndoGone(j, graph) \subseteq used \cup Edge
         /\ \A s \in Sym : Undo(j, graph).schema[s] # None => s \in used
<1> DEFINE h == Undo(j, graph)
<1>0. /\ graph \in Graph /\ LiveV(graph) \subseteq used /\ gone \subseteq used \cup Edge
      /\ \A s \in Sym : graph.schema[s] # None => s \in used
      /\ NoDangling(graph)
  BY DEF Ready, TypeOK, UsedOK, Marked, Covers
<1>g. UndoGone(j, graph) \subseteq gone \cup LiveV(graph) \cup Edge
  <2>1. j.kind \in {"vertex_created"} => j.id \in Vertex
    BY EntryKinds
  <2>2. j.kind = "edge_created" => j.id \in Edge
    BY EntryKinds
  <2> QED BY <2>1, <2>2 DEF UndoGone, Incident, LiveE, LiveV
<1> SUFFICES /\ \/ LiveV(h) \subseteq LiveV(graph)
                \/ j.kind # "vertex_created" /\ LiveV(h) \subseteq LiveV(graph) \cup ({j.id} \cap Vertex)
             /\ \A s \in Sym : h.schema[s] # graph.schema[s] => j.kind # "vertex_created" /\ s = j.id
  BY <1>0, <1>g, IdAssumption DEF Known
<1>1. CASE j.kind = "vertex_created" /\ j.id \in Vertex
  <2>1. CASE graph.vertex[j.id] = None
    BY <1>1, <1>g, <2>1, UndoKinds DEF remove_vertex
  <2>2. CASE graph.vertex[j.id] # None
    <3>1. LET k == remove_vertex(graph, j.id) IN
            k.vertex = [graph.vertex EXCEPT ![j.id] = None] /\ k.schema = graph.schema
      BY <1>0, <1>1, <2>2, RemoveVertex DEF LiveV
    <3>2. h = remove_vertex(graph, j.id)
      BY <1>1, UndoKinds
    <3> QED BY <1>0, <1>1, <1>g, <3>1, <3>2 DEF LiveV, Graph
  <2> QED BY <2>1, <2>2
<1>2. CASE j.kind = "vertex_removed" /\ j.id \in Vertex /\ j.rec \in VertexRec /\ j.edges \in OptEdges
  <2> DEFINE k == adopt_vertex(graph, j.id, j.rec)
  <2>1. k \in Graph /\ k.schema = graph.schema
        /\ (k.vertex = graph.vertex \/ k.vertex = [graph.vertex EXCEPT ![j.id] = j.rec])
    BY <1>0, <1>2, PutFields DEF adopt_vertex
  <2> HIDE DEF k
  <2>2. LET a == adopt_edges(k, j.edges) IN a.vertex = k.vertex /\ a.schema = k.schema
    BY <1>2, <2>1, AdoptEdges
  <2>3. h = adopt_edges(k, j.edges)
    BY <1>2, UndoKinds DEF k
  <2> QED BY <1>0, <1>2, <1>g, <2>1, <2>2, <2>3 DEF LiveV, Graph
<1>3. CASE j.kind = "edge_removed" /\ j.id \in Edge /\ j.edges \in OptEdges
  <2>1. LET a == adopt_edges(graph, j.edges) IN a.vertex = graph.vertex /\ a.schema = graph.schema
    BY <1>0, <1>3, AdoptEdges
  <2>2. h = adopt_edges(graph, j.edges)
    BY <1>3, UndoKinds
  <2> QED BY <1>3, <1>g, <2>1, <2>2 DEF LiveV
<1>4. CASE j.kind = "vertex_payload" /\ j.id \in Vertex /\ j.load \in Load
  <2>1. CASE graph.vertex[j.id] = None
    BY <1>4, <1>g, <2>1, UndoKinds
  <2>2. CASE graph.vertex[j.id] # None
    <3>1. LET k == put_load(graph, j.id, j.load) IN LiveV(k) = LiveV(graph) /\ k.schema = graph.schema
      BY <1>0, <1>4, <2>2, VertexLoad DEF LiveV
    <3>2. h = put_load(graph, j.id, j.load)
      BY <1>4, <2>2, UndoKinds
    <3> QED BY <1>4, <1>g, <3>1, <3>2
  <2> QED BY <2>1, <2>2
<1>5. CASE j.kind \in {"edge_created", "edge_state"} /\ j.id \in Edge
  <2>1. h = graph \/ \E q \in EdgeRec \cup {None} : h = put_edge(graph, j.id, q)
    <3>1. CASE j.kind = "edge_created"
      BY <3>1, UndoKinds
    <3>2. CASE j.kind = "edge_state" /\ graph.edge[j.id] = None
      BY <3>2, UndoKinds
    <3>3. CASE j.kind = "edge_state" /\ graph.edge[j.id] # None
      <4>1. j.id \in LiveE(graph) /\ j.rec \in EdgeRec
        BY <1>5, <3>3, EntryKinds DEF LiveE
      <4>2. \E q \in EdgeRec : Undo(j, graph) = put_edge(graph, j.id, q)
        BY <1>0, <3>3, <4>1, UndoEdgeState
      <4> QED BY <4>2
    <3> QED BY <1>5, <3>1, <3>2, <3>3
  <2>2. \A q \in EdgeRec \cup {None} :
          LET k == put_edge(graph, j.id, q) IN k.vertex = graph.vertex /\ k.schema = graph.schema
    BY <1>0, <1>5, EdgePut
  <2>3. h.vertex = graph.vertex /\ h.schema = graph.schema
    BY <2>1, <2>2
  <2> QED BY <1>5, <1>g, <2>3 DEF LiveV
<1>6. CASE \/ j.kind = "sym_created" /\ j.id \in Sym
           \/ j.kind \in {"sym_renamed", "sym_freed"} /\ j.id \in Sym /\ j.name \in Name
  <2>1. h = graph \/ \E n \in Name \cup {None} : h = put_name(graph, j.id, n)
    BY <1>6, UndoKinds DEF rename_label, restore_label
  <2>2. \A n \in Name \cup {None} :
          LET k == put_name(graph, j.id, n)
          IN  k.vertex = graph.vertex /\ k.schema = [graph.schema EXCEPT ![j.id] = n]
    BY <1>0, <1>6, SymName
  <2> HIDE DEF h
  <2>3. CASE h = graph
    BY <1>6, <1>g, <2>3
  <2>4. ASSUME NEW n \in Name \cup {None}, h = put_name(graph, j.id, n)
        PROVE  h.vertex = graph.vertex /\ h.schema = [graph.schema EXCEPT ![j.id] = n]
    BY <2>2, <2>4
  <2>5. CASE \E n \in Name \cup {None} : h = put_name(graph, j.id, n)
    BY <1>0, <1>6, <1>g, <2>4, <2>5 DEF Graph, LiveV
  <2> QED BY <2>1, <2>3, <2>5
<1> QED BY <1>1, <1>2, <1>3, <1>4, <1>5, <1>6, EntryKinds

LEMMA WarningRecorded ==
  ASSUME Ready, act = "idle", tx \in {"none", "write", "bulk"}, NEW k \in Key, create_vertex_warning(k)
  PROVE  Recorded
<1> DEFINE v == graph.keys[k]
           j == Created("vertex_created", v)
<1>1. /\ UNCHANGED <<used, tx, saved, content, batch, disk, adrift, act, strip>>
      /\ InTx /\ lost' = TRUE /\ v \in Vertex /\ graph \in Graph
  BY DEF create_vertex_warning, Ready, TypeOK, Graph, scopeVars, storeVars
<1>2. j \in Entry /\ j.kind = "vertex_created" /\ Known(j, used)
  BY <1>1 DEF Entry, Created, Known
<1>3. ~Sound
  BY <1>1 DEF Sound
<1>4. /\ used \subseteq used' /\ used' \subseteq Vertex \cup Sym
      /\ act' \in {"idle", "strip"} /\ strip' \in Sym \cup {None} /\ lost' \in BOOLEAN
  BY <1>1 DEF Ready, TypeOK
<1>5. Covers(graph', dirty', gone', adrift') /\ UsedOK' /\ Journaled
  <2> HIDE DEF j, v
  <2>1. CASE Fits(j)
    <3>1. Logged(j) /\ UNCHANGED <<graph, dirty, gone>>
      BY <2>1 DEF create_vertex_warning, j, v
    <3>2. Covers(graph', dirty', gone', adrift') /\ UsedOK'
      BY <1>1, <3>1 DEF Ready, Marked, UsedOK
    <3>3. Known(j, used')
      BY <1>2 DEF Known
    <3> QED BY <1>2, <1>3, <3>1, <3>2, <3>3, LoggedEntry
  <2>2. CASE ~Fits(j)
    <3>1. /\ graph' = Undo(j, graph) /\ dirty' = UndoDirty(j, graph) /\ gone' = UndoGone(j, graph)
          /\ UNCHANGED <<journal, bytes>>
      BY <2>2 DEF create_vertex_warning, j, v
    <3>2. Covers(Undo(j, graph), UndoDirty(j, graph), UndoGone(j, graph), adrift)
      BY <1>2, CoverUndo DEF Ready
    <3>3. UsedOK'
      BY <1>1, <1>2, <3>1, UndoUsed DEF UsedOK
    <3>4. Journaled
      BY <1>1, <3>1 DEF Journaled
    <3> QED BY <1>1, <3>1, <3>2, <3>3, <3>4
  <2> QED BY <2>1, <2>2
<1> QED BY <1>1, <1>3, <1>4, <1>5 DEF Recorded, Stripping

LEMMA FreeVertexRecorded ==
  ASSUME Ready, NEW v \in Vertex, free_vertex(v)
  PROVE  Recorded
<1> DEFINE j == VertexRemoved(graph, v)
<1>1. /\ act = "idle" /\ tx \in {"none", "write", "bulk"} /\ v \in LiveV(graph) /\ graph \in Graph
      /\ graph' = remove_vertex(graph, v) /\ dirty' = DirtyRemoval(graph, v)
      /\ gone' = gone \cup {v} \cup Incident(graph, v)
      /\ UNCHANGED <<used, tx, saved, content, batch, disk, adrift, act, strip>>
  BY DEF free_vertex, Writing, Ready, TypeOK, scopeVars, storeVars
<1>2. /\ j.kind = "vertex_removed" /\ j.id = v /\ j.rec = graph.vertex[v]
      /\ j.edges = [e \in Edge |-> IF e \in Incident(graph, v) THEN graph.edge[e] ELSE None]
  BY DEF VertexRemoved
<1>3. j \in Entry
  <2>1. graph.vertex[v] \in VertexRec /\ graph.edge \in OptEdges
    BY <1>1 DEF Graph, LiveV
  <2>2. [e \in Edge |-> IF e \in Incident(graph, v) THEN graph.edge[e] ELSE None] \in OptEdges
    BY <2>1 DEF OptEdges
  <2>3. Incident(graph, v) \cap dirty \subseteq Edge
    BY DEF Incident, LiveE
  <2> QED BY <2>1, <2>2, <2>3 DEF VertexRemoved, Entry
<1> HIDE DEF j
<1>4. Known(j, used')
  BY <1>1, <1>2 DEF Known, Ready, UsedOK
<1>5. Sound => Undo(j, graph') = graph
  <2> SUFFICES ASSUME Sound PROVE Undo(j, graph') = graph
    OBVIOUS
  <2>1. Undo(j, graph') = adopt_edges(adopt_vertex(graph', v, graph.vertex[v]), j.edges)
    BY <1>2, UndoKinds
  <2>2. adopt_edges(adopt_vertex(remove_vertex(graph, v), v, graph.vertex[v]), j.edges) = graph
    BY <1>1, <1>2, UndoRemoveVertex DEF Sound
  <2> QED BY <1>1, <2>1, <2>2
<1>6. lost' \in BOOLEAN /\ (lost => lost') /\ Journaled
  <2>1. CASE InTx /\ ~Fits(j)
    <3>1. lost' = TRUE /\ UNCHANGED <<journal, bytes>>
      BY <2>1 DEF free_vertex, j
    <3> QED BY <3>1 DEF Journaled
  <2>2. CASE ~(InTx /\ ~Fits(j))
    <3>1. Logged(j) /\ lost' = lost
      BY <2>2 DEF free_vertex, j
    <3> QED BY <1>3, <1>4, <1>5, <3>1, LoggedEntry DEF Ready, TypeOK
  <2> QED BY <2>1, <2>2
<1> QED BY <1>1, <1>6, RemovedRecorded

(* edit_vertex and strip_vertex. *)
LEMMA LoadRecorded ==
  ASSUME Ready, NEW v \in LiveV(graph), NEW load \in Load,
         act \in {"idle", "strip"}, tx \in {"none", "write"}, graph' = put_load(graph, v, load),
         dirty' \in {dirty, dirty \cup {v}}, v \in dirty' \/ load = graph.vertex[v].load,
         UNCHANGED <<used, gone, tx, saved, content, batch, disk, adrift, act, strip>>,
         \/ Logged(VertexPayload(graph, v)) /\ lost' = lost
         \/ lost' = TRUE /\ UNCHANGED <<journal, bytes>>
  PROVE  Recorded
<1> DEFINE j == VertexPayload(graph, v)
<1>1. graph \in Graph /\ v \in Vertex /\ graph.vertex[v] \in VertexRec /\ lost' \in BOOLEAN
  BY DEF Ready, TypeOK, LiveV, Graph
<1>2. j \in Entry /\ j.kind = "vertex_payload" /\ j.id = v /\ j.load = graph.vertex[v].load
  BY <1>1 DEF VertexPayload, Entry, VertexRec
<1> HIDE DEF j
<1>3. Covers(graph', dirty', gone', adrift')
  BY CoverPutLoad DEF Ready
<1>4. LET h == put_load(graph, v, load) IN
        /\ LiveV(h) = LiveV(graph) /\ h.schema = graph.schema
        /\ Consistent(graph) => Consistent(h)
        /\ put_load(h, v, graph.vertex[v].load) = graph
  BY <1>1, VertexLoad
<1>5. LiveV(graph') = LiveV(graph) /\ graph'.schema = graph.schema
  BY <1>4
<1>6. UsedOK'
  BY <1>5 DEF Ready, UsedOK
<1>7. Sound => Consistent(graph') /\ Undo(j, graph') = graph
  <2>1. graph'.vertex[v] # None
    BY <1>1, <1>5 DEF LiveV
  <2>2. Undo(j, graph') = put_load(graph', v, graph.vertex[v].load)
    BY <1>2, <2>1, UndoKinds
  <2> QED BY <1>4, <2>2 DEF Sound
<1>8. Journaled
  <2>1. CASE Logged(j)
    <3>1. Known(j, used')
      BY <1>1, <1>2 DEF Known, Ready, UsedOK
    <3> QED BY <1>2, <1>7, <2>1, <3>1, LoggedEntry
  <2>2. CASE lost' = TRUE /\ UNCHANGED <<journal, bytes>>
    BY <2>2 DEF Journaled
  <2> QED BY <2>1, <2>2 DEF j
<1> QED BY <1>1, <1>3, <1>6, <1>7, <1>8 DEF Recorded, Stripping, Ready, TypeOK

(* move_edge, edit_edge and strip_edge. *)
LEMMA EdgeStateRecorded ==
  ASSUME Ready, NEW e \in LiveE(graph), NEW q \in EdgeRec, Ends(q) \subseteq LiveV(graph),
         act \in {"idle", "strip"}, tx \in {"none", "write"}, graph' = put_edge(graph, e, q),
         dirty' \subseteq Id, dirty \ {e} \subseteq dirty',
         e \in dirty' \/ (q = graph.edge[e] /\ e \notin dirty),
         UNCHANGED <<used, gone, tx, saved, content, batch, disk, adrift, act, strip>>,
         \/ Logged(EdgeState(graph, e)) /\ lost' = lost
         \/ lost' = TRUE /\ UNCHANGED <<journal, bytes>>
  PROVE  Recorded
<1> DEFINE j == EdgeState(graph, e)
           d == dirty'
           t == gone \ {e}
<1>1. graph \in Graph /\ e \in Edge /\ graph.edge[e] \in EdgeRec /\ lost' \in BOOLEAN
  BY DEF Ready, TypeOK, LiveE, Graph, OptEdges
<1>2. j \in Entry /\ j.kind = "edge_state" /\ j.id = e /\ j.rec = graph.edge[e]
  BY <1>1 DEF EdgeState, Entry
<1>3. t = gone /\ q # None /\ q \in EdgeRec \cup {None}
  BY NoneAssumption DEF Ready, Marked, Covers
<1>4. d = dirty' /\ t = gone \ {e}
  OBVIOUS
<1> HIDE DEF j, d, t
<1>5. Covers(put_edge(graph, e, q), d, t, adrift)
  BY <1>1, <1>3, <1>4, CoverPutEdge DEF Ready
<1>6. LET h == put_edge(graph, e, q) IN
        /\ h \in Graph /\ h.schema = graph.schema /\ LiveV(h) = LiveV(graph)
        /\ h.edge = [graph.edge EXCEPT ![e] = q]
        /\ Consistent(graph) => Consistent(h)
        /\ put_edge(h, e, graph.edge[e]) = graph
  BY <1>1, <1>3, EdgePut
<1>7. /\ graph' \in Graph /\ LiveV(graph') = LiveV(graph) /\ graph'.schema = graph.schema
      /\ graph'.edge = [graph.edge EXCEPT ![e] = q]
  BY <1>6
<1>8. UsedOK'
  BY <1>7 DEF Ready, UsedOK
<1>9. Sound => Consistent(graph') /\ Undo(j, graph') = graph
  <2> SUFFICES ASSUME Sound PROVE Consistent(graph') /\ Undo(j, graph') = graph
    OBVIOUS
  <2>1. Consistent(graph')
    BY <1>6 DEF Sound
  <2>2. e \in LiveE(graph') /\ NoDangling(graph')
    BY <1>1, <1>3, <1>7, <2>1 DEF LiveE, Consistent, Graph, OptEdges
  <2>3. Ends(graph.edge[e]) \subseteq LiveV(graph')
    BY <1>7 DEF Sound, Consistent, NoDangling
  <2>4. PICK z \in EdgeRec : /\ Undo(j, graph') = put_edge(graph', e, z)
                             /\ Ends(graph.edge[e]) \subseteq LiveV(graph') => z = graph.edge[e]
    BY <1>1, <1>2, <1>7, <2>2, UndoEdgeState
  <2> QED BY <1>6, <2>1, <2>3, <2>4
<1>10. Journaled
  <2>1. CASE Logged(j)
    <3>1. Known(j, used')
      BY <1>1, <1>2 DEF Known
    <3> QED BY <1>2, <1>9, <2>1, <3>1, LoggedEntry
  <2>2. CASE lost' = TRUE /\ UNCHANGED <<journal, bytes>>
    BY <2>2 DEF Journaled
  <2> QED BY <2>1, <2>2 DEF j
<1> QED BY <1>1, <1>3, <1>5, <1>8, <1>9, <1>10 DEF Recorded, Stripping, Ready, TypeOK, d

LEMMA EdgeCreateRecorded ==
  ASSUME Ready, NEW e \in Edge, NEW o \in Vertex, NEW t \in Vertex, NEW load \in Load,
         edge_create(e, o, t, load)
  PROVE  Recorded
<1> DEFINE r == [origin |-> o, target |-> t, load |-> load]
           j == Created("edge_created", e)
<1>1. /\ act = "idle" /\ tx \in {"none", "write"} /\ graph \in Graph /\ graph.edge[e] = None /\ {o, t} \subseteq LiveV(graph)
      /\ UNCHANGED <<used, tx, saved, content, batch, disk, lost, adrift, act, strip>>
  BY DEF edge_create, Writing, Ready, TypeOK, scopeVars, storeVars
<1>2. /\ r \in EdgeRec /\ r # None /\ r \in EdgeRec \cup {None} /\ Ends(r) = {o, t}
      /\ j \in Entry /\ j.kind = "edge_created" /\ j.id = e
  BY NoneAssumption DEF EdgeRec, Ends, Entry, Created
<1>3. /\ used \subseteq used' /\ used' \subseteq Vertex \cup Sym
      /\ act' \in {"idle", "strip"} /\ strip' \in Sym \cup {None} /\ lost' \in BOOLEAN
  BY <1>1 DEF Ready, TypeOK
<1>4. CASE InTx /\ ~Fits(j)
  <2>1. gone' = gone \cup {e} /\ dirty' = dirty \cup {o, t} /\ UNCHANGED <<graph, journal, bytes>>
    BY <1>4 DEF edge_create
  <2>2. Covers(graph', dirty', gone', adrift')
    BY <1>1, <2>1, IdAssumption DEF Ready, Marked, Covers, Id, LiveV, LiveE
  <2>3. UsedOK'
    BY <1>1, <2>1 DEF Ready, UsedOK
  <2>4. Journaled /\ (Sound => Consistent(graph'))
    BY <2>1 DEF Journaled, Sound
  <2> QED BY <1>1, <1>3, <2>2, <2>3, <2>4 DEF Recorded, Stripping
<1>5. CASE ~(InTx /\ ~Fits(j))
  <2>1. /\ Logged(j) /\ graph' = put_edge(graph, e, r)
        /\ gone' = gone \ {e} /\ dirty' = dirty \cup {e, o, t}
    BY <1>5 DEF edge_create
  <2> HIDE DEF r, j
  <2>2. Covers(put_edge(graph, e, r), dirty \cup {e, o, t}, gone \ {e}, adrift)
    <3> DEFINE d == dirty \cup {e, o, t}
    <3>1. d \subseteq Id /\ dirty \ {e} \subseteq d /\ e \in d
      BY DEF Ready, TypeOK, Id
    <3> HIDE DEF d
    <3>2. Covers(put_edge(graph, e, r), d, gone \ {e}, adrift)
      BY <1>1, <1>2, <3>1, CoverPutRecord DEF Ready
    <3> QED BY <3>2 DEF d
  <2>3. LET h == put_edge(graph, e, r) IN
          /\ h.schema = graph.schema /\ LiveV(h) = LiveV(graph)
          /\ Consistent(graph) => Consistent(h)
          /\ put_edge(h, e, graph.edge[e]) = graph
    <3>1. \A q \in EdgeRec \cup {None} :
            LET h == put_edge(graph, e, q) IN
            /\ h.schema = graph.schema /\ LiveV(h) = LiveV(graph)
            /\ Consistent(graph) /\ (q # None => Ends(q) \subseteq LiveV(graph)) => Consistent(h)
            /\ put_edge(h, e, graph.edge[e]) = graph
      BY <1>1, EdgePut
    <3> QED BY <1>1, <1>2, <3>1
  <2>4. LiveV(graph') = LiveV(graph) /\ graph'.schema = graph.schema
    BY <2>1, <2>3
  <2>5. UsedOK'
    BY <1>1, <2>1, <2>4 DEF Ready, UsedOK
  <2>6. Sound => Consistent(graph') /\ Undo(j, graph') = graph
    <3>1. Undo(j, graph') = put_edge(graph', e, None)
      BY <1>2, UndoKinds
    <3> QED BY <1>1, <2>1, <2>3, <3>1 DEF Sound
  <2>7. Journaled
    BY <1>2, <2>1, <2>6, LoggedEntry DEF Known
  <2> QED BY <1>1, <1>3, <2>1, <2>2, <2>5, <2>6, <2>7 DEF Recorded, Stripping
<1> QED BY <1>4, <1>5

LEMMA EdgeFreeRecorded ==
  ASSUME Ready, NEW e \in Edge, edge_free(e)
  PROVE  Recorded
<1> DEFINE j == EdgeRemoved(graph, e)
           cut == [x \in Edge |-> IF x = e THEN graph.edge[x] ELSE None]
           d == (dirty \ {e}) \cup Ends(graph.edge[e])
           h == put_edge(graph, e, None)
<1>1. /\ act = "idle" /\ tx \in {"none", "write"} /\ graph \in Graph /\ e \in LiveE(graph) /\ graph.edge[e] \in EdgeRec
      /\ Logged(j) /\ graph' = h /\ dirty' = d /\ gone' = gone \cup {e}
      /\ UNCHANGED <<used, tx, saved, content, batch, disk, lost, adrift, act, strip>>
  BY DEF edge_free, Writing, Ready, TypeOK, scopeVars, storeVars, LiveE, Graph, OptEdges
<1>2. cut \in OptEdges
  BY <1>1 DEF OptEdges
<1>3. j \in Entry /\ j.kind = "edge_removed" /\ j.id = e /\ j.edges = cut
  BY <1>2 DEF EdgeRemoved, Entry
<1>4. d \subseteq Id /\ dirty \ {e} \subseteq d
  BY <1>1 DEF Ready, TypeOK, Id, Ends, EdgeRec
<1> HIDE DEF d
<1>5. Covers(put_edge(graph, e, None), d, gone \cup {e}, adrift)
  BY <1>4, CoverPutEdge DEF Ready
<1>6. /\ h \in Graph /\ h.edge = [graph.edge EXCEPT ![e] = None]
      /\ h.vertex = graph.vertex /\ h.schema = graph.schema /\ h.keys = graph.keys
      /\ LiveV(h) = LiveV(graph)
      /\ Consistent(graph) => Consistent(h)
  BY <1>1, EdgePut
<1> HIDE DEF j, cut, h
<1>7. UsedOK'
  BY <1>1, <1>6 DEF Ready, UsedOK
<1>8. Sound => Consistent(graph') /\ Undo(j, graph') = graph
  <2> SUFFICES ASSUME Sound PROVE Undo(j, h) = graph
    BY <1>1, <1>6 DEF Sound
  <2>1. Undo(j, h) = adopt_edges(h, cut)
    BY <1>3, UndoKinds
  <2> DEFINE a == adopt_edges(h, cut)
  <2>2. /\ a \in Graph /\ a.vertex = h.vertex /\ a.schema = h.schema /\ a.keys = h.keys
        /\ a.edge = [x \in Edge |-> IF cut[x] # None /\ Adoptable(h, x, cut[x])
                                      THEN cut[x] ELSE h.edge[x]]
    BY <1>2, <1>6, AdoptEdges
  <2> HIDE DEF a
  <2>3. cut[e] = graph.edge[e] /\ \A x \in Edge \ {e} : cut[x] = None
    BY DEF cut
  <2>4. Adoptable(h, e, graph.edge[e]) /\ graph.edge[e] # None
    <3>1. Ends(graph.edge[e]) \subseteq LiveV(h)
      BY <1>1, <1>6 DEF Sound, Consistent, NoDangling
    <3>2. h.edge[e] = None
      BY <1>1, <1>6 DEF Graph, OptEdges
    <3> QED BY <1>1, <3>1, <3>2 DEF Adoptable, Sound, LiveE
  <2>5. a.edge = graph.edge
    <3>1. \A x \in Edge : a.edge[x] = graph.edge[x]
      BY <1>1, <1>6, <2>2, <2>3, <2>4 DEF Graph, OptEdges
    <3> QED BY <1>1, <2>2, <3>1 DEF Graph, OptEdges
  <2>6. a = graph
    BY <1>1, <1>6, <2>2, <2>5, GraphEq
  <2> QED BY <2>1, <2>6 DEF a
<1>9. Journaled
  BY <1>1, <1>3, <1>8, LoggedEntry DEF Known
<1>10. Covers(graph', dirty', gone', adrift')
  BY <1>1, <1>5 DEF h
<1> QED BY <1>1, <1>7, <1>8, <1>9, <1>10 DEF Recorded, Stripping, Ready, TypeOK

LEMMA EdgeCommandRecorded ==
  ASSUME Ready, EdgeCommand
  PROVE  Recorded
<1>1. ASSUME NEW e \in Edge, NEW o \in Vertex, NEW t \in Vertex, move_edge(e, o, t)
      PROVE  Recorded
  <2>1. /\ act = "idle" /\ tx \in {"none", "write"} /\ graph \in Graph /\ e \in LiveE(graph) /\ Logged(EdgeState(graph, e))
        /\ graph' = move_endpoint(graph, e, o, t)
        /\ dirty' = IF graph'.edge[e] = graph.edge[e] THEN dirty
                    ELSE dirty \cup {e, o, t} \cup Ends(graph.edge[e])
        /\ UNCHANGED <<used, gone, tx, saved, content, batch, disk, lost, adrift, act, strip>>
        /\ NoDangling(graph)
    BY <1>1 DEF move_edge, Writing, Ready, TypeOK, scopeVars, storeVars, Marked, Covers
  <2>2. PICK q \in EdgeRec : graph' = put_edge(graph, e, q) /\ Ends(q) \subseteq LiveV(graph)
    BY <2>1, MoveEndpoint
  <2>3. graph'.edge[e] = q
    <3>1. LET h == put_edge(graph, e, q) IN h.edge = [graph.edge EXCEPT ![e] = q]
      BY <2>1, EdgePut
    <3> QED BY <2>1, <2>2, <3>1 DEF Graph, OptEdges
  <2>4. Ends(graph.edge[e]) \subseteq Vertex
    BY <2>1 DEF NoDangling, LiveV
  <2>5. dirty' \subseteq Id /\ dirty \subseteq dirty'
    BY <2>1, <2>4 DEF Ready, TypeOK, Id
  <2>6. e \in dirty' \/ (q = graph.edge[e] /\ e \notin dirty)
    BY <2>1, <2>3
  <2>7. dirty \ {e} \subseteq dirty'
    BY <2>5
  <2> QED BY <2>1, <2>2, <2>5, <2>6, <2>7, EdgeStateRecorded
<1>2. ASSUME NEW e \in Edge, NEW s \in Sym, NEW x \in Value \cup {None}, edit_edge(e, s, x)
      PROVE  Recorded
  <2> DEFINE q == [graph.edge[e] EXCEPT !.load = [@ EXCEPT ![s] = x]]
  <2>1. /\ act = "idle" /\ tx \in {"none", "write"} /\ graph \in Graph /\ e \in LiveE(graph) /\ Logged(EdgeState(graph, e))
        /\ graph' = put_edge(graph, e, q)
        /\ dirty' = dirty \cup {e} \/ (x = graph.edge[e].load[s] /\ dirty' = dirty)
        /\ UNCHANGED <<used, gone, tx, saved, content, batch, disk, lost, adrift, act, strip>>
        /\ NoDangling(graph)
    BY <1>2 DEF edit_edge, Writing, Ready, TypeOK, scopeVars, storeVars, Marked, Covers
  <2>2. graph.edge[e] \in EdgeRec
    BY <2>1, LiveRecords
  <2>3. q \in EdgeRec /\ Ends(q) = Ends(graph.edge[e])
    BY <1>2, <2>2 DEF EdgeRec, Load, Ends
  <2>4. x = graph.edge[e].load[s] => q = graph.edge[e]
    BY <1>2, <2>2 DEF EdgeRec, Load
  <2> HIDE DEF q
  <2>5. dirty' \subseteq Id /\ dirty \ {e} \subseteq dirty' /\ Ends(q) \subseteq LiveV(graph)
    BY <1>2, <2>1, <2>3 DEF Ready, TypeOK, Id, NoDangling
  <2>6. e \in dirty' \/ (q = graph.edge[e] /\ e \notin dirty)
    BY <2>1, <2>4
  <2> QED BY <2>1, <2>3, <2>5, <2>6, EdgeStateRecorded
<1> QED BY <1>1, <1>2, EdgeCreateRecorded, EdgeFreeRecorded DEF EdgeCommand

LEMMA VertexCommandRecorded ==
  ASSUME Ready, VertexCommand
  PROVE  Recorded
<1>1. ASSUME NEW v \in Vertex, NEW k \in Key \cup {None}, NEW load \in Load,
             create_vertex(v, k, load) \/ get_or_create_vertex(v, k, load)
      PROVE  Recorded
  BY <1>1, AddVertexRecorded DEF create_vertex, get_or_create_vertex, Writing
<1>2. ASSUME NEW k \in Key, create_vertex_warning(k)
      PROVE  Recorded
  BY <1>2, WarningRecorded DEF create_vertex_warning, Writing
<1>3. ASSUME NEW v \in Vertex, free_vertex(v) \/ free_vertex_guarded(v)
      PROVE  Recorded
  BY <1>3, FreeVertexRecorded DEF free_vertex_guarded
<1>4. ASSUME NEW v \in Vertex, NEW s \in Sym, NEW x \in Value \cup {None}, edit_vertex(v, s, x)
      PROVE  Recorded
  <2> DEFINE load == [graph.vertex[v].load EXCEPT ![s] = x]
  <2>1. /\ act = "idle" /\ tx \in {"none", "write"} /\ graph \in Graph /\ v \in LiveV(graph) /\ Logged(VertexPayload(graph, v))
        /\ graph' = put_load(graph, v, load)
        /\ dirty' = dirty \cup {v} \/ (x = graph.vertex[v].load[s] /\ dirty' = dirty)
        /\ UNCHANGED <<used, gone, tx, saved, content, batch, disk, lost, adrift, act, strip>>
    BY <1>4 DEF edit_vertex, Writing, Ready, TypeOK, scopeVars, storeVars
  <2>2. graph.vertex[v].load \in Load
    BY <2>1, LiveRecords DEF VertexRec
  <2>3. load \in Load /\ (x = graph.vertex[v].load[s] => load = graph.vertex[v].load)
    BY <1>4, <2>2 DEF Load
  <2> HIDE DEF load
  <2> QED BY <2>1, <2>3, LoadRecorded
<1> QED BY <1>1, <1>2, <1>3, <1>4 DEF VertexCommand

(* create_sym, update_sym and free_sym when they change the schema. *)
LEMMA NameRecorded ==
  ASSUME Ready, NEW s \in Sym, NEW n \in Name \cup {None}, act = "idle",
         graph' = put_name(graph, s, n), UNCHANGED <<dirty, gone>>,
         UNCHANGED <<tx, saved, content, batch, disk, adrift, lost>>,
         used' = used \cup {s},
         act' \in {"idle", "strip"}, strip' \in Sym \cup {None}, act' = "strip" => strip' \in Sym,
         tx \in {"none", "write"},
         NEW j \in Entry, Logged(j), j.id = s,
         Sound => /\ n # None => ~NameTaken(graph, s, n)
                  /\ n = None => ~IsKeyLabel(graph, s)
                  /\ Undo(j, graph') = graph
  PROVE  Recorded
<1>1. graph \in Graph
  BY DEF Ready, TypeOK
<1>2. Covers(graph', dirty', gone', adrift')
  BY CoverPutName DEF Ready
<1>3. LET h == put_name(graph, s, n) IN
        /\ h.schema = [graph.schema EXCEPT ![s] = n] /\ h.vertex = graph.vertex
        /\ Sound => Consistent(h)
  BY <1>1, SymName DEF Sound
<1>4. UsedOK'
  <2>1. graph'.vertex = graph.vertex /\ \A z \in Sym \ {s} : graph'.schema[z] = graph.schema[z]
    BY <1>1, <1>3 DEF Graph
  <2> QED BY <2>1 DEF Ready, UsedOK, LiveV
<1>5. Journaled
  BY LoggedEntry DEF Known
<1>6. used' \subseteq Vertex \cup Sym /\ lost' \in BOOLEAN
  BY DEF Ready, TypeOK
<1> QED BY <1>2, <1>3, <1>4, <1>5, <1>6 DEF Recorded, Stripping, Sound

(* Undoing a change of one name puts the old name back. *)
LEMMA UndoName ==
  ASSUME NEW g \in Graph, NamesUnique(g), NEW s \in Sym, NEW n \in Name \cup {None}
  PROVE  LET h == put_name(g, s, n) IN
         /\ g.schema[s] = None => put_name(h, s, None) = g
         /\ g.schema[s] # None /\ n # None => rename_label(h, s, g.schema[s]) = g
         /\ g.schema[s] # None /\ n = None => restore_label(h, s, g.schema[s]) = g
<1> DEFINE h == put_name(g, s, n)
<1>1. h.schema = [g.schema EXCEPT ![s] = n] /\ put_name(h, s, g.schema[s]) = g
  BY SymName
<1> HIDE DEF h
<1>2. g.schema[s] # None => ~NameTaken(h, s, g.schema[s])
  BY <1>1 DEF NameTaken, NamesUnique, Graph
<1>3. h.schema[s] = n
  BY <1>1 DEF Graph
<1>4. /\ g.schema[s] = None => put_name(h, s, None) = g
      /\ g.schema[s] # None /\ n # None => rename_label(h, s, g.schema[s]) = g
      /\ g.schema[s] # None /\ n = None => restore_label(h, s, g.schema[s]) = g
  BY <1>1, <1>2, <1>3 DEF rename_label, restore_label
<1> QED BY <1>4 DEF h

LEMMA CreateSymRecorded ==
  ASSUME Ready, NEW s \in Sym, NEW n \in Name, create_sym(s, n)
  PROVE  Recorded
<1> DEFINE j == Created("sym_created", s)
<1>1. /\ act = "idle" /\ tx \in {"none", "write"} /\ graph \in Graph /\ s \notin used /\ used' = used \cup {s}
      /\ ~NameTaken(graph, s, n)
      /\ UNCHANGED <<dirty, gone, tx, saved, content, batch, disk, lost, adrift, act, strip>>
  BY DEF create_sym, Writing, Ready, TypeOK, scopeVars, storeVars
<1>2. j \in Entry /\ j.kind = "sym_created" /\ j.id = s
  BY DEF Entry, Created
<1>3. n # None /\ n \in Name \cup {None} /\ graph.schema[s] = None
  BY <1>1, NoneAssumption DEF Ready, UsedOK
<1>4. CASE InTx /\ ~Fits(j)
  <2>1. UNCHANGED <<graph, journal, bytes>>
    BY <1>4 DEF create_sym
  <2>2. Covers(graph', dirty', gone', adrift') /\ UsedOK'
    BY <1>1, <2>1 DEF Ready, Marked, UsedOK
  <2>3. Journaled /\ (Sound => Consistent(graph'))
    BY <2>1 DEF Journaled, Sound
  <2> QED BY <1>1, <2>2, <2>3 DEF Recorded, Stripping, Ready, TypeOK
<1>5. CASE ~(InTx /\ ~Fits(j))
  <2>1. Logged(j) /\ graph' = put_name(graph, s, n)
    BY <1>5 DEF create_sym
  <2> HIDE DEF j
  <2>2. Sound => Undo(j, graph') = graph
    <3> SUFFICES ASSUME Sound PROVE put_name(graph', s, None) = graph
      BY <1>2, UndoKinds
    <3>1. NamesUnique(graph)
      BY DEF Sound, Consistent
    <3> QED BY <1>1, <1>3, <2>1, <3>1, UndoName
  <2>3. act' \in {"idle", "strip"} /\ strip' \in Sym \cup {None}
    BY <1>1 DEF Ready, TypeOK
  <2> QED BY <1>1, <1>2, <1>3, <2>1, <2>2, <2>3, NameRecorded
<1> QED BY <1>4, <1>5

LEMMA UpdateSymRecorded ==
  ASSUME Ready, NEW s \in Sym, NEW n \in Name, update_sym(s, n)
  PROVE  Recorded
<1> DEFINE j == SymNamed("sym_renamed", graph, s)
<1>1. /\ act = "idle" /\ tx \in {"none", "write"} /\ graph \in Graph /\ graph.schema[s] # None /\ Logged(j)
      /\ graph' \in {graph, rename_label(graph, s, n)}
      /\ UNCHANGED <<used, dirty, gone, tx, saved, content, batch, disk, lost, adrift, act, strip>>
  BY DEF update_sym, Writing, Ready, TypeOK, scopeVars, storeVars
<1>2. graph.schema[s] \in Name /\ n # None /\ used' = used \cup {s}
  BY <1>1, NoneAssumption DEF Ready, UsedOK, Graph
<1>3. j \in Entry /\ j.kind = "sym_renamed" /\ j.id = s /\ j.name = graph.schema[s]
  BY <1>2 DEF SymNamed, Entry
<1> HIDE DEF j
<1>4. \E m \in Name : /\ graph' = put_name(graph, s, m)
                      /\ m = graph.schema[s] \/ ~NameTaken(graph, s, m)
  <2>1. put_name(graph, s, graph.schema[s]) = graph
    <3>1. LET h == put_name(graph, s, graph.schema[s]) IN
            /\ h \in Graph /\ h.schema = [graph.schema EXCEPT ![s] = graph.schema[s]]
            /\ h.vertex = graph.vertex /\ h.edge = graph.edge /\ h.keys = graph.keys
      BY <1>1, <1>2, SymName
    <3> DEFINE h == put_name(graph, s, graph.schema[s])
    <3>2. h.schema = graph.schema
      BY <1>1, <3>1 DEF Graph
    <3> HIDE DEF h
    <3>3. h \in Graph /\ h.vertex = graph.vertex /\ h.edge = graph.edge /\ h.keys = graph.keys
      BY <3>1 DEF h
    <3>4. h = graph
      BY <1>1, <3>2, <3>3, GraphEq
    <3> QED BY <3>4 DEF h
  <2> QED BY <1>1, <1>2, <2>1 DEF rename_label
<1>5. PICK m \in Name : /\ graph' = put_name(graph, s, m)
                        /\ m = graph.schema[s] \/ ~NameTaken(graph, s, m)
  BY <1>4
<1>6. m # None /\ m \in Name \cup {None}
  BY NoneAssumption
<1>7. Sound => NamesUnique(graph)
  BY DEF Sound, Consistent
<1>8. Sound => /\ m # None => ~NameTaken(graph, s, m)
               /\ m = None => ~IsKeyLabel(graph, s)
               /\ Undo(j, graph') = graph
  <2> SUFFICES ASSUME Sound PROVE ~NameTaken(graph, s, m) /\ Undo(j, graph') = graph
    BY <1>6
  <2>1. ~NameTaken(graph, s, m)
    BY <1>1, <1>5, <1>7 DEF NameTaken, NamesUnique
  <2>2. rename_label(put_name(graph, s, m), s, graph.schema[s]) = graph
    BY <1>1, <1>6, <1>7, UndoName
  <2> QED BY <1>3, <1>5, <2>1, <2>2, UndoKinds
<1>9. act' \in {"idle", "strip"} /\ strip' \in Sym \cup {None}
  BY <1>1 DEF Ready, TypeOK
<1> QED BY <1>1, <1>2, <1>3, <1>5, <1>6, <1>8, <1>9, NameRecorded

LEMMA FreeSymRecorded ==
  ASSUME Ready, NEW s \in Sym, free_sym(s)
  PROVE  Recorded
<1> DEFINE j == SymNamed("sym_freed", graph, s)
<1>1. /\ act = "idle" /\ tx \in {"none", "write"} /\ graph \in Graph /\ graph.schema[s] # None /\ Logged(j)
      /\ graph' = put_name(graph, s, None) /\ ~IsKeyLabel(graph, s)
      /\ act' = "strip" /\ strip' = s
      /\ UNCHANGED <<used, dirty, gone, tx, saved, content, batch, disk, lost, adrift>>
  BY DEF free_sym, Writing, Ready, TypeOK, storeVars
<1>2. graph.schema[s] \in Name /\ used' = used \cup {s}
  BY <1>1 DEF Ready, UsedOK, Graph
<1>3. j \in Entry /\ j.kind = "sym_freed" /\ j.id = s /\ j.name = graph.schema[s]
  BY <1>2 DEF SymNamed, Entry
<1> HIDE DEF j
<1>4. Sound => Undo(j, graph') = graph
  <2> SUFFICES ASSUME Sound PROVE restore_label(graph', s, graph.schema[s]) = graph
    BY <1>3, UndoKinds
  <2>1. NamesUnique(graph)
    BY DEF Sound, Consistent
  <2> QED BY <1>1, <2>1, UndoName
<1>5. act' \in {"idle", "strip"} /\ strip' \in Sym \cup {None}
  BY <1>1
<1> QED BY <1>1, <1>2, <1>3, <1>4, <1>5, NameRecorded

LEMMA SchemaCommandRecorded ==
  ASSUME Ready, SchemaCommand
  PROVE  Recorded
<1>1. ASSUME NEW v \in Vertex, strip_vertex(v)
      PROVE  Recorded
  <2> DEFINE load == [graph.vertex[v].load EXCEPT ![strip] = None]
  <2>1. /\ act = "strip" /\ tx \in {"none", "write"} /\ graph \in Graph /\ v \in LiveV(graph) /\ strip \in Sym
        /\ graph' = put_load(graph, v, load) /\ dirty' = dirty \cup {v}
        /\ UNCHANGED <<used, gone, tx, saved, content, batch, disk, adrift, act, strip>>
        /\ \/ Logged(VertexPayload(graph, v)) /\ lost' = lost
           \/ lost' = TRUE /\ UNCHANGED <<journal, bytes>>
    BY <1>1 DEF strip_vertex, CarriersV, StripLogged, Ready, Stripping, TypeOK, scopeVars, storeVars
  <2>2. graph.vertex[v].load \in Load
    BY <2>1, LiveRecords DEF VertexRec
  <2>3. load \in Load
    BY <2>1, <2>2 DEF Load
  <2> HIDE DEF load
  <2> QED BY <2>1, <2>3, LoadRecorded
<1>2. ASSUME NEW e \in Edge, strip_edge(e)
      PROVE  Recorded
  <2> DEFINE q == [graph.edge[e] EXCEPT !.load = [@ EXCEPT ![strip] = None]]
  <2>1. /\ act = "strip" /\ tx \in {"none", "write"} /\ graph \in Graph /\ e \in LiveE(graph) /\ strip \in Sym
        /\ graph' = put_edge(graph, e, q) /\ dirty' = dirty \cup {e} /\ NoDangling(graph)
        /\ UNCHANGED <<used, gone, tx, saved, content, batch, disk, adrift, act, strip>>
        /\ \/ Logged(EdgeState(graph, e)) /\ lost' = lost
           \/ lost' = TRUE /\ UNCHANGED <<journal, bytes>>
    BY <1>2 DEF strip_edge, CarriersE, StripLogged, Ready, Stripping, TypeOK, scopeVars, storeVars, Marked, Covers
  <2>2. graph.edge[e] \in EdgeRec
    BY <2>1, LiveRecords
  <2>3. q \in EdgeRec /\ Ends(q) = Ends(graph.edge[e])
    BY <2>1, <2>2 DEF EdgeRec, Load, Ends
  <2> HIDE DEF q
  <2>4. dirty' \subseteq Id /\ dirty \ {e} \subseteq dirty' /\ Ends(q) \subseteq LiveV(graph) /\ e \in dirty'
    BY <1>2, <2>1, <2>3 DEF Ready, TypeOK, Id, NoDangling
  <2> QED BY <2>1, <2>3, <2>4, EdgeStateRecorded
<1>3. ASSUME strip_done PROVE Recorded
  <2>1. /\ UNCHANGED <<graph, used, tx, journal, bytes, saved, dirty, gone, content, batch, disk, lost, adrift>>
        /\ act = "strip" /\ tx \in {"none", "write"} /\ act' = "idle" /\ strip' = None
    BY <1>3 DEF strip_done, storeVars, Ready, Stripping
  <2>2. Covers(graph', dirty', gone', adrift') /\ UsedOK'
    BY <2>1 DEF Ready, Marked, UsedOK
  <2> QED BY <2>1, <2>2 DEF Recorded, Stripping, Journaled, Sound, Ready, TypeOK
<1> QED BY <1>1, <1>2, <1>3, CreateSymRecorded, UpdateSymRecorded, FreeSymRecorded DEF SchemaCommand

-----------------------------------------------------------------------------
(***************************************************************************)
(* The store.  StoreInv carries the images through a save: what is not in  *)
(* the batch is in the store already, and what the batch wrote is what the *)
(* graph holds unless a content update touched it.                         *)
(***************************************************************************)
Saving == {"encode", "store", "clear"}

\* Where an id the store or the journal can bring back was minted.
Remembered ==
  /\ \A i \in 1..Len(journal) : Known(journal[i], used)
  /\ batch.gone \subseteq used \cup Edge
  /\ \A v \in Vertex : disk.vertex[v] # None => v \in used
  /\ \A s \in Sym : disk.schema[s] # None => s \in disk.minted

BatchOK ==
  /\ act \notin Saving => batch = NoBatch
  /\ act \in Saving =>
       /\ ~InMemory /\ gone = {}
       /\ batch.ids \subseteq dirty /\ dirty \subseteq batch.ids \cup batch.touched
  /\ act \in {"encode", "store"} =>
       \A v \in LiveV(graph) \ batch.ids : disk.vertex[v] = graph.vertex[v]
  /\ act = "store" =>
       \A v \in Vertex \cap (batch.ids \ batch.touched) : batch.content[v] = content[v]
  /\ act = "clear" =>
       /\ batch.gone = {}
       /\ \A v \in LiveV(graph) \cap (batch.ids \ batch.touched) :
            disk.vertex[v] = graph.vertex[v] /\ disk.content[v] = content[v]
       /\ \A e \in LiveE(graph) \cap batch.ids : disk.edge[e] = graph.edge[e]

Images == TombstonesDead /\ VertexImage /\ EdgeImage /\ StoredEdgesLoad

StoreInv == Ready /\ Remembered /\ BatchOK /\ Images

(* A step that marks what it changes, and writes nothing, keeps the images. *)
LEMMA CoveredStep ==
  ASSUME Images, batch = NoBatch, UNCHANGED <<content, batch, disk>>,
         Covers(graph', dirty', gone', adrift'), adrift \subseteq adrift'
  PROVE  Images' /\ Marked'
<1>1. batch.gone = {}
  BY DEF NoBatch
<1>2. TombstonesDead'
  BY <1>1 DEF TombstonesDead, Covers
<1>3. VertexImage'
  BY <1>1 DEF Images, VertexImage, Covers
<1>4. EdgeImage'
  BY <1>1 DEF Images, EdgeImage, Covers
<1>5. StoredEdgesLoad'
  BY DEF Images, StoredEdgesLoad
<1>6. Marked'
  BY DEF Marked, Covers
<1> QED BY <1>2, <1>3, <1>4, <1>5, <1>6 DEF Images

LEMMA BytesNat ==
  ASSUME NEW j \in Entry
  PROVE  Bytes(j) \in Nat
<1>1. CASE j.kind = "vertex_removed"
  <2>1. {e \in Edge : j.edges[e] # None} \subseteq Edge
    OBVIOUS
  <2>2. IsFiniteSet({e \in Edge : j.edges[e] # None})
    BY <2>1, IdAssumption, FS_Subset
  <2>3. Cardinality({e \in Edge : j.edges[e] # None}) \in Nat
    BY <2>2, FS_CardinalityType
  <2> QED BY <1>1, <2>3 DEF Bytes, Slim
<1>2. CASE j.kind # "vertex_removed"
  BY <1>2 DEF Bytes
<1> QED BY <1>1, <1>2

LEMMA CommandStore ==
  ASSUME StoreInv, Recorded
  PROVE  StoreInv'
<1>1. /\ batch = NoBatch /\ batch' = NoBatch /\ act' \notin Saving
      /\ UNCHANGED <<content, batch, disk, adrift, tx, saved>>
  BY DEF StoreInv, BatchOK, Recorded, Saving
<1>2. Images' /\ Marked'
  BY <1>1, CoveredStep DEF StoreInv, Recorded
<1>3. journal' \in Seq(Entry) /\ bytes' \in Nat
  <2>1. journal \in Seq(Entry) /\ bytes \in Nat
    BY DEF StoreInv, Ready, TypeOK
  <2>2. ASSUME NEW j \in Entry, journal' = Append(journal, j), bytes' = bytes + Bytes(j)
        PROVE  journal' \in Seq(Entry) /\ bytes' \in Nat
    <3>1. Bytes(j) \in Nat
      BY BytesNat
    <3> QED BY <2>1, <2>2, <3>1
  <2> QED BY <2>1, <2>2 DEF Recorded, Journaled
<1>4. TypeOK'
  <2>1. graph' \in Graph /\ dirty' \subseteq Id /\ gone' \subseteq Id
    BY DEF Recorded, Covers
  <2> QED BY <1>1, <1>3, <2>1 DEF StoreInv, Ready, TypeOK, Recorded
<1>5. Remembered'
  <2>1. used \subseteq used' /\ journal \in Seq(Entry)
    BY DEF Recorded, StoreInv, Ready, TypeOK
  <2>2. \A i \in 1..Len(journal) : Known(journal[i], used')
    BY <2>1 DEF StoreInv, Remembered, Known
  <2>3. CASE journal' = journal
    BY <1>1, <2>1, <2>2, <2>3 DEF StoreInv, Remembered
  <2>4. ASSUME NEW j \in Entry, journal' = Append(journal, j), Known(j, used')
        PROVE  Remembered'
    <3>1. \A i \in 1..Len(journal') : Known(journal'[i], used')
      BY <2>1, <2>2, <2>4
    <3> QED BY <1>1, <2>1, <3>1 DEF StoreInv, Remembered
  <2> QED BY <2>3, <2>4 DEF Recorded, Journaled
<1>6. BatchOK'
  BY <1>1 DEF BatchOK, Saving
<1> QED BY <1>2, <1>4, <1>5, <1>6 DEF StoreInv, Ready, Recorded

LEMMA DropLast ==
  ASSUME NEW q \in Seq(Entry), q # <<>>
  PROVE  LET p == SubSeq(q, 1, Len(q) - 1) IN
         /\ p \in Seq(Entry) /\ Len(p) = Len(q) - 1
         /\ \A i \in 1..Len(p) : p[i] = q[i] /\ i \in 1..Len(q)
<1> DEFINE n == Len(q) - 1
           p == SubSeq(q, 1, n)
<1>1. n \in Int /\ n >= 0 /\ Len(q) = n + 1 /\ 1 \in Int /\ \A i \in 1..n : q[i] \in Entry
  OBVIOUS
<1> HIDE DEF n
<1>2. /\ p \in Seq(Entry) /\ Len(p) = IF 1 <= n THEN n - 1 + 1 ELSE 0
      /\ \A i \in 1..(n - 1 + 1) : p[i] = q[1 + i - 1]
  BY <1>1, SubSeqProperties
<1> HIDE DEF p
<1>3. p \in Seq(Entry) /\ Len(p) = n /\ \A i \in 1..n : p[i] = q[i] /\ i \in 1..Len(q)
  BY <1>1, <1>2
<1> QED BY <1>3 DEF p, n

LEMMA UndoStore ==
  ASSUME StoreInv, undo_entry
  PROVE  StoreInv'
<1> DEFINE j == journal[Len(journal)]
<1>1. /\ act \in {"abort", "batch"} /\ act' = act /\ strip' = strip /\ journal \in Seq(Entry)
      /\ UNCHANGED <<used, bytes, tx, saved, content, batch, disk, lost>>
      /\ graph' = Undo(j, graph) /\ dirty' = UndoDirty(j, graph) /\ gone' = UndoGone(j, graph)
      /\ adrift' = IF j.kind \in {"vertex_removed", "edge_removed"}
                     THEN adrift \cup Inserted(j, graph) ELSE adrift
      /\ journal' = SubSeq(journal, 1, Len(journal) - 1) /\ journal # <<>>
  BY DEF undo_entry, scopeVars, storeVars, StoreInv, Ready, TypeOK
<1>2. j \in Entry /\ Len(journal) \in 1..Len(journal)
  BY <1>1
<1>3. Known(j, used)
  BY <1>2 DEF StoreInv, Remembered
<1>4. /\ journal' \in Seq(Entry) /\ Len(journal') = Len(journal) - 1
      /\ \A i \in 1..Len(journal') : journal'[i] = journal[i] /\ i \in 1..Len(journal)
  BY <1>1, DropLast
<1> HIDE DEF j
<1>5. batch = NoBatch /\ act \notin Saving
  BY <1>1 DEF StoreInv, BatchOK, Saving
<1>6. Covers(graph', dirty', gone', adrift')
  BY <1>1, <1>2, CoverUndo DEF StoreInv, Ready
<1>7. Images' /\ Marked'
  <2>1. adrift \subseteq adrift'
    BY <1>1
  <2> QED BY <1>1, <1>5, <1>6, <2>1, CoveredStep DEF StoreInv
<1>8. TypeOK'
  <2>1. graph' \in Graph /\ dirty' \subseteq Id /\ gone' \subseteq Id /\ adrift' \subseteq Edge
    BY <1>6 DEF Covers
  <2> QED BY <1>1, <1>4, <2>1 DEF StoreInv, Ready, TypeOK
<1>9. UsedOK'
  <2>1. /\ LiveV(Undo(j, graph)) \subseteq used
        /\ UndoGone(j, graph) \subseteq used \cup Edge
        /\ \A s \in Sym : Undo(j, graph).schema[s] # None => s \in used
    BY <1>2, <1>3, UndoUsed DEF StoreInv
  <2> QED BY <1>1, <2>1 DEF UsedOK
<1>10. Remembered'
  BY <1>1, <1>4 DEF StoreInv, Remembered
<1>11. BatchOK'
  BY <1>1, <1>5 DEF BatchOK, Saving
<1>12. Stripping'
  BY <1>1 DEF Stripping
<1> QED BY <1>7, <1>8, <1>9, <1>10, <1>11, <1>12 DEF StoreInv, Ready

(* Begin, commit without a save, the start and the end of a rollback. *)
LEMMA QuietStore ==
  ASSUME StoreInv, act \notin Saving, act' \in {"idle", "abort", "batch"},
         UNCHANGED <<graph, used, strip, dirty, gone, content, batch, disk, lost, adrift>>,
         tx' \in {"none", "write", "read", "collective", "bulk"},
         (journal' = journal \/ journal' = <<>>), bytes' = bytes \/ bytes' = 0, saved' = saved \/ saved' = graph
  PROVE  StoreInv'
<1>1. batch = NoBatch /\ act' \notin Saving
  BY DEF StoreInv, BatchOK, Saving
<1>2. Images' /\ Marked'
  BY DEF StoreInv, Ready, Images, TombstonesDead, VertexImage, EdgeImage, StoredEdgesLoad, Marked, Covers
<1>3. TypeOK' /\ UsedOK' /\ Stripping'
  <2>1. journal' \in Seq(Entry) /\ bytes' \in Nat /\ saved' \in Graph
    <3>1. journal \in Seq(Entry) /\ <<>> \in Seq(Entry) /\ bytes \in Nat /\ 0 \in Nat /\ saved \in Graph /\ graph \in Graph
      BY DEF StoreInv, Ready, TypeOK
    <3> QED BY <3>1, Zenon
  <2>2. TypeOK'
    BY <2>1 DEF StoreInv, Ready, TypeOK
  <2>3. UsedOK' /\ Stripping'
    BY DEF StoreInv, Ready, UsedOK, Stripping
  <2> QED BY <2>2, <2>3
<1>4. Remembered'
  BY DEF StoreInv, Remembered
<1>5. BatchOK'
  BY <1>1 DEF BatchOK, Saving
<1> QED BY <1>2, <1>3, <1>4, <1>5 DEF StoreInv, Ready

LEMMA CollectStore ==
  ASSUME StoreInv, act = "idle", ~InMemory, NEW full \in BOOLEAN, Collect(full),
         UNCHANGED <<graph, used, strip, content, disk, saved, lost, adrift>>,
         tx' \in {tx, "none"}, (journal' = journal \/ journal' = <<>>), bytes' = bytes \/ bytes' = 0
  PROVE  StoreInv'
<1>1. /\ dirty \subseteq dirty' /\ dirty' \subseteq Id /\ gone' = {} /\ act' = "encode"
      /\ batch' = [NoBatch EXCEPT !.ids = dirty', !.gone = gone]
  BY DEF Collect, StoreInv, Ready, TypeOK, Id, LiveV, LiveE
<1>2. /\ batch'.ids = dirty' /\ batch'.gone = gone /\ batch'.touched = {}
      /\ batch'.content = [v \in Vertex |-> 0]
  BY <1>1 DEF NoBatch
<1>3. batch.gone = {}
  BY DEF StoreInv, BatchOK, NoBatch, Saving
<1>4. /\ graph \in Graph /\ NoDangling(graph) /\ gone \subseteq Id /\ adrift \subseteq Edge
      /\ gone \cap (LiveV(graph) \cup LiveE(graph)) = {}
  BY DEF StoreInv, Ready, Marked, Covers
<1>5. Marked'
  BY <1>1, <1>4 DEF Marked, Covers
<1>6. Images'
  BY <1>1, <1>2, <1>3, <1>4 DEF StoreInv, Images, TombstonesDead, VertexImage, EdgeImage, StoredEdgesLoad
<1>7. TypeOK'
  <2>1. batch' \in [ids : SUBSET Id, content : [Vertex -> Content], gone : SUBSET Id,
                    touched : SUBSET Vertex]
    BY <1>1, <1>4, ContentAssumption DEF NoBatch
  <2>2. journal' \in Seq(Entry) /\ bytes' \in Nat
    <3>1. journal \in Seq(Entry) /\ <<>> \in Seq(Entry) /\ bytes \in Nat /\ 0 \in Nat
      BY DEF StoreInv, Ready, TypeOK
    <3> QED BY <3>1, Zenon
  <2> QED BY <1>1, <2>1, <2>2 DEF StoreInv, Ready, TypeOK
<1>8. UsedOK' /\ Stripping'
  BY <1>1 DEF StoreInv, Ready, UsedOK, Stripping
<1>9. Remembered'
  BY <1>2 DEF StoreInv, Ready, UsedOK, Remembered
<1>10. BatchOK'
  <2>1. \A v \in LiveV(graph) \ dirty' : disk.vertex[v] = graph.vertex[v]
    BY <1>1 DEF StoreInv, Images, VertexImage, LiveV
  <2> QED BY <1>1, <1>2, <2>1 DEF BatchOK, Saving
<1> QED BY <1>5, <1>6, <1>7, <1>8, <1>9, <1>10 DEF StoreInv, Ready

BatchType ==
  [ids : SUBSET Id, content : [Vertex -> Content], gone : SUBSET Id, touched : SUBSET Vertex]

LEMMA NoBatchType == NoBatch \in BatchType
BY ContentAssumption DEF NoBatch, BatchType

LEMMA EncodeStore ==
  ASSUME StoreInv, save_encode
  PROVE  StoreInv'
<1>1. /\ UNCHANGED <<graph, used, tx, journal, bytes, strip, saved, lost, content, dirty, gone, disk, adrift>>
      /\ act = "encode" /\ act' = "store" /\ batch \in BatchType
      /\ batch' = [batch EXCEPT !.content = [v \in Vertex |-> IF v \in batch.ids THEN content[v] ELSE 0]]
  BY DEF save_encode, memVars, StoreInv, Ready, TypeOK, BatchType
<1>2. /\ batch'.ids = batch.ids /\ batch'.gone = batch.gone /\ batch'.touched = batch.touched
      /\ \A v \in Vertex \cap batch.ids : batch'.content[v] = content[v]
  BY <1>1 DEF BatchType
<1>3. batch' \in BatchType
  BY <1>1, ContentAssumption DEF BatchType, StoreInv, Ready, TypeOK
<1>4. TypeOK'
  BY <1>1, <1>3 DEF StoreInv, Ready, TypeOK, BatchType
<1>5. Marked' /\ UsedOK' /\ Stripping'
  BY <1>1 DEF StoreInv, Ready, Marked, Covers, UsedOK, Stripping
<1>6. Remembered'
  BY <1>1, <1>2 DEF StoreInv, Remembered
<1>7. Images'
  BY <1>1, <1>2 DEF StoreInv, Images, TombstonesDead, VertexImage, EdgeImage, StoredEdgesLoad
<1>8. BatchOK'
  BY <1>1, <1>2 DEF StoreInv, BatchOK, Saving
<1> QED BY <1>4, <1>5, <1>6, <1>7, <1>8 DEF StoreInv, Ready

LEMMA RefusedStore ==
  ASSUME StoreInv, save_refused
  PROVE  StoreInv'
<1>1. /\ UNCHANGED <<graph, used, tx, journal, bytes, strip, saved, lost, content, dirty, disk, adrift>>
      /\ act = "store" /\ act' = "idle" /\ batch' = NoBatch
      /\ gone = {} /\ gone' = batch.gone /\ batch.gone \subseteq Id /\ batch'.gone = {}
  BY DEF save_refused, memVars, StoreInv, BatchOK, Saving, Ready, TypeOK, NoBatch
<1>2. TypeOK'
  BY <1>1, NoBatchType DEF StoreInv, Ready, TypeOK, BatchType
<1>3. Marked'
  BY <1>1 DEF StoreInv, Ready, Marked, Covers, Images, TombstonesDead
<1>4. UsedOK' /\ Stripping' /\ Remembered'
  BY <1>1 DEF StoreInv, Ready, UsedOK, Stripping, Remembered
<1>5. Images'
  BY <1>1 DEF StoreInv, Images, TombstonesDead, VertexImage, EdgeImage, StoredEdgesLoad
<1>6. BatchOK'
  BY <1>1 DEF BatchOK, Saving
<1> QED BY <1>2, <1>3, <1>4, <1>5, <1>6 DEF StoreInv, Ready

LEMMA ClearStore ==
  ASSUME StoreInv, clear_dirty_if
  PROVE  StoreInv'
<1>1. /\ UNCHANGED <<graph, used, tx, journal, bytes, strip, saved, lost, content, gone, disk, adrift>>
      /\ act = "clear" /\ act' = "idle" /\ batch' = NoBatch
      /\ gone = {} /\ batch.gone = {} /\ batch'.gone = {}
      /\ dirty' = dirty \ (batch.ids \ batch.touched)
  BY DEF clear_dirty_if, memVars, StoreInv, BatchOK, Saving, NoBatch
<1>2. TypeOK'
  BY <1>1, NoBatchType DEF StoreInv, Ready, TypeOK, BatchType
<1>3. Marked'
  BY <1>1 DEF StoreInv, Ready, Marked, Covers
<1>4. UsedOK' /\ Stripping' /\ Remembered'
  BY <1>1 DEF StoreInv, Ready, UsedOK, Stripping, Remembered
<1>5. VertexImage'
  <2>1. \A v \in LiveV(graph) \cap (batch.ids \ batch.touched) :
          disk.vertex[v] = graph.vertex[v] /\ disk.content[v] = content[v]
    BY <1>1 DEF StoreInv, BatchOK
  <2> QED BY <1>1, <2>1 DEF StoreInv, Images, VertexImage, LiveV
<1>6. EdgeImage'
  <2>1. \A e \in LiveE(graph) \cap batch.ids : disk.edge[e] = graph.edge[e]
    BY <1>1 DEF StoreInv, BatchOK
  <2> QED BY <1>1, <2>1 DEF StoreInv, Images, EdgeImage, LiveE
<1>7. TombstonesDead' /\ StoredEdgesLoad'
  BY <1>1 DEF StoreInv, Images, TombstonesDead, StoredEdgesLoad
<1>8. BatchOK'
  BY <1>1 DEF BatchOK, Saving
<1> QED BY <1>2, <1>3, <1>4, <1>5, <1>6, <1>7, <1>8 DEF StoreInv, Ready, Images

LEMMA ContentStore ==
  ASSUME StoreInv, NEW v \in Vertex, NEW c \in Content, update_content(v, c)
  PROVE  StoreInv'
<1>1. /\ UNCHANGED <<graph, used, tx, journal, bytes, strip, saved, lost, act, gone, disk, adrift>>
      /\ content' = [content EXCEPT ![v] = c] /\ dirty' = dirty \cup {v}
      /\ batch' = IF act \in Saving THEN [batch EXCEPT !.touched = @ \cup {v}] ELSE batch
      /\ batch \in BatchType /\ content \in [Vertex -> Content]
  BY DEF update_content, memVars, StoreInv, Ready, TypeOK, BatchType, Saving
<1>2. /\ batch' \in BatchType /\ batch'.ids = batch.ids /\ batch'.gone = batch.gone
      /\ batch'.content = batch.content
      /\ batch'.touched = IF act \in Saving THEN batch.touched \cup {v} ELSE batch.touched
  BY <1>1 DEF BatchType
<1>3. \A w \in Vertex \ {v} : content'[w] = content[w]
  BY <1>1
<1>4. TypeOK'
  BY <1>1, <1>2 DEF StoreInv, Ready, TypeOK, BatchType, Id
<1>5. Marked'
  BY <1>1 DEF StoreInv, Ready, Marked, Covers, Id
<1>6. UsedOK' /\ Stripping' /\ Remembered'
  BY <1>1, <1>2 DEF StoreInv, Ready, UsedOK, Stripping, Remembered
<1>7. VertexImage'
  BY <1>1, <1>2, <1>3 DEF StoreInv, Images, VertexImage
<1>8. EdgeImage' /\ TombstonesDead' /\ StoredEdgesLoad'
  BY <1>1, <1>2, IdAssumption DEF StoreInv, Images, EdgeImage, TombstonesDead, StoredEdgesLoad
<1>9. BatchOK'
  <2>1. CASE act \in Saving
    BY <1>1, <1>2, <1>3, <2>1 DEF StoreInv, BatchOK, Saving, LiveV
  <2>2. CASE act \notin Saving
    BY <1>1, <2>2 DEF StoreInv, BatchOK, Saving
  <2> QED BY <2>1, <2>2
<1> QED BY <1>4, <1>5, <1>6, <1>7, <1>8, <1>9 DEF StoreInv, Ready, Images

(* After the batch is stored the store holds the vertices of the graph, and *)
(* the edges of it but for those adrift.                                    *)
LEMMA SavedStore ==
  ASSUME StoreInv, save_batch
  PROVE  /\ StoreInv'
         /\ disk'.vertex = graph.vertex /\ disk'.schema = graph.schema
<1>1. /\ UNCHANGED <<graph, used, tx, journal, bytes, strip, saved, lost, content, dirty, gone>>
      /\ act = "store" /\ act' = "clear" /\ batch \in BatchType
      /\ adrift' = adrift \ batch.ids /\ batch' = [batch EXCEPT !.gone = {}]
      /\ disk' = [vertex |-> Stored(disk.vertex, graph.vertex),
                  edge |-> Stored(disk.edge, graph.edge),
                  content |-> [v \in Vertex |-> IF v \in batch.ids THEN batch.content[v]
                                                ELSE disk.content[v]],
                  schema |-> graph.schema, minted |-> used \cap Sym]
  BY DEF save_batch, memVars, StoreInv, Ready, TypeOK, BatchType
<1>2. /\ batch'.ids = batch.ids /\ batch'.gone = {} /\ batch'.touched = batch.touched
      /\ batch' \in BatchType
  BY <1>1 DEF BatchType
<1>3. /\ graph \in Graph /\ NoDangling(graph) /\ dirty \subseteq Id
      /\ disk.vertex \in [Vertex -> VertexRec \cup {None}] /\ disk.edge \in OptEdges
      /\ disk.content \in [Vertex -> Content] /\ used \subseteq Vertex \cup Sym
  BY DEF StoreInv, Ready, TypeOK, Marked, Covers
<1>4. /\ ~InMemory /\ gone = {} /\ batch.ids \subseteq dirty
      /\ dirty \subseteq batch.ids \cup batch.touched /\ batch.touched \subseteq Vertex
      /\ \A v \in LiveV(graph) \ batch.ids : disk.vertex[v] = graph.vertex[v]
      /\ \A v \in Vertex \cap (batch.ids \ batch.touched) : batch.content[v] = content[v]
  BY <1>1 DEF StoreInv, BatchOK, Saving, BatchType
<1>5. batch.gone \cap (LiveV(graph) \cup LiveE(graph)) = {}
  BY DEF StoreInv, Images, TombstonesDead
<1>6. /\ disk'.vertex = [v \in Vertex |-> IF v \in batch.gone THEN None
                           ELSE IF v \in batch.ids THEN graph.vertex[v] ELSE disk.vertex[v]]
      /\ disk'.edge = [e \in Edge |-> IF e \in batch.gone THEN None
                           ELSE IF e \in batch.ids THEN graph.edge[e] ELSE disk.edge[e]]
      /\ disk'.schema = graph.schema /\ disk'.minted = used \cap Sym
      /\ disk'.content = [v \in Vertex |-> IF v \in batch.ids THEN batch.content[v] ELSE disk.content[v]]
  BY <1>1, <1>3 DEF Stored, OptEdges
<1>7. disk'.vertex = graph.vertex
  <2>1. \A v \in Vertex : disk'.vertex[v] = graph.vertex[v]
    <3> SUFFICES ASSUME NEW v \in Vertex PROVE disk'.vertex[v] = graph.vertex[v]
      OBVIOUS
    <3>1. CASE graph.vertex[v] # None
      BY <1>4, <1>5, <1>6, <3>1 DEF LiveV
    <3>2. CASE graph.vertex[v] = None
      <4>1. v \notin batch.gone => disk.vertex[v] = None
        BY <1>4, <3>2 DEF StoreInv, Images, VertexImage
      <4> QED BY <1>6, <3>2, <4>1
    <3> QED BY <3>1, <3>2
  <2> QED BY <1>3, <1>6, <2>1 DEF Graph
<1>8. \A e \in Edge : e \notin adrift' => disk'.edge[e] = graph.edge[e]
  <2> SUFFICES ASSUME NEW e \in Edge, e \notin adrift' PROVE disk'.edge[e] = graph.edge[e]
    OBVIOUS
  <2>1. e \in batch.ids <=> e \in dirty
    BY <1>4, IdAssumption
  <2>2. CASE graph.edge[e] # None
    <3>1. e \notin batch.ids => disk.edge[e] = graph.edge[e]
      BY <1>1, <1>4, <2>1, <2>2 DEF StoreInv, Images, EdgeImage
    <3> QED BY <1>5, <1>6, <2>2, <3>1 DEF LiveE
  <2>3. CASE graph.edge[e] = None
    <3>1. e \notin batch.gone \cup batch.ids => disk.edge[e] = None
      BY <1>1, <1>4, <2>3 DEF StoreInv, Images, EdgeImage
    <3> QED BY <1>6, <2>3, <3>1
  <2> QED BY <2>2, <2>3
<1>9. \A e \in LiveE(graph) \cap batch.ids : disk'.edge[e] = graph.edge[e]
  BY <1>5, <1>6 DEF LiveE
<1>10. \A v \in LiveV(graph) : v \notin dirty \/ v \in batch.ids \ batch.touched =>
         disk'.content[v] = content[v]
  BY <1>4, <1>6 DEF LiveV, StoreInv, Images, VertexImage
<1>11. TypeOK'
  <2>1. disk' \in [vertex : [Vertex -> VertexRec \cup {None}], edge : OptEdges,
                   schema : [Sym -> Name \cup {None}], content : [Vertex -> Content],
                   minted : SUBSET Sym]
    <3>1. Stored(disk.edge, graph.edge) \in OptEdges
      BY <1>3 DEF Stored, OptEdges, Graph
    <3>2. Stored(disk.vertex, graph.vertex) \in [Vertex -> VertexRec \cup {None}]
      BY <1>3 DEF Stored, Graph
    <3>3. [v \in Vertex |-> IF v \in batch.ids THEN batch.content[v] ELSE disk.content[v]]
             \in [Vertex -> Content]
      BY <1>1, <1>3 DEF BatchType
    <3>4. graph.schema \in [Sym -> Name \cup {None}]
      BY <1>3 DEF Graph
    <3> QED BY <1>1, <3>1, <3>2, <3>3, <3>4
  <2>2. adrift' \subseteq Edge
    BY <1>1 DEF StoreInv, Ready, TypeOK
  <2> QED BY <1>1, <1>2, <2>1, <2>2 DEF StoreInv, Ready, TypeOK, BatchType
<1>12. Marked' /\ UsedOK' /\ Stripping'
  BY <1>1 DEF StoreInv, Ready, Marked, Covers, UsedOK, Stripping
<1>13. Remembered'
  BY <1>1, <1>2, <1>6, <1>7 DEF StoreInv, Ready, UsedOK, Remembered, LiveV
<1>14. VertexImage' /\ EdgeImage' /\ TombstonesDead'
  BY <1>1, <1>2, <1>4, <1>7, <1>8, <1>10 DEF VertexImage, EdgeImage, TombstonesDead, LiveV
<1>15. StoredEdgesLoad'
  BY <1>1, <1>3, <1>7, <1>8 DEF StoredEdgesLoad, NoDangling, LiveE, LiveV
<1>16. BatchOK'
  BY <1>1, <1>2, <1>4, <1>7, <1>9, <1>10 DEF BatchOK, Saving, LiveV, LiveE
<1> QED BY <1>6, <1>7, <1>11, <1>12, <1>13, <1>14, <1>15, <1>16 DEF StoreInv, Ready, Images

(* What a store loads as: its vertices, and the edges that can be linked. *)
LEMMA LoadedGraph ==
  ASSUME TypeOK
  PROVE  /\ Loaded \in Graph /\ NoDangling(Loaded)
         /\ Loaded.vertex = disk.vertex /\ Loaded.schema = disk.schema
         /\ \A e \in Edge :
              Loaded.edge[e] = IF disk.edge[e] # None /\ Ends(disk.edge[e]) \subseteq LiveV(Loaded)
                                    /\ (SelfEdges \/ disk.edge[e].origin # disk.edge[e].target)
                                 THEN disk.edge[e] ELSE None
         /\ \A k \in Key :
              LET owners == {v \in Vertex : disk.vertex[v] # None /\ disk.vertex[v].key = k}
              IN  IF owners = {} THEN Loaded.keys[k] = None ELSE Loaded.keys[k] \in owners
<1> DEFINE keys == [k \in Key |->
                      LET owners == {v \in Vertex : disk.vertex[v] # None /\ disk.vertex[v].key = k}
                      IN  IF owners = {} THEN None ELSE CHOOSE v \in owners : TRUE]
           base == [vertex |-> disk.vertex, edge |-> EmptyGraph.edge, schema |-> disk.schema,
                    keys |-> keys]
<1>1. Loaded = adopt_edges(base, disk.edge)
  BY DEF Loaded
<1>2. \A k \in Key :
        LET owners == {v \in Vertex : disk.vertex[v] # None /\ disk.vertex[v].key = k}
        IN  IF owners = {} THEN keys[k] = None ELSE keys[k] \in owners
  OBVIOUS
<1>3. keys \in [Key -> Vertex \cup {None}]
  OBVIOUS
<1> HIDE DEF keys
<1>4. /\ disk.vertex \in [Vertex -> VertexRec \cup {None}] /\ disk.edge \in OptEdges
      /\ disk.schema \in [Sym -> Name \cup {None}]
  BY DEF TypeOK
<1>5. EmptyGraph.edge \in OptEdges /\ \A e \in Edge : EmptyGraph.edge[e] = None
  BY DEF EmptyGraph, OptEdges
<1>6. base \in Graph
  BY <1>3, <1>4, <1>5 DEF Graph
<1>7. /\ base.vertex = disk.vertex /\ base.schema = disk.schema /\ base.keys = keys
      /\ \A e \in Edge : base.edge[e] = None
  BY <1>5
<1> HIDE DEF base
<1>8. NoDangling(base)
  BY <1>7 DEF NoDangling, LiveE
<1>9. /\ Loaded \in Graph /\ NoDangling(Loaded)
      /\ Loaded.vertex = base.vertex /\ Loaded.schema = base.schema /\ Loaded.keys = base.keys
      /\ Loaded.edge = [e \in Edge |-> IF disk.edge[e] # None /\ Adoptable(base, e, disk.edge[e])
                                        THEN disk.edge[e] ELSE base.edge[e]]
  BY <1>1, <1>4, <1>6, <1>8, AdoptEdges
<1>10. LiveV(base) = LiveV(Loaded)
  BY <1>9 DEF LiveV
<1>11. \A e \in Edge :
         Loaded.edge[e] = IF disk.edge[e] # None /\ Ends(disk.edge[e]) \subseteq LiveV(Loaded)
                               /\ (SelfEdges \/ disk.edge[e].origin # disk.edge[e].target)
                            THEN disk.edge[e] ELSE None
  BY <1>7, <1>9, <1>10 DEF Adoptable
<1> QED BY <1>2, <1>7, <1>9, <1>11

LEMMA CrashStore ==
  ASSUME SelfEdges, StoreInv, crash_open
  PROVE  StoreInv'
<1>1. /\ graph' = Loaded /\ content' = disk.content /\ used' = (used \cap Vertex) \cup disk.minted
      /\ tx' = "none" /\ journal' = <<>> /\ bytes' = 0 /\ act' = "idle" /\ strip' = None
      /\ dirty' = {} /\ gone' = {} /\ batch' = NoBatch /\ saved' = Loaded
      /\ adrift' = {e \in adrift : Loaded.edge[e] # disk.edge[e]}
      /\ UNCHANGED <<disk, lost>>
  BY DEF crash_open
<1>2. TypeOK
  BY DEF StoreInv, Ready
<1>3. /\ Loaded \in Graph /\ NoDangling(Loaded)
      /\ Loaded.vertex = disk.vertex /\ Loaded.schema = disk.schema
      /\ \A e \in Edge :
           Loaded.edge[e] = IF disk.edge[e] # None /\ Ends(disk.edge[e]) \subseteq LiveV(Loaded)
                              THEN disk.edge[e] ELSE None
  BY <1>2, LoadedGraph
<1>4. batch'.gone = {}
  BY <1>1 DEF NoBatch
<1>5. TypeOK'
  <2>1. used' \subseteq Vertex \cup Sym /\ adrift' \subseteq Edge /\ content' \in [Vertex -> Content]
        /\ journal' \in Seq(Entry) /\ bytes' \in Nat
    BY <1>1, <1>2 DEF TypeOK
  <2> QED BY <1>1, <1>2, <1>3, <2>1, NoBatchType DEF TypeOK, BatchType
<1>6. Marked'
  <2>1. adrift' \subseteq Edge
    BY <1>1, <1>2 DEF TypeOK
  <2> QED BY <1>1, <1>3, <2>1 DEF Marked, Covers
<1>7. UsedOK' /\ Stripping' /\ Remembered'
  <2>1. Len(journal') = 0
    BY <1>1
  <2> QED BY <1>1, <1>3, <1>4, <2>1 DEF StoreInv, UsedOK, Stripping, Remembered, LiveV
<1>8. VertexImage' /\ TombstonesDead'
  BY <1>1, <1>3, <1>4 DEF VertexImage, TombstonesDead
<1>9. \A e \in Edge \ adrift' : Loaded.edge[e] = disk.edge[e]
  <2> SUFFICES ASSUME NEW e \in Edge, e \notin adrift, disk.edge[e] # None
               PROVE  Ends(disk.edge[e]) \subseteq LiveV(Loaded)
    BY <1>1, <1>3
  <2>1. \A v \in Ends(disk.edge[e]) : disk.vertex[v] # None
    BY DEF StoreInv, Images, StoredEdgesLoad
  <2>2. Ends(disk.edge[e]) \subseteq Vertex
    BY <1>2 DEF TypeOK, OptEdges, EdgeRec, Ends
  <2> QED BY <1>3, <2>1, <2>2 DEF LiveV
<1>10. EdgeImage'
  BY <1>1, <1>3, <1>4, <1>9 DEF EdgeImage
<1>11. StoredEdgesLoad'
  BY <1>1, <1>3, <1>9 DEF StoredEdgesLoad, NoDangling, LiveE, LiveV
<1>12. BatchOK'
  BY <1>1 DEF BatchOK, Saving
<1> QED BY <1>5, <1>6, <1>7, <1>8, <1>10, <1>11, <1>12 DEF StoreInv, Ready, Images

LEMMA InitStore == Init => StoreInv
<1> SUFFICES ASSUME Init PROVE StoreInv
  OBVIOUS
<1>1. /\ EmptyGraph \in Graph
      /\ \A v \in Vertex : EmptyGraph.vertex[v] = None
      /\ \A e \in Edge : EmptyGraph.edge[e] = None
      /\ \A s \in Sym : EmptyGraph.schema[s] = None
      /\ \A k \in Key : EmptyGraph.keys[k] = None
  BY DEF EmptyGraph, Graph, OptEdges
<1>2. TypeOK
  <2>1. journal \in Seq(Entry) /\ bytes \in Nat
    BY DEF Init
  <2>2. disk \in [vertex : [Vertex -> VertexRec \cup {None}], edge : OptEdges,
                  schema : [Sym -> Name \cup {None}], content : [Vertex -> Content],
                  minted : SUBSET Sym]
    BY <1>1, ContentAssumption DEF Init, Graph
  <2> QED BY <1>1, <2>1, <2>2, NoBatchType, ContentAssumption DEF Init, TypeOK, BatchType
<1>3. LiveV(graph) = {} /\ LiveE(graph) = {} /\ batch.gone = {} /\ Len(journal) = 0
  BY <1>1 DEF Init, LiveV, LiveE, NoBatch
<1>4. Marked
  BY <1>1, <1>3 DEF Init, Marked, Covers, NoDangling
<1>5. UsedOK /\ Stripping /\ Remembered
  BY <1>1, <1>3 DEF Init, UsedOK, Stripping, Remembered
<1>6. Images
  BY <1>1, <1>3 DEF Init, Images, TombstonesDead, VertexImage, EdgeImage, StoredEdgesLoad
<1>7. BatchOK
  BY DEF Init, BatchOK, Saving
<1> QED BY <1>2, <1>4, <1>5, <1>6, <1>7 DEF StoreInv, Ready

LEMMA ScopeStore ==
  ASSUME StoreInv, Scope
  PROVE  StoreInv'
<1>1. ASSUME NEW scope \in {"write", "read", "collective", "bulk"}, Open(scope)
      PROVE  StoreInv'
  <2>1. act \notin Saving /\ act' \in {"idle", "abort", "batch"}
    BY <1>1 DEF Open, Saving
  <2> QED BY <1>1, <2>1, QuietStore DEF Open, storeVars
<1>2. ASSUME commit, ~(PersistOnCommit /\ tx = "write" /\ ~InMemory)
      PROVE  StoreInv'
  <2>1. act \notin Saving /\ act' \in {"idle", "abort", "batch"}
    BY <1>2 DEF commit, Saving
  <2> QED BY <1>2, <2>1, QuietStore DEF commit
<1>3. ASSUME commit, PersistOnCommit /\ tx = "write" /\ ~InMemory
      PROVE  StoreInv'
  <2>1. /\ Collect(FALSE) /\ act = "idle" /\ ~InMemory
        /\ tx' = "none" /\ journal' = <<>> /\ bytes' = 0
        /\ UNCHANGED <<graph, used, strip, content, disk, saved, lost, adrift>>
    BY <1>3 DEF commit
  <2>2. FALSE \in BOOLEAN
    OBVIOUS
  <2> QED BY <2>1, <2>2, CollectStore
<1>4. ASSUME bulk_end PROVE StoreInv'
  <2>1. act \notin Saving /\ act' \in {"idle", "abort", "batch"}
    BY <1>4 DEF bulk_end, Saving
  <2> QED BY <1>4, <2>1, QuietStore DEF bulk_end, storeVars
<1>5. ASSUME abort \/ bulk_fail PROVE StoreInv'
  <2>1. act \notin Saving /\ act' \in {"idle", "abort", "batch"}
    BY <1>5 DEF abort, bulk_fail, Rollback, Saving
  <2>2. tx' \in {"none", "write", "read", "collective", "bulk"}
    BY <1>5 DEF abort, bulk_fail, Rollback, StoreInv, Ready, TypeOK
  <2> QED BY <1>5, <2>1, <2>2, QuietStore DEF abort, bulk_fail, Rollback, storeVars
<1>6. ASSUME rollback_done PROVE StoreInv'
  <2>1. act \notin Saving /\ act' \in {"idle", "abort", "batch"}
    BY <1>6 DEF rollback_done, Saving
  <2>2. tx' \in {"none", "write", "read", "collective", "bulk"}
    BY <1>6 DEF rollback_done, StoreInv, Ready, TypeOK
  <2> QED BY <1>6, <2>1, <2>2, QuietStore DEF rollback_done, storeVars
<1>7. ASSUME NEW b \in BOOLEAN, begin_transaction(b) PROVE StoreInv'
  <2>1. \E scope \in {"write", "read", "collective", "bulk"} : Open(scope)
    BY <1>7 DEF begin_transaction
  <2> QED BY <1>1, <2>1
<1>8. ASSUME begin_collective \/ bulk_begin PROVE StoreInv'
  <2>1. \E scope \in {"write", "read", "collective", "bulk"} : Open(scope)
    BY <1>8 DEF begin_collective, bulk_begin
  <2> QED BY <1>1, <2>1
<1> QED BY <1>2, <1>3, <1>4, <1>5, <1>6, <1>7, <1>8, UndoStore DEF Scope

LEMMA PersistStore ==
  ASSUME StoreInv, NEW full \in BOOLEAN, persist(full)
  PROVE  StoreInv'
<1>1. /\ Collect(full) /\ act = "idle" /\ ~InMemory
      /\ UNCHANGED <<graph, used, tx, journal, bytes, strip, saved, lost, content, disk, adrift>>
  BY DEF persist, memVars
<1> QED BY <1>1, CollectStore

LEMMA StepStore ==
  ASSUME SelfEdges, StoreInv, [Next]_vars
  PROVE  StoreInv'
<1>1. CASE VertexCommand \/ EdgeCommand \/ SchemaCommand
  <2>1. Recorded
    BY <1>1, VertexCommandRecorded, EdgeCommandRecorded, SchemaCommandRecorded DEF StoreInv
  <2> QED BY <2>1, CommandStore
<1>2. CASE Scope
  BY <1>2, ScopeStore
<1>3. CASE Save
  BY <1>3, PersistStore, EncodeStore, SavedStore, RefusedStore, ClearStore, ContentStore, CrashStore DEF Save
<1>4. CASE UNCHANGED vars
  BY <1>4 DEF vars, StoreInv, Ready, TypeOK, Marked, Covers, UsedOK, Stripping, Remembered,
              BatchOK, Images, TombstonesDead, VertexImage, EdgeImage, StoredEdgesLoad
<1> QED BY <1>1, <1>2, <1>3, <1>4 DEF Next

LEMMA StoreInvariant ==
  ASSUME SelfEdges
  PROVE  Spec => []StoreInv
<1>1. StoreInv /\ [Next]_vars => StoreInv'
  BY StepStore
<1> QED BY InitStore, <1>1, PTL DEF Spec

(* The five results below hold when self edges are allowed, the default.   *)
(* Database: graph, journal, marks and store have their types.             *)
THEOREM GraphTypes ==
  ASSUME SelfEdges
  PROVE  Spec => []TypeOK
<1>1. StoreInv => TypeOK
  BY DEF StoreInv, Ready
<1> QED BY StoreInvariant, <1>1, PTL

(* remove_vertex, edge_free, adopt_*: no live entity waits for a tombstone, *)
(* in the graph or in the batch a save is writing.                          *)
THEOREM TombstonesSafe ==
  ASSUME SelfEdges
  PROVE  Spec => []TombstonesDead
<1>1. StoreInv => TombstonesDead
  BY DEF StoreInv, Images
<1> QED BY StoreInvariant, <1>1, PTL

(* GraphSerializer::save: a vertex without a dirty mark is in the store as *)
(* it is in memory, content included, although contents change during the  *)
(* save, saves fail, transactions are undone and the process dies.         *)
THEOREM VerticesSaved ==
  ASSUME SelfEdges
  PROVE  Spec => []VertexImage
<1>1. StoreInv => VertexImage
  BY DEF StoreInv, Images
<1> QED BY StoreInvariant, <1>1, PTL

(* The same of the edges that no undo put back. *)
THEOREM EdgesSaved ==
  ASSUME SelfEdges
  PROVE  Spec => []EdgeImage
<1>1. StoreInv => EdgeImage
  BY DEF StoreInv, Images
<1> QED BY StoreInvariant, <1>1, PTL

(* GraphDeserializer::load: every stored edge but those finds its endpoints *)
(* in the store, whatever the process was doing when it died.               *)
THEOREM StoreLoads ==
  ASSUME SelfEdges
  PROVE  Spec => []StoredEdgesLoad
<1>1. StoreInv => StoredEdgesLoad
  BY DEF StoreInv, Images
<1> QED BY StoreInvariant, <1>1, PTL

-----------------------------------------------------------------------------
(***************************************************************************)
(* The transaction.  As long as no change was lost, the journal is a chain *)
(* of graphs from the one the transaction began with to the present one:   *)
(* each entry undoes the graph after it to the graph before it, exactly.   *)
(***************************************************************************)
Chain(past, q, g, start) ==
  /\ past[1] = start
  /\ past[Len(q) + 1] = g
  /\ \A i \in 1..(Len(q) + 1) : past[i] \in Graph /\ Consistent(past[i])
  /\ \A i \in 1..Len(q) : Undo(q[i], past[i + 1]) = past[i]

Chained(q, g, start) == \E past : Chain(past, q, g, start)

LEMMA ChainStart ==
  ASSUME NEW g \in Graph, Consistent(g)
  PROVE  Chained(<<>>, g, g)
<1> DEFINE past == [i \in {1} |-> g]
<1>1. Len(<<>>) = 0 /\ past[1] = g
  OBVIOUS
<1>2. Chain(past, <<>>, g, g)
  BY <1>1 DEF Chain
<1> QED BY <1>2 DEF Chained

LEMMA ChainEmpty ==
  ASSUME NEW g, NEW start, Chained(<<>>, g, start)
  PROVE  g = start
BY DEF Chained, Chain

LEMMA ChainPush ==
  ASSUME NEW q \in Seq(Entry), NEW g, NEW start, Chained(q, g, start),
         NEW j \in Entry, NEW h \in Graph, Consistent(h), Undo(j, h) = g
  PROVE  Chained(Append(q, j), h, start)
<1> DEFINE n == Len(q)
           p == Append(q, j)
<1>1. PICK past : Chain(past, q, g, start)
  BY DEF Chained
<1> DEFINE next == [i \in 1..(n + 2) |-> IF i = n + 2 THEN h ELSE past[i]]
<1>2. n \in Nat /\ Len(p) = n + 1 /\ p[n + 1] = j /\ \A i \in 1..n : p[i] = q[i]
  OBVIOUS
<1> HIDE DEF n, p
<1>3. next[n + 2] = h /\ \A i \in 1..(n + 1) : next[i] = past[i]
  BY <1>2
<1>4. /\ past[1] = start /\ past[n + 1] = g
      /\ \A i \in 1..(n + 1) : past[i] \in Graph /\ Consistent(past[i])
      /\ \A i \in 1..n : Undo(q[i], past[i + 1]) = past[i]
  BY <1>1 DEF Chain, n
<1> HIDE DEF next
<1>5. next[1] = start /\ next[Len(p) + 1] = h
  BY <1>2, <1>3, <1>4
<1>6. \A i \in 1..(Len(p) + 1) : next[i] \in Graph /\ Consistent(next[i])
  <2> SUFFICES ASSUME NEW i \in 1..(n + 2) PROVE next[i] \in Graph /\ Consistent(next[i])
    BY <1>2
  <2>1. CASE i = n + 2
    BY <1>3, <2>1
  <2>2. CASE i # n + 2
    <3>1. i \in 1..(n + 1)
      BY <1>2, <2>2
    <3> QED BY <1>3, <1>4, <3>1
  <2> QED BY <2>1, <2>2
<1>7. \A i \in 1..Len(p) : Undo(p[i], next[i + 1]) = next[i]
  <2> SUFFICES ASSUME NEW i \in 1..(n + 1) PROVE Undo(p[i], next[i + 1]) = next[i]
    BY <1>2
  <2>1. CASE i = n + 1
    <3>1. i + 1 = n + 2 /\ n + 1 \in 1..(n + 1)
      BY <1>2, <2>1
    <3>2. next[i + 1] = h /\ next[i] = g /\ p[i] = j
      BY <1>2, <1>3, <1>4, <2>1, <3>1
    <3> QED BY <3>2
  <2>2. CASE i # n + 1
    <3>1. i \in 1..n /\ i + 1 \in 1..(n + 1)
      BY <1>2, <2>2
    <3>2. next[i + 1] = past[i + 1] /\ next[i] = past[i] /\ p[i] = q[i]
      BY <1>2, <1>3, <3>1
    <3> QED BY <1>4, <3>1, <3>2
  <2> QED BY <2>1, <2>2
<1>8. Chain(next, p, h, start)
  BY <1>5, <1>6, <1>7 DEF Chain
<1> QED BY <1>8 DEF Chained, p

LEMMA ChainPop ==
  ASSUME NEW q \in Seq(Entry), q # <<>>, NEW g, NEW start, Chained(q, g, start)
  PROVE  LET h == Undo(q[Len(q)], g) IN
         Consistent(h) /\ Chained(SubSeq(q, 1, Len(q) - 1), h, start)
<1> DEFINE h == Undo(q[Len(q)], g)
           p == SubSeq(q, 1, Len(q) - 1)
           n == Len(q)
<1>1. PICK past : Chain(past, q, g, start)
  BY DEF Chained
<1>2. Len(p) = n - 1 /\ \A i \in 1..Len(p) : p[i] = q[i] /\ i \in 1..n
  BY DropLast
<1>3. n \in Nat /\ n >= 1
  OBVIOUS
<1> HIDE DEF n, p
<1>4. /\ past[1] = start /\ past[n + 1] = g
      /\ \A i \in 1..(n + 1) : past[i] \in Graph /\ Consistent(past[i])
      /\ \A i \in 1..n : Undo(q[i], past[i + 1]) = past[i]
  BY <1>1 DEF Chain, n
<1>5. n \in 1..n /\ n \in 1..(n + 1)
  BY <1>3
<1>6. h = past[n]
  BY <1>4, <1>5 DEF n
<1> HIDE DEF h
<1>7. Consistent(h)
  BY <1>4, <1>5, <1>6
<1>8. Len(p) + 1 = n
  BY <1>2, <1>3
<1>9. \A i \in 1..n : past[i] \in Graph /\ Consistent(past[i])
  BY <1>3, <1>4
<1>10. \A i \in 1..Len(p) : Undo(p[i], past[i + 1]) = past[i]
  BY <1>2, <1>4
<1>11. Chain(past, p, h, start)
  BY <1>4, <1>6, <1>8, <1>9, <1>10 DEF Chain
<1>12. Chained(p, h, start)
  BY <1>11 DEF Chained
<1> QED BY <1>7, <1>12 DEF h, p

-----------------------------------------------------------------------------
(* A store whose vertices and schema load into a consistent graph. *)
DiskOK ==
  /\ \A v, w \in Vertex :
       /\ disk.vertex[v] # None /\ disk.vertex[w] # None
       /\ disk.vertex[v].key # None /\ disk.vertex[v].key = disk.vertex[w].key
       => v = w
  /\ \A s, t \in Sym : disk.schema[s] # None /\ disk.schema[s] = disk.schema[t] => s = t
  /\ \A v \in Vertex : disk.vertex[v] # None /\ disk.vertex[v].key # None =>
                         disk.schema[KeyLabel[disk.vertex[v].key]] # None

TxInv ==
  /\ tx = "none" => journal = <<>>
  /\ act \in {"abort", "batch"} => tx # "none"
  /\ ~lost => /\ Consistent(graph) /\ DiskOK
              /\ tx # "none" => Chained(journal, graph, saved)

LEMMA InitTx == Init => TxInv
<1> SUFFICES ASSUME Init PROVE TxInv
  OBVIOUS
<1>1. /\ \A v \in Vertex : EmptyGraph.vertex[v] = None
      /\ \A e \in Edge : EmptyGraph.edge[e] = None
      /\ \A s \in Sym : EmptyGraph.schema[s] = None
      /\ \A k \in Key : EmptyGraph.keys[k] = None
  BY DEF EmptyGraph
<1>2. Consistent(EmptyGraph)
  BY <1>1, NoneAssumption DEF Consistent, NoDangling, KeysExact, NamesUnique, KeyLabelsLive, LiveV, LiveE
<1>3. DiskOK
  BY <1>1 DEF Init, DiskOK
<1> QED BY <1>2, <1>3 DEF Init, TxInv

LEMMA CommandTx ==
  ASSUME SelfEdges, StoreInv, TxInv, Recorded
  PROVE  TxInv'
<1>1. /\ UNCHANGED <<tx, saved, disk>> /\ tx \in {"none", "write", "bulk"}
      /\ act' \in {"idle", "strip"} /\ (lost => lost')
  BY DEF Recorded
<1>2. tx = "none" => journal' = <<>>
  BY DEF TxInv, Recorded, Journaled, InTx
<1>3. ASSUME ~lost' PROVE Consistent(graph') /\ DiskOK'
  <2>1. Sound
    BY <1>1, <1>3 DEF Sound, TxInv
  <2>2. DiskOK
    BY <1>1, <1>3 DEF TxInv
  <2> QED BY <1>1, <2>1, <2>2 DEF Recorded, DiskOK
<1>4. ASSUME ~lost', tx # "none" PROVE Chained(journal', graph', saved)
  <2>1. Sound /\ Chained(journal, graph, saved) /\ InTx
    BY <1>1, <1>4 DEF Sound, TxInv, InTx
  <2>2. graph' \in Graph /\ Consistent(graph') /\ journal \in Seq(Entry)
    BY <1>3, <1>4 DEF Recorded, Covers, StoreInv, Ready, TypeOK
  <2>3. CASE journal' = journal /\ graph' = graph
    BY <2>1, <2>3
  <2>4. ASSUME NEW j \in Entry, journal' = Append(journal, j), Undo(j, graph') = graph
        PROVE  Chained(journal', graph', saved)
    <3>1. Chained(Append(journal, j), graph', saved)
      BY <2>1, <2>2, <2>4, ChainPush
    <3> QED BY <2>4, <3>1
  <2> QED BY <1>4, <2>1, <2>3, <2>4 DEF Recorded, Journaled
<1> QED BY <1>1, <1>2, <1>3, <1>4 DEF TxInv

LEMMA UndoTx ==
  ASSUME StoreInv, TxInv, undo_entry
  PROVE  TxInv'
<1>1. /\ act \in {"abort", "batch"} /\ UNCHANGED <<act, tx, saved, lost, disk>> /\ journal # <<>>
      /\ graph' = Undo(journal[Len(journal)], graph)
      /\ journal' = SubSeq(journal, 1, Len(journal) - 1)
      /\ journal \in Seq(Entry)
  BY DEF undo_entry, scopeVars, storeVars, StoreInv, Ready, TypeOK
<1>2. tx # "none"
  BY <1>1 DEF TxInv
<1>3. ASSUME ~lost PROVE Consistent(graph') /\ Chained(journal', graph', saved) /\ DiskOK'
  <2>1. Chained(journal, graph, saved) /\ DiskOK
    BY <1>2, <1>3 DEF TxInv
  <2>2. Consistent(graph') /\ Chained(journal', graph', saved)
    BY <1>1, <2>1, ChainPop
  <2> QED BY <1>1, <2>1, <2>2 DEF DiskOK
<1> QED BY <1>1, <1>2, <1>3 DEF TxInv

LEMMA ScopeTx ==
  ASSUME StoreInv, TxInv, Scope
  PROVE  TxInv'
<1>1. ASSUME NEW scope \in {"write", "read", "collective", "bulk"}, Open(scope)
      PROVE  TxInv'
  <2>1. /\ tx = "none" /\ tx' = scope /\ saved' = graph /\ act' = "idle"
        /\ UNCHANGED <<graph, journal, lost, disk>> /\ graph \in Graph
    BY <1>1 DEF Open, storeVars, StoreInv, Ready, TypeOK
  <2>2. journal' = <<>> /\ tx' # "none"
    BY <1>1, <2>1 DEF TxInv
  <2>3. ASSUME ~lost PROVE Chained(journal', graph', saved') /\ Consistent(graph') /\ DiskOK'
    <3>1. Consistent(graph) /\ DiskOK
      BY <2>3 DEF TxInv
    <3>2. Chained(<<>>, graph, graph)
      BY <2>1, <3>1, ChainStart
    <3> QED BY <2>1, <2>2, <3>1, <3>2 DEF DiskOK
  <2> QED BY <2>1, <2>2, <2>3 DEF TxInv
<1>2. ASSUME commit \/ bulk_end PROVE TxInv'
  <2>1. /\ tx' = "none" /\ journal' = <<>> /\ act' \in {"idle", "encode"}
        /\ UNCHANGED <<graph, saved, lost, disk>>
    BY <1>2 DEF commit, bulk_end, Collect, storeVars
  <2> QED BY <2>1 DEF TxInv, DiskOK
<1>3. ASSUME abort \/ bulk_fail PROVE TxInv'
  <2>1. tx # "none" /\ UNCHANGED <<graph, tx, journal, saved, lost, disk>>
    BY <1>3 DEF abort, bulk_fail, Rollback, InTx, storeVars
  <2> QED BY <2>1 DEF TxInv, DiskOK
<1>4. ASSUME rollback_done PROVE TxInv'
  <2>1. /\ journal = <<>> /\ act' = "idle" /\ tx' \in {"none", tx} /\ tx # "none"
        /\ UNCHANGED <<graph, journal, saved, lost, disk>>
    BY <1>4 DEF rollback_done, storeVars, TxInv
  <2> QED BY <2>1 DEF TxInv, DiskOK
<1>5. ASSUME NEW b \in BOOLEAN, begin_transaction(b) PROVE TxInv'
  <2>1. \E scope \in {"write", "read", "collective", "bulk"} : Open(scope)
    BY <1>5 DEF begin_transaction
  <2> QED BY <1>1, <2>1
<1>6. ASSUME begin_collective \/ bulk_begin PROVE TxInv'
  <2>1. \E scope \in {"write", "read", "collective", "bulk"} : Open(scope)
    BY <1>6 DEF begin_collective, bulk_begin
  <2> QED BY <1>1, <2>1
<1> QED BY <1>2, <1>3, <1>4, <1>5, <1>6, UndoTx DEF Scope

LEMMA SavedTx ==
  ASSUME StoreInv, TxInv, save_batch
  PROVE  TxInv'
<1>1. /\ UNCHANGED <<graph, tx, journal, saved, lost>> /\ act = "store" /\ act' = "clear"
  BY DEF save_batch, memVars
<1>2. disk'.vertex = graph.vertex /\ disk'.schema = graph.schema
  BY SavedStore
<1>3. ASSUME Consistent(graph) PROVE DiskOK'
  <2>1. graph \in Graph
    BY DEF StoreInv, Ready, TypeOK
  <2>2. \A v, w \in Vertex :
          /\ graph.vertex[v] # None /\ graph.vertex[w] # None
          /\ graph.vertex[v].key # None /\ graph.vertex[v].key = graph.vertex[w].key
          => v = w
    <3> SUFFICES ASSUME NEW v \in Vertex, NEW w \in Vertex,
                        graph.vertex[v] # None, graph.vertex[w] # None,
                        graph.vertex[v].key # None, graph.vertex[v].key = graph.vertex[w].key
                 PROVE  v = w
      OBVIOUS
    <3>1. graph.vertex[v].key \in Key
      BY <2>1 DEF Graph, VertexRec
    <3>2. graph.keys[graph.vertex[v].key] = v /\ graph.keys[graph.vertex[w].key] = w
      BY <1>3, <3>1 DEF Consistent, KeysExact
    <3> QED BY <3>2
  <2> QED BY <1>2, <1>3, <2>2 DEF DiskOK, Consistent, NamesUnique, KeyLabelsLive, LiveV
<1> QED BY <1>1, <1>3 DEF TxInv

LEMMA CrashTx ==
  ASSUME StoreInv, TxInv, crash_open
  PROVE  TxInv'
<1>1. graph' = Loaded /\ tx' = "none" /\ journal' = <<>> /\ act' = "idle" /\ UNCHANGED <<disk, lost>>
  BY DEF crash_open
<1>2. TypeOK
  BY DEF StoreInv, Ready
<1>3. /\ Loaded \in Graph /\ NoDangling(Loaded)
      /\ Loaded.vertex = disk.vertex /\ Loaded.schema = disk.schema
      /\ \A k \in Key :
           LET owners == {v \in Vertex : disk.vertex[v] # None /\ disk.vertex[v].key = k}
           IN  IF owners = {} THEN Loaded.keys[k] = None ELSE Loaded.keys[k] \in owners
  BY <1>2, LoadedGraph
<1>4. ASSUME DiskOK PROVE Consistent(Loaded)
  <2>1. NamesUnique(Loaded) /\ KeyLabelsLive(Loaded)
    BY <1>3, <1>4 DEF DiskOK, NamesUnique, KeyLabelsLive, LiveV
  <2>2. KeysExact(Loaded)
    <3> SUFFICES ASSUME NEW k \in Key, NEW v \in Vertex
                 PROVE  Loaded.keys[k] = v <=> disk.vertex[v] # None /\ disk.vertex[v].key = k
      BY <1>3 DEF KeysExact
    <3> DEFINE owners == {w \in Vertex : disk.vertex[w] # None /\ disk.vertex[w].key = k}
    <3>1. IF owners = {} THEN Loaded.keys[k] = None ELSE Loaded.keys[k] \in owners
      BY <1>3
    <3>2. \A w \in owners : w = v \/ v \notin owners
      BY <1>4, NoneAssumption DEF DiskOK
    <3>3. v # None
      BY NoneAssumption
    <3>4. v \in owners <=> disk.vertex[v] # None /\ disk.vertex[v].key = k
      OBVIOUS
    <3> HIDE DEF owners
    <3> QED BY <3>1, <3>2, <3>3, <3>4
  <2> QED BY <1>3, <2>1, <2>2 DEF Consistent
<1> QED BY <1>1, <1>4 DEF TxInv, DiskOK

LEMMA StepTx ==
  ASSUME SelfEdges, StoreInv, TxInv, [Next]_vars
  PROVE  TxInv'
<1>1. CASE VertexCommand \/ EdgeCommand \/ SchemaCommand
  <2>1. Recorded
    BY <1>1, VertexCommandRecorded, EdgeCommandRecorded, SchemaCommandRecorded DEF StoreInv
  <2> QED BY <2>1, CommandTx
<1>2. CASE Scope
  BY <1>2, ScopeTx
<1>3. CASE Save
  <2>1. ASSUME UNCHANGED <<memVars, disk>>, act' = act \/ act' \notin {"abort", "batch"}
        PROVE  TxInv'
    BY <2>1 DEF memVars, TxInv, DiskOK
  <2>2. ASSUME NEW full \in BOOLEAN, persist(full) PROVE TxInv'
    BY <2>1, <2>2 DEF persist, Collect
  <2>3. ASSUME NEW v \in Vertex, NEW c \in Content, update_content(v, c) PROVE TxInv'
    BY <2>1, <2>3 DEF update_content
  <2>4. ASSUME save_encode \/ save_refused \/ clear_dirty_if PROVE TxInv'
    BY <2>1, <2>4 DEF save_encode, save_refused, clear_dirty_if
  <2> QED BY <1>3, <2>2, <2>3, <2>4, SavedTx, CrashTx DEF Save
<1>4. CASE UNCHANGED vars
  BY <1>4 DEF vars, TxInv, DiskOK
<1> QED BY <1>1, <1>2, <1>3, <1>4 DEF Next

LEMMA TxInvariant ==
  ASSUME SelfEdges
  PROVE  Spec => []TxInv
<1>1. StoreInv /\ TxInv /\ [Next]_vars => TxInv'
  BY StepTx
<1> QED BY StoreInvariant, InitTx, <1>1, PTL DEF Spec

(* Database::_rollback: with self edges allowed, once an abort, or a batch  *)
(* that failed, has replayed the journal, the graph, its key index and its  *)
(* schema are exactly those of the beginning of the transaction, unless a   *)
(* change had been made without its undo record.                            *)
THEOREM AbortExact ==
  ASSUME SelfEdges
  PROVE  Spec => []AbortRestores
<1>1. TxInv => AbortRestores
  BY ChainEmpty DEF TxInv, AbortRestores
<1> QED BY TxInvariant, <1>1, PTL

(* With self edges allowed, and until a change is made without its undo     *)
(* record: no edge dangles, the key index finds exactly the live keyed      *)
(* vertices, names are unique and the label of a key stays registered,      *)
(* through every command, rollback, save and crash.                         *)
THEOREM GraphSound ==
  ASSUME SelfEdges
  PROVE  Spec => [](~lost => GraphOK)
<1>1. TxInv => (~lost => GraphOK)
  BY DEF TxInv, GraphOK
<1> QED BY TxInvariant, <1>1, PTL
=============================================================================

---------------------------- MODULE GraphCompile ----------------------------
(***************************************************************************)
(* From a workflow document to the graph the scheduler runs                *)
(* (backend/src/astro_canvas/engine/graph.py, compile): subgraph instances *)
(* are inlined, disabled nodes bypassed, edges wired, inputs and params    *)
(* checked, the nodes sorted (Kahn), and those that cannot run left out.   *)
(*                                                                         *)
(* One action is one iteration of a loop of the code, so the sorting and   *)
(* the assembly are checked step by step.  A dict or a set is              *)
(* visited in any order, unless the code sorts it.                         *)
(*                                                                         *)
(* An id is the path to a node: the ids of the instances it is inside of,  *)
(* then its own.  A param's value is not interpreted, except that BadValue *)
(* is one the node's pydantic model refuses.  A node type whose ports      *)
(* depend on its params stands for one type per set of declared ports.     *)
(***************************************************************************)
EXTENDS Integers, Sequences, FiniteSets, TLC

CONSTANTS
  Documents,      \* families of documents, each a set of [nodes, edges]
  Subgraphs,      \* its subgraphs: type -> body
  Quarantines,    \* sets of ids the trust gate may block
  SubgraphTypes,  \* the types "subgraph:<id>"
  Registry,       \* type -> [inputs, outputs, params]
  ANY_TYPE, JSON_TYPE, Scalars, CompatibleWith,  \* port types, and their coercion targets
  BadValue,
  MAX_SUBGRAPH_DEPTH,
  Rank(_)         \* the place of an id when ids are sorted

ASSUME GraphAssumption == MAX_SUBGRAPH_DEPTH \in Nat

VARIABLES
  doc, quarantined, \* what compile is given
  stage,    \* the part of compile that is running
  levels,   \* the bodies inlined so far: the document's own and one per instance
  todo,     \* those whose nodes are still to be visited
  nodes,    \* _Flat.nodes: id -> node
  errors,   \* _Flat.errors: pairs of an id and a code
  edges,    \* _Flat.edges
  unwired,  \* the edges still to be wired
  wired,    \* id -> input port -> <<id, output port>>
  upstream_failed, \* id -> the nodes an edge leads from
  bad_ports,
  indegree, queue, order, \* Kahn's algorithm
  visiting, \* the nodes its present loop has still to visit
  admitted, \* how many nodes of the order the assembly has visited
  graph,    \* ExecGraph.order
  blocked   \* ExecGraph.blocked

flat == <<levels, todo, nodes, edges>>
wiring == <<unwired, wired, upstream_failed, bad_ports>>
sorting == <<indegree, queue, order, visiting>>
result == <<admitted, graph, blocked>>
compileVars == <<doc, quarantined, stage, flat, errors, wiring, sorting, result>>

Elements(s) == {s[i] : i \in DOMAIN s}
Failed == {e[1] : e \in errors}

CompileInit ==
  /\ \E i \in DOMAIN Documents : doc \in Documents[i]
  /\ quarantined \in Quarantines
  /\ stage = "flatten"
  /\ levels = {[prefix |-> <<>>, nodes |-> doc.nodes, edges |-> doc.edges,
                inputs |-> <<>>, outputs |-> <<>>]}
  /\ todo = levels
  /\ nodes = <<>> /\ errors = {} /\ edges = {}
  /\ unwired = {} /\ wired = <<>> /\ upstream_failed = <<>> /\ bad_ports = {}
  /\ indegree = <<>> /\ queue = <<>> /\ order = <<>> /\ visiting = {}
  /\ admitted = 0 /\ graph = <<>> /\ blocked = {}
-----------------------------------------------------------------------------
(* _flatten *)

\* A value in an instance's params or a ref in its linked is followed to the
\* inner node it names.
Promoted(sg, node) ==
  {ref \in (DOMAIN node.params \cup node.linked) \cap DOMAIN sg.promoted :
     sg.promoted[ref].node \in DOMAIN sg.nodes}

InstanceBody(sg, node) ==
  [n \in DOMAIN sg.nodes |->
     LET inner == sg.nodes[n]
         Refs(S) == {ref \in Promoted(sg, node) \cap S : sg.promoted[ref].node = n}
         linked == {sg.promoted[ref].param : ref \in Refs(node.linked)}
         set == Refs(DOMAIN node.params \ node.linked)
     IN  [inner EXCEPT
            !.linked = @ \cup linked,
            !.params = [p \in {sg.promoted[ref].param : ref \in set} |->
                          node.params[CHOOSE ref \in set : sg.promoted[ref].param = p]] @@ @]]

\* The ports an instance has: the subgraph's own, and the refs linked on it.
InstanceInputs(sg, node) ==
  [ref \in node.linked \cap DOMAIN sg.promoted |->
     [node |-> sg.promoted[ref].node, port |-> sg.promoted[ref].param]] @@ sg.inputs

\* The loop over the nodes of one body.
Flatten(level) ==
  LET here == DOMAIN level.nodes
      Full(n) == Append(level.prefix, n)
      Sg(n) == Subgraphs[level.nodes[n].type]
      instances == {n \in here : level.nodes[n].type \in SubgraphTypes /\ ~level.nodes[n].disabled}
      plain == {Full(n) : n \in here \ instances}
      unknown == {n \in instances : level.nodes[n].type \notin DOMAIN Subgraphs}
      tooDeep == IF Len(level.prefix) >= MAX_SUBGRAPH_DEPTH THEN instances \ unknown ELSE {}
      opened == instances \ (unknown \cup tooDeep)
      unpromoted == {n \in opened : Promoted(Sg(n), level.nodes[n])
                                      # DOMAIN level.nodes[n].params \cup level.nodes[n].linked}
      inner == {[prefix |-> Full(n), nodes |-> InstanceBody(Sg(n), level.nodes[n]),
                 edges |-> Sg(n).edges, inputs |-> InstanceInputs(Sg(n), level.nodes[n]),
                 outputs |-> Sg(n).outputs] : n \in opened}
  IN
  /\ stage = "flatten" /\ level \in todo
  /\ nodes' = [id \in plain \cup DOMAIN nodes |->
                 IF id \in plain THEN level.nodes[id[Len(id)]] ELSE nodes[id]]
  /\ errors' = errors \cup {<<Full(n), "unknown_subgraph">> : n \in unknown}
                      \cup {<<Full(n), "subgraph_depth">> : n \in tooDeep}
                      \cup {<<Full(n), "unknown_param">> : n \in unpromoted}
  /\ levels' = levels \cup inner
  /\ todo' = (todo \ {level}) \cup inner
  /\ UNCHANGED <<doc, quarantined, stage, edges, wiring, sorting, result>>

Instances == {level.prefix : level \in levels} \ {<<>>}
Level(id) == CHOOSE level \in levels : level.prefix = id

\* _Flat.resolve: a boundary port followed inwards, at most
\* MAX_SUBGRAPH_DEPTH + 1 times.  What ends at an instance has no such port.
Resolve(side, from) ==
  LET hop[k \in 0..(MAX_SUBGRAPH_DEPTH + 1)] ==
        IF k = 0 THEN from
        ELSE LET at == hop[k - 1]
             IN  IF at[1] \in Instances /\ at[2] \in DOMAIN Level(at[1])[side]
                 THEN <<Append(at[1], Level(at[1])[side][at[2]].node),
                        Level(at[1])[side][at[2]].port>>
                 ELSE at
  IN  hop[MAX_SUBGRAPH_DEPTH + 1]

Drawn == UNION {{[id |-> Append(level.prefix, e),
                  src |-> Append(level.prefix, level.edges[e].src),
                  src_port |-> level.edges[e].src_port,
                  dst |-> Append(level.prefix, level.edges[e].dst),
                  dst_port |-> level.edges[e].dst_port] : e \in DOMAIN level.edges} :
                level \in levels}

From(e) == Resolve("outputs", <<e.src, e.src_port>>)
Into(e) == Resolve("inputs", <<e.dst, e.dst_port>>)

\* Mutant: an edge to or from a port an instance lacks is left out in silence.
ResolveEdgesQuietly ==
  LET found == {e \in Drawn : From(e)[1] \notin Instances /\ Into(e)[1] \notin Instances}
  IN
  /\ stage = "flatten" /\ todo = {}
  /\ edges' = {[id |-> e.id, src |-> From(e)[1], src_port |-> From(e)[2],
                dst |-> Into(e)[1], dst_port |-> Into(e)[2]] : e \in found}
  /\ stage' = "bypass"
  /\ UNCHANGED <<doc, quarantined, levels, todo, nodes, errors, wiring, sorting, result>>

\* The loops over the edges, once every body is inlined.
ResolveEdges ==
  LET lost == {e \in Drawn : From(e)[1] \in Instances \/ Into(e)[1] \in Instances}
  IN
  /\ stage = "flatten" /\ todo = {}
  /\ edges' = {[id |-> e.id, src |-> From(e)[1], src_port |-> From(e)[2],
                dst |-> Into(e)[1], dst_port |-> Into(e)[2]] : e \in Drawn \ lost}
  /\ errors' = errors \cup {<<e.dst, "unknown_port">> : e \in lost}
  /\ stage' = "bypass"
  /\ UNCHANGED <<doc, quarantined, levels, todo, nodes, wiring, sorting, result>>
-----------------------------------------------------------------------------
(* _bypass_disabled *)

IsCompatible(source, target) ==
  \/ target \in {source, ANY_TYPE}
  \/ target = JSON_TYPE /\ source \in Scalars
  \/ source \in DOMAIN CompatibleWith /\ target \in CompatibleWith[source]

Disabled == {n \in DOMAIN nodes : nodes[n].disabled}

\* The edges a disabled node passes on through one of its outputs: the one into
\* the first of its inputs that has an edge of a fitting type.
PassedOn(incoming, n, port) ==
  IF nodes[n].type \notin DOMAIN Registry \/ port \notin DOMAIN Registry[nodes[n].type].outputs
  THEN {}
  ELSE LET spec == Registry[nodes[n].type]
           Fed(i) == {e \in incoming : e.dst = n /\ e.dst_port = spec.inputs[i].name}
           fits == {i \in DOMAIN spec.inputs :
                      Fed(i) # {} /\ IsCompatible(spec.inputs[i].type, spec.outputs[port])}
       IN  UNION {Fed(i) : i \in {j \in fits : \A k \in fits : j <= k}}

Bypass ==
  /\ stage = "bypass"
  /\ \E incoming \in SUBSET {e \in edges : e.dst \in Disabled} :
       \* of several edges into one port the table keeps the last it meets
       /\ \A e \in {d \in edges : d.dst \in Disabled} :
            \E k \in incoming : k.dst = e.dst /\ k.dst_port = e.dst_port
       /\ \A e, d \in incoming : e.dst = d.dst /\ e.dst_port = d.dst_port => e = d
       /\ LET kept == {e \in edges : e.dst \notin Disabled}
              cut == {e \in kept : e.src \in Disabled}
              Via(e) == PassedOn(incoming, e.src, e.src_port)
          IN  /\ edges' = (kept \ cut) \cup
                          UNION {{[e EXCEPT !.src = f.src, !.src_port = f.src_port] : f \in Via(e)} :
                                 e \in cut}
              /\ errors' = errors \cup {<<e.dst, "upstream_disabled">> : e \in {c \in cut : Via(c) = {}}}
  /\ nodes' = [n \in DOMAIN nodes \ Disabled |-> nodes[n]]
  /\ stage' = "types"
  /\ UNCHANGED <<doc, quarantined, levels, todo, wiring, sorting, result>>
-----------------------------------------------------------------------------
(* compile: node types, edges, inputs and params *)

\* The nodes of a registered type (defs), which are the ones sorted (exec_nodes).
Defs == {n \in DOMAIN nodes : nodes[n].type \in DOMAIN Registry}

FindTypes ==
  /\ stage = "types"
  /\ errors' = errors \cup {<<n, "quarantined">> : n \in quarantined \cap DOMAIN nodes}
                      \cup {<<n, "unknown_node">> : n \in DOMAIN nodes \ Defs}
  /\ unwired' = edges
  /\ wired' = [n \in DOMAIN nodes |-> <<>>]
  /\ upstream_failed' = [n \in DOMAIN nodes |-> {}]
  /\ stage' = "wire"
  /\ UNCHANGED <<doc, quarantined, flat, bad_ports, sorting, result>>

\* The inputs of a node: its ports, and its linked params.
Accepts(n) ==
  LET spec == Registry[nodes[n].type]
      ports == {spec.inputs[i] : i \in DOMAIN spec.inputs}
  IN  [p \in nodes[n].linked \cap DOMAIN spec.params |->
         [type |-> spec.params[p].link_type, required |-> spec.params[p].required]]
      @@ [p \in {q.name : q \in ports} |->
            LET q == CHOOSE q \in ports : q.name = p
            IN  [type |-> q.type, required |-> q.required]]

Produces(n) == Registry[nodes[n].type].outputs

\* An edge with an end that is not a node: the other end, if it is, reports it.
Dangle(e) ==
  /\ stage = "wire" /\ e \in unwired
  /\ {e.src, e.dst} \ DOMAIN nodes # {}
  /\ errors' = errors \cup {<<n, "dangling_edge">> : n \in {e.src, e.dst} \cap DOMAIN nodes}
  /\ unwired' = unwired \ {e}
  /\ UNCHANGED <<doc, quarantined, stage, flat, wired, upstream_failed, bad_ports, sorting, result>>

\* An edge between two nodes, which are wired unless something forbids it.
Issue(e) ==
  IF e.src_port \notin DOMAIN Produces(e.src) \/ e.dst_port \notin DOMAIN Accepts(e.dst)
  THEN "unknown_port"
  ELSE IF e.dst_port \in DOMAIN wired[e.dst] THEN "multiple_inputs"
  ELSE IF ~IsCompatible(Produces(e.src)[e.src_port], Accepts(e.dst)[e.dst_port].type)
  THEN "type_mismatch"
  ELSE "none"

Wire(e) ==
  LET typed == {e.src, e.dst} \subseteq Defs
      issue == Issue(e)
  IN
  /\ stage = "wire" /\ e \in unwired
  /\ {e.src, e.dst} \subseteq DOMAIN nodes
  /\ upstream_failed' = [upstream_failed EXCEPT ![e.dst] = @ \cup {e.src}]
  /\ \/ /\ typed /\ issue = "none"
        /\ wired' = [wired EXCEPT ![e.dst] =
                      [p \in DOMAIN wired[e.dst] \cup {e.dst_port} |->
                         IF p = e.dst_port THEN <<e.src, e.src_port>> ELSE wired[e.dst][p]]]
        /\ UNCHANGED <<errors, bad_ports>>
     \/ /\ typed /\ issue # "none"
        /\ errors' = errors \cup {<<e.dst, issue>>}
        /\ bad_ports' = IF issue = "type_mismatch"
                        THEN bad_ports \cup {<<e.dst, e.dst_port>>} ELSE bad_ports
        /\ UNCHANGED wired
     \/ ~typed /\ UNCHANGED <<errors, wired, bad_ports>>
  /\ unwired' = unwired \ {e}
  /\ UNCHANGED <<doc, quarantined, stage, flat, sorting, result>>

\* _resolve_params
ParamIssues(n) ==
  LET known == Registry[nodes[n].type].params
      given == DOMAIN nodes[n].params
  IN  {"unknown_param" : p \in (given \cup nodes[n].linked) \ DOMAIN known}
      \cup {"missing_param" : p \in {q \in DOMAIN known \ (given \cup nodes[n].linked) :
                                       known[q].required}}
      \cup {"bad_param" : p \in {q \in (given \cap DOMAIN known) \ nodes[n].linked :
                                   nodes[n].params[q] = BadValue}}

Sources(n) == {wired[n][p][1] : p \in DOMAIN wired[n]}
Consumers(n) == {m \in Defs : n \in Sources(m)}

\* Mutant: the counter counts the wired ports, and a source releases a node once.
CheckInputsByPort ==
  /\ stage = "wire" /\ unwired = {}
  /\ indegree' = [n \in Defs |-> Cardinality({p \in DOMAIN wired[n] : wired[n][p][1] \in Defs})]
  /\ visiting' = {n \in Defs : Sources(n) \cap Defs = {}}
  /\ stage' = "seed"
  /\ UNCHANGED <<doc, quarantined, flat, errors, wiring, queue, order, result>>

CheckInputs ==
  LET Missing(n) == {p \in DOMAIN Accepts(n) \ DOMAIN wired[n] :
                       Accepts(n)[p].required /\ <<n, p>> \notin bad_ports}
  IN
  /\ stage = "wire" /\ unwired = {}
  /\ errors' = errors \cup {<<n, "missing_input">> : n \in {m \in Defs : Missing(m) # {}}}
                      \cup UNION {{<<n, issue>> : issue \in ParamIssues(n)} : n \in Defs}
  /\ indegree' = [n \in Defs |-> Cardinality(Sources(n) \cap Defs)]
  /\ visiting' = {n \in Defs : Sources(n) \cap Defs = {}}
  /\ stage' = "seed"
  /\ UNCHANGED <<doc, quarantined, flat, wiring, queue, order, result>>
-----------------------------------------------------------------------------
(* _topological *)

\* The next node of a loop over sorted ids.
IsNext(n) == n \in visiting /\ \A m \in visiting : Rank(n) <= Rank(m)

Seed(n) ==
  /\ stage = "seed" /\ IsNext(n)
  /\ queue' = Append(queue, n)
  /\ visiting' = visiting \ {n}
  /\ UNCHANGED <<doc, quarantined, stage, flat, errors, wiring, indegree, order, result>>

Pop ==
  /\ stage \in {"seed", "sort"} /\ visiting = {} /\ queue # <<>>
  /\ order' = Append(order, Head(queue))
  /\ queue' = Tail(queue)
  /\ visiting' = Consumers(Head(queue))
  /\ stage' = "sort"
  /\ UNCHANGED <<doc, quarantined, flat, errors, wiring, indegree, result>>

\* Mutant: a consumer joins the queue one source too early.
ReleaseEarly(n) ==
  /\ stage = "sort" /\ IsNext(n)
  /\ indegree' = [indegree EXCEPT ![n] = @ - 1]
  /\ queue' = IF indegree[n] = 2 THEN Append(queue, n) ELSE queue
  /\ visiting' = visiting \ {n}
  /\ UNCHANGED <<doc, quarantined, stage, flat, errors, wiring, order, result>>

Release(n) ==
  /\ stage = "sort" /\ IsNext(n)
  /\ indegree' = [indegree EXCEPT ![n] = @ - 1]
  /\ queue' = IF indegree[n] = 1 THEN Append(queue, n) ELSE queue
  /\ visiting' = visiting \ {n}
  /\ UNCHANGED <<doc, quarantined, stage, flat, errors, wiring, order, result>>

Stuck == Defs \ Elements(order)

EndSort ==
  /\ stage \in {"seed", "sort"} /\ visiting = {} /\ queue = <<>>
  /\ errors' = errors \cup {<<n, "cycle">> : n \in Stuck}
  /\ stage' = "assemble"
  /\ UNCHANGED <<doc, quarantined, flat, wiring, sorting, result>>
-----------------------------------------------------------------------------
(* compile: the loop over the order *)

Leads(n) == Sources(n) \cup upstream_failed[n]

\* Mutant: only the wired inputs hold a node back.
AdmitWired ==
  LET n == order[admitted + 1]
      down == Sources(n) \cap (Failed \cup blocked) # {}
  IN
  /\ stage = "assemble" /\ admitted < Len(order)
  /\ admitted' = admitted + 1
  /\ graph' = IF n \in Failed \/ down THEN graph ELSE Append(graph, n)
  /\ blocked' = IF n \notin Failed /\ down THEN blocked \cup {n} ELSE blocked
  /\ UNCHANGED <<doc, quarantined, stage, flat, errors, wiring, sorting>>

Admit ==
  LET n == order[admitted + 1]
      down == Leads(n) \cap (Failed \cup blocked) # {}
  IN
  /\ stage = "assemble" /\ admitted < Len(order)
  /\ admitted' = admitted + 1
  /\ graph' = IF n \in Failed \/ down THEN graph ELSE Append(graph, n)
  /\ blocked' = IF n \notin Failed /\ down THEN blocked \cup {n} ELSE blocked
  /\ UNCHANGED <<doc, quarantined, stage, flat, errors, wiring, sorting>>

Return ==
  /\ stage = "assemble" /\ admitted = Len(order)
  /\ stage' = "done"
  /\ UNCHANGED <<doc, quarantined, flat, errors, wiring, sorting, result>>

CompileNext ==
  \/ \E level \in todo : Flatten(level)
  \/ ResolveEdges \/ Bypass \/ FindTypes
  \/ \E e \in unwired : Dangle(e) \/ Wire(e)
  \/ CheckInputs
  \/ \E n \in visiting : Seed(n) \/ Release(n)
  \/ Pop \/ EndSort \/ Admit \/ Return

CompileSpec == CompileInit /\ [][CompileNext]_compileVars
-----------------------------------------------------------------------------
(* Properties *)

\* The order is one the scheduler may follow: every node comes once, and after
\* all the nodes its inputs come from (_topological).
OrderIsTopological ==
  \A i \in DOMAIN order :
    /\ \A j \in DOMAIN order : order[i] = order[j] => i = j
    /\ \A s \in Sources(order[i]) : \E j \in 1..(i - 1) : order[j] = s

\* The nodes the sort leaves out are the ones that really wait for each other:
\* each is fed by another of them, and there is no larger set like that.
\* (_topological; a node merely downstream of a cycle is among them)
StuckIsCyclic ==
  stage \in {"assemble", "done"} =>
    /\ \A n \in Stuck : Sources(n) \cap Stuck # {}
    /\ \A S \in SUBSET Defs : (\A n \in S : Sources(n) \cap S # {}) => S \subseteq Stuck

\* What is executable: a node is in the graph exactly when nothing is wrong with
\* it and everything an edge leads to it from is in the graph; the nodes
\* that are out and not at fault are the blocked ones (compile, ValidationErrors).
GraphIsWhatCanRun ==
  stage = "done" =>
    \A n \in DOMAIN nodes :
      /\ n \in Elements(graph) <=> n \notin Failed /\ Leads(n) \subseteq Elements(graph)
      /\ n \in blocked <=> n \notin Failed \cup Elements(graph)

\* What a pair of a node and an output stands for: an instance's output is an
\* inner one, and a disabled node's is what enters one of its inputs.
StandsFor(x) ==
  LET inner == {<<Append(x[1], l.outputs[x[2]].node), l.outputs[x[2]].port>> :
                  l \in {k \in levels : k.prefix = x[1] /\ x[2] \in DOMAIN k.outputs}}
      isDisabled == \E l \in levels : \E m \in DOMAIN l.nodes :
                      x[1] = Append(l.prefix, m) /\ l.nodes[m].disabled
      entering == {<<e.src, e.src_port>> :
                     e \in {d \in Drawn : Into(d)[1] = x[1] /\ isDisabled}}
  IN  inner \cup entering

\* Nothing drawn gets lost: a node of the graph has, on each input somebody drew
\* an edge to, a value from where that edge comes, followed through instances and
\* disabled nodes.  Not so when both ends are instances and the first has no such
\* output: that error is put on the second and nothing in it is held back
\* (_flatten, _Flat.resolve, _bypass_disabled).
InputsArrive ==
  stage = "done" =>
    \A e \in Drawn :
      LET to == Into(e)
          origins[k \in 0..(2 * MAX_SUBGRAPH_DEPTH + 3)] ==
            IF k = 0 THEN {<<e.src, e.src_port>>}
            ELSE origins[k - 1] \cup UNION {StandsFor(x) : x \in origins[k - 1]}
          real == {x \in origins[2 * MAX_SUBGRAPH_DEPTH + 3] : x[1] \in Elements(graph)}
      IN  \/ to[1] \notin Elements(graph)
          \/ to[2] \in DOMAIN wired[to[1]] /\ wired[to[1]][to[2]] \in real
          \/ {e.src, e.dst} \subseteq Instances /\ <<e.dst, "unknown_port">> \in errors
=============================================================================

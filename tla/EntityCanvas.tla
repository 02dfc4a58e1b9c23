---------------------------- MODULE EntityCanvas ----------------------------
(***************************************************************************)
(* The entity graph of the landing page                                    *)
(* (src/dashboard/components/canvas/EntityGraph3DVisualizer.tsx).  Three   *)
(* things run beside each other: handlers of the pointer and the controls, *)
(* which set React state; effects, which copy that state to where the      *)
(* animation reads it; and the animation loop, a closure over the nodes    *)
(* and edges of the render that started it.  The pointer is tested against *)
(* what the last frame has drawn, and the handlers get copies of nodes     *)
(* that were taken earlier.                                                *)
(*                                                                         *)
(* The camera (drag, zoom, orbit, full screen) only moves where a node is  *)
(* drawn, so any node of the last frame may be under the pointer.          *)
(***************************************************************************)
EXTENDS Naturals, FiniteSets

CONSTANTS
  Shown,      \* the nodes of the initial graph that an instance has
  Stamps,     \* the last three digits of Date.now()
  Filters,    \* what the search field and the type filter may hold
  NoFilter,
  None,       \* no node
  MaxLeaves   \* bound of the model: how many leaves a graph has

VARIABLES
  mounted,    \* the component is on the page
  nodes, edges, hovered, selected,   \* React state
  filter,     \* searchToken and typeFilter
  viewRef,    \* the view that the animation reads
  loops,      \* the closures whose next frame is requested
  projected,  \* projectedRef: the nodes of the last frame
  drawn       \* what the last frame shows

state == <<nodes, edges, hovered, selected, filter>>
vars == <<mounted, state, viewRef, loops, projected, drawn>>

(* INITIAL_GRAPH_NODES and INITIAL_GRAPH_EDGES; weights in quarters        *)
Root == "txn_root"
Hop1 == {"dev_91a2", "ip_7f12", "acct_9812", "card_4111"}
Hop2 == {"dev_3b7f", "card_8821", "ip_1104", "acct_0045"}
Link(a, b, w) == [from |-> <<a, 0>>, to |-> <<b, 0>>, weight |-> w]
GraphEdges ==
  {Link(Root, n, 4) : n \in Hop1}
  \cup {Link("dev_91a2", "dev_3b7f", 2), Link("dev_91a2", "card_8821", 2),
        Link("ip_7f12", "ip_1104", 2), Link("card_4111", "acct_0045", 2),
        Link("dev_3b7f", "card_8821", 1), Link("ip_1104", "acct_0045", 1)}

(* A node is its id, a token and a stamp, and a flag.  A leaf is named     *)
(* after the node it was made from: stamp 0 is a node of the initial graph.*)
Ids == Shown \X (Stamps \cup {0})
Node == [id : Ids, expanded : BOOLEAN]
Edge == [from : Ids, to : Ids, weight : {1, 2, 4}]

ASSUME CanvasAssumption ==
  /\ Shown \subseteq {Root} \cup Hop1 \cup Hop2
  /\ Stamps \subseteq Nat \ {0}
  /\ NoFilter \in Filters
  /\ MaxLeaves \in Nat
  /\ None \notin Node

HopOf(id) == IF id[2] # 0 THEN 3
             ELSE IF id[1] = Root THEN 0 ELSE IF id[1] \in Hop1 THEN 1 ELSE 2

(* "Weight Contribution" of the inspector                                  *)
WeightOf(hop) == IF hop = 0 THEN 4 ELSE IF hop = 1 THEN 2 ELSE 1

InitialNodes == {[id |-> <<t, 0>>, expanded |-> t = Root] : t \in Shown}
InitialEdges == {e \in GraphEdges : e.from[1] \in Shown /\ e.to[1] \in Shown}

IdsOf(ns) == {n.id : n \in ns}
Leaves == {n \in nodes : HopOf(n.id) = 3}

Graph == [nodes |-> nodes, edges |-> edges]
View == [hovered |-> hovered, selected |-> selected, filter |-> filter]

(* What is painted: the graph, with the hovered and the selected node      *)
(* marked and the ones that the filter excludes dimmed.                    *)
Picture(graph, view) == [graph |-> graph, view |-> view]

-----------------------------------------------------------------------------
(* The effects.  Those that a click or an input causes run before the      *)
(* browser does anything else: the mirror is refreshed and, when the graph *)
(* is a new one, the old loop is cancelled and a new one draws at once.    *)

(* Variant: the frame that was requested is not cancelled.                 *)
CleanupKeepsFrame(running, graph) == running
(* The cleanup of the animation effect                                     *)
Cleanup(running, graph) == running \ {graph}

(* Variant: the filter is missing among the dependencies of the effect.    *)
MirrorGraphOnly(view) == IF view.filter = viewRef.filter THEN view ELSE viewRef
(* viewRef.current = {...}                                                 *)
Mirrored(view) == view

GraphEffects ==
  /\ viewRef' = Mirrored(View')
  /\ loops' = Cleanup(loops, Graph) \cup {Graph'}
  /\ projected' = IdsOf(nodes')
  /\ drawn' = Picture(Graph', View')

ViewEffects ==
  /\ viewRef' = Mirrored(View')
  /\ UNCHANGED <<loops, projected, drawn>>

(* The effect of a pointer move runs at some later time.                   *)
LateEffects == UNCHANGED <<viewRef, loops, projected, drawn>>

Refresh == /\ mounted
           /\ viewRef' = Mirrored(View)
           /\ UNCHANGED <<mounted, state, loops, projected, drawn>>

(* render(): a requested frame draws what its closure has, in the view of  *)
(* the mirror, publishes the projection and requests the next one.         *)
Frame(g) ==
  /\ g \in loops
  /\ projected' = IdsOf(g.nodes)
  /\ drawn' = Picture(g, viewRef)
  /\ UNCHANGED <<mounted, state, viewRef, loops>>

-----------------------------------------------------------------------------
(* The handlers.                                                           *)

(* handleMouseMove: the first node under the pointer; the leave handler    *)
PointerMoves ==
  /\ mounted
  /\ hovered' \in {n \in nodes : n.id \in projected} \cup {None}
  /\ UNCHANGED <<mounted, nodes, edges, selected, filter>>
  /\ LateEffects

(* handleNodeClick for the copy n of a node                                *)
MayGrow(n) == ~n.expanded /\ HopOf(n.id) = 2

SetExpanded(ns, id, flag) ==
  {IF m.id = id THEN [m EXCEPT !.expanded = flag] ELSE m : m \in ns}
Toggled(ns, id) ==
  {IF m.id = id THEN [m EXCEPT !.expanded = ~@] ELSE m : m \in ns}

(* "3-Hop Expansion"                                                       *)
LeafWeight == 1

(* Variant: the new node is added to the constants, not to the state.      *)
GrowAfresh(n) == \E t \in Stamps :
  LET leaf == <<n.id[1], t>> IN
  /\ Cardinality(Leaves) < MaxLeaves
  /\ nodes' = SetExpanded(InitialNodes, n.id, TRUE)
              \cup {[id |-> leaf, expanded |-> FALSE]}
  /\ edges' = InitialEdges \cup {[from |-> n.id, to |-> leaf, weight |-> LeafWeight]}
Grow(n) == \E t \in Stamps :
  LET leaf == <<n.id[1], t>> IN
  /\ Cardinality(Leaves) < MaxLeaves
  /\ nodes' = SetExpanded(nodes, n.id, TRUE)
              \cup {[id |-> leaf, expanded |-> FALSE]}
  /\ edges' = edges \cup {[from |-> n.id, to |-> leaf, weight |-> LeafWeight]}

Toggle(n) == nodes' = Toggled(nodes, n.id) /\ UNCHANGED edges

ClickNode(n) ==
  /\ selected' = n
  /\ IF MayGrow(n) THEN Grow(n) ELSE Toggle(n)
  /\ UNCHANGED <<mounted, hovered, filter>>
  /\ GraphEffects

(* handleCanvasClick, which also ends a drag, and the inspector's button   *)
ClickCanvas == mounted /\ hovered # None /\ ClickNode(hovered)
ClickExpand == mounted /\ selected # None /\ ClickNode(selected)

CloseInspector ==
  /\ mounted
  /\ selected' = None
  /\ UNCHANGED <<mounted, nodes, edges, hovered, filter>>
  /\ ViewEffects

ChangeFilter ==
  /\ mounted
  /\ filter' \in Filters
  /\ UNCHANGED <<mounted, nodes, edges, hovered, selected>>
  /\ ViewEffects

(* Variant: the edges stay.                                                *)
ResetNodesOnly ==
  /\ mounted
  /\ nodes' = InitialNodes /\ UNCHANGED edges
  /\ selected' = None
  /\ UNCHANGED <<mounted, hovered, filter>>
  /\ GraphEffects
(* The button can be reached by the keyboard, with the pointer still over  *)
(* a node.                                                                 *)
Reset ==
  /\ mounted
  /\ nodes' = InitialNodes /\ edges' = InitialEdges
  /\ selected' = None
  /\ UNCHANGED <<mounted, hovered, filter>>
  /\ GraphEffects

(* The first render; leaving the landing page runs the cleanup.            *)
Blank == [hovered |-> None, selected |-> None, filter |-> NoFilter]

Renew == /\ mounted' = ~mounted
         /\ nodes' = InitialNodes /\ edges' = InitialEdges
         /\ hovered' = None /\ selected' = None /\ filter' = NoFilter
         /\ viewRef' = Blank
         /\ drawn' = Picture(Graph', Blank)

Mount == /\ ~mounted /\ Renew
         /\ projected' = IdsOf(nodes')
         /\ loops' = loops \cup {Graph'}

Unmount == /\ mounted /\ Renew
           /\ projected' = {}
           /\ loops' = Cleanup(loops, Graph)

-----------------------------------------------------------------------------
CanvasInit ==
  /\ mounted = FALSE
  /\ nodes = InitialNodes /\ edges = InitialEdges
  /\ hovered = None /\ selected = None /\ filter = NoFilter
  /\ viewRef = Blank
  /\ loops = {} /\ projected = {}
  /\ drawn = Picture(Graph, Blank)

CanvasNext ==
  \/ Mount \/ Unmount
  \/ PointerMoves \/ ClickCanvas \/ ClickExpand
  \/ CloseInspector \/ ChangeFilter \/ Reset
  \/ Refresh \/ \E g \in loops : Frame(g)

(* React runs the effect of every render, and the browser the frame that   *)
(* was requested; nobody has to move the pointer.                          *)
CanvasFairness == WF_vars(Refresh) /\ WF_vars(\E g \in loops : Frame(g))

CanvasSpec == CanvasInit /\ [][CanvasNext]_vars /\ CanvasFairness

-----------------------------------------------------------------------------
(* Types of the state, of its mirror and of what is drawn.                 *)
Views == [hovered : Node \cup {None}, selected : Node \cup {None}, filter : Filters]

CanvasTypeOK ==
  /\ mounted \in BOOLEAN
  /\ nodes \subseteq Node /\ edges \subseteq Edge
  /\ View \in Views /\ viewRef \in Views /\ drawn.view \in Views
  /\ projected \subseteq Ids

(* Whatever copy was clicked, however old, and whatever Reset dropped in   *)
(* between, no edge ends in a node that the graph does not have.           *)
EdgesJoinNodes ==
  \A e \in edges : {e.from, e.to} \subseteq IdsOf(nodes)

(* An edge weighs what the inspector says of the node it comes from, and   *)
(* goes at most one hop outward, so that nothing hangs on a leaf.          *)
WeightsMatchHops ==
  \A e \in edges : /\ e.weight = WeightOf(HopOf(e.from))
                   /\ HopOf(e.to) \in {HopOf(e.from), HopOf(e.from) + 1}

(* A copy that the pointer or the inspector holds can outlive its node     *)
(* only when it is a leaf, which a click makes nothing of.                 *)
OnlyLeavesGoStale ==
  \A n \in {hovered, selected} \ {None} : n.id \in IdsOf(nodes) \/ HopOf(n.id) = 3

(* The graph is one graph, and what React holds of it is of it, whatever   *)
(* was clicked, on copies of whatever age.                                 *)
GraphIsWhole ==
  CanvasTypeOK /\ EdgesJoinNodes /\ WeightsMatchHops /\ OnlyLeavesGoStale

(* One loop runs while the graph is on the page, with the current nodes    *)
(* and edges, and none after it: every restart cancels what it replaces.   *)
OneLoopOfTheGraph == loops = IF mounted THEN {Graph} ELSE {}

(* Until Reset, nothing that was revealed disappears, neither by a click   *)
(* on an old copy nor by collapsing a node.                                *)
Keeps == IdsOf(nodes) \subseteq IdsOf(nodes') /\ edges \subseteq edges'
NothingVanishes ==
  [][mounted /\ mounted' => Keeps \/ (Graph' = [nodes |-> InitialNodes,
                                                edges |-> InitialEdges]
                                      /\ selected' = None)]_vars

(* The picture is of the current graph at all times, and the animation     *)
(* reads the current selection and filter: only what the pointer is over   *)
(* may be older (EntityGraph3DVisualizer.tsx, the effects).                *)
OnlyHoverLags == /\ drawn.graph = Graph
                 /\ viewRef.selected = selected /\ viewRef.filter = filter

(* How far the picture is behind: an effect and a frame, a frame, nothing. *)
Lag == IF viewRef # View THEN 2 ELSE IF drawn # Picture(Graph, View) THEN 1 ELSE 0

(* While nothing is clicked or moved the picture never falls behind, an    *)
(* effect leaves it one frame behind at most, and the next frame closes    *)
(* the gap.                                                                *)
PictureComesNearer ==
  [][mounted /\ UNCHANGED <<mounted, state>> =>
       /\ Lag' <= Lag
       /\ Refresh => Lag' <= 1
       /\ (\E g \in loops : Frame(g)) /\ Lag <= 1 => Lag' = 0]_vars

(* Once the reader's hands are still, the picture shows the state.         *)
PictureCatchesUp ==
  (<>[][UNCHANGED <<mounted, state>>]_vars)
     => <>[](mounted => drawn = Picture(Graph, View))

=============================================================================

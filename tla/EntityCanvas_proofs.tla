------------------------ MODULE EntityCanvas_proofs ------------------------
(***************************************************************************)
(* Whatever part of the graph is shown and however many leaves it grows,   *)
(* its edges join its nodes, and one loop draws it.  The argument is one   *)
(* induction: a copy of a node that a handler was given is no longer of    *)
(* the graph only if it is a leaf, so a node that grows is still there.    *)
(***************************************************************************)
EXTENDS EntityCanvas, TLAPS

Copies == {hovered, selected} \ {None}

CanvasInv ==
  /\ CanvasTypeOK
  /\ InitialNodes \subseteq Node
  /\ IdsOf(InitialNodes) \subseteq IdsOf(nodes)
  /\ EdgesJoinNodes
  /\ WeightsMatchHops
  /\ OnlyLeavesGoStale
  /\ OneLoopOfTheGraph

-----------------------------------------------------------------------------
(* The graph as the page starts.                                           *)
LEMMA InitialIds ==
  /\ InitialNodes \subseteq Node
  /\ IdsOf(InitialNodes) = Shown \X {0}
  <1> DEFINE first(t) == [id |-> <<t, 0>>, expanded |-> t = Root]
  <1>1. \A t \in Shown : first(t).id = <<t, 0>> /\ first(t).id \in Ids
    BY DEF Ids
  <1>2. \A t \in Shown : first(t) \in Node
    <2> TAKE t \in Shown
    <2>1. (t = Root) \in BOOLEAN
      OBVIOUS
    <2> QED BY <1>1, <2>1 DEF Node
  <1>3. InitialNodes = {first(t) : t \in Shown}
    BY DEF InitialNodes
  <1> HIDE DEF first
  <1>4. IdsOf(InitialNodes) = {first(t).id : t \in Shown}
    BY <1>3 DEF IdsOf
  <1>5. {first(t).id : t \in Shown} = Shown \X {0}
    BY <1>1
  <1> QED BY <1>2, <1>3, <1>4, <1>5

LEMMA InitialGraph ==
  /\ InitialEdges \subseteq Edge
  /\ \A e \in InitialEdges : /\ {e.from, e.to} \subseteq IdsOf(InitialNodes)
                             /\ e.weight = WeightOf(HopOf(e.from))
                             /\ HopOf(e.to) \in {HopOf(e.from), HopOf(e.from) + 1}
  <1> SUFFICES ASSUME NEW e \in InitialEdges
               PROVE  /\ e \in Edge
                      /\ {e.from, e.to} \subseteq Shown \X {0}
                      /\ e.weight = WeightOf(HopOf(e.from))
                      /\ HopOf(e.to) \in {HopOf(e.from), HopOf(e.from) + 1}
    BY InitialIds
  <1>1. CASE \E n \in Hop1 : e = Link(Root, n, 4)
    BY <1>1, CanvasAssumption
       DEF InitialEdges, Link, Edge, Ids, HopOf, WeightOf, Root, Hop1, Hop2
  <1>2. CASE e \in {Link("dev_91a2", "dev_3b7f", 2), Link("dev_91a2", "card_8821", 2),
                    Link("ip_7f12", "ip_1104", 2), Link("card_4111", "acct_0045", 2)}
    BY <1>2, CanvasAssumption
       DEF InitialEdges, Link, Edge, Ids, HopOf, WeightOf, Root, Hop1, Hop2
  <1>3. CASE e \in {Link("dev_3b7f", "card_8821", 1), Link("ip_1104", "acct_0045", 1)}
    BY <1>3, CanvasAssumption
       DEF InitialEdges, Link, Edge, Ids, HopOf, WeightOf, Root, Hop1, Hop2
  <1> QED BY <1>1, <1>2, <1>3 DEF InitialEdges, GraphEdges

(* A click changes flags, never ids.                                       *)
LEMMA TogglingKeepsIds ==
  ASSUME NEW ns \in SUBSET Node, NEW id \in Ids
  PROVE  Toggled(ns, id) \subseteq Node /\ IdsOf(Toggled(ns, id)) = IdsOf(ns)
  <1>1. \A m \in ns : /\ (IF m.id = id THEN [m EXCEPT !.expanded = ~@] ELSE m) \in Node
                      /\ (IF m.id = id THEN [m EXCEPT !.expanded = ~@] ELSE m).id = m.id
    BY DEF Node
  <1> QED BY <1>1 DEF Toggled, IdsOf

LEMMA SettingKeepsIds ==
  ASSUME NEW ns \in SUBSET Node, NEW id \in Ids, NEW flag \in BOOLEAN
  PROVE  SetExpanded(ns, id, flag) \subseteq Node
         /\ IdsOf(SetExpanded(ns, id, flag)) = IdsOf(ns)
  <1>1. \A m \in ns : /\ (IF m.id = id THEN [m EXCEPT !.expanded = flag] ELSE m) \in Node
                      /\ (IF m.id = id THEN [m EXCEPT !.expanded = flag] ELSE m).id = m.id
    BY DEF Node
  <1> QED BY <1>1 DEF SetExpanded, IdsOf

-----------------------------------------------------------------------------
LEMMA CanvasInitial == CanvasInit => CanvasInv
  <1> SUFFICES ASSUME CanvasInit PROVE CanvasInv
    OBVIOUS
  <1>1. CanvasTypeOK
    BY InitialIds, InitialGraph, CanvasAssumption
       DEF CanvasInit, Picture, CanvasTypeOK, Views, View, Blank
  <1>2. EdgesJoinNodes /\ WeightsMatchHops
    BY InitialGraph DEF CanvasInit, EdgesJoinNodes, WeightsMatchHops
  <1>3. OnlyLeavesGoStale /\ OneLoopOfTheGraph
    BY DEF CanvasInit, OnlyLeavesGoStale, OneLoopOfTheGraph
  <1> QED BY <1>1, <1>2, <1>3, InitialIds DEF CanvasInv, CanvasInit

(* What a click on a copy does to nodes and edges.                         *)
LEMMA ClickKeepsGraph ==
  ASSUME CanvasInv, NEW n \in Copies, ClickNode(n)
  PROVE  /\ nodes' \subseteq Node /\ edges' \subseteq Edge
         /\ IdsOf(nodes) \subseteq IdsOf(nodes')
         /\ edges \subseteq edges'
         /\ EdgesJoinNodes' /\ WeightsMatchHops'
  <1>0. /\ nodes \in SUBSET Node /\ edges \subseteq Edge /\ n \in Node /\ n.id \in Ids
        /\ EdgesJoinNodes /\ WeightsMatchHops
        /\ n.id \in IdsOf(nodes) \/ HopOf(n.id) = 3
    BY DEF CanvasInv, CanvasTypeOK, Views, View, Copies, OnlyLeavesGoStale, Node
  <1>1. CASE ~MayGrow(n)
    <2>1. nodes' = Toggled(nodes, n.id) /\ edges' = edges
      BY <1>1 DEF ClickNode, Toggle
    <2>2. nodes' \subseteq Node /\ IdsOf(nodes') = IdsOf(nodes)
      BY <1>0, <2>1, TogglingKeepsIds
    <2> QED BY <1>0, <2>1, <2>2 DEF EdgesJoinNodes, WeightsMatchHops
  <1>2. CASE MayGrow(n)
    <2>1. PICK t \in Stamps :
            /\ nodes' = SetExpanded(nodes, n.id, TRUE)
                        \cup {[id |-> <<n.id[1], t>>, expanded |-> FALSE]}
            /\ edges' = edges \cup {[from |-> n.id, to |-> <<n.id[1], t>>,
                                     weight |-> LeafWeight]}
      BY <1>2 DEF ClickNode, Grow
    <2> DEFINE leaf == <<n.id[1], t>>
               edge == [from |-> n.id, to |-> leaf, weight |-> LeafWeight]
               node == [id |-> leaf, expanded |-> FALSE]
    <2>2. HopOf(n.id) = 2 /\ n.id \in IdsOf(nodes)
      BY <1>0, <1>2 DEF MayGrow
    <2>3. leaf \in Ids /\ HopOf(leaf) = 3
      BY <1>0, CanvasAssumption DEF Ids, HopOf
    <2>4. node \in Node /\ edge \in Edge
      BY <1>0, <2>3 DEF Node, Edge, LeafWeight
    <2>5. /\ SetExpanded(nodes, n.id, TRUE) \subseteq Node
          /\ IdsOf(SetExpanded(nodes, n.id, TRUE)) = IdsOf(nodes)
      BY <1>0, SettingKeepsIds
    <2>6. nodes' \subseteq Node /\ IdsOf(nodes') = IdsOf(nodes) \cup {leaf}
      <3>1. nodes' = SetExpanded(nodes, n.id, TRUE) \cup {node} /\ node.id = leaf
        BY <2>1
      <3> HIDE DEF node, leaf
      <3>2. IdsOf(nodes') = IdsOf(SetExpanded(nodes, n.id, TRUE)) \cup {leaf}
        BY <3>1 DEF IdsOf
      <3> QED BY <2>4, <2>5, <3>1, <3>2
    <2>7. EdgesJoinNodes'
      <3>1. edges' = edges \cup {edge} /\ edge.from = n.id /\ edge.to = leaf
        BY <2>1
      <3> HIDE DEF edge, leaf
      <3> QED BY <1>0, <2>2, <2>6, <3>1 DEF EdgesJoinNodes
    <2>8. edge.weight = WeightOf(HopOf(edge.from)) /\ HopOf(edge.to) = HopOf(edge.from) + 1
      BY <2>2, <2>3 DEF WeightOf, LeafWeight
    <2>9. WeightsMatchHops'
      <3> HIDE DEF edge
      <3>1. edges' = edges \cup {edge}
        BY <2>1 DEF edge
      <3> QED BY <1>0, <2>8, <3>1 DEF WeightsMatchHops
    <2> QED BY <1>0, <2>1, <2>4, <2>6, <2>7, <2>9
  <1> QED BY <1>1, <1>2

(* The effects that follow a new graph replace the loop.                   *)
LEMMA EffectsReplaceLoop ==
  ASSUME OneLoopOfTheGraph, mounted, mounted' = mounted, GraphEffects
  PROVE  OneLoopOfTheGraph'
  BY DEF OneLoopOfTheGraph, GraphEffects, Cleanup

LEMMA ClickPreserves ==
  ASSUME CanvasInv, mounted, NEW n \in Copies, ClickNode(n)
  PROVE  CanvasInv'
  <1>1. /\ nodes' \subseteq Node /\ edges' \subseteq Edge
        /\ IdsOf(nodes) \subseteq IdsOf(nodes')
        /\ EdgesJoinNodes' /\ WeightsMatchHops'
    BY ClickKeepsGraph
  <1>2. selected' = n /\ hovered' = hovered /\ filter' = filter /\ mounted' = mounted
    BY DEF ClickNode
  <1>3. View' \in Views
    BY <1>2 DEF CanvasInv, CanvasTypeOK, Views, View, Copies
  <1>4. IdsOf(nodes') \subseteq Ids
    BY <1>1 DEF IdsOf, Node
  <1>5. CanvasTypeOK'
    BY <1>1, <1>2, <1>3, <1>4
       DEF CanvasInv, CanvasTypeOK, ClickNode, GraphEffects, Picture, Mirrored
  <1>6. OnlyLeavesGoStale'
    BY <1>1, <1>2 DEF CanvasInv, OnlyLeavesGoStale, Copies
  <1>7. OneLoopOfTheGraph'
    BY <1>2, EffectsReplaceLoop DEF CanvasInv, ClickNode
  <1> QED BY <1>1, <1>5, <1>6, <1>7 DEF CanvasInv

LEMMA CanvasStep == CanvasInv /\ [CanvasNext]_vars => CanvasInv'
  <1> SUFFICES ASSUME CanvasInv, [CanvasNext]_vars PROVE CanvasInv'
    OBVIOUS
  <1> USE DEF CanvasInv
  <1>1. CASE Mount \/ Unmount
    <2>1. Renew
      BY <1>1 DEF Mount, Unmount
    <2>2. CanvasTypeOK'
      BY <1>1, <2>1, InitialIds, InitialGraph, CanvasAssumption
         DEF Mount, Unmount, Renew, Picture, CanvasTypeOK, Views, View, Blank, IdsOf, Node
    <2>3. EdgesJoinNodes' /\ WeightsMatchHops' /\ OnlyLeavesGoStale'
      BY <2>1, InitialGraph
         DEF Renew, EdgesJoinNodes, WeightsMatchHops, OnlyLeavesGoStale
    <2>4. OneLoopOfTheGraph'
      BY <1>1, <2>1 DEF Mount, Unmount, Renew, OneLoopOfTheGraph, Cleanup
    <2> QED BY <2>1, <2>2, <2>3, <2>4 DEF Renew
  <1>2. CASE PointerMoves
    <2>1. /\ UNCHANGED <<mounted, nodes, edges, selected, filter, viewRef, loops,
                         projected, drawn>>
          /\ hovered' \in nodes \cup {None}
      BY <1>2 DEF PointerMoves, LateEffects
    <2>2. CanvasTypeOK'
      BY <2>1 DEF CanvasTypeOK, Views, View
    <2>3. OnlyLeavesGoStale'
      BY <2>1 DEF OnlyLeavesGoStale, IdsOf
    <2> QED BY <2>1, <2>2, <2>3
            DEF EdgesJoinNodes, WeightsMatchHops, OneLoopOfTheGraph, Graph
  <1>3. CASE ClickCanvas
    BY <1>3, ClickPreserves DEF ClickCanvas, Copies
  <1>4. CASE ClickExpand
    BY <1>4, ClickPreserves DEF ClickExpand, Copies
  <1>5. CASE CloseInspector \/ ChangeFilter
    <2>1. /\ UNCHANGED <<mounted, nodes, edges, hovered, loops, projected, drawn>>
          /\ selected' \in {selected, None} /\ filter' \in Filters \cup {filter}
          /\ viewRef' = View'
      BY <1>5 DEF CloseInspector, ChangeFilter, ViewEffects, Mirrored
    <2>2. CanvasTypeOK'
      BY <2>1 DEF CanvasTypeOK, Views, View
    <2>3. OnlyLeavesGoStale'
      BY <2>1 DEF OnlyLeavesGoStale
    <2> QED BY <2>1, <2>2, <2>3
            DEF EdgesJoinNodes, WeightsMatchHops, OneLoopOfTheGraph, Graph
  <1>6. CASE Reset
    <2>1. /\ nodes' = InitialNodes /\ edges' = InitialEdges /\ selected' = None
          /\ UNCHANGED <<mounted, hovered, filter>> /\ GraphEffects /\ mounted
      BY <1>6 DEF Reset
    <2>2. CanvasTypeOK'
      BY <2>1, InitialIds, InitialGraph
         DEF CanvasTypeOK, Views, View, GraphEffects, Picture, Mirrored, IdsOf, Node
    <2>3. ASSUME hovered # None, HopOf(hovered.id) # 3
          PROVE  hovered.id \in IdsOf(InitialNodes)
      <3>1. hovered.id \in Ids
        BY <2>3 DEF CanvasTypeOK, Views, View, Node
      <3> QED BY <2>3, <3>1, InitialIds DEF HopOf, Ids
    <2>4. OnlyLeavesGoStale'
      BY <2>1, <2>3 DEF OnlyLeavesGoStale
    <2>5. OneLoopOfTheGraph'
      BY <2>1, EffectsReplaceLoop
    <2>6. EdgesJoinNodes' /\ WeightsMatchHops'
      BY <2>1, InitialGraph DEF EdgesJoinNodes, WeightsMatchHops
    <2> QED BY <2>1, <2>2, <2>4, <2>5, <2>6
  <1>7. CASE Refresh \/ \E g \in loops : Frame(g)
    <2>1. /\ UNCHANGED <<mounted, nodes, edges, hovered, selected, filter, loops>>
          /\ viewRef' \in {viewRef, View}
          /\ \/ UNCHANGED <<projected, drawn>>
             \/ \E g \in loops : projected' = IdsOf(g.nodes) /\ drawn'.view = viewRef
      BY <1>7 DEF Refresh, Frame, Picture, state, Mirrored
    <2>2. \A g \in loops : IdsOf(g.nodes) \subseteq Ids
      BY DEF OneLoopOfTheGraph, Graph, IdsOf, CanvasTypeOK, Node
    <2>3. CanvasTypeOK'
      BY <2>1, <2>2 DEF CanvasTypeOK, View
    <2> QED BY <2>1, <2>3
            DEF EdgesJoinNodes, WeightsMatchHops, OnlyLeavesGoStale,
                OneLoopOfTheGraph, Graph
  <1>8. CASE UNCHANGED vars
    BY <1>8 DEF vars, state, CanvasTypeOK, View, EdgesJoinNodes, WeightsMatchHops,
                OnlyLeavesGoStale, OneLoopOfTheGraph, Graph
  <1> QED BY <1>1, <1>2, <1>3, <1>4, <1>5, <1>6, <1>7, <1>8 DEF CanvasNext

(* The conjunction of the invariants and of what they rest on holds in     *)
(* every reachable state.                                                  *)
THEOREM CanvasCorrect == CanvasSpec => []CanvasInv
  BY CanvasInitial, CanvasStep, PTL DEF CanvasSpec

(* The graph stays well-formed, whichever copies of its nodes are clicked. *)
THEOREM GraphStaysWhole == CanvasSpec => []GraphIsWhole
<1>1. CanvasInv => GraphIsWhole
  BY DEF CanvasInv, GraphIsWhole
<1> QED BY <1>1, CanvasCorrect, PTL

(* One loop with the current graph while the page is mounted, none after.  *)
THEOREM LoopsNeverPileUp == CanvasSpec => []OneLoopOfTheGraph
  BY CanvasCorrect, PTL DEF CanvasInv

(* Nothing that was revealed disappears but by Reset.                      *)
THEOREM RevealedIsKept == CanvasSpec => NothingVanishes
  <1> DEFINE Step == mounted /\ mounted' =>
                       Keeps \/ (Graph' = [nodes |-> InitialNodes, edges |-> InitialEdges]
                                 /\ selected' = None)
  <1>1. ASSUME CanvasInv, [CanvasNext]_vars, mounted, mounted'
        PROVE  Step
    <2>1. ASSUME NEW n \in Copies, ClickNode(n)
          PROVE  Keeps
      BY <1>1, <2>1, ClickKeepsGraph DEF Keeps
    <2>2. CASE ClickCanvas \/ ClickExpand
      BY <2>1, <2>2 DEF ClickCanvas, ClickExpand, Copies
    <2>3. CASE Reset
      BY <2>3 DEF Reset, Graph
    <2>4. CASE \/ Mount \/ Unmount
      BY <1>1, <2>4 DEF Mount, Unmount, Renew
    <2>5. CASE \/ PointerMoves \/ CloseInspector \/ ChangeFilter \/ Refresh
               \/ UNCHANGED vars \/ \E g \in loops : Frame(g)
      BY <2>5 DEF PointerMoves, CloseInspector, ChangeFilter, Refresh, Frame,
                  LateEffects, ViewEffects, vars, state, Keeps
    <2> QED BY <1>1, <2>2, <2>3, <2>4, <2>5 DEF CanvasNext
  <1>2. CanvasInv /\ [CanvasNext]_vars => [Step]_vars
    BY <1>1
  <1> QED BY <1>2, CanvasCorrect, PTL DEF CanvasSpec, NothingVanishes

-----------------------------------------------------------------------------
(* Every handler but that of the pointer ends in an effect that refreshes  *)
(* the mirror, and every one that changes the graph draws it.              *)
LEMMA HoverStep ==
  ASSUME CanvasInv, OnlyHoverLags, [CanvasNext]_vars
  PROVE  OnlyHoverLags'
  <1>1. CASE Mount \/ Unmount
    BY <1>1 DEF Mount, Unmount, Renew, OnlyHoverLags, Picture, Graph, Blank
  <1>2. CASE PointerMoves
    BY <1>2 DEF PointerMoves, LateEffects, OnlyHoverLags, Graph
  <1>3. CASE ClickCanvas \/ ClickExpand \/ Reset
    BY <1>3 DEF ClickCanvas, ClickExpand, Reset, ClickNode, GraphEffects, OnlyHoverLags,
                Picture, Mirrored, View
  <1>4. CASE CloseInspector \/ ChangeFilter
    BY <1>4 DEF CloseInspector, ChangeFilter, ViewEffects, OnlyHoverLags, Mirrored,
                View, Graph
  <1>5. CASE Refresh
    BY <1>5 DEF Refresh, state, OnlyHoverLags, Mirrored, View, Graph
  <1>6. CASE \E g \in loops : Frame(g)
    <2>1. \A g \in loops : g = Graph
      BY DEF CanvasInv, OneLoopOfTheGraph
    <2> QED BY <1>6, <2>1 DEF Frame, state, OnlyHoverLags, Picture, Graph
  <1>7. CASE UNCHANGED vars
    BY <1>7 DEF vars, state, OnlyHoverLags, Graph
  <1> QED BY <1>1, <1>2, <1>3, <1>4, <1>5, <1>6, <1>7 DEF CanvasNext

(* No frame paints an old graph, and no effect is forgotten.               *)
THEOREM OnlyHoverIsLate == CanvasSpec => []OnlyHoverLags
  <1>1. CanvasInit => OnlyHoverLags
    BY DEF CanvasInit, OnlyHoverLags, Picture, Blank
  <1> QED BY <1>1, HoverStep, CanvasCorrect, PTL DEF CanvasSpec

(* A graph that is left alone is drawn as it is after one effect and one   *)
(* frame: what PictureCatchesUp adds is that both come.                    *)
THEOREM OneEffectOneFrame == CanvasSpec => PictureComesNearer
  <1> DEFINE Step == mounted /\ UNCHANGED <<mounted, state>> =>
                       /\ Lag' <= Lag
                       /\ Refresh => Lag' <= 1
                       /\ (\E g \in loops : Frame(g)) /\ Lag <= 1 => Lag' = 0
  <1>1. ASSUME CanvasInv, [CanvasNext]_vars, mounted, UNCHANGED <<mounted, state>>
        PROVE  Step
    <2>1. View' = View /\ Graph' = Graph
      BY <1>1 DEF state, View, Graph
    <2>2. /\ viewRef' = viewRef /\ drawn' = drawn => Lag' = Lag
          /\ viewRef' = View => Lag' <= 1
          /\ Lag \in 0..2 /\ Lag' \in 0..2
      BY <2>1 DEF Lag
    <2>3. CASE Refresh
      <3>1. viewRef' = View /\ drawn' = drawn /\ UNCHANGED <<state, projected>>
        BY <2>3 DEF Refresh, Mirrored
      <3>2. Lag' <= Lag
        BY <2>1, <3>1 DEF Lag
      <3>3. (\E g \in loops : Frame(g)) /\ Lag <= 1 => Lag' = 0
        <4> SUFFICES ASSUME NEW g \in loops, Frame(g), Lag <= 1 PROVE Lag' = 0
          OBVIOUS
        <4>1. g = Graph
          BY <1>1 DEF CanvasInv, OneLoopOfTheGraph
        <4>2. viewRef = View /\ viewRef' = viewRef /\ drawn' = Picture(Graph, viewRef)
          BY <4>1 DEF Lag, Frame
        <4> QED BY <2>1, <4>2 DEF Lag
      <3> QED BY <2>2, <3>1, <3>2, <3>3
    <2>4. ASSUME NEW g \in loops, Frame(g), ~Refresh
          PROVE  Step
      <3>1. /\ viewRef' = viewRef /\ drawn' = Picture(Graph, viewRef)
        BY <1>1, <2>4 DEF CanvasInv, OneLoopOfTheGraph, Frame
      <3>2. viewRef = View => Lag' = 0
        BY <2>1, <3>1 DEF Lag
      <3>3. viewRef # View => Lag = 2
        BY DEF Lag
      <3> QED BY <2>2, <2>4, <3>2, <3>3
    <2>5. CASE ~Refresh /\ ~(\E g \in loops : Frame(g))
      <3>1. \/ viewRef' = View'
            \/ viewRef' = viewRef /\ drawn' = drawn
        BY <1>1, <2>5 DEF CanvasNext, Mount, Unmount, Renew, PointerMoves, LateEffects,
           ClickCanvas, ClickExpand, ClickNode, GraphEffects, CloseInspector,
           ChangeFilter, ViewEffects, Reset, Mirrored, vars
      <3>2. drawn' = drawn \/ drawn' = Picture(Graph', View')
        BY <1>1, <2>5 DEF CanvasNext, Mount, Unmount, Renew, PointerMoves, LateEffects,
           ClickCanvas, ClickExpand, ClickNode, GraphEffects, CloseInspector,
           ChangeFilter, ViewEffects, Reset, vars
      <3>3. Lag' <= Lag
        BY <2>1, <3>1, <3>2 DEF Lag
      <3> QED BY <2>5, <3>3
    <2> QED BY <2>3, <2>4, <2>5
  <1>2. CanvasInv /\ [CanvasNext]_vars => [Step]_vars
    BY <1>1
  <1> QED BY <1>2, CanvasCorrect, PTL DEF CanvasSpec, PictureComesNearer

=============================================================================

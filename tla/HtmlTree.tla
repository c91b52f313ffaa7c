------------------------------- MODULE HtmlTree ------------------------------
(* langhuan:html as a script uses it: a parsed document, the selections its   *)
(* traversal methods build from it, and query strings (html.rs). A node is    *)
(* known by its place in the arena of the parser, which is the order nodes    *)
(* were made in and need not be that of the document: a misplaced node goes   *)
(* before nodes that are older. Selectors are a tag and, for a descendant     *)
(* combinator, the tag of some ancestor.                                      *)
EXTENDS Integers, Sequences, SequencesExt, FiniteSetsExt

CONSTANTS Selector,           \* [tag, below], or Broken
          Broken, Anything,   \* a selector that does not parse; no filter or ancestor asked for
          Safe, HexOf,        \* characters kept as they are; the two digits of the others
          Pairs,              \* lists of entries handed to encodeURIComponents
          Tag, MaxNodes       \* bounds of the model: tags below the root, nodes of a tree

Root == 1
VARIABLES
    tree,       \* [up, tag, kids]: parents by node, and children in order; the document is above Root
    document,   \* the input was parsed
    locked,     \* Document.dom, a Mutex that its owner may not lock again
    pending,    \* nodes of the selection that is being built
    nodes,      \* the roots the methods of the selection were given
    array,      \* what the script sees of it, which is an array of its own
    stage,      \* idle, build, stuck
    asked       \* the last call, with its roots and what it gave

htmlVars == <<tree, document, locked, pending, nodes, array, stage, asked>>

Order(n, later) == SetToSortSeq(n, LAMBDA a, b : IF later THEN a > b ELSE a < b)
Trees == {[up |-> up, tag |-> tag,
           kids |-> [n \in DOMAIN tag |-> Order({k \in DOMAIN up : up[k] = n}, n \in fostered)]] :
             up \in {f \in [2..MaxNodes -> 1..MaxNodes] : \A k \in DOMAIN f : f[k] < k},
             tag \in {<<"html">> \o f : f \in [1..MaxNodes - 1 -> Tag]},
             fostered \in {{}, 1..MaxNodes}}
WellFormed(t) == \A k \in DOMAIN t.up : t.tag[t.up[k]] \notin {"text", "br"}
                                        /\ (t.tag[t.up[k]] = "script" => t.tag[k] = "text")
NoCall == [op |-> "none", roots |-> <<>>, selector |-> Anything, gave |-> <<>>, failed |-> FALSE]
HtmlIdle == /\ document = FALSE /\ locked = FALSE
            /\ pending = <<>> /\ nodes = <<>> /\ array = <<>> /\ stage = "idle" /\ asked = NoCall
HtmlInit == tree \in {t \in Trees : WellFormed(t)} /\ HtmlIdle

-----------------------------------------------------------------------------
Nodes == DOMAIN tree.tag
IsElement(n) == tree.tag[n] # "text"
\* node.parent() as an element; the document above the root is none.
Parent(n) == IF n = Root THEN {} ELSE {tree.up[n]}
\* A node and what is below it, in the order of the document; below it without itself.
Subtree == LET walk[n \in Nodes] ==
                 <<n>> \o FlattenSeq([i \in DOMAIN tree.kids[n] |-> walk[tree.kids[n][i]]])
           IN walk
Positions == LET walk == Subtree[Root] IN [n \in Nodes |-> CHOOSE i \in DOMAIN walk : walk[i] = n]

\* scraper: a selector is matched against an element and all its ancestors.
RECURSIVE Ancestors(_)
Ancestors(n) == UNION {{p} \cup Ancestors(p) : p \in Parent(n)}
Selects(selector, n) ==
    /\ IsElement(n) /\ selector.tag \in {tree.tag[n], Anything}
    /\ selector.below # Anything => \E a \in Ancestors(n) : tree.tag[a] = selector.below
SelectIn(scope, selector) == SelectSeq(Tail(Subtree[scope]), LAMBDA n : Selects(selector, n))
SelectAll(selector) == SelectSeq([n \in Nodes |-> n], LAMBDA n : Selects(selector, n))

\* matches: a select in the parent element, or the document, that finds the node.
Matches(n, selector) ==
    n \in IF Parent(n) = {} THEN Range(SelectAll(selector))
          ELSE UNION {Range(SelectIn(p, selector)) : p \in Parent(n)}
Passes(n, filter) == filter = Anything \/ Matches(n, filter)
RECURSIVE ClosestId(_, _)
ClosestId(n, selector) ==
    IF IsElement(n) /\ Matches(n, selector) THEN <<n>>
    ELSE IF Parent(n) = {} THEN <<>> ELSE ClosestId(tree.up[n], selector)

\* Mutant: the order is that of the arena, not of the document.
UniqueSortedArena(ids) == SetToSortSeq(Range(ids), <)
UniqueSorted(ids) == SetToSortSeq(Range(ids), LAMBDA a, b : Positions[a] < Positions[b])
Merged(lists) == UniqueSorted(FlattenSeq(lists))
FindIds(roots, selector) ==
    Merged([i \in DOMAIN roots |-> IF IsElement(roots[i]) THEN SelectIn(roots[i], selector) ELSE <<>>])
ParentIds(roots, filter) ==
    Merged([i \in DOMAIN roots |-> SelectSeq(SetToSeq(Parent(roots[i])), LAMBDA p : Passes(p, filter))])
ChildrenIds(roots, filter) ==
    Merged([i \in DOMAIN roots |-> SelectSeq(tree.kids[roots[i]], LAMBDA k : IsElement(k) /\ Passes(k, filter))])
ClosestIds(roots, selector) == Merged([i \in DOMAIN roots |-> ClosestId(roots[i], selector)])

\* append_text: a line break for br; nothing of a script, even asked of itself.
AppendText == LET text[n \in Nodes] ==
                    IF tree.tag[n] = "script" THEN <<>>
                    ELSE (IF tree.tag[n] \in {"text", "br"} THEN <<n>> ELSE <<>>)
                         \o FlattenSeq([i \in DOMAIN tree.kids[n] |-> text[tree.kids[n][i]]])
              IN text

-----------------------------------------------------------------------------
Fixed == UNCHANGED <<tree, document>>
Asks(op, roots, selector, gave, failed) ==
    asked' = [op |-> op, roots |-> roots, selector |-> selector, gave |-> gave, failed |-> failed]
Throws(op, roots, selector) == Asks(op, roots, selector, <<>>, TRUE)
                               /\ UNCHANGED <<locked, pending, nodes, array, stage>>

\* HTML.parse; input that is empty or too long is refused.
Parse(accepted) ==
    /\ ~document /\ document' = accepted
    /\ UNCHANGED <<tree, locked, pending, nodes, array, stage, asked>>

\* The methods that build a selection: ids first, under the lock, then its nodes.
Selection(op, roots, selector, ids) ==
    IF selector = Broken THEN Throws(op, roots, selector)
    ELSE /\ locked' = FALSE /\ stage' = "build" /\ pending' = ids
         /\ Asks(op, roots, selector, ids, FALSE) /\ UNCHANGED <<nodes, array>>
Query(op, selector) ==
    /\ document /\ stage = "idle" /\ Fixed
    /\ \/ op = "document" /\ Selection(op, <<>>, selector, IF selector = Broken THEN <<>> ELSE UniqueSorted(SelectAll(selector)))
       \/ op = "find" /\ Selection(op, nodes, selector, IF selector = Broken THEN <<>> ELSE FindIds(nodes, selector))
       \/ op = "closest" /\ Selection(op, nodes, selector, IF selector = Broken THEN <<>> ELSE ClosestIds(nodes, selector))
Related(op, filter) ==
    /\ document /\ stage = "idle" /\ Fixed
    /\ \/ op = "parent" /\ Selection(op, nodes, filter, IF filter = Broken THEN <<>> ELSE ParentIds(nodes, filter))
       \/ op = "children" /\ Selection(op, nodes, filter, IF filter = Broken THEN <<>> ELSE ChildrenIds(nodes, filter))
\* build_selection: each node locks the document to read its tag.
Build == /\ stage = "build" /\ Fixed
         /\ IF locked /\ pending # <<>> THEN stage' = "stuck" /\ UNCHANGED <<nodes, array>>
            ELSE stage' = "idle" /\ nodes' = pending /\ array' = pending
         /\ pending' = <<>> /\ asked' = NoCall /\ UNCHANGED locked

\* eq, and first and last, read the array as it is; the rest of the script may shorten it.
Eq(index) ==
    /\ document /\ stage = "idle" /\ Fixed
    /\ LET at == IF index < 0 THEN index + Len(array) ELSE index
           node == IF at < 0 \/ at >= Len(array) THEN <<>> ELSE <<array[at + 1]>>
       IN Asks("eq", array, index, node, FALSE) /\ nodes' = node /\ array' = node
    /\ UNCHANGED <<locked, pending, stage>>
Pop == /\ stage = "idle" /\ array # <<>> /\ array' = Front(array) /\ asked' = NoCall
       /\ Fixed /\ UNCHANGED <<locked, pending, nodes, stage>>
\* each: the length is taken once; a callback may take elements away, or stop it.
Each(removed, stop) ==
    /\ document /\ stage = "idle" /\ array # <<>> /\ removed <= Len(array) - 1
    /\ LET left == SubSeq(array, 1, Len(array) - removed)
           ends == Min({stop, Len(array)})
       IN /\ array' = left
          /\ Asks("each", array, stop, SubSeq(left, 1, Min({ends, Len(left)})), ends > Len(left))
    /\ Fixed /\ UNCHANGED <<locked, pending, nodes, stage>>
Text == /\ document /\ stage = "idle" /\ Fixed
        /\ Asks("text", nodes, Anything, FlattenSeq([i \in DOMAIN nodes |-> AppendText[nodes[i]]]), FALSE)
        /\ UNCHANGED <<locked, pending, nodes, array, stage>>

\* percent_encode_component and encodeURIComponents; a script asks before it has a page.
Encoded(text) == FlattenSeq([i \in DOMAIN text |-> IF text[i] \in Safe THEN <<text[i]>> ELSE <<"%">> \o HexOf[text[i]]])
ArePairs(entries) == \A i \in DOMAIN entries : Len(entries[i]) = 2
QueryString(entries) ==
    FlattenSeq([i \in DOMAIN entries |-> (IF i = 1 THEN <<>> ELSE <<"&">>)
                                         \o Encoded(entries[i][1]) \o <<"=">> \o Encoded(entries[i][2])])
EncodeURIComponents(entries, known) ==
    /\ ~document /\ asked = NoCall /\ Fixed
    /\ LET refused == ~known \/ ~ArePairs(entries)
       IN Asks("encode", entries, Anything, IF refused THEN <<>> ELSE QueryString(entries), refused)
    /\ UNCHANGED <<locked, pending, nodes, array, stage>>

HtmlNext ==
    \/ \E accepted \in BOOLEAN : Parse(accepted)
    \/ \E op \in {"document", "find", "closest"}, selector \in Selector \cup {Broken} : Query(op, selector)
    \/ \E op \in {"parent", "children"}, filter \in Selector \cup {Broken, Anything} : Related(op, filter)
    \/ Build \/ Pop \/ Text
    \/ \E index \in -1..1 : Eq(index)
    \/ \E removed, stop \in 1..2 : Each(removed - 1, stop)
    \/ \E entries \in Pairs, known \in BOOLEAN : EncodeURIComponents(entries, known)

-----------------------------------------------------------------------------
(* Reference: the order of a document and the match of a selector, from the   *)
(* tree alone.                                                                *)
SelfAndAbove(n) == {n} \cup Ancestors(n)
Before(a, b) ==
    \/ a \in Ancestors(b)
    \/ \E x \in SelfAndAbove(a), y \in SelfAndAbove(b) :
         /\ x # y /\ x # Root /\ y # Root /\ tree.up[x] = tree.up[y]
         /\ \E i, j \in DOMAIN tree.kids[tree.up[x]] :
              i < j /\ tree.kids[tree.up[x]][i] = x /\ tree.kids[tree.up[x]][j] = y
InOrder(s) == \A i, j \in DOMAIN s : i < j => Before(s[i], s[j])
Meets(n, selector) == selector = Anything \/ Selects(selector, n)
\* The one of a set of nodes on one path to the root that is furthest from it.
Deepest(s) == {n \in s : \A m \in s : m \in SelfAndAbove(n)}

(* What a traversal gives is what jQuery's would: every element below one of  *)
(* the roots that the selector matches, every parent, every child, or for     *)
(* each root the nearest match from itself upwards, once each and in the      *)
(* order of the document, whatever order the parser made the nodes in. Text   *)
(* is that of the document below the roots, without scripts. No two lists of  *)
(* pairs make one query string. No method waits for the lock that it holds    *)
(* itself (html.rs).                                                          *)
TraversalTrue ==
    LET gave == Range(asked.gave)
        roots == Range(asked.roots)
        found == {n \in Nodes : IsElement(n) /\ Meets(n, asked.selector)}
    IN
    /\ stage # "stuck"
    /\ asked.op \in {"document", "find", "parent", "children", "closest"} /\ ~asked.failed =>
         /\ InOrder(asked.gave)
         /\ gave = CASE asked.op = "document" -> found
                     [] asked.op = "find" -> {n \in found : Ancestors(n) \cap roots # {}}
                     [] asked.op = "parent" -> {n \in found : \E r \in roots : n \in Parent(r)}
                     [] asked.op = "children" -> {n \in found : Parent(n) \cap roots # {}}
                     [] asked.op = "closest" -> UNION {Deepest(found \cap SelfAndAbove(r)) : r \in roots}
    /\ asked.op \in {"document", "find", "closest"} => (asked.failed <=> asked.selector = Broken)
    /\ asked.op = "text" =>
         /\ gave = {n \in Nodes : /\ tree.tag[n] \in {"text", "br"}
                                  /\ \E r \in roots \cap SelfAndAbove(n) :
                                       ~\E a \in SelfAndAbove(n) : tree.tag[a] = "script" /\ r \in SelfAndAbove(a)}
         /\ (\A r, s \in roots : r \notin Ancestors(s)) => InOrder(asked.gave)
    /\ asked.op = "each" =>
         asked.gave = SubSeq(asked.roots, 1, Len(asked.gave)) /\ (~asked.failed => Len(asked.gave) = Min({asked.selector, Len(asked.roots)}))
    /\ asked.op = "encode" /\ ~asked.failed =>
         \A other \in {e \in Pairs : ArePairs(e)} : QueryString(other) = asked.gave => other = asked.roots

=============================================================================

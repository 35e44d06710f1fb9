----------------------------- MODULE DraftTree ------------------------------
(***************************************************************************)
(* Draft trees for speculative decoding, experimental/tree_attention.py:   *)
(* growing a tree of candidate continuations, pruning it, and the mask     *)
(* under which every branch is scored at once.                             *)
(*                                                                         *)
(* Abstractions: probabilities are integers out of Certain; a product of   *)
(* d of them is scaled to the depth MaxDepth, to compare across depths.    *)
(* Node i of the code is node i + 1.                                       *)
(***************************************************************************)
EXTENDS Integers, SequencesExt

CONSTANTS
  Certain,              (* the probability 1                                *)
  RootToken, Draft,     (* draft_fn: last token -> [token, prob] from the   *)
                        (*   likeliest down                                 *)
  Widths, Levels,       (* arguments of expand_greedy                       *)
  MaxDepth, MaxNodes    (* bounds                                           *)

ASSUME DraftTreeAssumption ==
  /\ {Certain, MaxDepth, MaxNodes} \subseteq Nat \ {0} /\ Widths \cup Levels \subseteq Nat
  /\ RootToken \in DOMAIN Draft
  /\ \A t \in DOMAIN Draft : Draft[t] \in Seq([token : DOMAIN Draft, prob : 0..Certain])

VARIABLE nodes          (* the tree: [token, parent, depth, prob]           *)

treeVars == <<nodes>>

NoParent == 0

Root(token) == <<[token |-> token, parent |-> NoParent, depth |-> 0, prob |-> Certain]>>

Child(tree, parent, token, prob) ==
  [token |-> token, parent |-> parent, depth |-> tree[parent].depth + 1, prob |-> prob]

Added(tree, parent, token, prob) == Append(tree, Child(tree, parent, token, prob))

PathTo(tree, n) ==
  LET path[i \in DOMAIN tree] ==
        IF tree[i].parent = NoParent THEN <<i>> ELSE Append(path[tree[i].parent], i)
  IN path[n]

AttentionMask(tree) == [i \in DOMAIN tree |-> ToSet(PathTo(tree, i))]

PositionIds(tree) == [i \in DOMAIN tree |-> tree[i].depth]

(* mutant: a node is worth its own probability                             *)
OwnProbs(tree) == [i \in DOMAIN tree |-> tree[i].prob]

(* cumulative_probs(), scaled: that of the root, and of all nodes          *)
Whole ==
  LET power[d \in 0..MaxDepth] == IF d = 0 THEN 1 ELSE Certain * power[d - 1] IN power[MaxDepth]

CumulativeProbs(tree) ==
  LET product[i \in DOMAIN tree] ==
        IF tree[i].parent = NoParent THEN Whole
        ELSE (product[tree[i].parent] \div Certain) * tree[i].prob
  IN product

(* sorted(reverse=True), which is stable: what comes before a node; and    *)
(* the first so many                                                       *)
Ahead(scores, i) ==
  {j \in DOMAIN scores : scores[j] > scores[i] \/ (scores[j] = scores[i] /\ j < i)}

Best(tree, maxNodes) ==
  {i \in DOMAIN tree : Cardinality(Ahead(CumulativeProbs(tree), i)) < maxNodes} \cup {1}

(* What of them can be attached to its parent                              *)
Pruned(tree, maxNodes) ==
  LET keep == Best(tree, maxNodes)
      Attach(done, i) ==
        IF i \notin keep \ {1} \/ tree[i].parent \notin DOMAIN done.remap THEN done
        ELSE [tree |-> Added(done.tree, done.remap[tree[i].parent], tree[i].token, tree[i].prob),
              remap |-> [k \in DOMAIN done.remap \cup {i} |->
                           IF k = i THEN Len(done.tree) + 1 ELSE done.remap[k]]]
      upTo[i \in 0..Len(tree)] ==
        IF i = 0 THEN [tree |-> Root(tree[1].token), remap |-> [k \in {1} |-> 1]]
        ELSE Attach(upTo[i - 1], i)
  IN upTo[Len(tree)].tree

(* expand_greedy(): breadth first; drafts are of the path's last token     *)
Drafted(token, width) ==
  SubSeq(Draft[token], 1, IF width < Len(Draft[token]) THEN width ELSE Len(Draft[token]))

Grown(acc, node, width) ==
  LET drafts == Drafted(acc.tree[node].token, width)
  IN [tree |-> acc.tree \o [i \in DOMAIN drafts |-> Child(acc.tree, node, drafts[i].token, drafts[i].prob)],
      frontier |-> acc.frontier \o [i \in DOMAIN drafts |-> Len(acc.tree) + i]]

NextLevel(grown, width) ==
  LET after[n \in 0..Len(grown.frontier)] ==
        IF n = 0 THEN [tree |-> grown.tree, frontier |-> <<>>]
        ELSE Grown(after[n - 1], grown.frontier[n], width)
  IN after[Len(grown.frontier)]

Expanded(tree, width, levels) ==
  LET grown[level \in 0..levels] ==
        IF level = 0 THEN [tree |-> tree, frontier |-> <<1>>] ELSE NextLevel(grown[level - 1], width)
  IN grown[levels].tree

TreeInit == nodes = Root(RootToken)

(* The bounds                                                              *)
InBounds(tree) == Len(tree) <= MaxNodes /\ \A i \in DOMAIN tree : tree[i].depth <= MaxDepth

Add(parent, draft) ==
  /\ nodes' = Added(nodes, parent, draft.token, draft.prob)
  /\ InBounds(nodes')

Expand(width, levels) ==
  /\ nodes' = Expanded(nodes, width, levels)
  /\ InBounds(nodes')

Prune(maxNodes) == nodes' = Pruned(nodes, maxNodes)

TreeNext ==
  \/ \E n \in DOMAIN nodes : \E d \in ToSet(Draft[nodes[n].token]) : Add(n, d)
  \/ \E width \in Widths, levels \in Levels : Expand(width, levels)
  \/ \E maxNodes \in 0..Len(nodes) : Prune(maxNodes)

TreeSpec == TreeInit /\ [][TreeNext]_treeVars

-----------------------------------------------------------------------------
(* The branches to the nodes, told without node numbers                    *)
Branches(tree) ==
  [n \in DOMAIN tree |->
    LET path == PathTo(tree, n)
    IN [i \in DOMAIN path |-> [token |-> tree[path[i]].token, prob |-> tree[path[i]].prob]]]

Times(branches, branch) == Cardinality({n \in DOMAIN branches : branches[n] = branch})

(* Pruning keeps as many nodes as it is asked for, no branch there was not *)
(* before, and the likeliest: none is less likely than one that is lost.   *)
(* So it orphans nothing.  And what is left can be scored at once: a node  *)
(* sees its own path and nothing else, every position on it once.          *)
Spared(tree, pruned, limit) ==
  LET scores == CumulativeProbs(tree)
      before == Branches(tree)
      after == Branches(pruned)
      left == CumulativeProbs(pruned)
      lost == {n \in DOMAIN tree : Times(after, before[n]) < Times(before, before[n])}
      mask == AttentionMask(pruned)
      position == PositionIds(pruned)
  IN /\ Len(pruned) = IF limit = 0 THEN 1 ELSE IF limit < Len(tree) THEN limit ELSE Len(tree)
     /\ \A m \in DOMAIN pruned :
          /\ Times(after, after[m]) <= Times(before, after[m])
          /\ m > 1 => \A n \in lost : scores[n] <= left[m]
          /\ m \in mask[m] /\ {position[k] : k \in mask[m]} = 0..position[m]
          /\ Cardinality(mask[m]) = position[m] + 1
          /\ \A k \in mask[m] : mask[k] \subseteq mask[m]

PrunesLeastLikely == \A limit \in 0..(Len(nodes) + 1) : Spared(nodes, Pruned(nodes, limit), limit)
=============================================================================

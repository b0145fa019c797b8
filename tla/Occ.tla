-------------------------------- MODULE Occ --------------------------------
(***************************************************************************)
(* The optimistic integrator of cell/occ.go and cell/integrate.go:         *)
(* partition the branches into groups by the paths they touch (union-find),*)
(* fold each group by itself while the others fold too, then combine the   *)
(* group heads, either by a pairwise reduction or by overlaying the        *)
(* entries each of them changed.                                           *)
(*                                                                         *)
(* Branches are numbered in the order they are handed in.  The content of  *)
(* a path is the set of branches whose edits it holds, so a tree says of   *)
(* every path exactly what was merged into it.  Two edits of a path either *)
(* clash or git merges them; the resolver can settle some clashes.         *)
(***************************************************************************)
EXTENDS Integers, Sequences, FiniteSets, SequencesExt

CONSTANTS N,          \* number of branches
          Paths,
          EdgeChoices,\* pairs a semantic analysis may report
          EdgeMax,    \* bound: pairs it reports
          WriteMax,   \* bound: paths a branch touches
          ClashMax    \* bound: clashing pairs in a behaviour

Branch == 1..N
Trees  == [Paths -> SUBSET Branch]
Clashes == {c \in (SUBSET Branch) \X Paths : Cardinality(c[1]) = 2}

ASSUME OccAssumption == /\ N \in Nat /\ EdgeMax \in Nat /\ WriteMax \in Nat /\ ClashMax \in Nat
                        /\ EdgeChoices \subseteq Branch \X Branch

VARIABLES writeSet,   \* changes[i].WriteSet
          edges,      \* semantic edges, in the order they are reported
          clash,      \* edits of one path that git cannot merge
          resolvable, \* the clashes the resolver settles
          parent, rank, owner, todo, i,   \* partition
          groups,     \* a sequence of sets of branches, each folded in input order
          tree, landed, flagged, left,    \* each group's fold
          cur, next   \* the levels of combineDisjoint

inputs == <<writeSet, edges, clash, resolvable>>
finder == <<parent, rank, owner, todo, i>>
folds  == <<tree, landed, flagged, left>>
occVars == <<inputs, finder, groups, folds, cur, next>>

base == [p \in Paths |-> {}]

\* The tree of a branch: its own edits on the base.
tip(b) == [p \in Paths |-> IF p \in writeSet[b] THEN {b} ELSE {}]

-----------------------------------------------------------------------------
(* git merge-tree with the base as merge base, and what it cannot merge.    *)

clashes(ours, theirs) ==
    {c \in clash : \E a \in ours[c[2]], b \in theirs[c[2]] : c[1] = {a, b}}

MergeTree(ours, theirs) == [p \in Paths |-> ours[p] \union theirs[p]]

OverlayTrees(heads) ==
    [p \in Paths |-> LET changed == {k \in DOMAIN heads : heads[k][p] # {}}
                     IN  IF changed = {} THEN {}
                         ELSE heads[CHOOSE k \in changed : \A j \in changed : j <= k][p]]

\* One branch of fold: into the tree, or flagged.  A resolution must cover every
\* conflicted path.  The first branch to land is taken as it is.
Lands(acc, b, first) == first \/ clashes(acc, tip(b)) \subseteq resolvable

\* IntegrateNaive: every branch, one after the other.
naive[n \in 0..N] ==
    IF n = 0 THEN [tree |-> base, landed |-> {}]
    ELSE LET acc == naive[n - 1]
         IN  IF Lands(acc.tree, n, acc.landed = {})
             THEN [tree |-> MergeTree(acc.tree, tip(n)), landed |-> acc.landed \union {n}]
             ELSE acc

IntegrateNaive == naive[N]

-----------------------------------------------------------------------------
OccInit ==
    /\ writeSet \in [Branch -> {S \in SUBSET Paths : Cardinality(S) <= WriteMax}]
    /\ edges \in SeqOf(EdgeChoices, EdgeMax)
    /\ LET real == {c \in Clashes : \A b \in c[1] : c[2] \in writeSet[b]}
       IN  clash \in UNION {kSubset(k, real) : k \in 0..ClashMax}
    /\ resolvable \in SUBSET clash
    /\ parent = [b \in Branch |-> b] /\ rank = [b \in Branch |-> 0]
    /\ owner = [p \in Paths |-> 0]
    /\ i = 1 /\ todo = IF N > 0 THEN writeSet[1] ELSE {}
    /\ groups = << >>
    /\ tree = << >> /\ landed = << >> /\ flagged = << >> /\ left = << >>
    /\ cur = << >> /\ next = << >>

-----------------------------------------------------------------------------
(* partition                                                                *)

\* find halves the path it climbs; no branch is N turns below its root.
halve(at) == IF at.parent[at.root] = at.root THEN at
             ELSE LET up == at.parent[at.parent[at.root]]
                  IN  [root |-> up, parent |-> [at.parent EXCEPT ![at.root] = up]]

find(up, x) ==
    LET climb[n \in 0..N] == IF n = 0 THEN [root |-> x, parent |-> up] ELSE halve(climb[n - 1])
    IN  climb[N]

Union(a, b) ==
    LET fa == find(parent, a)
        fb == find(fa.parent, b)
        hi == IF rank[fa.root] < rank[fb.root] THEN fb.root ELSE fa.root
        lo == IF hi = fa.root THEN fb.root ELSE fa.root
    IN  IF fa.root = fb.root THEN parent' = fb.parent /\ UNCHANGED rank
        ELSE /\ parent' = [fb.parent EXCEPT ![lo] = hi]
             /\ rank' = [rank EXCEPT ![hi] = IF rank[hi] = rank[lo] THEN @ + 1 ELSE @]

\* The inverted index, a branch at a time, its paths in any order (a Go map).
Index ==
    /\ i <= N /\ todo # {}
    /\ \E p \in todo :
          /\ todo' = todo \ {p}
          /\ \/ owner[p] = 0 /\ owner' = [owner EXCEPT ![p] = i] /\ UNCHANGED <<parent, rank>>
             \/ owner[p] # 0 /\ Union(i, owner[p]) /\ UNCHANGED owner
    /\ UNCHANGED <<inputs, i, groups, folds, cur, next>>

NextBranch ==
    /\ i <= N /\ todo = {}
    /\ i' = i + 1
    /\ todo' = IF i < N THEN writeSet[i + 1] ELSE {}
    /\ UNCHANGED <<inputs, parent, rank, owner, groups, folds, cur, next>>

\* The semantic edges, on top of the paths' unions.
Edge ==
    /\ i > N /\ i <= N + Len(edges)
    /\ Union(edges[i - N][1], edges[i - N][2])
    /\ i' = i + 1
    /\ UNCHANGED <<inputs, owner, todo, groups, folds, cur, next>>

least(S) == CHOOSE b \in S : \A c \in S : b <= c

\* Groups in the order of their smallest member.
Bucket ==
    /\ i = N + Len(edges) + 1
    /\ LET members(r) == {b \in Branch : find(parent, b).root = r}
           buckets == {members(r) : r \in Branch} \ {{}}
       IN  \E gs \in [1..Cardinality(buckets) -> buckets] :
              /\ \A B \in buckets : \E k \in DOMAIN gs : gs[k] = B
              /\ \A j, k \in DOMAIN gs : j < k => least(gs[j]) < least(gs[k])
              /\ groups' = gs
    /\ i' = i + 1
    /\ tree' = [k \in DOMAIN groups' |-> base]
    /\ landed' = [k \in DOMAIN groups' |-> {}]
    /\ flagged' = [k \in DOMAIN groups' |-> {}]
    /\ left' = groups'
    /\ UNCHANGED <<inputs, parent, rank, owner, todo, cur, next>>

-----------------------------------------------------------------------------
(* The parallel folds and the combine.                                      *)

\* (mutant: a conflict is resolved when some of its paths are)
FoldPartly(g) ==
    /\ left[g] # {}
    /\ LET b == least(left[g])
       IN  \/ /\ Lands(tree[g], b, landed[g] = {})
                 \/ clashes(tree[g], tip(b)) \intersect resolvable # {}
              /\ tree' = [tree EXCEPT ![g] = MergeTree(@, tip(b))]
              /\ landed' = [landed EXCEPT ![g] = @ \union {b}] /\ UNCHANGED flagged
           \/ /\ ~Lands(tree[g], b, landed[g] = {})
              /\ flagged' = [flagged EXCEPT ![g] = @ \union {b}] /\ UNCHANGED <<tree, landed>>
    /\ left' = [left EXCEPT ![g] = @ \ {least(@)}]
    /\ UNCHANGED <<inputs, finder, groups, cur, next>>

Fold(g) ==
    /\ left[g] # {}
    /\ LET b == least(left[g])
       IN  \/ /\ Lands(tree[g], b, landed[g] = {})
              /\ tree' = [tree EXCEPT ![g] = MergeTree(@, tip(b))]
              /\ landed' = [landed EXCEPT ![g] = @ \union {b}] /\ UNCHANGED flagged
           \/ /\ ~Lands(tree[g], b, landed[g] = {})
              /\ flagged' = [flagged EXCEPT ![g] = @ \union {b}] /\ UNCHANGED <<tree, landed>>
    /\ left' = [left EXCEPT ![g] = @ \ {least(@)}]
    /\ UNCHANGED <<inputs, finder, groups, cur, next>>

Folded == groups # << >> /\ \A g \in DOMAIN left : left[g] = {}

StartCombine ==
    /\ Folded /\ cur = << >>
    /\ cur' = tree /\ next' = [k \in 1..((Len(tree) + 1) \div 2) |-> <<>>]
    /\ UNCHANGED <<inputs, finder, groups, folds>>

\* One pair of a level; the odd one out carries up unchanged.
Pair(k) ==
    /\ Len(cur) > 1 /\ k \in DOMAIN next /\ next[k] = << >>
    /\ LET a == cur[2 * k - 1]
           b == IF 2 * k <= Len(cur) THEN cur[2 * k] ELSE base
       IN  clashes(a, b) = {} /\ next' = [next EXCEPT ![k] = <<MergeTree(a, b)>>]
    /\ UNCHANGED <<inputs, finder, groups, folds, cur>>

Level ==
    /\ Len(cur) > 1 /\ \A k \in DOMAIN next : next[k] # << >>
    /\ cur' = [k \in DOMAIN next |-> next[k][1]]
    /\ next' = [k \in 1..((Len(next) + 1) \div 2) |-> << >>]
    /\ UNCHANGED <<inputs, finder, groups, folds>>

Combined == Len(cur) = 1

OccDone == Combined /\ UNCHANGED occVars

OccNext == \/ Index \/ NextBranch \/ Edge \/ Bucket
        \/ \E g \in DOMAIN groups : Fold(g)
        \/ StartCombine \/ (\E k \in DOMAIN next : Pair(k)) \/ Level
        \/ OccDone

OccSpec == OccInit /\ [][OccNext]_occVars

-----------------------------------------------------------------------------
(* Properties.                                                              *)

\* Ranks grow towards the root, so that find ends; every branch is in one place of its fold.
OccTypeOK ==
    /\ parent \in [Branch -> Branch] /\ rank \in [Branch -> Nat]
    /\ \A b \in Branch : parent[b] = b \/ rank[b] < rank[parent[b]]
    /\ owner \in [Paths -> 0..N] /\ todo \in SUBSET Paths /\ i \in Nat
    /\ \A g \in DOMAIN groups :
          /\ tree[g] \in Trees
          /\ landed[g] \union flagged[g] \union left[g] = groups[g]
          /\ landed[g] \intersect flagged[g] = {}

\* What the combine counts on ("Must not happen: OCC guarantees group heads are
\* disjoint", integrate.go:524): at every level no two heads hold edits of one path, so
\* that no merge of two of them conflicts, and overlaying them overwrites nothing.
HeadsDisjoint ==
    \A j, k \in DOMAIN cur : j # k =>
        /\ clashes(cur[j], cur[k]) = {}
        /\ \A p \in Paths : cur[j][p] = {} \/ cur[k][p] = {}

Landed == UNION {landed[g] : g \in DOMAIN landed}

\* The parallel engine lands what the serial one lands, with the same tree, by
\* either way of combining; and that tree holds the edits of exactly the branches
\* it reports as landed.
AgreesWithSerial ==
    Combined =>
        /\ Landed = IntegrateNaive.landed
        /\ cur[1] = IntegrateNaive.tree
        /\ cur[1] = OverlayTrees(tree)
        /\ \A p \in Paths : cur[1][p] = {b \in Landed : p \in writeSet[b]}
=============================================================================

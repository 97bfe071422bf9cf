----------------------------- MODULE ProductTrees -----------------------------
(***************************************************************************)
(* The binary trees of the Wilson consumers (build_factor_polynomial and   *)
(* build_evaluation_tree): a node is a range of numbers <<begin, end>>, a  *)
(* leaf is a range of one, and the polynomial of a node is the product of  *)
(* its halves'.                                                            *)
(***************************************************************************)
EXTENDS PolynomialRing

Middle(b, e) == b + (e - b) \div 2
IsLeaf(v)    == v[2] - v[1] = 1
Left(v)      == <<v[1], Middle(v[1], v[2])>>
Right(v)     == <<Middle(v[1], v[2]), v[2]>>

\* The ranges within a range.
Within(root) == {v \in (root[1] .. root[2]) \X (root[1] .. root[2]) : v[1] < v[2]}

Nodes(root) ==
  LET below[v \in Within(root)] ==
        {v} \cup IF IsLeaf(v) THEN {} ELSE below[Left(v)] \cup below[Right(v)]
  IN  below[root]

\* The polynomial of a node of k leaves has k + 1 coefficients.
NodeRefused(v, policy) ==
  LET left == Left(v)  right == Right(v)
  IN  ProductRefused(left[2] - left[1] + 1, right[2] - right[1] + 1, policy)

TreeRefused(root, policy) ==
  \E v \in Nodes(root) : ~IsLeaf(v) /\ NodeRefused(v, policy)

ProductTree(leaf, root, m) ==
  LET product[v \in Within(root)] ==
        IF IsLeaf(v) THEN leaf[v[1]] ELSE Product(product[Left(v)], product[Right(v)], m)
  IN  product[root]

\* X + i + 1 for every number of the range.
FactorLeaves(root, m) == [i \in root[1] .. root[2] - 1 |-> <<(i + 1) % m, 1>>]

\* The point of a block, and for a range of blocks the leaves that vanish at
\* their points.
PointOf(b, width, m) == (b * width) % m
VanishingLeaves(root, width, m) ==
  [b \in root[1] .. root[2] - 1 |-> <<(m - PointOf(b, width, m)) % m, 1>>]

CeilRoot(v) == CHOOSE r \in 0 .. v : r * r >= v /\ (r = 0 \/ (r - 1) * (r - 1) < v)
===============================================================================

------------------------------ MODULE GermAudits -------------------------------
(***************************************************************************)
(* The audit of a materialized germ (the end of                            *)
(* afac62/self_closure_germ.hpp): evaluated at a root of unity of exact    *)
(* period e the germ first shows at degree cycles * order / e, with a      *)
(* coefficient known in advance.                                           *)
(***************************************************************************)
EXTENDS CyclicProbe

\* evaluate_cyclic_column_at
ColumnAt(column, eigenvalue, modulus) ==
  MapThenSumSet(LAMBDA i : (column[i] * PowMod(eigenvalue, i, modulus)) % modulus, DOMAIN column)
    % modulus

\* mode_exact_period_audit
ExactPeriod(order, mode) == IF mode = 0 THEN 1 ELSE order \div Gcd(order, mode)

\* factorial_mod_audit
FactorialModAudit(n, modulus) ==
  FoldSet(LAMBDA k, value : (value * (k % modulus)) % modulus, 1, 2..n)

\* Variant: the factors that vanish contribute the period, the others nothing.
LeadingCoefficientOnce(period, valuation, modulus) ==
  LET magnitude == (PowMod(period % modulus, valuation, modulus)
                      * FactorialModAudit(valuation, modulus)) % modulus
  IN  IF valuation % 2 = 1 /\ magnitude # 0 THEN modulus - magnitude ELSE magnitude

\* expected_leading_jet_coefficient_audit
LeadingCoefficient(period, valuation, modulus) ==
  LET magnitude == (PowMod(period % modulus, 2 * valuation, modulus)
                      * FactorialModAudit(valuation, modulus)) % modulus
  IN  IF valuation % 2 = 1 /\ magnitude # 0 THEN modulus - magnitude ELSE magnitude

\* first_nonzero_jet_degree_audit, beyond the tensor if there is none.
FirstNonzeroDegree(tensor, eigenvalue, modulus) ==
  LET visible == {d \in DOMAIN tensor : ColumnAt(tensor[d], eigenvalue, modulus) # 0}
  IN  IF visible = {} THEN Cardinality(DOMAIN tensor) ELSE Min(visible)

-------------------------------------------------------------------------------
(* Reference definitions *)

\* An element of an order in the multiplicative group of a prime field.
PrimitiveRoot(order, p) ==
  CHOOSE w \in 1 .. p - 1 :
    /\ PowMod(w, order, p) = 1
    /\ \A k \in 1 .. order - 1 : PowMod(w, k, p) # 1

\* Every mode of a germ is as the audit expects it.
ModesAsExpected(germ) ==
  LET root == PrimitiveRoot(germ.order, germ.modulus)
  IN  \A mode \in Column(germ.order) :
        LET eigenvalue == PowMod(root, mode, germ.modulus)
            period     == ExactPeriod(germ.order, mode)
            valuation  == germ.cycles * (germ.order \div period)
            degree     == FirstNonzeroDegree(germ.tensor, eigenvalue, germ.modulus)
        IN  /\ degree = Smaller(valuation, germ.jet_order + 1)
            /\ degree <= germ.jet_order =>
                 ColumnAt(germ.tensor[degree], eigenvalue, germ.modulus)
                   = LeadingCoefficient(period, valuation, germ.modulus)
===============================================================================

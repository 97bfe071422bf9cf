-------------------------- MODULE MCHighDimensional --------------------------
(***************************************************************************)
(* HighDimensional for TLC.  Coefficients of three bits, counters up to    *)
(* three, uneven among themselves.  Composed functors of up to three       *)
(* instructions in one branch; families of up to three branches with       *)
(* weights that cancel, add up and leave the type; inputs with repeated    *)
(* words, whose products meet.                                             *)
(***************************************************************************)
EXTENDS HighDimensional

T == INSTANCE TriClassArithmetic
M == INSTANCE MazeFunctors

a == <<1>>
aa == <<1, 1>>
b == <<2>>
Axis(set, coefficient) == [w \in set |-> coefficient]

Values == {
  T!Ordinary(1), T!Ordinary(-1), T!Ordinary(2), T!Ordinary(3), T!Ordinary(-4), T!Ordinary(0),
  T!History(1, 1), T!History(2, -4), T!Singular(1, 2),
  T!Exact(1, Axis({a, aa}, 1), T!NoTerms),
  T!Exact(-1, Axis({a}, 3) , Axis({a, b}, -1))}

Instructions == [opcode : {"HAdd", "HSub", "HMul", "HDiv"}, operand : Values]

\* Another frame; then the epoch, the depth or the generation of an ordinary
\* input is the first counter to reach its limit.
Places == {M!Address(1, 2, 0, 0, 0), M!Address(1, 1, 2, 0, 0), M!Address(1, 1, 0, 2, 1),
           M!Address(1, 1, 1, 0, 3)}

MCInputs ==
  {M!UploadComplete(v, M!Address(1, 1, 0, 0, 0)) : v \in
     {T!Ordinary(2), T!Ordinary(-4), T!History(1, -4),
      T!Exact(2, Axis({a}, 1), T!NoTerms),
      T!Exact(0, Axis({a, aa}, -1), Axis({b}, 2))}}
  \cup {M!UploadComplete(T!Ordinary(1), p) : p \in Places}

MCOthers ==
  {M!UploadComplete(T!Singular(2, 1), p) : p \in Places}

Branch(weight, after, before) == [weight |-> weight, after |-> after, before |-> before]

I(opcode, value) == [opcode |-> opcode, operand |-> value]
Few == {<<>>, <<I("HAdd", T!Ordinary(0))>>, <<I("HMul", T!Ordinary(-1))>>}
Weights == {-4, -1, 0, 1, 3}

Composites ==
  {Branch(1, <<i>>, <<j>>) : i, j \in Instructions}
  \cup {Branch(1, <<i>>, <<j, k>>) :
          i \in {I("HMul", T!Singular(1, 2)), I("HDiv", T!Ordinary(2)), I("HSub", T!Ordinary(1))},
          j, k \in Instructions}

MCFamilies ==
  {<< <<>>, <<f>> >> : f \in Composites}
  \cup {<< <<Branch(u, f, <<>>)>>, <<Branch(v, g, <<>>), Branch(w, h, <<>>)>> >> :
          u, v, w \in Weights, f, g, h \in Few}

MCTensors ==
  {[rows |-> 2, columns |-> 2, coefficients |-> <<p, q, r, s>>] :
     p, q, r, s \in {-4, -2, -1, 0, 1, 2, 3}}
  \cup {[rows |-> 3, columns |-> 2, coefficients |-> <<p, q, 0, 0, r, s>>] :
          p, q, r, s \in {-2, 0, 1, 2}}
  \cup {[rows |-> 0, columns |-> 2, coefficients |-> <<>>],
        [rows |-> 2, columns |-> 2, coefficients |-> <<1, 2, 3>>]}

MCFactors ==
  {<<f, g>> : f \in {<<>>, <<1, -2>>, <<-4, 0>>, <<0, 2, 1>>},
              g \in {<<3, -1>>, <<1, -1>>, <<2, 2>>, <<-1>>, <<>>}}
===============================================================================

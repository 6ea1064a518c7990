------------------------------- MODULE MCLICM -------------------------------
(***************************************************************************)
(* Functions of three instructions for LICM: the first one stays where it  *)
(* is, the others compute.  They may be in any block of a loop in a loop,  *)
(* of a loop that follows another one, or of a loop with two ways in.      *)
(***************************************************************************)
EXTENDS LICM

MCInstr == 1..3

Shapes ==
  {<<{2}, {3}, {3, 4}, {2, 5}, {}>>,
   <<{2}, {2, 3}, {4}, {3, 5}, {}>>,
   <<{2, 3}, {4}, {4}, {4, 5}, {}>>}

MCGraphs == {Built([b \in Block |-> s[b]]) : s \in Shapes}

\* Instructions of one block stand in the order of their numbers.
CodeAt(place) == [b \in Block |-> SelectSeq(<<1, 2, 3>>, LAMBDA v : place[v] = b)]

\* Values are defined before they are used on every path.
WellFormed(g, l, r, place) ==
  \A w \in 2..3 : \A v \in {l[w], r[w]} \ {Literal} :
    place[v] # place[w] => place[w] \in DominatedBy[g][place[v]]

Functions(k, l, r) ==
  {[graph |-> g, kind |-> k, lhs |-> l, rhs |-> r, code |-> CodeAt(place)] :
     <<g, place>> \in {gp \in MCGraphs \X [MCInstr -> Block] : WellFormed(gp[1], l, r, gp[2])}}

B == "binary"
U == "unary"
Computes ==
  {<<<<"other", B, B>>, <<0, 1, 2>>, <<0, 0, 0>>>>, <<<<"other", B, B>>, <<0, 0, 1>>, <<0, 0, 2>>>>,
   <<<<"other", B, B>>, <<0, 0, 0>>, <<0, 1, 2>>>>, <<<<"other", U, B>>, <<0, 1, 1>>, <<0, 0, 2>>>>,
   <<<<"other", B, U>>, <<0, 1, 2>>, <<0, 0, 0>>>>, <<<<"other", U, U>>, <<0, 0, 2>>, <<0, 0, 0>>>>}

MCPrograms == UNION {Functions(c[1], c[2], c[3]) : c \in Computes}

\* while (i < 10) i = i + 1; the first instruction is the phi node for i.
While == Built([b \in Block |-> <<{2}, {3, 4}, {2}, {5}, {}>>[b]])
WhileGraphs == {While}
CountingLoop ==
  {[graph |-> While, kind |-> <<"other", B, B>>, lhs |-> <<0, 1, 1>>, rhs |-> <<0, 0, 0>>,
    code |-> <<<<>>, <<1, 2>>, <<3>>, <<>>, <<>>>>]}
=============================================================================

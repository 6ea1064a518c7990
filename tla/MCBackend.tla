------------------------------ MODULE MCBackend ------------------------------
(***************************************************************************)
(* Small functions for the register allocator and the backend.             *)
(***************************************************************************)
EXTENDS Backend

CONSTANTS Values,     \* values of the straight-line functions
          MaxLen      \* instructions of the functions in SSA form

MCValue == 1..MaxLen

Few(S, n) == {s \in SUBSET S : Cardinality(s) <= n}

-----------------------------------------------------------------------------
(* Instruction sequences for the allocator alone.                          *)

\* Every sequence of instructions, one for each of the values, where an
\* instruction mentions at most two of them.  The numbers of the values only
\* break ties: the first instruction mentions 1 or 2, or none.
Mentioning(m) == [defs |-> {}, uses |-> m, succ |-> {}]
StraightLine ==
  {s \in [1..Cardinality(Values) -> {Mentioning(m) : m \in Few(Values, 2)}] :
     s[1].uses \in {{}, {1}, {1, 2}, {2, 3}}}

\* Three values from the first instruction on, and two that come later.
Crowded ==
  {<<Mentioning({1, 2, 3})>> \o middle \o <<Mentioning(last)>> :
     middle \in [1..3 -> {Mentioning(m) : m \in Few({3, 4, 5}, 2)}],
     last \in SUBSET {1, 2, 3}}

\* Functions in SSA form: the i-th instruction defines the i-th value, uses at
\* most one defined before it in the text, and falls through, jumps or branches
\* to a later instruction.
InstructionAt(i) ==
  {[defs |-> {i}, uses |-> u, succ |-> s] :
     u \in Few(1..i - 1, 1),
     s \in IF i = MaxLen THEN {{}}
           ELSE {{t} : t \in i + 1..MaxLen} \cup {{i + 1, t} : t \in i + 1..MaxLen}}

RECURSIVE Sequences(_)
Sequences(n) ==
  IF n = 0 THEN {<<>>}
  ELSE {Append(p, inst) : p \in Sequences(n - 1), inst \in InstructionAt(n)}

ForwardFunctions == {p \in Sequences(MaxLen) : DefinitionsReachUses(p)}

-----------------------------------------------------------------------------
(* IR functions.  All of them begin with the answer of a call.             *)

T(n) == IR!Temp(n)
\* Two constants that Mem2Reg has spread over the function, and a fresh one.
Two == <<"const", 2, 1>>
Three == <<"const", 3, 2>>
Fresh3 == <<"const", 3, 3>>

CallOf(f, t, args) == IR!Instruction("call", f, T(t), args)
Asked == CallOf(1, 1, <<>>)
Does(op, t, v, w) == IR!Instruction(op, 0, T(t), <<v, w>>)

BlockOf(code_) == [IR!EmptyBlock EXCEPT !.code = code_]
FunctionOf(codes) == [b \in DOMAIN codes |-> BlockOf(codes[b])]

Not(t, v) == IR!Instruction("not", 0, T(t), <<v>>)

\* Arithmetic on the answer and a constant.
Computations ==
  {FunctionOf(<<<<Asked, Does(op, 2, v, w), Does(oq, 3, x, y), Does(or, 4, T(2), T(3)),
                  IR!Ret(T(4))>>>>) :
     op \in {"+", "*", "<"}, oq \in {"+", "*"}, or \in {"-", ">=", "/"},
     v \in {T(1), Two}, w \in {T(1), Two, Three}, x \in {T(1), T(2)}, y \in {T(1), T(2), Two}}

\* Calls with two arguments.
CallsOfTwo ==
  {FunctionOf(<<<<Asked, Does("+", 2, T(1), v), Does("-", 3, T(1), w), CallOf(2, 4, <<x, y>>),
                  IR!Ret(z)>>>>) :
     v \in {T(1), Two}, w \in {T(2), Three}, x \in {T(1), T(2), T(3)},
     y \in {T(2), T(3), Two}, z \in {T(3), T(4)}}

\* Two ways from the entry to the last block, with an instruction on each.
Diamonds ==
  {FunctionOf(<<<<Asked, IR!CondBr(T(1), 2, 3)>>,
                <<Does(op, 2, T(1), v), IR!Br(4)>>,
                <<Does(oq, 3, T(1), w), IR!Br(4)>>,
                <<IR!Phi(T(4), <<x, y>>, <<2, 3>>), Does("-", 5, T(4), z), IR!Ret(T(5))>>>>) :
     op \in {"+", "*"}, oq \in {"-", "*"}, v \in {T(1), Two}, w \in {T(1), Two},
     x \in {T(1), T(2), Three}, y \in {T(3), Two}, z \in {T(1), T(4)}}

\* One way round the second block, and two phi nodes.
OneArmed ==
  {FunctionOf(<<<<Asked, Does(op, 2, T(1), v), IR!CondBr(c, 2, 3)>>,
                <<third, IR!Br(3)>>,
                <<IR!Phi(T(4), <<x, T(3)>>, <<1, 2>>), IR!Phi(T(5), <<y, z>>, <<1, 2>>),
                  IR!Ret(r)>>>>) :
     op \in {"<", "=="}, v \in {Two, Fresh3}, c \in {T(1), T(2)},
     third \in {Does("-", 3, T(2), T(1)), Not(3, T(2)), Not(3, T(1))},
     x \in {T(1), T(2), Two}, y \in {T(1), Three}, z \in {T(1), T(3), Three},
     r \in {T(4), T(5)}}

\* A loop that runs until its variable t2 is zero; t4 and t5 are not in all of
\* them.
LoopOf(x, v, header, body, r) ==
  FunctionOf(<<<<Asked, IR!Br(2)>>,
               <<IR!Phi(T(2), <<x, T(3)>>, <<1, 3>>)>> \o header \o <<IR!CondBr(T(2), 3, 4)>>,
               <<Does("-", 3, T(2), v)>> \o body \o <<IR!Br(2)>>,
               <<IR!Ret(r)>>>>)
SecondPhi(z) == <<IR!Phi(T(5), <<Three, z>>, <<1, 3>>)>>

Loop ==
  LET x == {T(1), Two}
      v == {T(1), Two, <<"const", 1, 4>>}
      bodies == {<<Does(op, 4, w, Two)>> : op \in {"+", "-"}, w \in {T(1), T(2), T(3)}}
  IN {LoopOf(y, w, <<>>, body, r) : y \in x, w \in v, body \in {<<>>} \cup bodies, r \in {T(1), T(2)}}
       \cup {LoopOf(y, w, SecondPhi(T(4)), body, r) :
               y \in x, w \in v, body \in bodies, r \in {T(2), T(5)}}
       \cup {LoopOf(y, w, SecondPhi(z), <<>>, r) :
               y \in x, w \in v, z \in {T(2), T(3), T(5)}, r \in {T(2), T(5)}}

\* What follows a return is a block that nothing leads to and that ends nowhere.
DeadEnds ==
  {FunctionOf(<<<<Asked, Does("+", 2, T(1), v), IR!Br(3)>>,
                <<Does("+", 3, T(1), v), CallOf(2, 4, <<T(3)>>)>>,
                <<Does("+", 5, T(1), v), IR!Ret(r)>>>>) : v \in {T(1), Two}, r \in {T(2), T(5)}}

\* A variable with the slot t2, stored to before and after it is loaded.
Load(t, slot) == IR!Instruction("load", 0, T(t), <<slot>>)
Variables ==
  {FunctionOf(<<<<Asked, IR!Alloca(T(2)), Does("+", 3, T(1), Two), IR!Store(x, T(2)), IR!Br(2)>>,
                <<Load(4, T(2)), Does(op, 5, y, Two), IR!Store(z, T(2)), IR!Br(3)>>,
                <<IR!Ret(T(4))>>>>) :
     op \in {"+", "*"}, x \in {T(1), T(3), Two}, y \in {T(1), T(4)}, z \in {T(3), T(5), Three}}
    \cup {FunctionOf(<<<<Asked, IR!Alloca(T(2)), Does("+", 3, T(1), v), IR!Store(T(3), T(2)),
                        Does("+", 5, T(1), v), IR!Store(T(5), T(2)), Load(4, T(2)), IR!Ret(T(4))>>>>) :
            v \in {T(1), Two}}

MCFunctions ==
  Computations \cup CallsOfTwo \cup Diamonds \cup OneArmed \cup Loop \cup DeadEnds \cup Variables
MCPrograms == StraightLine \cup Crowded \cup ForwardFunctions
                \cup {Compiled(IR!Optimized(f)) : f \in MCFunctions}
MCAnswers == {<<a, 2>> : a \in {0, 1, 3}}
=============================================================================

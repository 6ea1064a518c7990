----------------------------- MODULE MCMem2Reg -----------------------------
(***************************************************************************)
(* Functions for Mem2Reg: the entry stores to every variable, and no block *)
(* branches back to the entry, as IRBuilder builds them.                   *)
(***************************************************************************)
EXTENDS Mem2Reg

Successors ==
  {f \in [Block -> {s \in SUBSET (Block \ {Entry}) : Cardinality(s) <= 2}] :
     ReachableBlocks(Built(f)) = Block}

\* In every block the variable is read; then it may be assigned and read again.
ReadOnly(b) == <<Load(1), Use(<<"load", b, 1>>)>>
ReadWrite(b) == ReadOnly(b) \o <<Store(1, <<"const", b, 3>>), Load(1), Use(<<"load", b, 4>>)>>
InitializeThenRead == <<Store(1, <<"const", Entry, 1>>), Load(1), Use(<<"load", Entry, 2>>)>>

OneVariable ==
  {[graph |-> Built(f),
    code |-> [b \in Block |-> IF b = Entry THEN InitializeThenRead
                              ELSE IF b \in assigned THEN ReadWrite(b) ELSE ReadOnly(b)]] :
     f \in Successors, assigned \in SUBSET (Block \ {Entry})}

\* x = 5; while (x = x - 1) ...; the condition (2) assigns the variable.
AssignmentInCondition ==
  {[graph |-> Built([b \in Block |-> CASE b = 1 -> {2} [] b = 2 -> {3, 4}
                                       [] b = 3 -> {2} [] OTHER -> {}]),
    code |-> [b \in Block |-> IF b = Entry THEN InitializeThenRead
                              ELSE IF b = 2 THEN ReadWrite(b) ELSE ReadOnly(b)]]}

\* Two variables, one copied to the other in any of two statements of the branch
\* of an if (2).  from and to are their places in the order of the allocas.
Copy(to, from, b, i) == <<Load(from), Store(to, <<"load", b, i>>)>>
Assign(x, b, i) == <<Store(x, <<"const", b, i>>), Load(x), Use(<<"load", b, i + 1>>)>>
Initialize == <<Store(1, <<"const", 1, 1>>), Store(2, <<"const", 1, 2>>)>>
ReadBoth(b) == <<Load(1), Load(2), Use(<<"load", b, 1>>), Use(<<"load", b, 2>>)>>

Copies(to, from) ==
  LET Branch(first, second) ==
        [graph |-> Built([b \in Block |-> CASE b = 1 -> {2, 3} [] b = 2 -> {3}
                                            [] b = 3 -> {4} [] OTHER -> {}]),
         code |-> [b \in Block |-> CASE b = 1 -> Initialize
                                     [] b = 2 -> first \o second
                                     [] OTHER -> ReadBoth(b)]]
      Statement(i) == {<<>>, Copy(to, from, 2, i)} \cup {Assign(x, 2, i) : x \in Var}
  IN UNION {{Branch(first, second) : second \in Statement(Len(first) + 1)} :
              first \in Statement(1)}

\* One variable anywhere, and int y; int x; ... y = x;
MCPrograms == OneVariable \cup Copies(1, 2)

\* What the theorems ask of a function holds of these.
ASSUME MCProgramsAssumption ==
  \A p \in MCPrograms : Replaceable(p.code) /\ StoredFirst(p.graph, p.code)

\* int x; int y = x;
CopiesFromEarlier == Copies(2, 1)
=============================================================================

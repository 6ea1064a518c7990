----------------------------- MODULE LiveValues -----------------------------
(***************************************************************************)
(* The allocator's intervals against liveness.  LiveInterval's fields are  *)
(* documented as the first and last instruction index where the value is   *)
(* live; computeLiveness knows nothing of control flow and takes the first *)
(* and last index that mentions the value in the text.  This module gives  *)
(* the definition of liveness over the flow of control (succ), and says    *)
(* what the generated code needs of the allocation.                        *)
(***************************************************************************)
EXTENDS RegisterAllocator, Reaching

Index == 1..Len(code)

\* A branch leads to another instruction of the function.
ASSUME SuccessorsAssumption ==
  \A c \in Programs : \A i \in 1..Len(c) : c[i].succ \subseteq 1..Len(c)

\* Positions that control can reach from the first instruction.
Reachable == ReachedFrom({1} \cap Index, [i \in Index |-> code[i].succ], Len(code))

\* The positions of c that v is live at, just before the instruction there: some
\* path from there uses v before it defines it.
LiveAt(c, v) ==
  ReachedFrom({i \in 1..Len(c) : v \in c[i].uses},
              [s \in 1..Len(c) |-> {i \in 1..Len(c) : v \notin c[i].defs /\ s \in c[i].succ}],
              Len(c))

\* Every use is reached by a definition on every path, as in SSA form: no value
\* is live at the entry.
DefinitionsReachUses(c) == \A v \in Value : 1 \notin LiveAt(c, v)

\* Control never goes back in the text.
Forward == \A i \in Index : \A s \in code[i].succ : s > i

\* No instruction overwrites the register of another value that is still live
\* after it, in a function without loops that defines on every path what it uses:
\* what the backend relies on when it asks getRegister.
NoClobber ==
  phase = "done" /\ Forward /\ DefinitionsReachUses(code) =>
    \A v \in Value :
      LET live == LiveAt(code, v)
      IN \A i \in Reachable : \A w \in code[i].defs \ {v} :
           valueToReg[w] # NoReg /\ code[i].succ \cap live # {} =>
             valueToReg[v] # valueToReg[w]
=============================================================================

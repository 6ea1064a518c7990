--------------------------- MODULE Mem2RegProofs ---------------------------
(***************************************************************************)
(* Proofs about Mem2Reg for functions of any size and shape and any number *)
(* of variables.                                                           *)
(*                                                                         *)
(* What a variable holds before an instruction is a fixed value of the     *)
(* function with the phi nodes in it: what was stored last in the block,   *)
(* or the phi node of the block, or what the lowest dominator that has one *)
(* of both ends with.  Renaming computes it; where no path brings another  *)
(* one, executing the function does, too.                                  *)
(***************************************************************************)
EXTENDS Mem2Reg, ControlFlowGraphProofs

Function == WellFormed(graph, source)

\* The blocks that give x a value of their own.
Gives(x) == DefBlocks(x) \cup phiBlocks[x]

StoresBefore(x, b, i) ==
  {j \in DOMAIN source[b] : j < i /\ source[b][j].op = "store" /\ source[b][j].var = x}

Latest(S) == CHOOSE j \in S : \A k \in S : k <= j

LastStored(x, b, i) == source[b][Latest(StoresBefore(x, b, i))].val

Given(x, d) ==
  IF StoresBefore(x, d, End(d)) = {} THEN <<"phi", x, d>> ELSE LastStored(x, d, End(d))

\* The lowest of some dominators.
IsLowest(g, S, d) == d \in S /\ \A e \in S : Dominates(g, e, d)
Lowest(g, S) == CHOOSE d : IsLowest(g, S, d)

LowestGivesIn(x, S) ==
  IF \E d : IsLowest(graph, S, d) THEN Given(x, Lowest(graph, S)) ELSE NoValue

\* What x gets from the lowest block of S that gives it a value.
LowestGives(x, S) == LowestGivesIn(x, S \cap Gives(x))

Strict(b) == DominatorsOf(graph, b) \ {b}

AtStart(x, b) == IF b \in phiBlocks[x] THEN <<"phi", x, b>> ELSE LowestGives(x, Strict(b))

\* What x holds before instruction i of b.
Before(x, b, i) == IF StoresBefore(x, b, i) = {} THEN AtStart(x, b) ELSE LastStored(x, b, i)

AtEnd(x, b) == Before(x, b, End(b))

-----------------------------------------------------------------------------
(* The function.                                                           *)

LEMMA FunctionShape ==
  ASSUME Function
  PROVE  /\ graph.succs \in [Block -> SUBSET (Block \ {Entry})]
         /\ graph.succs \in [Block -> SUBSET Block]
         /\ graph.preds \in [Block -> SUBSET Block]
         /\ \A b, p \in Block : p \in graph.preds[b] <=> b \in graph.succs[p]
         /\ ReachableBlocks(graph) = Block
         /\ source \in [Block -> Seq(Instr)]
         /\ \A b \in Block : End(b) \in Nat \ {0} /\ DOMAIN source[b] = 1..(End(b) - 1)
         /\ \A b \in Block : \A i \in DOMAIN source[b] : source[b][i] \in Instr
<1>1. /\ graph = Built(graph.succs) /\ graph.succs \in [Block -> SUBSET (Block \ {Entry})]
      /\ ReachableBlocks(graph) = Block
      /\ source \in [Block -> Seq(Instr)]
  BY DEF Function, WellFormed
<1>2. graph.preds = [b \in Block |-> {p \in Block : b \in graph.succs[p]}]
  BY <1>1 DEF Built
<1>3. \A b \in Block : Len(source[b]) \in Nat /\ DOMAIN source[b] = 1..Len(source[b])
  BY <1>1
<1>4. \A b \in Block : \A i \in DOMAIN source[b] : source[b][i] \in Instr
  BY <1>1
<1> QED
  BY <1>1, <1>2, <1>3, <1>4 DEF End

\* v is the result of a load of the function.
IsLoad(v) ==
  v[1] = "load" /\ v[2] \in Block /\ v[3] \in DOMAIN source[v[2]] /\ source[v[2]][v[3]].op = "load"

VarOf(v) == source[v[2]][v[3]].var

\* A load that is executed before instruction i of b.
LoadedBefore(v, b, i) == IsLoad(v) /\ ExecutedBefore(graph, v[2], v[3], b, i)

\* What stands in the function as an operand.
LEMMA OperandShape ==
  ASSUME Function, NEW b \in Block, NEW i \in DOMAIN source[b]
  PROVE  /\ source[b][i].op \in {"load", "store", "use", "call"}
         /\ source[b][i].op \in {"load", "store"} => source[b][i].var \in Var
         /\ source[b][i].val \in Value
         /\ source[b][i].op # "load" => source[b][i].val[1] \in {"const", "load"}
         /\ source[b][i].op # "load" /\ source[b][i].val[1] = "load" => LoadedBefore(source[b][i].val, b, i)
         /\ source[b][i].op = "store" /\ source[b][i].val[1] = "load" => VarOf(source[b][i].val) # source[b][i].var
<1>1. source[b][i] \in Instr
  BY FunctionShape
<1>2. /\ source[b][i].op \in {"load", "store"} => source[b][i].var \in Var
      /\ source[b][i].op # "load" => source[b][i].val[1] \in {"const", "load"}
      /\ source[b][i].op # "load" /\ source[b][i].val[1] = "load" =>
           /\ source[b][i].val[2] \in Block
           /\ source[b][i].val[3] \in DOMAIN source[source[b][i].val[2]]
           /\ source[source[b][i].val[2]][source[b][i].val[3]].op = "load"
           /\ ExecutedBefore(graph, source[b][i].val[2], source[b][i].val[3], b, i)
           /\ source[b][i].op = "store" =>
                source[source[b][i].val[2]][source[b][i].val[3]].var # source[b][i].var
  BY DEF Function, WellFormed
<1> QED
  BY <1>1, <1>2 DEF Instr, LoadedBefore, IsLoad, VarOf

LEMMA LoadsHaveVariables ==
  ASSUME Function, NEW v, IsLoad(v)
  PROVE  VarOf(v) \in Var
  BY OperandShape DEF IsLoad, VarOf

\* What is executed before is an order.
LEMMA ExecutedBeforeTransitive ==
  ASSUME Function, NEW a \in Block, NEW j \in Int, NEW b \in Block, NEW i \in Int, NEW c \in Block, NEW k \in Int,
         ExecutedBefore(graph, a, j, b, i), ExecutedBefore(graph, b, i, c, k)
  PROVE  ExecutedBefore(graph, a, j, c, k)
<1>1. a # b /\ b # c => a # c
  <2> SUFFICES ASSUME a # b, a = c PROVE FALSE
    OBVIOUS
  <2>1. Dominates(graph, a, b) /\ Dominates(graph, b, a)
    BY DEF ExecutedBefore
  <2> QED
    BY <2>1, FunctionShape, DominanceAntisymmetric
<1>2. a # b /\ b # c => Dominates(graph, a, c)
  BY FunctionShape, DominanceTransitive DEF ExecutedBefore
<1> QED
  BY <1>1, <1>2 DEF ExecutedBefore

LEMMA NotBeforeItself ==
  ASSUME NEW b, NEW i \in Int PROVE ~ExecutedBefore(graph, b, i, b, i)
  BY DEF ExecutedBefore

\* The parents in the dominator tree: every block but the entry has one, and the
\* strict dominators of the block are its dominators.
LEMMA EntryHasNoParent == Function => IDoms(Entry) = {}
  BY FunctionShape, OnlyEntryDominatesEntry DEF IDoms, StrictlyDominates

LEMMA HasParent ==
  ASSUME Function, NEW b \in Block \ {Entry}
  PROVE  IDoms(b) # {}
<1>1. b \in ReachableBlocks(graph) /\ graph.succs \in [Block -> SUBSET Block]
  BY FunctionShape
<1>2. Strict(b) # {} /\ \A d \in Strict(b) : Dominates(graph, d, b)
  BY <1>1, EntryDominates, BlocksFinite DEF Strict, DominatorsOf
<1>3. PICK d \in Strict(b) : \A e \in Strict(b) : Dominates(graph, e, d)
  BY <1>1, <1>2, LowestDominator
<1> QED
  BY <1>3 DEF Strict, DominatorsOf, IDoms, StrictlyDominates

LEMMA ParentDominators ==
  ASSUME Function, NEW b \in Block, NEW d \in IDoms(b)
  PROVE  d \in Block /\ d # b /\ Dominates(graph, d, b) /\ Strict(b) = DominatorsOf(graph, d)
<1>1. /\ d \in Block /\ d # b /\ Dominates(graph, d, b)
      /\ \A e \in Block : e # b /\ Dominates(graph, e, b) => Dominates(graph, e, d)
  BY DEF IDoms, StrictlyDominates
<1>2. /\ \A e \in Block : Dominates(graph, e, d) => Dominates(graph, e, b)
      /\ ~Dominates(graph, b, d)
  BY <1>1, FunctionShape, DominanceTransitive, DominanceAntisymmetric
<1> QED
  BY <1>1, <1>2 DEF Strict, DominatorsOf

-----------------------------------------------------------------------------
(* What a variable holds.                                                  *)

Placed == Function /\ phiBlocks \in [Var -> SUBSET Block]

LEMMA BlocksAreNumbers == Block \subseteq Nat /\ Var \subseteq Nat /\ Entry \in Block
  BY NumBlocksAssumption, NumVarsAssumption DEF Block, Var, Entry

LEMMA LastStore ==
  ASSUME Function, NEW x, NEW b \in Block, NEW i \in Int, StoresBefore(x, b, i) # {}
  PROVE  /\ Latest(StoresBefore(x, b, i)) \in StoresBefore(x, b, i)
         /\ \A k \in StoresBefore(x, b, i) : k <= Latest(StoresBefore(x, b, i))
<1> DEFINE S == StoresBefore(x, b, i)
           T == {End(b) - j : j \in S}
<1>1. End(b) \in Nat /\ S \subseteq 1..(End(b) - 1)
  BY FunctionShape DEF StoresBefore
<1>2. T \subseteq Nat /\ T # {}
  BY <1>1
<1>3. PICK m \in T : \A k \in T : m <= k
  <2> HIDE DEF T
  <2> QED
    BY <1>2, LeastNumber
<1>4. PICK j \in S : m = End(b) - j
  OBVIOUS
<1>5. \A k \in S : k <= j
  <2> SUFFICES ASSUME NEW k \in S PROVE k <= j
    OBVIOUS
  <2>1. m <= End(b) - k
    BY <1>3
  <2> QED
    BY <1>1, <1>4, <2>1
<1> QED
  BY <1>5 DEF Latest

\* Only a store to the variable changes what it holds.
LEMMA BeforeNext ==
  ASSUME Function, NEW x, NEW b \in Block, NEW i \in DOMAIN source[b]
  PROVE  Before(x, b, i + 1) = IF source[b][i].op = "store" /\ source[b][i].var = x
                                 THEN source[b][i].val ELSE Before(x, b, i)
<1>1. i \in Int /\ \A j \in DOMAIN source[b] : j \in Int
  BY FunctionShape
<1>2. CASE source[b][i].op = "store" /\ source[b][i].var = x
  <2>1. i \in StoresBefore(x, b, i + 1) /\ \A k \in StoresBefore(x, b, i + 1) : k \in Int /\ k <= i
    BY <1>1, <1>2 DEF StoresBefore
  <2>2. PICK j \in StoresBefore(x, b, i + 1) :
          /\ \A k \in StoresBefore(x, b, i + 1) : k <= j
          /\ LastStored(x, b, i + 1) = source[b][j].val
    BY <1>1, <2>1, LastStore DEF LastStored
  <2>3. j = i
    BY <1>1, <2>1, <2>2
  <2> QED
    BY <1>2, <2>1, <2>2, <2>3 DEF Before
<1>3. CASE ~(source[b][i].op = "store" /\ source[b][i].var = x)
  <2>1. StoresBefore(x, b, i + 1) = StoresBefore(x, b, i)
    BY <1>1, <1>3 DEF StoresBefore
  <2> QED
    BY <1>3, <2>1 DEF Before, LastStored
<1> QED
  BY <1>2, <1>3

LEMMA BeforeFirst ==
  ASSUME Function, NEW x, NEW b \in Block
  PROVE  Before(x, b, 1) = AtStart(x, b)
<1>1. StoresBefore(x, b, 1) = {}
  BY FunctionShape DEF StoresBefore
<1> QED
  BY <1>1 DEF Before

LEMMA StoredIn ==
  ASSUME Function, NEW x, NEW b \in Block
  PROVE  b \in DefBlocks(x) <=> StoresBefore(x, b, End(b)) # {}
<1>1. \A j \in DOMAIN source[b] : j < End(b)
  BY FunctionShape
<1> QED
  BY <1>1 DEF DefBlocks, StoresBefore

\* A block ends with what the lowest of its dominators that has a value gives.
LEMMA AtEndIsLowest ==
  ASSUME Function, NEW x, NEW b \in Block
  PROVE  AtEnd(x, b) = LowestGives(x, DominatorsOf(graph, b))
<1>1. /\ b \in ReachableBlocks(graph) /\ graph.succs \in [Block -> SUBSET Block]
      /\ b \in DominatorsOf(graph, b)
  BY FunctionShape, DominatesItself DEF DominatorsOf
<1>2. CASE b \in Gives(x)
  <2>1. \A d : IsLowest(graph, DominatorsOf(graph, b) \cap Gives(x), d) <=> d = b
    BY <1>1, <1>2, DominanceAntisymmetric DEF IsLowest, DominatorsOf
  <2>2. LowestGives(x, DominatorsOf(graph, b)) = Given(x, b)
    BY <2>1 DEF LowestGives, LowestGivesIn, Lowest
  <2>3. b \notin DefBlocks(x) => b \in phiBlocks[x]
    BY <1>2 DEF Gives
  <2> QED
    BY <2>2, <2>3, StoredIn DEF AtEnd, Before, AtStart, Given
<1>3. CASE b \notin Gives(x)
  <2>1. DominatorsOf(graph, b) \cap Gives(x) = Strict(b) \cap Gives(x)
    BY <1>3 DEF Strict
  <2>2. LowestGives(x, DominatorsOf(graph, b)) = LowestGives(x, Strict(b))
    BY <2>1 DEF LowestGives
  <2>3. StoresBefore(x, b, End(b)) = {} /\ b \notin phiBlocks[x]
    BY <1>3, StoredIn DEF Gives
  <2> QED
    BY <2>2, <2>3 DEF AtEnd, Before, AtStart
<1> QED
  BY <1>2, <1>3

LEMMA StartFromParent ==
  ASSUME Function, NEW x, NEW b \in Block, NEW d \in IDoms(b)
  PROVE  LowestGives(x, Strict(b)) = AtEnd(x, d)
  BY AtEndIsLowest, ParentDominators

LEMMA EntryStartsWithout ==
  ASSUME Function, NEW x
  PROVE  LowestGives(x, Strict(Entry)) = NoValue
<1>1. Strict(Entry) = {}
  BY FunctionShape, OnlyEntryDominatesEntry DEF Strict, DominatorsOf
<1> QED
  BY <1>1 DEF LowestGives, LowestGivesIn, IsLowest, Lowest

\* If some dominator gives the variable a value, so does the lowest.
LEMMA LowestIsGiven ==
  ASSUME Function, NEW x, NEW b \in Block, NEW S \in SUBSET DominatorsOf(graph, b),
         S \cap Gives(x) # {}
  PROVE  \E d \in S \cap Gives(x) : LowestGives(x, S) = Given(x, d)
<1>1. /\ b \in ReachableBlocks(graph) /\ graph.succs \in [Block -> SUBSET Block]
      /\ \A d \in S \cap Gives(x) : Dominates(graph, d, b)
  BY FunctionShape DEF DominatorsOf
<1>2. \E d : IsLowest(graph, S \cap Gives(x), d)
  <2>1. PICK d \in S \cap Gives(x) : \A e \in S \cap Gives(x) : Dominates(graph, e, d)
    BY <1>1, LowestDominator
  <2> QED
    BY <2>1 DEF IsLowest
<1>3. Lowest(graph, S \cap Gives(x)) \in S \cap Gives(x)
  BY <1>2 DEF IsLowest, Lowest
<1> QED
  BY <1>2, <1>3 DEF LowestGives, LowestGivesIn

LEMMA LowestCases ==
  ASSUME NEW x, NEW S
  PROVE  \/ LowestGives(x, S) = NoValue
         \/ \E d \in S \cap Gives(x) : LowestGives(x, S) = Given(x, d)
<1>1. ASSUME \E d : IsLowest(graph, S \cap Gives(x), d) PROVE Lowest(graph, S \cap Gives(x)) \in S \cap Gives(x)
  BY <1>1 DEF IsLowest, Lowest
<1> QED
  BY <1>1 DEF LowestGives, LowestGivesIn

\* What x can hold before instruction i of b: nothing, a constant, the result of a
\* load of another variable executed by then, or a phi node of its own above b.
Holds(x, v, b, i) ==
  /\ v \in Value
  /\ v[1] \in {"none", "const", "load", "phi"}
  /\ v[1] = "none" => v = NoValue
  /\ v[1] = "load" => LoadedBefore(v, b, i) /\ VarOf(v) # x
  /\ v[1] = "phi" => \E d \in phiBlocks[x] \cap DominatorsOf(graph, b) : v = <<"phi", x, d>>

LEMMA LoadedStill ==
  ASSUME Function, NEW v, NEW a \in Block, NEW j \in Int, NEW b \in Block, NEW i \in Int,
         LoadedBefore(v, a, j), ExecutedBefore(graph, a, j, b, i)
  PROVE  LoadedBefore(v, b, i)
<1>1. /\ v[2] \in Block /\ v[3] \in DOMAIN source[v[2]]
      /\ IsLoad(v) /\ ExecutedBefore(graph, v[2], v[3], a, j)
  BY DEF LoadedBefore, IsLoad
<1>2. v[3] \in Int
  <2>1. DOMAIN source[v[2]] = 1..(End(v[2]) - 1) /\ End(v[2]) \in Nat
    BY <1>1, FunctionShape
  <2> QED
    BY <1>1, <2>1
<1>3. ExecutedBefore(graph, v[2], v[3], b, i)
  BY <1>1, <1>2, ExecutedBeforeTransitive
<1> QED
  BY <1>1, <1>3 DEF LoadedBefore

LEMMA StoredHolds ==
  ASSUME Function, NEW x, NEW b \in Block, NEW i \in Int, StoresBefore(x, b, i) # {}
  PROVE  /\ Holds(x, LastStored(x, b, i), b, i)
         /\ LastStored(x, b, i)[1] \in {"const", "load"}
<1>1. PICK j \in StoresBefore(x, b, i) : LastStored(x, b, i) = source[b][j].val
  BY LastStore DEF LastStored
<1>2. j \in DOMAIN source[b] /\ j < i /\ j \in Int /\ source[b][j].op = "store" /\ source[b][j].var = x
  BY <1>1, FunctionShape DEF StoresBefore
<1>3. ExecutedBefore(graph, b, j, b, i)
  BY <1>2 DEF ExecutedBefore
<1> QED
  BY <1>1, <1>2, <1>3, OperandShape, LoadedStill DEF Holds

LEMMA GivenHolds ==
  ASSUME Placed, NEW x \in Var, NEW d \in Block, d \in Gives(x)
  PROVE  /\ Holds(x, Given(x, d), d, End(d))
         /\ Given(x, d)[1] \in {"const", "load", "phi"}
         /\ Given(x, d)[1] = "phi" => Given(x, d) = <<"phi", x, d>>
<1>1. Function /\ phiBlocks[x] \subseteq Block /\ End(d) \in Int
  BY FunctionShape DEF Placed
<1>2. CASE StoresBefore(x, d, End(d)) # {}
  BY <1>1, <1>2, StoredHolds DEF Given
<1>3. CASE StoresBefore(x, d, End(d)) = {}
  <2>1. d \in phiBlocks[x]
    BY <1>1, <1>3, StoredIn DEF Gives
  <2>2. d \in DominatorsOf(graph, d)
    BY <1>1, FunctionShape, DominatesItself DEF DominatorsOf
  <2>3. <<"phi", x, d>> \in Value
    BY BlocksAreNumbers DEF Value
  <2> QED
    BY <1>3, <2>1, <2>2, <2>3 DEF Given, Holds
<1> QED
  BY <1>2, <1>3

\* What a block begins with is there before any instruction of it, and is no phi
\* node of the block unless the variable has one there.
LEMMA LowestHolds ==
  ASSUME Placed, NEW x \in Var, NEW b \in Block, NEW i \in Int
  PROVE  /\ Holds(x, LowestGives(x, Strict(b)), b, i)
         /\ LowestGives(x, Strict(b)) # <<"phi", x, b>>
<1>1. Function /\ graph.succs \in [Block -> SUBSET Block]
  BY FunctionShape DEF Placed
<1>2. CASE LowestGives(x, Strict(b)) = NoValue
  BY <1>2 DEF Holds, NoValue, Value
<1>3. ASSUME NEW d \in Strict(b) \cap Gives(x), LowestGives(x, Strict(b)) = Given(x, d)
      PROVE  Holds(x, Given(x, d), b, i) /\ Given(x, d) # <<"phi", x, b>>
  <2>1. d \in Block /\ d # b /\ Dominates(graph, d, b) /\ End(d) \in Int
    BY <1>1, FunctionShape DEF Strict, DominatorsOf
  <2>2. /\ Holds(x, Given(x, d), d, End(d))
        /\ Given(x, d)[1] = "phi" => Given(x, d) = <<"phi", x, d>>
    BY <2>1, GivenHolds
  <2>3. ExecutedBefore(graph, d, End(d), b, i)
    BY <2>1 DEF ExecutedBefore
  <2>4. Given(x, d)[1] = "load" => LoadedBefore(Given(x, d), b, i)
    BY <1>1, <2>1, <2>2, <2>3, LoadedStill DEF Holds
  <2>5. DominatorsOf(graph, d) \subseteq DominatorsOf(graph, b)
    BY <1>1, <2>1, DominanceTransitive DEF DominatorsOf
  <2>6. Given(x, d) # <<"phi", x, b>>
    BY <2>1, <2>2
  <2> QED
    BY <2>2, <2>4, <2>5, <2>6 DEF Holds
<1> QED
  BY <1>2, <1>3, LowestCases DEF NoValue

LEMMA StartHolds ==
  ASSUME Placed, NEW x \in Var, NEW b \in Block, NEW i \in Int
  PROVE  Holds(x, AtStart(x, b), b, i)
<1>1. CASE b \in phiBlocks[x]
  <2>1. b \in DominatorsOf(graph, b) /\ <<"phi", x, b>> \in Value
    BY FunctionShape, DominatesItself, BlocksAreNumbers DEF DominatorsOf, Value, Placed
  <2> QED
    BY <1>1, <2>1 DEF AtStart, Holds
<1>2. CASE b \notin phiBlocks[x]
  BY <1>2, LowestHolds DEF AtStart
<1> QED
  BY <1>1, <1>2

LEMMA BeforeHolds ==
  ASSUME Placed, NEW x \in Var, NEW b \in Block, NEW i \in Int
  PROVE  Holds(x, Before(x, b, i), b, i)
  BY StartHolds, StoredHolds DEF Before, Placed

LEMMA AtEndHolds ==
  ASSUME Placed, NEW x \in Var, NEW b \in Block
  PROVE  Holds(x, AtEnd(x, b), b, End(b))
  BY BeforeHolds, FunctionShape DEF AtEnd, Placed

-----------------------------------------------------------------------------
(* Values that stand for others.                                           *)

\* A gives every load of a variable of X executed before instruction i of b what
\* the variable holds there.
Agrees(A, X, b, i) ==
  \A d \in Block : \A j \in DOMAIN source[d] :
    source[d][j].op = "load" /\ source[d][j].var \in X /\ ExecutedBefore(graph, d, j, b, i) =>
      A[<<"load", d, j>>] = A[Before(source[d][j].var, d, j)]

\* v is as good as w before instruction i of b, once loads of the variables of X
\* give what these hold.
StandsFor(X, v, w, b, i) ==
  /\ v \in Value
  /\ v[1] \in {"none", "const", "load", "phi"}
  /\ v[1] = "none" => v = NoValue
  /\ v[1] = "load" => LoadedBefore(v, b, i)
  /\ v[1] = "phi" => v[2] \in Var /\ v[3] \in Block
  /\ \A A \in [Value -> Value] : Agrees(A, X, b, i) => A[v] = A[w]

LEMMA StandsForItself ==
  ASSUME NEW X, NEW x \in Var, NEW v, NEW b, NEW i, Holds(x, v, b, i)
  PROVE  StandsFor(X, v, v, b, i)
  BY DEF Holds, StandsFor, DominatorsOf

LEMMA AgreesWithFewer ==
  ASSUME NEW A, NEW X, NEW Y, X \subseteq Y, NEW b, NEW i, Agrees(A, Y, b, i)
  PROVE  Agrees(A, X, b, i)
  BY DEF Agrees

LEMMA StandsForWithMore ==
  ASSUME NEW X, NEW Y, X \subseteq Y, NEW v, NEW w, NEW b, NEW i, StandsFor(X, v, w, b, i)
  PROVE  StandsFor(Y, v, w, b, i)
  BY AgreesWithFewer DEF StandsFor

\* A load may be replaced by what its variable holds.
LEMMA ReplacementStands ==
  ASSUME Placed, NEW X \in SUBSET Var, NEW v, NEW w, NEW b \in Block, NEW i \in Int,
         StandsFor(X, v, w, b, i), v[1] = "load", VarOf(v) \in Var
  PROVE  StandsFor(X \cup {VarOf(v)}, Before(VarOf(v), v[2], v[3]), w, b, i)
<1> DEFINE x == VarOf(v)
           u == Before(x, v[2], v[3])
           Y == X \cup {x}
<1>1. /\ v[2] \in Block /\ v[3] \in DOMAIN source[v[2]] /\ v[3] \in Int
      /\ source[v[2]][v[3]].op = "load" /\ source[v[2]][v[3]].var = x
      /\ ExecutedBefore(graph, v[2], v[3], b, i)
  BY FunctionShape DEF StandsFor, LoadedBefore, IsLoad, Placed, VarOf
<1>2. v = <<"load", v[2], v[3]>>
  BY DEF StandsFor, Value
<1>3. Holds(x, u, v[2], v[3])
  BY <1>1, BeforeHolds
<1>4. u[1] = "load" => LoadedBefore(u, b, i)
  BY <1>1, <1>3, LoadedStill DEF Holds, Placed
<1>5. ASSUME NEW A \in [Value -> Value], Agrees(A, Y, b, i) PROVE A[u] = A[w]
  <2>1. A[<<"load", v[2], v[3]>>] = A[Before(source[v[2]][v[3]].var, v[2], v[3])]
    BY <1>1, <1>5 DEF Agrees
  <2>2. A[v] = A[u]
    BY <1>1, <1>2, <2>1
  <2>3. Agrees(A, X, b, i)
    BY <1>5, AgreesWithFewer
  <2> QED
    BY <2>2, <2>3 DEF StandsFor
<1>6. u[1] = "phi" => u[2] \in Var /\ u[3] \in Block
  BY <1>3 DEF Holds, DominatorsOf
<1> QED
  BY <1>3, <1>4, <1>5, <1>6 DEF StandsFor, Holds

-----------------------------------------------------------------------------
(* None of this changes but with the function and the phi nodes.           *)

LEMMA SameBefore ==
  ASSUME graph' = graph, source' = source, NEW x, phiBlocks'[x] = phiBlocks[x]
  PROVE  \A b, i : Before(x, b, i)' = Before(x, b, i)
<1>1. \A b : End(b)' = End(b)
  BY DEF End
<1>2. \A b, i : StoresBefore(x, b, i)' = StoresBefore(x, b, i)
  BY DEF StoresBefore
<1>3. \A b, i : LastStored(x, b, i)' = LastStored(x, b, i)
  BY <1>2 DEF LastStored
<1>4. \A d : Given(x, d)' = Given(x, d)
  BY <1>1, <1>2, <1>3 DEF Given
<1>5. Gives(x)' = Gives(x) /\ \A b : Strict(b)' = Strict(b)
  BY DEF Gives, DefBlocks, Strict
<1>6. \A b : LowestGives(x, Strict(b))' = LowestGives(x, Strict(b))
  BY <1>4, <1>5 DEF LowestGives, LowestGivesIn
<1> QED
  BY <1>2, <1>3, <1>6 DEF Before, AtStart

LEMMA SameLoaded ==
  ASSUME graph' = graph, source' = source
  PROVE  /\ \A v : IsLoad(v)' = IsLoad(v) /\ VarOf(v)' = VarOf(v)
         /\ \A v, b, i : LoadedBefore(v, b, i)' = LoadedBefore(v, b, i)
         /\ \A b : End(b)' = End(b)
  BY DEF IsLoad, VarOf, LoadedBefore, End

LEMMA SameStandsFor ==
  ASSUME graph' = graph, source' = source, NEW X, \A x \in X : phiBlocks'[x] = phiBlocks[x],
         NEW v, NEW w, NEW b, NEW i, StandsFor(X, v, w, b, i)
  PROVE  StandsFor(X, v, w, b, i)'
<1>1. \A x \in X : \A d, j : Before(x, d, j)' = Before(x, d, j)
  BY SameBefore
<1>2. \A A : Agrees(A, X, b, i)' <=> Agrees(A, X, b, i)
  BY <1>1 DEF Agrees
<1> QED
  BY <1>2, SameLoaded DEF StandsFor

LEMMA SamePlaced ==
  ASSUME Placed, graph' = graph, source' = source, phiBlocks' \in [Var -> SUBSET Block]
  PROVE  Placed'
  BY DEF Placed, Function

-----------------------------------------------------------------------------
(* The inductive invariant of the pass.                                    *)

\* The variables whose loads have been replaced.
Done == {x \in Var : x < var \/ phase \in {"remove", "run"}}

\* Instructions keep their places; only the operands of uses are exchanged.
InstructionsOK ==
  \A b \in Block :
    /\ DOMAIN code[b] = {i \in DOMAIN source[b] :
                           phase = "run" => source[b][i].op \in {"use", "call"}}
    /\ \A i \in DOMAIN code[b] :
         /\ code[b][i] \in Instr
         /\ code[b][i].op = source[b][i].op
         /\ code[b][i].var = source[b][i].var
         /\ code[b][i].op # "use" => code[b][i].val = source[b][i].val

OperandsOK ==
  \A b \in Block : \A i \in DOMAIN code[b] :
    code[b][i].op \in {"use", "call"} =>
      StandsFor(Done, code[b][i].val, source[b][i].val, b, i)

\* A phi node of a variable that is done has what the variable holds at the ends of
\* the predecessors.
PhisOK ==
  \A x \in Done : \A s \in phiBlocks[x] : \A p \in Block :
    IF p \in graph.preds[s]
      THEN /\ StandsFor(Done, incoming[x][s][p], AtEnd(x, p), p, End(p))
           /\ incoming[x][s][p] = NoValue <=> AtEnd(x, p) = NoValue
      ELSE incoming[x][s][p] = NoValue

\* A block that has been renamed ends with what the variable holds there, and so do
\* its edges to phi nodes; its loads are to be replaced by what the variable holds.
Replacement(b, i) == <<<<"load", b, i>>, Before(var, b, i)>>
IsReplacement(r, b, i) ==
  /\ source[b][i].op = "load" /\ source[b][i].var = var
  /\ Before(var, b, i) # NoValue
  /\ r = Replacement(b, i)

RenamedOK ==
  /\ \A b \in renamed : currentDef[b] = AtEnd(var, b)
  /\ \A r : r \in replacements <=> \E b \in renamed : \E i \in DOMAIN source[b] : IsReplacement(r, b, i)
  /\ \A s \in phiBlocks[var] : \A p \in Block :
       incoming[var][s][p] = IF p \in renamed /\ p \in graph.preds[s] THEN AtEnd(var, p) ELSE NoValue

Stages ==
  /\ phase = "insert" => /\ renamed = {} /\ replacements = {}
                         /\ \A s, p \in Block : incoming[var][s][p] = NoValue
  /\ phase \in {"rename", "replace"} => RenamedOK
  /\ phase = "replace" => renamed = Block
  /\ phase \in {"remove", "run"} => var = NumVars
  /\ \A x \in Var : x > var => \A s, p \in Block : s \notin phiBlocks[x] /\ incoming[x][s][p] = NoValue
  /\ \A x \in Var : \A s, p \in Block : s \notin phiBlocks[x] => incoming[x][s][p] = NoValue

LoadedOK ==
  /\ DOMAIN loaded = Block
  /\ \A b \in Block : loaded[b] \in [DOMAIN source[b] -> Value]

Inv == Placed /\ TypeOK /\ InstructionsOK /\ OperandsOK /\ PhisOK /\ Stages /\ LoadedOK

LEMMA ValuesThere ==
  /\ NoValue \in Value /\ Undefined \in Value /\ NoValue[1] = "none" /\ Undefined[1] = "undefined"
  BY DEF Value, NoValue, Undefined

LEMMA InitInv == Init => Inv
<1> SUFFICES ASSUME Init PROVE Inv
  OBVIOUS
<1> USE DEF Init
<1>1. PICK p \in Programs : graph = p.graph /\ source = p.code /\ code = p.code
  OBVIOUS
<1>2. Function
  BY <1>1, ProgramsAssumption DEF Function
<1>3. Var \subseteq Nat /\ 1 \in Var
  BY NumVarsAssumption DEF Var
<1>4. Placed
  BY <1>2 DEF Placed
<1>5. DefBlocks(1) \subseteq Block
  BY DEF DefBlocks
<1>6. TypeOK
  BY <1>2, <1>3, <1>5, ValuesThere, BlocksAreNumbers, FunctionShape DEF TypeOK
<1>7. InstructionsOK
  BY <1>1, <1>2, FunctionShape DEF InstructionsOK
<1>8. OperandsOK
  <2> SUFFICES ASSUME NEW b \in Block, NEW i \in DOMAIN source[b], source[b][i].op \in {"use", "call"}
               PROVE  StandsFor(Done, source[b][i].val, source[b][i].val, b, i)
    BY <1>1 DEF OperandsOK
  <2> QED
    BY <1>2, OperandShape DEF StandsFor
<1>9. Done = {}
  BY <1>3 DEF Done, Var
<1>10. PhisOK
  BY <1>9 DEF PhisOK
<1>11. Stages
  BY <1>3 DEF Stages
<1>12. LoadedOK
  BY ValuesThere DEF LoadedOK
<1> QED
  BY <1>4, <1>6, <1>7, <1>8, <1>10, <1>11, <1>12 DEF Inv

\* What the pass leaves alone keeps what is said of it.
LEMMA SameOperands ==
  ASSUME Inv, UNCHANGED <<graph, source, code>>, phase' = "run" <=> phase = "run",
         Done' = Done, \A x \in Done : phiBlocks'[x] = phiBlocks[x]
  PROVE  InstructionsOK' /\ OperandsOK' /\ (loaded' = loaded => LoadedOK')
<1>1. InstructionsOK' /\ (loaded' = loaded => LoadedOK')
  BY DEF Inv, InstructionsOK, LoadedOK
<1>2. OperandsOK'
  <2> SUFFICES ASSUME NEW b \in Block, NEW i \in DOMAIN code[b], code[b][i].op \in {"use", "call"}
               PROVE  StandsFor(Done, code[b][i].val, source[b][i].val, b, i)'
    BY DEF OperandsOK
  <2>1. StandsFor(Done, code[b][i].val, source[b][i].val, b, i)
    BY DEF Inv, OperandsOK
  <2> HIDE DEF Done
  <2>2. \A X, v, w : X = Done /\ StandsFor(X, v, w, b, i) => StandsFor(X, v, w, b, i)'
    BY SameStandsFor
  <2> QED
    BY <2>1, <2>2
<1> QED
  BY <1>1, <1>2

LEMMA SamePhis ==
  ASSUME Inv, UNCHANGED <<graph, source, incoming>>, Done' = Done,
         \A x \in Done : phiBlocks'[x] = phiBlocks[x]
  PROVE  PhisOK'
<1> SUFFICES ASSUME NEW x \in Done, NEW s \in phiBlocks[x], NEW p \in Block
             PROVE  IF p \in graph.preds[s]
                      THEN /\ StandsFor(Done, incoming[x][s][p], AtEnd(x, p), p, End(p))'
                           /\ (incoming[x][s][p] = NoValue <=> AtEnd(x, p) = NoValue)'
                      ELSE incoming[x][s][p] = NoValue
  BY DEF PhisOK
<1>1. AtEnd(x, p)' = AtEnd(x, p) /\ End(p)' = End(p)
  BY SameBefore DEF AtEnd, End
<1>2. IF p \in graph.preds[s]
        THEN /\ StandsFor(Done, incoming[x][s][p], AtEnd(x, p), p, End(p))
             /\ incoming[x][s][p] = NoValue <=> AtEnd(x, p) = NoValue
        ELSE incoming[x][s][p] = NoValue
  BY DEF Inv, PhisOK
<1> HIDE DEF Done
<1>3. \A X, v, w, i : X = Done /\ StandsFor(X, v, w, p, i) => StandsFor(X, v, w, p, i)'
  BY SameStandsFor
<1> QED
  BY <1>1, <1>2, <1>3

LEMMA InsertPhisInv ==
  ASSUME Inv, NEW b \in Block, InsertPhis(b)
  PROVE  Inv'
<1> USE DEF InsertPhis
<1>1. /\ UNCHANGED <<graph, source, code, phase, var, incoming, currentDef, renamed, replacements>>
      /\ UNCHANGED <<at, mem, loaded, phiValue, seen, seenNow>>
      /\ phase = "insert" /\ var \in Var /\ phiBlocks \in [Var -> SUBSET Block]
  BY DEF run, Inv, TypeOK
<1>2. Frontier(b) \subseteq Block
  BY FunctionShape DEF Inv, Placed, Frontier
<1>3. /\ phiBlocks' \in [Var -> SUBSET Block]
      /\ \A x \in Var : x # var => phiBlocks'[x] = phiBlocks[x]
  BY <1>1, <1>2
<1>4. Done' = Done /\ \A x \in Done : x \in Var /\ x # var
  BY <1>1, BlocksAreNumbers DEF Done
<1>5. Placed'
  BY <1>1, <1>3, SamePlaced DEF Inv
<1>6. TypeOK'
  BY <1>1, <1>2, <1>3, SameLoaded DEF Inv, TypeOK, MarkVisited
<1>7. InstructionsOK' /\ OperandsOK' /\ LoadedOK'
  BY <1>1, <1>3, <1>4, SameOperands
<1>8. PhisOK'
  BY <1>1, <1>3, <1>4, SamePhis
<1>9. Stages'
  <2>1. Stages /\ phase' = "insert" /\ var \in Nat /\ Var \subseteq Nat
    BY <1>1, BlocksAreNumbers DEF Inv
  <2>2. \A x \in Var : x > var => x # var
    BY <2>1
  <2>3. \A x \in Var : x > var' => \A s, p \in Block : s \notin phiBlocks'[x] /\ incoming'[x][s][p] = NoValue
    BY <1>1, <1>3, <2>1, <2>2 DEF Stages
  <2>4. \A x \in Var : \A s, p \in Block : s \notin phiBlocks'[x] => incoming'[x][s][p] = NoValue
    <3>1. \A s, p \in Block : incoming[var][s][p] = NoValue
      BY <1>1, <2>1 DEF Stages
    <3> QED
      BY <1>1, <1>3, <2>1, <3>1 DEF Stages
  <2>5. renamed' = {} /\ replacements' = {} /\ \A s, p \in Block : incoming'[var'][s][p] = NoValue
    BY <1>1, <2>1 DEF Stages
  <2> QED
    BY <2>1, <2>3, <2>4, <2>5 DEF Stages
<1> QED
  BY <1>5, <1>6, <1>7, <1>8, <1>9 DEF Inv

\* A step that changes nothing but the phase.
LEMMA NextStageInv ==
  ASSUME Inv, UNCHANGED <<graph, source, code, pass, run>>, phase # "run", phase' # "run",
         Done' = Done, phase' \in {"insert", "rename", "replace", "remove"}, Stages'
  PROVE  Inv'
<1>1. UNCHANGED <<phiBlocks, var, incoming, worklist, visited, currentDef, renamed, replacements,
                  at, mem, loaded, phiValue, seen, seenNow>>
  BY DEF pass, run
<1>2. Placed' /\ TypeOK'
  BY <1>1, SamePlaced, SameLoaded DEF Inv, TypeOK
<1>3. InstructionsOK' /\ OperandsOK' /\ LoadedOK'
  BY <1>1, SameOperands
<1>4. PhisOK'
  BY <1>1, SamePhis
<1> QED
  BY <1>2, <1>3, <1>4 DEF Inv

LEMMA StartRenamingInv ==
  ASSUME Inv, StartRenaming
  PROVE  Inv'
<1> USE DEF StartRenaming
<1>1. UNCHANGED <<graph, source, phiBlocks, var, incoming, renamed, replacements>>
  BY DEF pass
<1>2. Done' = Done
  BY <1>1 DEF Done
<1>3. RenamedOK'
  BY <1>1 DEF Inv, Stages, RenamedOK, TypeOK, Placed
<1>4. Stages'
  BY <1>1, <1>3 DEF Inv, Stages
<1> QED
  BY <1>2, <1>4, NextStageInv

\* When no block can be renamed any more, all have been.
LEMMA AllRenamed ==
  ASSUME Function, renamed \subseteq Block, \A b \in Block \ renamed : ~(IDoms(b) \subseteq renamed)
  PROVE  renamed = Block
<1> SUFFICES ASSUME Block \ renamed # {} PROVE FALSE
  OBVIOUS
<1> DEFINE T == {Cardinality(DominatorsOf(graph, b)) : b \in Block \ renamed}
<1>1. T \subseteq Nat /\ T # {}
  BY DominatorsFinite
<1>2. PICK m \in T : \A k \in T : m <= k
  <2> HIDE DEF T
  <2> QED
    BY <1>1, LeastNumber
<1>3. PICK b \in Block \ renamed : m = Cardinality(DominatorsOf(graph, b))
  OBVIOUS
<1>4. PICK d \in IDoms(b) : d \notin renamed
  OBVIOUS
<1>5. d \in Block /\ d # b /\ Dominates(graph, d, b)
  BY ParentDominators
<1>6. Cardinality(DominatorsOf(graph, d)) < Cardinality(DominatorsOf(graph, b))
  <2>1. b \in Block /\ graph.succs \in [Block -> SUBSET Block] /\ ReachableBlocks(graph) = Block
    BY FunctionShape
  <2> QED
    BY <1>5, <2>1, FewerDominators
<1>7. m <= Cardinality(DominatorsOf(graph, d))
  BY <1>2, <1>4, <1>5
<1> QED
  BY <1>3, <1>6, <1>7, DominatorsFinite

LEMMA StartReplacingInv ==
  ASSUME Inv, StartReplacing
  PROVE  Inv'
<1> USE DEF StartReplacing
<1>1. UNCHANGED <<graph, source, phiBlocks, var, incoming, renamed, replacements, currentDef>>
  BY DEF pass
<1>2. Done' = Done
  BY <1>1 DEF Done
<1>3. renamed = Block
  BY AllRenamed DEF Inv, Placed, TypeOK
<1>4. \A b, i : Before(var, b, i)' = Before(var, b, i)
  BY <1>1, SameBefore
<1>5. RenamedOK'
  BY <1>1, <1>4 DEF Inv, Stages, RenamedOK, IsReplacement, Replacement, AtEnd, End
<1>6. Stages'
  BY <1>1, <1>3, <1>5 DEF Inv, Stages
<1> QED
  BY <1>2, <1>6, NextStageInv

\* Renaming computes what the variable holds.
LEMMA RenamingComputes ==
  ASSUME Inv, phase = "rename", NEW b \in Block, IDoms(b) \subseteq renamed
  PROVE  /\ \A i \in Int : ValueBefore(b, i) = Before(var, b, i)
         /\ ValueAtEnd(b) = AtEnd(var, b)
<1>1. Function /\ RenamedOK /\ InstructionsOK /\ DOMAIN code[b] = DOMAIN source[b]
  BY DEF Inv, Placed, Stages, InstructionsOK
<1>2. ValueAtStart(b) = AtStart(var, b)
  <2>1. CASE b \in phiBlocks[var]
    BY <2>1 DEF ValueAtStart, AtStart
  <2>2. CASE b \notin phiBlocks[var] /\ b = Entry
    BY <1>1, <2>2, EntryHasNoParent, EntryStartsWithout DEF ValueAtStart, AtStart
  <2>3. CASE b \notin phiBlocks[var] /\ b # Entry
    <3>1. IDoms(b) # {}
      BY <1>1, <2>3, HasParent
    <3>2. ValueAtStart(b) = currentDef[CHOOSE d \in IDoms(b) : TRUE]
      BY <2>3, <3>1 DEF ValueAtStart
    <3>3. \A d \in IDoms(b) : currentDef[d] = AtStart(var, b)
      BY <1>1, <2>3, StartFromParent DEF RenamedOK, AtStart
    <3> QED
      BY <3>1, <3>2, <3>3
  <2> QED
    BY <2>1, <2>2, <2>3
<1>3. ASSUME NEW i \in Int PROVE ValueBefore(b, i) = Before(var, b, i)
  <2>1. {j \in Accesses(b) : j < i /\ code[b][j].op = "store"} = StoresBefore(var, b, i)
    BY <1>1 DEF Accesses, StoresBefore, InstructionsOK
  <2>2. CASE StoresBefore(var, b, i) = {}
    BY <1>2, <2>1, <2>2 DEF ValueBefore, Before
  <2>3. CASE StoresBefore(var, b, i) # {}
    <3> DEFINE l == Latest(StoresBefore(var, b, i))
    <3>1. ValueBefore(b, i) = code[b][l].val
      BY <2>1, <2>3 DEF ValueBefore, Latest
    <3>2. l \in DOMAIN source[b] /\ source[b][l].op = "store"
      <4>1. l \in StoresBefore(var, b, i)
        BY <1>1, <2>3, LastStore
      <4> QED
        BY <4>1 DEF StoresBefore
    <3>3. code[b][l].val = source[b][l].val
      BY <1>1, <3>2 DEF InstructionsOK
    <3> QED
      BY <2>3, <3>1, <3>3 DEF Before, LastStored
  <2> QED
    BY <2>2, <2>3
<1> QED
  BY <1>1, <1>3, FunctionShape DEF ValueAtEnd, AtEnd

LEMMA RenameInBlockInv ==
  ASSUME Inv, NEW b \in Block, RenameInBlock(b)
  PROVE  Inv'
<1>1. /\ UNCHANGED <<graph, source, code, phase, var, phiBlocks, worklist, visited,
                     at, mem, loaded, phiValue, seen, seenNow>>
      /\ phase = "rename" /\ b \notin renamed /\ IDoms(b) \subseteq renamed
      /\ currentDef' = [currentDef EXCEPT ![b] = ValueAtEnd(b)]
      /\ renamed' = renamed \cup {b}
      /\ incoming' = [incoming EXCEPT ![var] = Incoming(b)]
  BY DEF RenameInBlock, run
<1>2. /\ Placed /\ Function /\ TypeOK /\ var \in Var /\ RenamedOK /\ InstructionsOK
      /\ renamed \subseteq Block /\ var \in Nat
  BY <1>1, BlocksAreNumbers DEF Inv, Placed, TypeOK, Stages
<1>3. /\ \A i \in Int : ValueBefore(b, i) = Before(var, b, i)
      /\ ValueAtEnd(b) = AtEnd(var, b)
  BY <1>1, RenamingComputes
<1>4. AtEnd(var, b) \in Value
  BY <1>2, AtEndHolds DEF Holds
<1>5. /\ currentDef' \in [Block -> Value]
      /\ \A c \in renamed' : currentDef'[c] = AtEnd(var, c)
  BY <1>1, <1>2, <1>3, <1>4 DEF TypeOK, RenamedOK
<1>6. /\ incoming' \in [Var -> [Block -> [Block -> Value]]]
      /\ \A x \in Var : x # var => incoming'[x] = incoming[x]
      /\ \A s \in Block : s \notin phiBlocks[var] => incoming'[var][s] = incoming[var][s]
      /\ \A s \in phiBlocks[var] : \A p \in Block :
           incoming'[var][s][p] = IF p = b /\ s \in graph.succs[b] THEN AtEnd(var, b) ELSE incoming[var][s][p]
  <2>1. incoming \in [Var -> [Block -> [Block -> Value]]] /\ phiBlocks[var] \subseteq Block
    BY <1>2 DEF TypeOK
  <2>2. Incoming(b) = [s \in Block |-> IF s \in graph.succs[b] \cap phiBlocks[var]
                          THEN [incoming[var][s] EXCEPT ![b] = AtEnd(var, b)] ELSE incoming[var][s]]
    BY <1>3 DEF Incoming
  <2>3. Incoming(b) \in [Block -> [Block -> Value]]
    BY <1>2, <1>4, <2>1, <2>2
  <2> QED
    BY <1>1, <1>2, <2>1, <2>2, <2>3
<1>7. \A i \in DOMAIN source[b] : i \in Int
  BY <1>2, FunctionShape
<1>8. \A r : r \in replacements' <=> \/ r \in replacements
                                   \/ \E i \in DOMAIN source[b] : IsReplacement(r, b, i)
  <2>1. replacements' = replacements \cup
          {r \in {<<<<"load", b, i>>, ValueBefore(b, i)>> :
                   i \in {j \in Accesses(b) : code[b][j].op = "load"}} : r[2] # NoValue}
    BY DEF RenameInBlock
  <2>2. DOMAIN code[b] = DOMAIN source[b] /\ \A i \in DOMAIN source[b] :
          code[b][i].op = source[b][i].op /\ code[b][i].var = source[b][i].var
    BY <1>1, <1>2 DEF InstructionsOK
  <2>3. {j \in Accesses(b) : code[b][j].op = "load"} =
          {j \in DOMAIN source[b] : source[b][j].op = "load" /\ source[b][j].var = var}
    BY <2>2 DEF Accesses
  <2> QED
    BY <1>3, <1>7, <2>1, <2>3 DEF IsReplacement, Replacement
<1>9. /\ \A c, i : Before(var, c, i)' = Before(var, c, i)
      /\ \A c : AtEnd(var, c)' = AtEnd(var, c)
  BY <1>1, SameBefore DEF AtEnd, End
<1>10. \A r, c, i : IsReplacement(r, c, i)' = IsReplacement(r, c, i)
  BY <1>1, <1>9 DEF IsReplacement, Replacement
<1>11. RenamedOK'
  <2>1. \A r : r \in replacements' <=>
          \E c \in renamed' : \E i \in DOMAIN source[c] : IsReplacement(r, c, i)
    BY <1>1, <1>2, <1>8 DEF RenamedOK
  <2>2. \A s \in phiBlocks[var] : \A p \in Block : incoming'[var][s][p] =
          IF p \in renamed' /\ p \in graph.preds[s] THEN AtEnd(var, p) ELSE NoValue
    <3>1. \A s \in Block : b \in graph.preds[s] <=> s \in graph.succs[b]
      BY <1>2, FunctionShape
    <3>2. phiBlocks[var] \subseteq Block
      BY <1>2 DEF TypeOK
    <3> QED
      BY <1>1, <1>2, <1>6, <3>1, <3>2 DEF RenamedOK
  <2> QED
    BY <1>1, <1>5, <1>9, <1>10, <2>1, <2>2 DEF RenamedOK
<1>12. TypeOK'
  <2>1. \A r \in replacements' : r[1] \in Value /\ r[1][1] = "load" /\ r[2] \in Value \ {NoValue}
    <3>1. ASSUME NEW r, NEW i \in DOMAIN source[b], IsReplacement(r, b, i)
          PROVE  r[1] \in Value /\ r[1][1] = "load" /\ r[2] \in Value \ {NoValue}
      <4>1. r = <<<<"load", b, i>>, Before(var, b, i)>> /\ Before(var, b, i) # NoValue
        BY <3>1 DEF IsReplacement, Replacement
      <4>2. Before(var, b, i) \in Value
        BY <1>2, <1>7, BeforeHolds DEF Holds
      <4>3. <<"load", b, i>> \in Value
        <5>1. b \in Nat /\ i \in Nat
          BY <1>2, FunctionShape, BlocksAreNumbers
        <5> QED
          BY <5>1 DEF Value
      <4> QED
        BY <4>1, <4>2, <4>3
    <3> QED
      BY <1>2, <1>8, <3>1 DEF TypeOK
  <2> QED
    BY <1>1, <1>2, <1>5, <1>6, <2>1, SameLoaded DEF TypeOK
<1>13. Placed' /\ Done' = Done /\ \A x \in Done : x \in Var /\ x # var
  BY <1>1, <1>2, SamePlaced, BlocksAreNumbers DEF Done, TypeOK
<1>14. InstructionsOK' /\ OperandsOK' /\ LoadedOK'
  BY <1>1, <1>13, SameOperands
<1>15. PhisOK'
  <2> SUFFICES ASSUME NEW x \in Done, NEW s \in phiBlocks[x], NEW p \in Block
               PROVE  IF p \in graph.preds[s]
                        THEN /\ StandsFor(Done, incoming[x][s][p], AtEnd(x, p), p, End(p))'
                             /\ (incoming[x][s][p] = NoValue <=> AtEnd(x, p) = NoValue)'
                        ELSE incoming'[x][s][p] = NoValue
    BY <1>1, <1>13 DEF PhisOK
  <2>1. AtEnd(x, p)' = AtEnd(x, p) /\ End(p)' = End(p) /\ incoming'[x][s][p] = incoming[x][s][p]
    BY <1>1, <1>6, <1>13, SameBefore DEF AtEnd, End
  <2>2. IF p \in graph.preds[s]
          THEN /\ StandsFor(Done, incoming[x][s][p], AtEnd(x, p), p, End(p))
               /\ incoming[x][s][p] = NoValue <=> AtEnd(x, p) = NoValue
          ELSE incoming[x][s][p] = NoValue
    BY DEF Inv, PhisOK
  <2> HIDE DEF Done
  <2>3. \A X, v, w, i : X = Done /\ StandsFor(X, v, w, p, i) => StandsFor(X, v, w, p, i)'
    BY <1>1, SameStandsFor
  <2> QED
    BY <1>13, <2>1, <2>2, <2>3
<1>16. Stages'
  <2>1. \A x \in Var : x > var => \A s, p \in Block : s \notin phiBlocks[x] /\ incoming'[x][s][p] = NoValue
    <3>1. \A x \in Var : x > var => x # var
      BY <1>2, BlocksAreNumbers
    <3>2. \A x \in Var : x > var => \A s, p \in Block : s \notin phiBlocks[x] /\ incoming[x][s][p] = NoValue
      BY DEF Inv, Stages
    <3> QED
      BY <1>6, <3>1, <3>2
  <2>2. \A x \in Var : \A s, p \in Block : s \notin phiBlocks[x] => incoming'[x][s][p] = NoValue
    <3>1. \A x \in Var : \A s, p \in Block : s \notin phiBlocks[x] => incoming[x][s][p] = NoValue
      BY DEF Inv, Stages
    <3> QED
      BY <1>6, <3>1
  <2> QED
    BY <1>1, <1>11, <2>1, <2>2 DEF Stages
<1> QED
  BY <1>12, <1>13, <1>14, <1>15, <1>16 DEF Inv

-----------------------------------------------------------------------------
(* Replacing the loads.                                                    *)

\* A load of the variable in work is replaced by what the variable holds, if that
\* is known; everything else stays.
ToReplace(v) == v \in Value /\ IsLoad(v) /\ VarOf(v) = var /\ Before(var, v[2], v[3]) # NoValue

LEMMA ReplacedIs ==
  ASSUME Inv, phase = "replace", NEW v
  PROVE  /\ ToReplace(v) => Replaced(v) = Before(var, v[2], v[3])
         /\ ~ToReplace(v) => Replaced(v) = v
<1>1. Function /\ RenamedOK /\ renamed = Block
  BY DEF Inv, Placed, Stages
<1>2. \A r : r \in replacements <=> \E b \in Block : \E i \in DOMAIN source[b] : IsReplacement(r, b, i)
  BY <1>1 DEF RenamedOK
<1>3. ASSUME NEW r \in replacements, r[1] = v
      PROVE  ToReplace(v) /\ r[2] = Before(var, v[2], v[3])
  <2>0. PICK b \in Block : \E i \in DOMAIN source[b] : IsReplacement(r, b, i)
    BY <1>2
  <2>1. PICK i \in DOMAIN source[b] : IsReplacement(r, b, i)
    BY <2>0
  <2>2. v = <<"load", b, i>> /\ r[2] = Before(var, b, i)
    BY <1>3, <2>1 DEF IsReplacement, Replacement
  <2>3. b \in Nat /\ i \in Nat
    BY <1>1, FunctionShape, BlocksAreNumbers
  <2> QED
    BY <2>1, <2>2, <2>3 DEF ToReplace, IsReplacement, IsLoad, VarOf, Value
<1>4. ASSUME ToReplace(v) PROVE \E r \in replacements : r[1] = v
  <2>1. v = <<"load", v[2], v[3]>> /\ v[2] \in Block /\ v[3] \in DOMAIN source[v[2]]
    BY <1>4 DEF ToReplace, IsLoad, Value
  <2>2. IsReplacement(<<v, Before(var, v[2], v[3])>>, v[2], v[3])
    BY <1>4, <2>1 DEF ToReplace, IsReplacement, Replacement, IsLoad, VarOf
  <2>3. <<v, Before(var, v[2], v[3])>> \in replacements
    BY <1>2, <2>1, <2>2
  <2> QED
    BY <2>3
<1>5. (\E r \in replacements : r[1] = v) <=> ToReplace(v)
  BY <1>3, <1>4
<1>6. ASSUME ToReplace(v) PROVE Replaced(v) = Before(var, v[2], v[3])
  <2>1. (CHOOSE r \in replacements : r[1] = v) \in replacements
         /\ (CHOOSE r \in replacements : r[1] = v)[1] = v
    BY <1>5, <1>6
  <2> QED
    BY <1>3, <1>5, <1>6, <2>1 DEF Replaced
<1> QED
  BY <1>5, <1>6 DEF Replaced

LEMMA ReplacedStands ==
  ASSUME Inv, phase = "replace", NEW v, NEW w, NEW b \in Block, NEW i \in Int, StandsFor(Done, v, w, b, i)
  PROVE  /\ StandsFor(Done \cup {var}, Replaced(v), w, b, i)
         /\ Replaced(v) = NoValue <=> v = NoValue
<1>1. Placed /\ var \in Var /\ Done \subseteq Var
  BY DEF Inv, TypeOK, Done
<1>2. CASE ToReplace(v)
  <2>1. VarOf(v) = var /\ v[1] = "load" /\ Replaced(v) = Before(var, v[2], v[3]) /\ Replaced(v) # NoValue
    BY <1>2, ReplacedIs DEF ToReplace, IsLoad
  <2>2. StandsFor(Done \cup {var}, Before(var, v[2], v[3]), w, b, i)
    BY <1>1, <2>1, ReplacementStands
  <2> QED
    BY <2>1, <2>2, ValuesThere
<1>3. CASE ~ToReplace(v)
  <2>1. Replaced(v) = v
    BY <1>3, ReplacedIs
  <2> QED
    BY <2>1, StandsForWithMore
<1> QED
  BY <1>2, <1>3

LEMMA ReplacedIsValue ==
  ASSUME Inv, phase = "replace", NEW v \in Value
  PROVE  Replaced(v) \in Value
<1>1. ASSUME ToReplace(v) PROVE Before(var, v[2], v[3]) \in Value
  <2>1. v[2] \in Block /\ v[3] \in Int /\ var \in Var /\ Placed
    BY <1>1, FunctionShape DEF ToReplace, IsLoad, Inv, TypeOK, Placed
  <2> QED
    BY <2>1, BeforeHolds DEF Holds
<1> QED
  BY <1>1, ReplacedIs

LEMMA NoValueStays ==
  ASSUME Inv, phase = "replace"
  PROVE  Replaced(NoValue) = NoValue
<1>1. ~ToReplace(NoValue)
  BY ValuesThere DEF ToReplace, IsLoad
<1> QED
  BY <1>1, ReplacedIs

LEMMA ReplacedInIs ==
  ASSUME NEW inst \in Instr, Replaced(inst.val) \in Value
  PROVE  /\ ReplacedIn(inst) \in Instr
         /\ ReplacedIn(inst).op = inst.op
         /\ ReplacedIn(inst).var = inst.var
         /\ ReplacedIn(inst).val = IF inst.op = "use" THEN Replaced(inst.val) ELSE inst.val
<1> DEFINE new == [inst EXCEPT !.val = Replaced(inst.val)]
<1>1. inst = [op |-> inst.op, var |-> inst.var, val |-> inst.val]
      /\ inst.op \in {"load", "store", "use", "call"} /\ inst.var \in Nat /\ inst.val \in Value
  BY DEF Instr
<1>2. new = [op |-> inst.op, var |-> inst.var, val |-> Replaced(inst.val)]
  BY <1>1
<1>3. new \in Instr /\ new.op = inst.op /\ new.var = inst.var /\ new.val = Replaced(inst.val)
  BY <1>1, <1>2 DEF Instr
<1> HIDE DEF new
<1>4. ReplacedIn(inst) = IF inst.op = "use" THEN new ELSE inst
  BY DEF ReplacedIn, new
<1> QED
  BY <1>3, <1>4

LEMMA ReplaceLoadsInv ==
  ASSUME Inv, ReplaceLoads
  PROVE  Inv'
<1>1. /\ UNCHANGED <<graph, source, phiBlocks, at, mem, loaded, phiValue, seen, seenNow>>
      /\ phase = "replace"
      /\ code' = [b \in Block |-> [i \in DOMAIN code[b] |-> ReplacedIn(code[b][i])]]
      /\ incoming' = [x \in Var |-> [b \in Block |-> [p \in Block |-> Replaced(incoming[x][b][p])]]]
  BY DEF ReplaceLoads, run
<1>2. \/ /\ var < NumVars /\ phase' = "insert" /\ var' = var + 1 /\ renamed' = {} /\ replacements' = {}
         /\ worklist' = DefBlocks(var + 1) /\ visited' = DefBlocks(var + 1)
         /\ currentDef' = [b \in Block |-> NoValue]
      \/ /\ ~(var < NumVars) /\ phase' = "remove"
         /\ UNCHANGED <<var, worklist, visited, currentDef, renamed, replacements>>
  BY DEF ReplaceLoads
<1>3. /\ Placed /\ Function /\ TypeOK /\ var \in Var /\ RenamedOK /\ InstructionsOK /\ renamed = Block
      /\ var \in Nat /\ NumVars \in Nat /\ var <= NumVars
  BY <1>1, NumVarsAssumption DEF Inv, Placed, TypeOK, Stages, Var
<1>4. /\ Done' = Done \cup {var} /\ var' \in Var /\ Done \subseteq Var /\ var \notin Done
      /\ Done = {x \in Var : x < var}
  BY <1>1, <1>2, <1>3 DEF Done, Var
<1>5. Placed'
  BY <1>1, <1>3, SamePlaced DEF Placed
<1>6. TypeOK'
  <2>1. incoming' \in [Var -> [Block -> [Block -> Value]]]
    <3>1. \A x \in Var, b, p \in Block : Replaced(incoming[x][b][p]) \in Value
      BY <1>1, <1>3, ReplacedIsValue DEF TypeOK
    <3> QED
      BY <1>1, <3>1
  <2>2. DefBlocks(var + 1) \subseteq Block
    BY DEF DefBlocks
  <2>3. \A b : End(b)' = End(b)
    BY <1>1 DEF End
  <2> QED
    BY <1>1, <1>2, <1>3, <1>4, <2>1, <2>2, <2>3, ValuesThere DEF TypeOK
<1>7. ASSUME NEW b \in Block, NEW i \in DOMAIN source[b]
      PROVE  /\ DOMAIN code[b] = DOMAIN source[b]
             /\ DOMAIN code'[b] = DOMAIN code[b] /\ code'[b][i] = ReplacedIn(code[b][i])
             /\ code[b][i] \in Instr /\ code[b][i].op = source[b][i].op /\ code[b][i].var = source[b][i].var
             /\ code[b][i].op # "use" => code[b][i].val = source[b][i].val
  BY <1>1, <1>3 DEF InstructionsOK
<1>8. \A b \in Block : DOMAIN code'[b] = DOMAIN source[b] /\ DOMAIN code[b] = DOMAIN source[b]
  BY <1>1, <1>3 DEF InstructionsOK
<1>9. ASSUME NEW b \in Block, NEW i \in DOMAIN source[b]
      PROVE  /\ code'[b][i] \in Instr
             /\ code'[b][i].op = source[b][i].op
             /\ code'[b][i].var = source[b][i].var
             /\ code'[b][i].val = IF source[b][i].op = "use" THEN Replaced(code[b][i].val) ELSE code[b][i].val
  <2>1. code[b][i] \in Instr /\ Replaced(code[b][i].val) \in Value
    BY <1>1, <1>7, ReplacedIsValue DEF Instr
  <2>2. /\ ReplacedIn(code[b][i]) \in Instr
        /\ ReplacedIn(code[b][i]).op = code[b][i].op
        /\ ReplacedIn(code[b][i]).var = code[b][i].var
        /\ ReplacedIn(code[b][i]).val = IF code[b][i].op = "use" THEN Replaced(code[b][i].val) ELSE code[b][i].val
    BY <2>1, ReplacedInIs
  <2> QED
    BY <1>7, <2>2
<1>10. source' = source /\ phiBlocks' = phiBlocks /\ graph' = graph /\ phase' # "run"
  BY <1>1, <1>2
<1>11. InstructionsOK'
  <2> SUFFICES ASSUME NEW b \in Block, NEW i \in DOMAIN source[b]
               PROVE  /\ code'[b][i] \in Instr
                      /\ code'[b][i].op = source[b][i].op
                      /\ code'[b][i].var = source[b][i].var
                      /\ code'[b][i].op # "use" => code'[b][i].val = source[b][i].val
    BY <1>8, <1>10 DEF InstructionsOK
  <2> QED
    BY <1>7, <1>9
<1>12. OperandsOK'
  <2> SUFFICES ASSUME NEW b \in Block, NEW i \in DOMAIN source[b], code'[b][i].op \in {"use", "call"}
               PROVE  StandsFor(Done, code[b][i].val, source[b][i].val, b, i)'
    BY <1>8 DEF OperandsOK
  <2>1. source[b][i].op \in {"use", "call"} /\ i \in Int
    BY <1>3, <1>9, FunctionShape
  <2>2. StandsFor(Done, code[b][i].val, source[b][i].val, b, i)
    BY <1>7, <2>1 DEF Inv, OperandsOK
  <2>3. StandsFor(Done \cup {var}, code'[b][i].val, source[b][i].val, b, i)
    <3>1. CASE source[b][i].op = "use"
      <4>1. code'[b][i].val = Replaced(code[b][i].val)
        BY <1>9, <3>1
      <4> QED
        <5>1. phase = "replace"
          BY <1>1
        <5>2. StandsFor(Done \cup {var}, Replaced(code[b][i].val), source[b][i].val, b, i)
          BY <2>1, <2>2, <5>1, ReplacedStands
        <5> QED
          BY <4>1, <5>2
    <3>2. CASE source[b][i].op # "use"
      <4>1. code'[b][i].val = code[b][i].val
        BY <1>9, <3>2
      <4> QED
        BY <2>2, <4>1, StandsForWithMore
    <3> QED
      BY <3>1, <3>2
  <2> HIDE DEF Done
  <2>4. \A X, v, w : StandsFor(X, v, w, b, i) => StandsFor(X, v, w, b, i)'
    BY <1>10, SameStandsFor
  <2> QED
    BY <1>4, <1>10, <2>3, <2>4
<1>13. PhisOK'
  <2> SUFFICES ASSUME NEW x \in Done \cup {var}, NEW s \in phiBlocks[x], NEW p \in Block
               PROVE  IF p \in graph.preds[s]
                        THEN /\ StandsFor(Done, incoming[x][s][p], AtEnd(x, p), p, End(p))'
                             /\ (incoming[x][s][p] = NoValue <=> AtEnd(x, p) = NoValue)'
                        ELSE incoming'[x][s][p] = NoValue
    BY <1>4, <1>10 DEF PhisOK
  <2>1. x \in Var /\ s \in Block /\ incoming'[x][s][p] = Replaced(incoming[x][s][p])
    BY <1>1, <1>3, <1>4 DEF TypeOK
  <2>2. IF p \in graph.preds[s]
          THEN /\ StandsFor(Done, incoming[x][s][p], AtEnd(x, p), p, End(p))
               /\ incoming[x][s][p] = NoValue <=> AtEnd(x, p) = NoValue
          ELSE incoming[x][s][p] = NoValue
    <3>1. CASE x \in Done
      BY <3>1 DEF Inv, PhisOK
    <3>2. CASE x = var
      <4>1. StandsFor(Done, AtEnd(x, p), AtEnd(x, p), p, End(p))
        BY <1>3, <2>1, AtEndHolds, StandsForItself
      <4> QED
        BY <1>3, <3>2, <4>1 DEF RenamedOK
    <3> QED
      BY <3>1, <3>2
  <2>3. AtEnd(x, p)' = AtEnd(x, p) /\ End(p)' = End(p) /\ End(p) \in Int
    BY <1>1, <1>3, SameBefore, FunctionShape DEF AtEnd, End
  <2>4. CASE p \in graph.preds[s]
    <3>1. /\ StandsFor(Done \cup {var}, incoming'[x][s][p], AtEnd(x, p), p, End(p))
          /\ incoming'[x][s][p] = NoValue <=> AtEnd(x, p) = NoValue
      BY <1>1, <2>1, <2>2, <2>3, <2>4, ReplacedStands
    <3> HIDE DEF Done
    <3>2. \A X, v, w, i : StandsFor(X, v, w, p, i) => StandsFor(X, v, w, p, i)'
      BY <1>1, SameStandsFor
    <3> QED
      BY <1>4, <2>3, <2>4, <3>1, <3>2
  <2>5. CASE p \notin graph.preds[s]
    BY <1>1, <2>1, <2>2, <2>5, NoValueStays
  <2> QED
    BY <2>4, <2>5
<1>14. Stages'
  <2>1. \A x \in Var, s, p \in Block : incoming[x][s][p] = NoValue => incoming'[x][s][p] = NoValue
    BY <1>1, NoValueStays
  <2>2. /\ \A x \in Var : x > var => \A s, p \in Block : s \notin phiBlocks[x] /\ incoming[x][s][p] = NoValue
        /\ \A x \in Var : \A s, p \in Block : s \notin phiBlocks[x] => incoming[x][s][p] = NoValue
    BY DEF Inv, Stages
  <2>3. \A x \in Var : x > var' => x > var
    BY <1>2, <1>3 DEF Var
  <2>4. phase' = "insert" => var' > var /\ renamed' = {} /\ replacements' = {}
    BY <1>2, <1>3
  <2>5. phase' \in {"insert", "remove"} /\ (phase' = "remove" => var' = NumVars)
    BY <1>2, <1>3
  <2> QED
    BY <1>1, <1>4, <2>1, <2>2, <2>3, <2>4, <2>5 DEF Stages
<1>15. LoadedOK'
  BY <1>1 DEF Inv, LoadedOK
<1> QED
  BY <1>5, <1>6, <1>11, <1>12, <1>13, <1>14, <1>15 DEF Inv

\* Only uses and calls are left, with the operands they had.
LEMMA RemoveInstructionsInv ==
  ASSUME Inv, RemoveInstructions
  PROVE  Inv'
<1> DEFINE left(b) == {j \in DOMAIN code[b] : code[b][j].op \in {"use", "call"}}
<1>1. /\ UNCHANGED <<graph, source, phiBlocks, var, incoming, worklist, visited, currentDef, renamed,
                     replacements, at, mem, loaded, phiValue, seen, seenNow>>
      /\ phase = "remove" /\ phase' = "run"
  BY DEF RemoveInstructions, pass, run
<1>2. \A b \in Block : /\ DOMAIN code'[b] = left(b)
                       /\ \A i \in left(b) : code'[b][i] = code[b][i]
  BY DEF RemoveInstructions
<1>3. /\ Placed /\ TypeOK /\ InstructionsOK /\ OperandsOK /\ PhisOK /\ Stages /\ LoadedOK
      /\ source' = source /\ graph' = graph /\ phiBlocks' = phiBlocks /\ incoming' = incoming
      /\ phase = "remove" /\ phase' = "run"
  BY <1>1 DEF Inv
<1>4. Done' = Done
  BY <1>1 DEF Done
<1>5. \A b \in Block : /\ DOMAIN code[b] = DOMAIN source[b]
                       /\ \A i \in DOMAIN code[b] : code[b][i].op = source[b][i].op
  BY <1>3 DEF InstructionsOK
<1>6. InstructionsOK'
  BY <1>2, <1>3, <1>5 DEF InstructionsOK
<1>7. OperandsOK'
  <2> SUFFICES ASSUME NEW b \in Block, NEW i \in left(b)
               PROVE  StandsFor(Done, code[b][i].val, source[b][i].val, b, i)'
    BY <1>2 DEF OperandsOK
  <2>1. StandsFor(Done, code[b][i].val, source[b][i].val, b, i) /\ code'[b][i] = code[b][i]
    BY <1>2, <1>3 DEF OperandsOK
  <2> HIDE DEF Done
  <2>2. \A X, v, w : X = Done /\ StandsFor(X, v, w, b, i) => StandsFor(X, v, w, b, i)'
    BY <1>3, SameStandsFor
  <2> QED
    BY <1>3, <1>4, <2>1, <2>2
<1>8. PhisOK'
  BY <1>1, <1>4, SamePhis
<1>9. Placed' /\ TypeOK' /\ LoadedOK'
  BY <1>1, <1>3, SamePlaced, SameLoaded DEF TypeOK, LoadedOK
<1>10. Stages'
  BY <1>1, <1>3 DEF Stages
<1> QED
  BY <1>6, <1>7, <1>8, <1>9, <1>10 DEF Inv

-----------------------------------------------------------------------------
(* Executing the functions.                                                *)

\* Execution leaves the functions alone.
LEMMA ExecutionInv ==
  ASSUME Inv, phase = "run", UNCHANGED <<graph, source, code, phase, pass>>,
         at' \in [block : Block, next : Nat], at'.next \in 1..End(at'.block), mem' \in [Var -> Value],
         phiValue' \in [Var -> [Block -> Value]], seen' \in Value, seenNow' \in Value, LoadedOK'
  PROVE  Inv'
<1>1. UNCHANGED <<phiBlocks, var, incoming, worklist, visited, currentDef, renamed, replacements>>
  BY DEF pass
<1>2. Done' = Done
  BY <1>1 DEF Done
<1>3. Placed' /\ TypeOK'
  BY <1>1, SamePlaced, SameLoaded DEF Inv, TypeOK
<1>4. InstructionsOK' /\ OperandsOK' /\ PhisOK'
  BY <1>1, <1>2, SameOperands, SamePhis
<1>5. Stages'
  BY <1>1 DEF Inv, Stages
<1> QED
  BY <1>3, <1>4, <1>5 DEF Inv

\* The results of what can stand in the functions are values.
LEMMA ResultsAreValues ==
  ASSUME Inv, NEW v \in Value
  PROVE  /\ v[1] = "const" \/ IsLoad(v) => ResultOf(v) \in Value
         /\ v[1] \in {"none", "const", "load"} \/ (v[2] \in Var /\ v[3] \in Block) => ValueNow(v) \in Value
<1>1. IsLoad(v) => loaded[v[2]][v[3]] \in Value
  BY DEF Inv, LoadedOK, IsLoad
<1>2. v[2] \in Var /\ v[3] \in Block => phiValue[v[2]][v[3]] \in Value
  BY DEF Inv, TypeOK
<1> QED
  BY <1>1, <1>2, ValuesThere DEF ResultOf, ValueNow, IsLoad

LEMMA InstructionShape ==
  ASSUME Inv, phase = "run", at.next \in DOMAIN source[at.block]
  PROVE  /\ at.block \in Block /\ at.next \in Int
         /\ [at EXCEPT !.next = @ + 1] = [block |-> at.block, next |-> at.next + 1]
         /\ at.next + 1 \in 1..End(at.block)
         /\ Instruction.op \in {"load", "store"} => Instruction.var \in Var
         /\ Instruction.val \in Value
         /\ Instruction.op # "load" => /\ Instruction.val[1] = "const" \/ IsLoad(Instruction.val)
                                       /\ ResultOf(Instruction.val) \in Value
<1>1. Function /\ at \in [block : Block, next : Nat]
  BY DEF Inv, Placed, TypeOK
<1>2. [at EXCEPT !.next = @ + 1] = [block |-> at.block, next |-> at.next + 1]
  BY <1>1
<1>3. at.block \in Block /\ at.next \in Nat
  BY <1>1
<1>4. at.next + 1 \in 1..End(at.block)
  BY <1>1, <1>3, FunctionShape
<1>5. /\ Instruction.op \in {"load", "store"} => Instruction.var \in Var
      /\ Instruction.val \in Value
      /\ Instruction.op # "load" => Instruction.val[1] = "const" \/ IsLoad(Instruction.val)
  BY <1>1, <1>3, OperandShape DEF Instruction, LoadedBefore
<1> QED
  BY <1>2, <1>3, <1>4, <1>5, ResultsAreValues

LEMMA ExecuteLoadInv ==
  ASSUME Inv, ExecuteLoad
  PROVE  Inv'
<1>1. /\ phase = "run" /\ at.next \in DOMAIN source[at.block] /\ Instruction.op = "load"
      /\ loaded' = [loaded EXCEPT ![at.block][at.next] = mem[Instruction.var]]
      /\ at' = [at EXCEPT !.next = @ + 1]
      /\ UNCHANGED <<graph, source, code, phase, pass, mem, phiValue, seen, seenNow>>
  BY DEF ExecuteLoad, InstructionIs, Instruction
<1>2. /\ at.block \in Block /\ at' = [block |-> at.block, next |-> at.next + 1]
      /\ at.next + 1 \in 1..End(at.block) /\ Instruction.var \in Var
  BY <1>1, InstructionShape
<1>3. TypeOK /\ LoadedOK
  BY DEF Inv
<1>4. LoadedOK'
  <2>1. mem[Instruction.var] \in Value
    BY <1>2, <1>3 DEF TypeOK
  <2> QED
    BY <1>1, <1>2, <1>3, <2>1 DEF LoadedOK
<1>5. at' \in [block : Block, next : Nat] /\ at'.next \in 1..End(at'.block)
  BY <1>2
<1> QED
  BY <1>1, <1>3, <1>4, <1>5, ExecutionInv DEF TypeOK

LEMMA ExecuteStoreInv ==
  ASSUME Inv, ExecuteStore
  PROVE  Inv'
<1>1. /\ phase = "run" /\ at.next \in DOMAIN source[at.block] /\ Instruction.op = "store"
      /\ mem' = [mem EXCEPT ![Instruction.var] = ResultOf(Instruction.val)]
      /\ at' = [at EXCEPT !.next = @ + 1]
      /\ UNCHANGED <<graph, source, code, phase, pass, loaded, phiValue, seen, seenNow>>
  BY DEF ExecuteStore, InstructionIs, Instruction
<1>2. /\ at.block \in Block /\ at' = [block |-> at.block, next |-> at.next + 1]
      /\ at.next + 1 \in 1..End(at.block) /\ Instruction.var \in Var
      /\ ResultOf(Instruction.val) \in Value
  BY <1>1, InstructionShape
<1>3. TypeOK /\ LoadedOK
  BY DEF Inv
<1>4. mem' \in [Var -> Value] /\ LoadedOK'
  BY <1>1, <1>2, <1>3 DEF TypeOK, LoadedOK
<1>5. at' \in [block : Block, next : Nat] /\ at'.next \in 1..End(at'.block)
  BY <1>2
<1> QED
  BY <1>1, <1>3, <1>4, <1>5, ExecutionInv DEF TypeOK

\* What is executed in both functions has the operands the invariant speaks of.
LEMMA UseShape ==
  ASSUME Inv, phase = "run", at.next \in DOMAIN source[at.block], Instruction.op \in {"use", "call"}
  PROVE  StandsFor(Var, code[at.block][at.next].val, Instruction.val, at.block, at.next)
<1>1. at.block \in Block /\ Done = Var
  BY DEF Inv, TypeOK, Done
<1>2. at.next \in DOMAIN code[at.block] /\ code[at.block][at.next].op = Instruction.op
  BY <1>1 DEF Inv, InstructionsOK, Instruction
<1>3. StandsFor(Done, code[at.block][at.next].val, Instruction.val, at.block, at.next)
  BY <1>1, <1>2 DEF Inv, OperandsOK, Instruction
<1> QED
  BY <1>1, <1>3

LEMMA ExecuteUseInv ==
  ASSUME Inv, ExecuteUse
  PROVE  Inv'
<1>1. /\ phase = "run" /\ at.next \in DOMAIN source[at.block] /\ Instruction.op \in {"use", "call"}
      /\ seen' = ResultOf(Instruction.val)
      /\ seenNow' = ValueNow(code[at.block][at.next].val)
      /\ at' = [at EXCEPT !.next = @ + 1]
      /\ UNCHANGED <<graph, source, code, phase, pass, mem, loaded, phiValue>>
  BY DEF ExecuteUse, InstructionIs, Instruction
<1>2. /\ at.block \in Block /\ at' = [block |-> at.block, next |-> at.next + 1]
      /\ at.next + 1 \in 1..End(at.block)
      /\ ResultOf(Instruction.val) \in Value
  BY <1>1, InstructionShape
<1>3. TypeOK /\ LoadedOK
  BY DEF Inv
<1>4. ValueNow(code[at.block][at.next].val) \in Value
  BY <1>1, UseShape, ResultsAreValues DEF StandsFor
<1>5. LoadedOK'
  BY <1>1, <1>3 DEF LoadedOK
<1>6. at' \in [block : Block, next : Nat] /\ at'.next \in 1..End(at'.block)
  BY <1>2
<1> QED
  BY <1>1, <1>2, <1>3, <1>4, <1>5, <1>6, ExecutionInv DEF TypeOK

\* On entering a block the phi nodes take what stands for the variables at the end
\* of the block that is left.
LEMMA EdgeShape ==
  ASSUME Inv, phase = "run", at.next = End(at.block), NEW b \in graph.succs[at.block],
         NEW x \in Var, b \in phiBlocks[x]
  PROVE  /\ StandsFor(Var, incoming[x][b][at.block], AtEnd(x, at.block), at.block, at.next)
         /\ ValueNow(incoming[x][b][at.block]) \in Value
<1>1. at.block \in Block /\ Done = Var /\ Function /\ phiBlocks[x] \subseteq Block
  BY DEF Inv, TypeOK, Done, Placed
<1>2. at.block \in graph.preds[b]
  BY <1>1, FunctionShape
<1>3. StandsFor(Done, incoming[x][b][at.block], AtEnd(x, at.block), at.block, End(at.block))
  BY <1>1, <1>2 DEF Inv, PhisOK
<1>4. StandsFor(Var, incoming[x][b][at.block], AtEnd(x, at.block), at.block, at.next)
  BY <1>1, <1>3
<1> QED
  BY <1>4, ResultsAreValues DEF StandsFor

LEMMA EnterBlockInv ==
  ASSUME Inv, NEW b \in Block, EnterBlock(b)
  PROVE  Inv'
<1>1. /\ phase = "run" /\ at.next = End(at.block) /\ b \in graph.succs[at.block]
      /\ at' = [block |-> b, next |-> 1]
      /\ phiValue' = [x \in Var |-> IF b \in phiBlocks[x]
                        THEN [phiValue[x] EXCEPT ![b] = ValueNow(incoming[x][b][at.block])]
                        ELSE phiValue[x]]
      /\ UNCHANGED <<graph, source, code, phase, pass, mem, loaded, seen, seenNow>>
  BY DEF EnterBlock
<1>2. TypeOK /\ LoadedOK /\ Function
  BY DEF Inv, Placed
<1>3. phiValue' \in [Var -> [Block -> Value]]
  <2>1. \A x \in Var : b \in phiBlocks[x] => ValueNow(incoming[x][b][at.block]) \in Value
    BY <1>1, EdgeShape
  <2> QED
    BY <1>1, <1>2, <2>1 DEF TypeOK
<1>4. LoadedOK'
  BY <1>1, <1>2 DEF LoadedOK
<1>5. at' \in [block : Block, next : Nat] /\ at'.next \in 1..End(at'.block)
  BY <1>1, <1>2, FunctionShape
<1> QED
  BY <1>1, <1>2, <1>3, <1>4, <1>5, ExecutionInv DEF TypeOK

LEMMA StepInv ==
  Inv /\ [Next]_vars => Inv'
<1> SUFFICES ASSUME Inv, [Next]_vars PROVE Inv'
  OBVIOUS
<1>1. CASE UNCHANGED vars
  <2>1. UNCHANGED <<graph, source, code, phase, pass, run>>
    BY <1>1 DEF vars
  <2>2. UNCHANGED <<phiBlocks, var, incoming, worklist, visited, currentDef, renamed, replacements,
                    at, mem, loaded, phiValue, seen, seenNow>>
    BY <2>1 DEF pass, run
  <2>3. Done' = Done
    BY <2>1, <2>2 DEF Done
  <2>4. Placed' /\ TypeOK'
    BY <2>1, <2>2, SamePlaced, SameLoaded DEF Inv, TypeOK
  <2>5. InstructionsOK' /\ OperandsOK' /\ PhisOK' /\ LoadedOK'
    BY <2>1, <2>2, <2>3, SameOperands, SamePhis
  <2>6. \A b, i : Before(var, b, i)' = Before(var, b, i)
    BY <2>1, <2>2, SameBefore
  <2>7. RenamedOK => RenamedOK'
    BY <2>1, <2>2, <2>6 DEF RenamedOK, IsReplacement, Replacement, AtEnd, End
  <2>8. Stages'
    BY <2>1, <2>2, <2>7 DEF Inv, Stages
  <2> QED
    BY <2>4, <2>5, <2>8 DEF Inv
<1>2. CASE Next
  <2>1. ASSUME NEW b \in Block, InsertPhis(b) PROVE Inv'
    BY <2>1, InsertPhisInv
  <2>2. CASE StartRenaming
    BY <2>2, StartRenamingInv
  <2>3. ASSUME NEW b \in Block, RenameInBlock(b) PROVE Inv'
    BY <2>3, RenameInBlockInv
  <2>4. CASE StartReplacing
    BY <2>4, StartReplacingInv
  <2>5. CASE ReplaceLoads
    BY <2>5, ReplaceLoadsInv
  <2>6. CASE RemoveInstructions
    BY <2>6, RemoveInstructionsInv
  <2>7. CASE ExecuteLoad
    BY <2>7, ExecuteLoadInv
  <2>8. CASE ExecuteStore
    BY <2>8, ExecuteStoreInv
  <2>9. CASE ExecuteUse
    BY <2>9, ExecuteUseInv
  <2>10. ASSUME NEW b \in Block, EnterBlock(b) PROVE Inv'
    BY <2>10, EnterBlockInv
  <2> QED
    BY <1>2, <2>1, <2>2, <2>3, <2>4, <2>5, <2>6, <2>7, <2>8, <2>9, <2>10 DEF Next
<1> QED
  BY <1>1, <1>2

\* The pass computes what the variables hold and replaces loads by nothing else, in
\* functions of any shape with any number of variables.
THEOREM Mem2RegInvariant == Spec => []Inv
<1>1. Inv /\ [Next]_vars => Inv'
  BY StepInv
<1> QED
  BY <1>1, InitInv, PTL DEF Spec

\* Every variable of the model keeps its type.
THEOREM Mem2RegTypeCorrect == Spec => []TypeOK
<1>1. Inv => TypeOK
  BY DEF Inv
<1> QED
  BY <1>1, Mem2RegInvariant, PTL

-----------------------------------------------------------------------------
(* Complete phi nodes.                                                     *)

\* A variable holds something wherever a store to it has been passed.
LEMMA HeldAfterStore ==
  ASSUME Placed, NEW x \in Var, NEW d \in Block, NEW j \in DOMAIN source[d],
         source[d][j].op = "store", source[d][j].var = x,
         NEW b \in Block, NEW i \in Int, ExecutedBefore(graph, d, j, b, i)
  PROVE  Before(x, b, i) # NoValue
<1>1. Function /\ d \in DefBlocks(x)
  BY DEF Placed, DefBlocks
<1>2. CASE StoresBefore(x, b, i) # {}
  BY <1>1, <1>2, StoredHolds DEF Before, NoValue
<1>3. CASE StoresBefore(x, b, i) = {}
  <2>1. d # b /\ Dominates(graph, d, b)
    BY <1>3 DEF ExecutedBefore, StoresBefore
  <2>2. d \in Strict(b) \cap Gives(x) /\ Strict(b) \in SUBSET DominatorsOf(graph, b)
    BY <1>1, <2>1 DEF Strict, DominatorsOf, Gives
  <2>3. PICK e \in Strict(b) \cap Gives(x) : LowestGives(x, Strict(b)) = Given(x, e)
    BY <1>1, <2>2, LowestIsGiven
  <2>4. e \in Block /\ e \in Gives(x)
    BY <2>3 DEF Strict, DominatorsOf
  <2>5. LowestGives(x, Strict(b)) # NoValue
    BY <2>3, <2>4, GivenHolds DEF NoValue
  <2> QED
    BY <1>3, <2>5 DEF Before, AtStart, NoValue
<1> QED
  BY <1>2, <1>3

\* If every variable is stored to in the entry block, then every phi node ends with
\* one value for each predecessor.
THEOREM PhisEndComplete == Spec => []PhisComplete
<1>1. ASSUME Inv, phase = "remove", NEW x \in Var, Entry \in DefBlocks(x), NEW b \in phiBlocks[x], NEW p \in Block
      PROVE  incoming[x][b][p] # NoValue <=> p \in graph.preds[b]
  <2>1. Placed /\ Function /\ x \in Done /\ phiBlocks[x] \subseteq Block
    BY <1>1 DEF Inv, Placed, Done
  <2>2. /\ p \in graph.preds[b] => (incoming[x][b][p] = NoValue <=> AtEnd(x, p) = NoValue)
        /\ p \notin graph.preds[b] => incoming[x][b][p] = NoValue
    BY <1>1, <2>1 DEF Inv, PhisOK
  <2>3. PICK j \in DOMAIN source[Entry] : source[Entry][j].op = "store" /\ source[Entry][j].var = x
    BY <1>1 DEF DefBlocks
  <2>4. End(p) \in Int /\ Entry \in Block /\ (p = Entry => j < End(p))
    BY <2>1, FunctionShape, BlocksAreNumbers
  <2>5. ExecutedBefore(graph, Entry, j, p, End(p))
    BY <2>1, <2>4, FunctionShape, EntryDominates DEF ExecutedBefore
  <2>6. AtEnd(x, p) # NoValue
    BY <2>1, <2>3, <2>4, <2>5, HeldAfterStore DEF AtEnd
  <2> QED
    BY <2>2, <2>6
<1>2. Inv => PhisComplete
  BY <1>1 DEF PhisComplete
<1> QED
  BY <1>2, Mem2RegInvariant, PTL

-----------------------------------------------------------------------------
(* No use of a removed load.                                               *)

\* What a variable may have been assigned is the load of a later one.
LEMMA CopiedFromLater ==
  ASSUME Placed, Replaceable(source), NEW x \in Var, NEW b \in Block, NEW i \in Int, Before(x, b, i)[1] = "load"
  PROVE  VarOf(Before(x, b, i)) > x
<1>1. ASSUME NEW c \in Block, NEW k \in Int, StoresBefore(x, c, k) # {}, LastStored(x, c, k)[1] = "load"
      PROVE  VarOf(LastStored(x, c, k)) > x
  <2>1. PICK j \in StoresBefore(x, c, k) : LastStored(x, c, k) = source[c][j].val
    BY <1>1, LastStore DEF LastStored, Placed
  <2>2. j \in DOMAIN source[c] /\ source[c][j].op = "store" /\ source[c][j].var = x
    BY <2>1 DEF StoresBefore
  <2>3. x < VarOf(source[c][j].val)
    BY <1>1, <2>1, <2>2 DEF Replaceable, VarOf
  <2> QED
    BY <2>1, <2>3
<1>2. CASE StoresBefore(x, b, i) # {}
  BY <1>1, <1>2 DEF Before
<1>3. CASE StoresBefore(x, b, i) = {}
  <2>1. Before(x, b, i) = LowestGives(x, Strict(b)) /\ LowestGives(x, Strict(b)) # NoValue
    BY <1>3 DEF Before, AtStart, NoValue
  <2>2. PICK d \in Strict(b) \cap Gives(x) : LowestGives(x, Strict(b)) = Given(x, d)
    BY <2>1, LowestCases
  <2>3. d \in Block /\ End(d) \in Int
    BY <2>2, FunctionShape DEF Strict, DominatorsOf, Placed
  <2>4. StoresBefore(x, d, End(d)) # {} /\ Given(x, d) = LastStored(x, d, End(d))
    BY <2>1, <2>2 DEF Given
  <2> QED
    BY <1>1, <2>1, <2>2, <2>3, <2>4
<1> QED
  BY <1>2, <1>3

\* A load that is left although its variable is one of X has nothing to be replaced by.
Remains(X, v) ==
  v[1] = "load" => IsLoad(v) /\ (VarOf(v) \in X => Before(VarOf(v), v[2], v[3]) = NoValue)

LoadsGone ==
  /\ \A b \in Block : \A i \in DOMAIN code[b] :
       code[b][i].op \in {"use", "call"} => Remains(Done, code[b][i].val)
  /\ \A x \in Done : \A s \in phiBlocks[x] : \A p \in Block : Remains(Done, incoming[x][s][p])

LEMMA SameRemains ==
  ASSUME graph' = graph, source' = source, NEW X, \A x \in X : phiBlocks'[x] = phiBlocks[x],
         NEW v, Remains(X, v)
  PROVE  Remains(X, v)'
<1>1. \A x \in X : \A b, i : Before(x, b, i)' = Before(x, b, i)
  BY SameBefore
<1> QED
  BY <1>1, SameLoaded DEF Remains

LEMMA LoadsGoneAtFirst ==
  ASSUME Init PROVE LoadsGone
<1>1. Inv /\ Done = {} /\ code = source
  BY InitInv, BlocksAreNumbers, NumVarsAssumption DEF Done, Var, Init
<1>2. ASSUME NEW b \in Block, NEW i \in DOMAIN source[b], source[b][i].op \in {"use", "call"}
      PROVE  Remains({}, source[b][i].val)
  BY <1>1, <1>2, OperandShape DEF Inv, Placed, Remains, LoadedBefore
<1> QED
  BY <1>1, <1>2 DEF LoadsGone

LEMMA LoadsGoneStays ==
  ASSUME LoadsGone, UNCHANGED <<graph, source, code>>, Done' = Done,
         \A x \in Done : phiBlocks'[x] = phiBlocks[x] /\ incoming'[x] = incoming[x]
  PROVE  LoadsGone'
<1>1. \A x \in Done : phiBlocks'[x] = phiBlocks[x]
  OBVIOUS
<1> HIDE DEF Done
<1>2. \A X, v : X = Done /\ Remains(X, v) => Remains(X, v)'
  BY <1>1, SameRemains
<1> QED
  BY <1>2 DEF LoadsGone

LEMMA ReplacedRemains ==
  ASSUME Inv, Replaceable(source), phase = "replace", NEW v \in Value, Remains(Done, v)
  PROVE  Remains(Done \cup {var}, Replaced(v))
<1>1. Placed /\ var \in Var /\ var \in Nat /\ Done = {x \in Var : x < var}
  BY BlocksAreNumbers DEF Inv, TypeOK, Done
<1>2. CASE ToReplace(v)
  <2> DEFINE u == Before(var, v[2], v[3])
  <2>1. Replaced(v) = u /\ v[2] \in Block /\ v[3] \in Int
    BY <1>1, <1>2, ReplacedIs, FunctionShape DEF ToReplace, IsLoad, Placed
  <2>2. Holds(var, u, v[2], v[3])
    BY <1>1, <2>1, BeforeHolds
  <2>3. u[1] = "load" => IsLoad(u) /\ VarOf(u) > var
    BY <1>1, <2>1, <2>2, CopiedFromLater DEF Holds, LoadedBefore
  <2>4. u[1] = "load" => VarOf(u) \notin Done \cup {var}
    <3>1. ASSUME IsLoad(u), VarOf(u) > var PROVE VarOf(u) # var /\ ~(VarOf(u) \in Var /\ VarOf(u) < var)
      <4>1. VarOf(u) \in Nat
        BY <1>1, <3>1, LoadsHaveVariables, BlocksAreNumbers DEF Placed
      <4> QED
        BY <1>1, <3>1, <4>1
    <3> QED
      BY <1>1, <2>3, <3>1
  <2> QED
    BY <2>1, <2>3, <2>4 DEF Remains
<1>3. CASE ~ToReplace(v)
  BY <1>3, ReplacedIs DEF Remains, ToReplace
<1> QED
  BY <1>2, <1>3

LEMMA LoadsGoneAfterReplacing ==
  ASSUME Inv, Replaceable(source), LoadsGone, ReplaceLoads
  PROVE  LoadsGone'
<1>1. /\ UNCHANGED <<graph, source, phiBlocks>>
      /\ phase = "replace"
      /\ code' = [b \in Block |-> [i \in DOMAIN code[b] |-> ReplacedIn(code[b][i])]]
      /\ incoming' = [x \in Var |-> [b \in Block |-> [p \in Block |-> Replaced(incoming[x][b][p])]]]
  BY DEF ReplaceLoads
<1>2. Placed /\ var \in Var /\ RenamedOK /\ renamed = Block /\ TypeOK /\ InstructionsOK
  BY <1>1 DEF Inv, TypeOK, Stages
<1>3. Done' = Done \cup {var} /\ Done \subseteq Var
  BY <1>1, <1>2, NumVarsAssumption DEF Done, Var, ReplaceLoads
<1>4. ASSUME NEW b \in Block, NEW i \in DOMAIN code'[b], code'[b][i].op \in {"use", "call"}
      PROVE  Remains(Done \cup {var}, code'[b][i].val)
  <2>1. i \in DOMAIN code[b] /\ code'[b][i] = ReplacedIn(code[b][i]) /\ code[b][i] \in Instr
    BY <1>1, <1>2 DEF InstructionsOK
  <2>2. code[b][i].val \in Value /\ Replaced(code[b][i].val) \in Value
    BY <1>1, <2>1, ReplacedIsValue DEF Instr
  <2>3. /\ code'[b][i].op = code[b][i].op
        /\ code'[b][i].val = IF code[b][i].op = "use" THEN Replaced(code[b][i].val) ELSE code[b][i].val
    BY <2>1, <2>2, ReplacedInIs
  <2>4. Remains(Done, code[b][i].val)
    BY <1>4, <2>1, <2>3 DEF LoadsGone
  <2>5. CASE code[b][i].op = "use"
    BY <1>1, <2>2, <2>3, <2>4, <2>5, ReplacedRemains
  <2>6. CASE code[b][i].op = "call"
    <3>1. code'[b][i].val = source[b][i].val /\ source[b][i].op = "call" /\ i \in DOMAIN source[b]
      BY <1>1, <1>2, <2>1, <2>3, <2>6 DEF InstructionsOK
    <3> QED
      BY <3>1 DEF Replaceable, Remains
  <2> QED
    BY <1>4, <2>3, <2>5, <2>6
<1>5. ASSUME NEW x \in Done \cup {var}, NEW s \in phiBlocks[x], NEW p \in Block
      PROVE  Remains(Done \cup {var}, incoming'[x][s][p])
  <2>1. x \in Var /\ s \in Block /\ incoming[x][s][p] \in Value /\ incoming'[x][s][p] = Replaced(incoming[x][s][p])
    BY <1>1, <1>2, <1>3 DEF TypeOK
  <2>2. Remains(Done, incoming[x][s][p])
    <3>1. CASE x \in Done
      BY <3>1 DEF LoadsGone
    <3>2. CASE x = var /\ p \in graph.preds[s]
      <4>1. incoming[x][s][p] = AtEnd(var, p)
        BY <1>2, <3>2 DEF RenamedOK
      <4>2. Holds(var, AtEnd(var, p), p, End(p)) /\ End(p) \in Int
        BY <1>2, AtEndHolds, FunctionShape DEF Placed
      <4>3. AtEnd(var, p)[1] = "load" => VarOf(AtEnd(var, p)) > var /\ IsLoad(AtEnd(var, p))
        BY <1>2, <4>2, CopiedFromLater DEF AtEnd, Holds, LoadedBefore
      <4>4. Done = {y \in Var : y < var}
        BY <1>1 DEF Done
      <4>5. ASSUME IsLoad(AtEnd(var, p)), VarOf(AtEnd(var, p)) > var
            PROVE  ~(VarOf(AtEnd(var, p)) \in Var /\ VarOf(AtEnd(var, p)) < var)
        <5>1. IsLoad(AtEnd(var, p)) => VarOf(AtEnd(var, p)) \in Nat
          BY <1>2, LoadsHaveVariables, BlocksAreNumbers DEF Placed
        <5> QED
          BY <1>2, <4>3, <4>5, <5>1, BlocksAreNumbers
      <4> QED
        BY <4>1, <4>3, <4>4, <4>5 DEF Remains
    <3>3. CASE x = var /\ p \notin graph.preds[s]
      <4>1. incoming[x][s][p] = NoValue
        BY <1>2, <3>3 DEF RenamedOK
      <4> QED
        BY <4>1, ValuesThere DEF Remains
    <3> QED
      BY <3>1, <3>2, <3>3
  <2> QED
    BY <1>1, <2>1, <2>2, ReplacedRemains
<1>6. \A X, v : Remains(X, v) => Remains(X, v)'
  BY <1>1, SameRemains
<1>7. phiBlocks' = phiBlocks
  BY <1>1
<1> HIDE DEF Done
<1> QED
  BY <1>3, <1>4, <1>5, <1>6, <1>7 DEF LoadsGone

LEMMA LoadsGoneStep ==
  ASSUME Inv, Replaceable(source), LoadsGone, Next
  PROVE  LoadsGone'
<1>1. var \in Var /\ var \in Nat
  BY BlocksAreNumbers DEF Inv, TypeOK
<1>2. \A x \in Done : phase \in {"insert", "rename"} => x \in Var /\ x # var
  BY <1>1 DEF Done
<1>3. ASSUME NEW b \in Block, InsertPhis(b) PROVE LoadsGone'
  <2>1. /\ UNCHANGED <<graph, source, code, phase, var, incoming>>
        /\ phase = "insert" /\ phiBlocks' = [phiBlocks EXCEPT ![var] = @ \cup Frontier(b)]
    BY <1>3 DEF InsertPhis
  <2>2. Done' = Done
    BY <2>1 DEF Done
  <2>3. \A x \in Done : phiBlocks'[x] = phiBlocks[x] /\ incoming'[x] = incoming[x]
    BY <1>2, <2>1 DEF Inv, TypeOK
  <2> QED
    BY <2>1, <2>2, <2>3, LoadsGoneStays
<1>4. ASSUME NEW b \in Block, RenameInBlock(b) PROVE LoadsGone'
  <2>1. /\ UNCHANGED <<graph, source, code, phase, var, phiBlocks>>
        /\ phase = "rename" /\ incoming' = [incoming EXCEPT ![var] = Incoming(b)]
    BY <1>4 DEF RenameInBlock
  <2>2. Done' = Done
    BY <2>1 DEF Done
  <2>3. \A x \in Done : phiBlocks'[x] = phiBlocks[x] /\ incoming'[x] = incoming[x]
    BY <1>2, <2>1 DEF Inv, TypeOK
  <2> QED
    BY <2>1, <2>2, <2>3, LoadsGoneStays
<1>5. ASSUME UNCHANGED <<graph, source, code, var, phiBlocks, incoming>>,
             phase' \in {"remove", "run"} <=> phase \in {"remove", "run"}
      PROVE  LoadsGone'
  <2>1. Done' = Done
    BY <1>5 DEF Done
  <2> QED
    BY <1>5, <2>1, LoadsGoneStays
<1>6. CASE StartRenaming \/ StartReplacing
  BY <1>5, <1>6 DEF StartRenaming, StartReplacing, pass
<1>7. CASE ReplaceLoads
  BY <1>7, LoadsGoneAfterReplacing
<1>8. CASE RemoveInstructions
  <2>1. UNCHANGED <<graph, source, var, phiBlocks, incoming>> /\ phase = "remove" /\ phase' = "run"
    BY <1>8 DEF RemoveInstructions, pass
  <2>2. Done' = Done
    BY <2>1 DEF Done
  <2>3. \A b \in Block : /\ DOMAIN code'[b] \subseteq DOMAIN code[b]
                         /\ \A i \in DOMAIN code'[b] : code'[b][i] = code[b][i]
    BY <1>8 DEF RemoveInstructions
  <2>4. \A X, v : Remains(X, v) => Remains(X, v)'
    BY <2>1, SameRemains
  <2> HIDE DEF Done
  <2> QED
    BY <2>1, <2>2, <2>3, <2>4 DEF LoadsGone
<1>9. CASE ExecuteLoad \/ ExecuteStore \/ ExecuteUse
  BY <1>5, <1>9 DEF ExecuteLoad, ExecuteStore, ExecuteUse, pass
<1>10. ASSUME NEW b \in Block, EnterBlock(b) PROVE LoadsGone'
  BY <1>5, <1>10 DEF EnterBlock, pass
<1> QED
  BY <1>3, <1>4, <1>6, <1>7, <1>8, <1>9, <1>10 DEF Next

LEMMA GraphAndSourceStay ==
  ASSUME [Next]_vars PROVE graph' = graph /\ source' = source
  BY DEF Next, vars, InsertPhis, RenameInBlock, EnterBlock, StartRenaming, StartReplacing, ReplaceLoads,
         RemoveInstructions, ExecuteLoad, ExecuteStore, ExecuteUse

\* What is left of the loads of a function the pass can do all of has nothing to be
\* replaced by.
THEOREM LoadsAreReplaced == Spec => [](Inv /\ (Replaceable(source) => LoadsGone))
<1> DEFINE I == Inv /\ (Replaceable(source) => LoadsGone)
<1>1. Init => I
  BY InitInv, LoadsGoneAtFirst
<1>2. I /\ [Next]_vars => I'
  <2> SUFFICES ASSUME I, [Next]_vars, Replaceable(source)' PROVE LoadsGone'
    BY StepInv
  <2>1. Replaceable(source)
    BY GraphAndSourceStay DEF Replaceable
  <2>2. CASE Next
    BY <2>1, <2>2, LoadsGoneStep
  <2>3. CASE UNCHANGED vars
    <3>1. UNCHANGED <<graph, source, code, phase, var, phiBlocks, incoming>>
      BY <2>3 DEF vars, pass
    <3>2. Done' = Done
      BY <3>1 DEF Done
    <3> QED
      BY <2>1, <3>1, <3>2, LoadsGoneStays
  <2> QED
    BY <2>2, <2>3
<1> QED
  BY <1>1, <1>2, PTL DEF Spec

\* If every load comes after a store on all paths, and the pass can do all of the
\* function, nothing in the transformed function is the result of a removed load.
THEOREM RemovedLoadsAreUnused ==
  Spec => [](Replaceable(source) /\ StoredFirst(graph, source) => NoUseOfRemovedLoad)
<1>1. ASSUME Inv, LoadsGone, StoredFirst(graph, source), phase = "run" PROVE NoUseOfRemovedLoad
  <2>1. Placed /\ Function /\ Done = Var /\ TypeOK /\ InstructionsOK
    BY <1>1 DEF Inv, Placed, Done
  <2>2. ASSUME NEW v, Remains(Done, v) PROVE v[1] # "load"
    <3> SUFFICES ASSUME v[1] = "load" PROVE FALSE
      OBVIOUS
    <3>1. IsLoad(v) /\ VarOf(v) \in Var
      BY <2>1, <2>2, LoadsHaveVariables DEF Remains
    <3>2. Before(VarOf(v), v[2], v[3]) = NoValue
      BY <2>1, <2>2, <3>1 DEF Remains
    <3>3. v[2] \in Block /\ v[3] \in DOMAIN source[v[2]] /\ v[3] \in Int
      BY <2>1, <3>1, FunctionShape DEF IsLoad
    <3>4. PICK d \in Block : \E j \in DOMAIN source[d] :
            /\ source[d][j].op = "store" /\ source[d][j].var = VarOf(v)
            /\ ExecutedBefore(graph, d, j, v[2], v[3])
      BY <1>1, <3>1, <3>3 DEF StoredFirst, IsLoad, VarOf
    <3> QED
      BY <2>1, <3>1, <3>2, <3>3, <3>4, HeldAfterStore
  <2>3. \A b \in Block : \A i \in DOMAIN code[b] : code[b][i].op \in {"use", "call"}
    BY <1>1, <2>1 DEF InstructionsOK
  <2>4. \A b \in Block : \A i \in DOMAIN code[b] : code[b][i].val[1] # "load"
    BY <1>1, <2>2, <2>3 DEF LoadsGone
  <2>5. ASSUME NEW x \in Var, NEW b \in Block, NEW p \in Block
        PROVE  incoming[x][b][p][1] # "load"
    <3>1. CASE b \in phiBlocks[x]
      BY <1>1, <2>1, <2>2, <3>1 DEF LoadsGone
    <3>2. CASE b \notin phiBlocks[x]
      <4>1. incoming[x][b][p] = NoValue
        BY <1>1, <3>2 DEF Inv, Stages
      <4> QED
        BY <4>1, ValuesThere
    <3> QED
      BY <3>1, <3>2
  <2> QED
    BY <2>4, <2>5 DEF NoUseOfRemovedLoad
<1>2. Inv /\ (Replaceable(source) => LoadsGone) => (Replaceable(source) /\ StoredFirst(graph, source) => NoUseOfRemovedLoad)
  BY <1>1 DEF NoUseOfRemovedLoad
<1> QED
  BY <1>2, LoadsAreReplaced, PTL

-----------------------------------------------------------------------------
(* Both functions executed.                                                *)

LEMMA JoinsClosed ==
  ASSUME Placed, NEW x
  PROVE  /\ \A d \in DefBlocks(x) : DominanceFrontier(d) \subseteq JoinsOf(x)
         /\ \A d \in JoinsOf(x) : d \in Block => DominanceFrontier(d) \subseteq JoinsOf(x)
<1> DEFINE next == [b \in Block |-> DominanceFrontier(b)]
           start == UNION {DominanceFrontier(b) : b \in DefBlocks(x)}
<1>1. next \in [Block -> SUBSET Block] /\ start \in SUBSET Block
  BY DEF DominanceFrontier
<1>2. IsFiniteSet(Block) /\ Cardinality(Block) <= NumBlocks /\ NumBlocks \in Nat
  BY BlocksFinite, NumBlocksAssumption
<1>3. /\ start \subseteq ReachedFrom(start, next, NumBlocks)
      /\ ClosedUnder(next, Block, ReachedFrom(start, next, NumBlocks))
  <2> HIDE DEF next, start
  <2> QED
    BY <1>1, <1>2, ReachedIsLeast
<1>4. JoinsOf(x) = ReachedFrom(start, next, NumBlocks)
  BY DEF JoinsOf
<1> QED
  BY <1>3, <1>4 DEF ClosedUnder

\* A block without a phi node for the variable gets from every predecessor what it
\* gets from its dominators, if the phi nodes are where definitions meet.
LEMMA NoJoin ==
  ASSUME Placed, PhisPlaced, NEW x \in Var, NEW p \in Block, NEW b \in graph.succs[p],
         b \notin phiBlocks[x]
  PROVE  AtEnd(x, p) = LowestGives(x, Strict(b))
<1>1. /\ Function /\ graph.succs \in [Block -> SUBSET Block] /\ b \in Block /\ p \in graph.preds[b]
      /\ phiBlocks[x] = JoinsOf(x) /\ phiBlocks[x] \subseteq Block
  BY FunctionShape DEF Placed, PhisPlaced
<1>2. ASSUME NEW d \in Strict(b) PROVE d \in DominatorsOf(graph, p)
  BY <1>1, <1>2, DominatesPredecessor DEF Strict, DominatorsOf
<1>3. ASSUME NEW d \in DominatorsOf(graph, p) \cap Gives(x) PROVE d \in Strict(b)
  <2> SUFFICES ASSUME d \notin Strict(b) PROVE FALSE
    OBVIOUS
  <2>1. d \in Block /\ Dominates(graph, d, p)
    BY DEF DominatorsOf
  <2>2. b \in DominanceFrontier(d)
    BY <1>1, <2>1 DEF DominanceFrontier, Strict, DominatorsOf, StrictlyDominates
  <2>3. b \in JoinsOf(x)
    BY <1>1, <2>1, <2>2, JoinsClosed DEF Gives
  <2> QED
    BY <1>1, <2>3
<1>4. DominatorsOf(graph, p) \cap Gives(x) = Strict(b) \cap Gives(x)
  BY <1>2, <1>3
<1> QED
  BY <1>1, <1>4, AtEndIsLowest DEF LowestGives

\* What the values are in the two executions.
Val ==
  [v \in Value |->
     IF IsLoad(v) THEN loaded[v[2]][v[3]]
     ELSE IF v[1] = "phi" /\ v[2] \in Var /\ v[3] \in Block THEN phiValue[v[2]][v[3]]
     ELSE IF v[1] = "const" THEN v ELSE Undefined]

\* The variables hold what renaming says, and the loads made gave it.
Holding ==
  /\ \A x \in Var : mem[x] = Val[Before(x, at.block, at.next)]
  /\ Agrees(Val, Var, at.block, at.next)

AtTheStart ==
  /\ at = [block |-> Entry, next |-> 1]
  /\ mem = [x \in Var |-> Undefined]
  /\ loaded = [b \in Block |-> [i \in DOMAIN source[b] |-> Undefined]]
  /\ phiValue = [x \in Var |-> [b \in Block |-> Undefined]]
  /\ seen = Undefined /\ seenNow = Undefined

LEMMA ValIsValue ==
  ASSUME Inv
  PROVE  Val \in [Value -> Value]
  BY ValuesThere DEF Val, IsLoad, Inv, TypeOK, LoadedOK

\* The variables hold nothing when the program starts.
LEMMA HoldingAtFirst ==
  ASSUME Inv, AtTheStart
  PROVE  Holding
<1>1. Placed /\ Function /\ Entry \in Block
  BY BlocksAreNumbers DEF Inv, Placed
<1>2. ASSUME NEW x \in Var PROVE mem[x] = Val[Before(x, at.block, at.next)]
  <2>1. Before(x, at.block, at.next) = AtStart(x, Entry)
    BY <1>1, BeforeFirst DEF AtTheStart
  <2>2. mem[x] = Undefined
    BY DEF AtTheStart
  <2>3. CASE Entry \in phiBlocks[x]
    <3>1. AtStart(x, Entry) = <<"phi", x, Entry>>
      BY <2>3 DEF AtStart
    <3>2. <<"phi", x, Entry>> \in Value
      BY <1>1, BlocksAreNumbers DEF Value
    <3>3. Val[<<"phi", x, Entry>>] = phiValue[x][Entry]
      BY <1>1, <3>2 DEF Val, IsLoad
    <3> QED
      BY <1>1, <2>1, <2>2, <3>1, <3>3 DEF AtTheStart
  <2>4. CASE Entry \notin phiBlocks[x]
    <3>1. AtStart(x, Entry) = NoValue
      BY <1>1, <2>4, EntryStartsWithout DEF AtStart
    <3>2. Val[NoValue] = Undefined
      BY ValuesThere DEF Val, IsLoad
    <3> QED
      BY <2>1, <2>2, <3>1, <3>2
  <2> QED
    BY <2>3, <2>4
<1>3. ASSUME NEW d \in Block, NEW j \in DOMAIN source[d]
      PROVE  ~ExecutedBefore(graph, d, j, at.block, at.next)
  <2>1. j \in 1..(End(d) - 1) /\ End(d) \in Nat /\ at.block = Entry /\ at.next = 1
    BY <1>1, FunctionShape DEF AtTheStart
  <2>2. ~(j < 1)
    BY <2>1
  <2>3. Dominates(graph, d, Entry) => d = Entry
    BY <1>1, FunctionShape, OnlyEntryDominatesEntry
  <2> QED
    BY <2>1, <2>2, <2>3 DEF ExecutedBefore
<1> QED
  BY <1>2, <1>3 DEF Holding, Agrees

\* A value that has been loaded by then does not change with a load made now.
LEMMA HoldingAfterLoad ==
  ASSUME Inv, Inv', Holding, ExecuteLoad
  PROVE  Holding'
<1> DEFINE b == at.block
           i == at.next
           x == Instruction.var
           l == <<"load", b, i>>
<1>1. /\ phase = "run" /\ i \in DOMAIN source[b] /\ source[b][i].op = "load"
      /\ loaded' = [loaded EXCEPT ![b][i] = mem[x]]
      /\ at' = [at EXCEPT !.next = @ + 1]
      /\ UNCHANGED <<graph, source, phiBlocks, mem, phiValue>>
  BY DEF ExecuteLoad, InstructionIs, Instruction, pass
<1>2. /\ b \in Block /\ i \in Int /\ at' = [block |-> b, next |-> i + 1] /\ x \in Var
      /\ Function /\ Placed /\ LoadedOK /\ x = source[b][i].var
  BY <1>1, InstructionShape DEF Instruction, Inv, Placed
<1>3. l \in Value /\ IsLoad(l)
  BY <1>1, <1>2, FunctionShape, BlocksAreNumbers DEF Value, IsLoad
<1>4. Val'[l] = mem[x]
  BY <1>1, <1>2, <1>3, SameLoaded DEF Val, LoadedOK
<1>5. ASSUME NEW v \in Value, v # l PROVE Val'[v] = Val[v]
  <2>1. v = <<v[1], v[2], v[3]>>
    BY DEF Value
  <2>2. IsLoad(v) => loaded'[v[2]][v[3]] = loaded[v[2]][v[3]]
    BY <1>1, <1>2, <1>5, <2>1 DEF IsLoad, LoadedOK
  <2> QED
    BY <1>1, <2>2, SameLoaded DEF Val
<1>6. ASSUME NEW v, LoadedBefore(v, b, i) PROVE v # l
  BY <1>2, <1>6, NotBeforeItself DEF LoadedBefore
<1>7. ASSUME NEW y \in Var, NEW c \in Block, NEW k \in Int,
             (c = b /\ k = i) \/ ExecutedBefore(graph, c, k, b, i)
      PROVE  Val'[Before(y, c, k)] = Val[Before(y, c, k)]
  <2>1. Holds(y, Before(y, c, k), c, k)
    BY <1>2, BeforeHolds
  <2>2. Before(y, c, k)[1] = "load" => LoadedBefore(Before(y, c, k), b, i)
    BY <1>2, <1>7, <2>1, LoadedStill DEF Holds
  <2>3. Before(y, c, k) # l
    BY <1>6, <2>2
  <2> QED
    BY <1>5, <2>1, <2>3 DEF Holds
<1>8. \A y, c, k : Before(y, c, k)' = Before(y, c, k)
  BY <1>1, SameBefore
<1>9. ASSUME NEW y \in Var PROVE (mem[y] = Val[Before(y, at.block, at.next)])'
  <2>1. Before(y, b, i + 1) = Before(y, b, i)
    BY <1>1, <1>2, BeforeNext
  <2>2. mem[y] = Val[Before(y, b, i)]
    BY DEF Holding
  <2> QED
    BY <1>1, <1>2, <1>7, <1>8, <2>1, <2>2
<1>10. ASSUME NEW d \in Block, NEW j \in DOMAIN source[d],
              source[d][j].op = "load", source[d][j].var \in Var, ExecutedBefore(graph, d, j, b, i + 1)
       PROVE  Val'[<<"load", d, j>>] = Val'[Before(source[d][j].var, d, j)]
  <2>1. j \in Int
    BY <1>2, FunctionShape
  <2>2. CASE d = b /\ j = i
    BY <1>2, <1>4, <1>7, <2>2 DEF Holding
  <2>3. CASE ~(d = b /\ j = i)
    <3>1. ExecutedBefore(graph, d, j, b, i)
      BY <1>2, <1>10, <2>1, <2>3 DEF ExecutedBefore
    <3>2. Val[<<"load", d, j>>] = Val[Before(source[d][j].var, d, j)]
      BY <1>10, <3>1 DEF Holding, Agrees
    <3>3. <<"load", d, j>> \in Value /\ <<"load", d, j>> # l
      BY <1>2, <2>3, FunctionShape, BlocksAreNumbers DEF Value
    <3> QED
      BY <1>5, <1>7, <1>10, <2>1, <3>1, <3>2, <3>3
  <2> QED
    BY <2>2, <2>3
<1>11. Agrees(Val, Var, at.block, at.next)'
  <2> SUFFICES ASSUME NEW d \in Block, NEW j \in DOMAIN source[d],
                      source[d][j].op = "load", source[d][j].var \in Var,
                      ExecutedBefore(graph, d, j, b, i + 1)
               PROVE  Val'[<<"load", d, j>>] = Val'[Before(source[d][j].var, d, j)]
    BY <1>1, <1>2, <1>8 DEF Agrees
  <2> QED
    BY <1>10
<1> QED
  BY <1>9, <1>11 DEF Holding

LEMMA HoldingAfterStore ==
  ASSUME Inv, Holding, ExecuteStore
  PROVE  Holding'
<1> DEFINE b == at.block
           i == at.next
           x == Instruction.var
<1>1. /\ phase = "run" /\ i \in DOMAIN source[b] /\ source[b][i].op = "store"
      /\ mem' = [mem EXCEPT ![x] = ResultOf(Instruction.val)]
      /\ at' = [at EXCEPT !.next = @ + 1]
      /\ UNCHANGED <<graph, source, phiBlocks, loaded, phiValue>>
  BY DEF ExecuteStore, InstructionIs, Instruction, pass
<1>2. /\ b \in Block /\ i \in Int /\ at' = [block |-> b, next |-> i + 1] /\ x \in Var
      /\ Function /\ Placed /\ x = source[b][i].var /\ Instruction.val = source[b][i].val
      /\ Instruction.val \in Value /\ (Instruction.val[1] = "const" \/ IsLoad(Instruction.val))
  BY <1>1, InstructionShape DEF Instruction, Inv, Placed
<1>3. Val' = Val
  BY <1>1, SameLoaded DEF Val
<1>4. ResultOf(Instruction.val) = Val[Instruction.val]
  BY <1>2 DEF ResultOf, Val, IsLoad
<1>5. \A y, c, k : Before(y, c, k)' = Before(y, c, k)
  BY <1>1, SameBefore
<1>6. ASSUME NEW y \in Var PROVE (mem[y] = Val[Before(y, at.block, at.next)])'
  <2>1. Before(y, b, i + 1) = IF y = x THEN Instruction.val ELSE Before(y, b, i)
    BY <1>1, <1>2, BeforeNext
  <2>2. mem[y] = Val[Before(y, b, i)] /\ mem \in [Var -> Value]
    BY DEF Holding, Inv, TypeOK
  <2>3. mem'[y] = IF y = x THEN Val[Instruction.val] ELSE Val[Before(y, b, i)]
    BY <1>1, <1>2, <1>4, <2>2
  <2> QED
    BY <1>2, <1>3, <1>5, <2>1, <2>3
<1>7. ASSUME NEW d \in Block, NEW j \in DOMAIN source[d], source[d][j].op = "load",
             ExecutedBefore(graph, d, j, b, i + 1)
      PROVE  ExecutedBefore(graph, d, j, b, i)
  <2>1. j \in Int /\ ~(d = b /\ j = i)
    BY <1>1, <1>2, <1>7, FunctionShape
  <2> QED
    BY <1>2, <1>7, <2>1 DEF ExecutedBefore
<1>8. Agrees(Val, Var, at.block, at.next)'
  <2> SUFFICES ASSUME NEW d \in Block, NEW j \in DOMAIN source[d],
                      source[d][j].op = "load", source[d][j].var \in Var,
                      ExecutedBefore(graph, d, j, b, i + 1)
               PROVE  Val'[<<"load", d, j>>] = Val'[Before(source[d][j].var, d, j)]
    BY <1>1, <1>2, <1>5 DEF Agrees
  <2> QED
    BY <1>3, <1>7 DEF Holding, Agrees
<1> QED
  BY <1>6, <1>8 DEF Holding

LEMMA HoldingAfterUse ==
  ASSUME Inv, Holding, ExecuteUse
  PROVE  Holding'
<1> DEFINE b == at.block
           i == at.next
<1>1. /\ phase = "run" /\ i \in DOMAIN source[b] /\ source[b][i].op \in {"use", "call"}
      /\ at' = [at EXCEPT !.next = @ + 1]
      /\ UNCHANGED <<graph, source, phiBlocks, mem, loaded, phiValue>>
  BY DEF ExecuteUse, InstructionIs, Instruction, pass
<1>2. /\ b \in Block /\ i \in Int /\ at' = [block |-> b, next |-> i + 1] /\ Function
  BY <1>1, InstructionShape DEF Inv, Placed
<1>3. Val' = Val
  BY <1>1, SameLoaded DEF Val
<1>4. \A y, c, k : Before(y, c, k)' = Before(y, c, k)
  BY <1>1, SameBefore
<1>5. ASSUME NEW y \in Var PROVE (mem[y] = Val[Before(y, at.block, at.next)])'
  <2>1. Before(y, b, i + 1) = Before(y, b, i)
    BY <1>1, <1>2, BeforeNext
  <2> QED
    BY <1>1, <1>2, <1>3, <1>4, <2>1 DEF Holding
<1>6. ASSUME NEW d \in Block, NEW j \in DOMAIN source[d], source[d][j].op = "load",
             ExecutedBefore(graph, d, j, b, i + 1)
      PROVE  ExecutedBefore(graph, d, j, b, i)
  <2>1. j \in Int /\ ~(d = b /\ j = i)
    BY <1>1, <1>2, <1>6, FunctionShape
  <2> QED
    BY <1>2, <1>6, <2>1 DEF ExecutedBefore
<1>7. Agrees(Val, Var, at.block, at.next)'
  <2> SUFFICES ASSUME NEW d \in Block, NEW j \in DOMAIN source[d],
                      source[d][j].op = "load", source[d][j].var \in Var,
                      ExecutedBefore(graph, d, j, b, i + 1)
               PROVE  Val'[<<"load", d, j>>] = Val'[Before(source[d][j].var, d, j)]
    BY <1>1, <1>2, <1>4 DEF Agrees
  <2> QED
    BY <1>3, <1>6 DEF Holding, Agrees
<1> QED
  BY <1>5, <1>7 DEF Holding

\* What the transformed function reads is what stands there, even where it is left
\* with a load of a variable that holds nothing.
LEMMA ReadsWhatStands ==
  ASSUME Inv, Holding, phase = "run", NEW v, NEW w,
         StandsFor(Var, v, w, at.block, at.next), Remains(Done, v)
  PROVE  ValueNow(v) = Val[w]
<1>1. Val[v] = Val[w] /\ v \in Value
  BY ValIsValue DEF StandsFor, Holding
<1>2. CASE v[1] = "load"
  <2>1. IsLoad(v) /\ VarOf(v) \in Done /\ LoadedBefore(v, at.block, at.next) /\ Function /\ VarOf(v) \in Var
    BY <1>2, LoadsHaveVariables DEF Remains, Inv, Placed, Done, StandsFor
  <2>2. Before(VarOf(v), v[2], v[3]) = NoValue
    BY <1>2, <2>1 DEF Remains
  <2>3. v = <<"load", v[2], v[3]>> /\ v[2] \in Block /\ v[3] \in DOMAIN source[v[2]]
    BY <1>1, <1>2, <2>1 DEF IsLoad, Value
  <2>4. Val[v] = Val[NoValue]
    BY <2>1, <2>2, <2>3 DEF Holding, Agrees, LoadedBefore, IsLoad, VarOf
  <2>5. Val[NoValue] = Undefined
    BY ValuesThere DEF Val, IsLoad
  <2> QED
    BY <1>1, <1>2, <2>4, <2>5 DEF ValueNow
<1>3. CASE v[1] = "phi"
  BY <1>1, <1>3 DEF ValueNow, Val, IsLoad, StandsFor
<1>4. CASE v[1] \in {"none", "const"}
  BY <1>1, <1>4 DEF ValueNow, Val, IsLoad
<1> QED
  BY <1>2, <1>3, <1>4 DEF StandsFor

\* On every edge the phi nodes of the block entered take what the variables hold,
\* and without one the variable holds what it held.
LEMMA HoldingAfterEntering ==
  ASSUME Inv, Holding, LoadsGone, PhisPlaced, NEW b \in Block, EnterBlock(b)
  PROVE  Holding'
<1> DEFINE p == at.block
<1>1. /\ phase = "run" /\ at.next = End(p) /\ b \in graph.succs[p]
      /\ at' = [block |-> b, next |-> 1]
      /\ phiValue' = [x \in Var |-> IF b \in phiBlocks[x]
                        THEN [phiValue[x] EXCEPT ![b] = ValueNow(incoming[x][b][p])]
                        ELSE phiValue[x]]
      /\ UNCHANGED <<graph, source, phiBlocks, mem, loaded>>
  BY DEF EnterBlock, pass
<1>2. /\ p \in Block /\ Placed /\ Function /\ TypeOK /\ End(p) \in Int /\ Done = Var
      /\ graph.succs \in [Block -> SUBSET Block]
  BY <1>1, FunctionShape DEF Inv, TypeOK, Placed, Done
<1>3. ASSUME NEW x \in Var, b \in phiBlocks[x]
      PROVE  phiValue'[x][b] = Val[AtEnd(x, p)]
  <2>1. StandsFor(Var, incoming[x][b][p], AtEnd(x, p), at.block, at.next)
    BY <1>1, <1>3, EdgeShape
  <2>2. Remains(Done, incoming[x][b][p])
    BY <1>2, <1>3 DEF LoadsGone
  <2>3. ValueNow(incoming[x][b][p]) = Val[AtEnd(x, p)]
    BY <1>1, <2>1, <2>2, ReadsWhatStands
  <2> QED
    BY <1>1, <1>2, <1>3, <2>3 DEF TypeOK
<1>4. ASSUME NEW v \in Value, \A x \in Var : v = <<"phi", x, b>> => b \notin phiBlocks[x]
      PROVE  Val'[v] = Val[v]
  <2>1. v = <<v[1], v[2], v[3]>>
    BY DEF Value
  <2>2. v[1] = "phi" /\ v[2] \in Var /\ v[3] \in Block => phiValue'[v[2]][v[3]] = phiValue[v[2]][v[3]]
    BY <1>1, <1>2, <1>4, <2>1 DEF TypeOK
  <2> QED
    BY <1>1, <2>2, SameLoaded DEF Val
<1>5. \A y, c, k : Before(y, c, k)' = Before(y, c, k)
  BY <1>1, SameBefore
<1>6. ASSUME NEW x \in Var PROVE mem[x] = Val'[AtStart(x, b)]
  <2>1. mem[x] = Val[AtEnd(x, p)]
    BY <1>1 DEF Holding, AtEnd
  <2>2. CASE b \in phiBlocks[x]
    <3>1. <<"phi", x, b>> \in Value
      BY BlocksAreNumbers DEF Value
    <3>2. Val'[<<"phi", x, b>>] = phiValue'[x][b]
      BY <3>1 DEF Val, IsLoad
    <3> QED
      BY <1>3, <2>1, <2>2, <3>2 DEF AtStart
  <2>3. CASE b \notin phiBlocks[x]
    <3>1. AtStart(x, b) = AtEnd(x, p) /\ AtStart(x, b) = LowestGives(x, Strict(b))
      BY <1>1, <1>2, <2>3, NoJoin DEF AtStart
    <3>2. Holds(x, AtStart(x, b), b, 1)
      BY <1>2, <3>1, LowestHolds
    <3>3. \A y \in Var : AtStart(x, b) = <<"phi", y, b>> => y = x
      BY <3>2 DEF Holds
    <3>4. Val'[AtStart(x, b)] = Val[AtStart(x, b)]
      BY <1>4, <2>3, <3>2, <3>3 DEF Holds
    <3> QED
      BY <2>1, <3>1, <3>4
  <2> QED
    BY <2>2, <2>3
<1>7. ASSUME NEW x \in Var PROVE (mem[x] = Val[Before(x, at.block, at.next)])'
  <2>1. at'.block = b /\ at'.next = 1 /\ mem' = mem
    BY <1>1
  <2>2. Before(x, b, 1) = AtStart(x, b)
    BY <1>2, BeforeFirst
  <2>3. Before(x, at.block, at.next)' = Before(x, b, 1)
    BY <1>5, <2>1
  <2> QED
    BY <1>6, <2>1, <2>2, <2>3
<1>8. ASSUME NEW d \in Block, NEW j \in DOMAIN source[d],
             source[d][j].op = "load", source[d][j].var \in Var, ExecutedBefore(graph, d, j, b, 1)
      PROVE  Val'[<<"load", d, j>>] = Val'[Before(source[d][j].var, d, j)]
  <2> DEFINE y == source[d][j].var
             u == Before(y, d, j)
  <2>1. j \in Nat \ {0} /\ d \in Nat /\ (d = p => j < End(p))
    BY <1>2, FunctionShape, BlocksAreNumbers
  <2>2. d # b /\ Dominates(graph, d, b)
    BY <1>8, <2>1 DEF ExecutedBefore
  <2>3. Dominates(graph, d, p)
    BY <1>1, <1>2, <2>2, DominatesPredecessor
  <2>4. ExecutedBefore(graph, d, j, p, End(p))
    BY <2>1, <2>3 DEF ExecutedBefore
  <2>5. Val[<<"load", d, j>>] = Val[u]
    BY <1>1, <1>8, <2>4 DEF Holding, Agrees
  <2>6. <<"load", d, j>> \in Value
    BY <2>1 DEF Value
  <2>7. Val'[<<"load", d, j>>] = Val[<<"load", d, j>>]
    BY <1>4, <2>6
  <2>8. Holds(y, u, d, j)
    BY <1>2, <1>8, <2>1, BeforeHolds
  <2>9. ASSUME NEW x \in Var, u = <<"phi", x, b>> PROVE FALSE
    <3>1. Dominates(graph, b, d)
      BY <2>8, <2>9 DEF Holds, DominatorsOf
    <3> QED
      BY <1>2, <2>2, <3>1, FunctionShape, DominanceAntisymmetric
  <2>10. Val'[u] = Val[u]
    BY <1>4, <2>8, <2>9 DEF Holds
  <2> QED
    BY <2>5, <2>7, <2>10
<1>9. Agrees(Val, Var, at.block, at.next)'
  <2> SUFFICES ASSUME NEW d \in Block, NEW j \in DOMAIN source[d],
                      source[d][j].op = "load", source[d][j].var \in Var,
                      ExecutedBefore(graph, d, j, b, 1)
               PROVE  Val'[<<"load", d, j>>] = Val'[Before(source[d][j].var, d, j)]
    BY <1>1, <1>5 DEF Agrees
  <2> QED
    BY <1>8
<1> QED
  BY <1>7, <1>9 DEF Holding

SideBySide ==
  /\ phase # "run" => AtTheStart
  /\ phase = "run" /\ PhisPlaced => Holding /\ seen = seenNow

LEMMA SideBySideStep ==
  ASSUME Inv, Inv', LoadsGone, SideBySide, Next
  PROVE  SideBySide'
<1>1. ASSUME phase # "run", phase' # "run", UNCHANGED <<source, run>> PROVE SideBySide'
  BY <1>1 DEF SideBySide, AtTheStart, run
<1>2. ASSUME NEW b \in Block, InsertPhis(b) \/ RenameInBlock(b) PROVE SideBySide'
  BY <1>1, <1>2 DEF InsertPhis, RenameInBlock
<1>3. CASE StartRenaming \/ StartReplacing \/ ReplaceLoads
  BY <1>1, <1>3 DEF StartRenaming, StartReplacing, ReplaceLoads
<1>4. CASE RemoveInstructions
  <2>1. phase # "run" /\ phase' = "run" /\ UNCHANGED <<source, run>>
    BY <1>4 DEF RemoveInstructions
  <2>2. AtTheStart'
    BY <2>1 DEF SideBySide, AtTheStart, run
  <2>3. (Inv /\ AtTheStart => Holding)'
    BY HoldingAtFirst, PTL
  <2>4. Holding'
    BY <2>2, <2>3
  <2> QED
    BY <2>1, <2>2, <2>4 DEF SideBySide, AtTheStart
<1>5. ASSUME phase = "run", UNCHANGED <<graph, source, phase, pass>>, PhisPlaced => Holding' /\ seen' = seenNow'
      PROVE  SideBySide'
  <2>1. PhisPlaced' => PhisPlaced
    BY <1>5 DEF PhisPlaced, JoinsOf, DefBlocks, DominanceFrontier, StrictlyDominates, pass
  <2> QED
    BY <1>5, <2>1 DEF SideBySide
<1>6. phase = "run" /\ PhisPlaced => Holding /\ seen = seenNow
  BY DEF SideBySide
<1>7. CASE ExecuteLoad
  <2>1. phase = "run" /\ UNCHANGED <<graph, source, phase, pass, seen, seenNow>>
    BY <1>7 DEF ExecuteLoad, InstructionIs
  <2> QED
    BY <1>5, <1>6, <1>7, <2>1, HoldingAfterLoad
<1>8. CASE ExecuteStore
  <2>1. phase = "run" /\ UNCHANGED <<graph, source, phase, pass, seen, seenNow>>
    BY <1>8 DEF ExecuteStore, InstructionIs
  <2> QED
    BY <1>5, <1>6, <1>8, <2>1, HoldingAfterStore
<1>9. CASE ExecuteUse
  <2>1. /\ phase = "run" /\ UNCHANGED <<graph, source, phase, pass>>
        /\ at.next \in DOMAIN source[at.block] /\ Instruction.op \in {"use", "call"}
        /\ seen' = ResultOf(Instruction.val) /\ seenNow' = ValueNow(code[at.block][at.next].val)
    BY <1>9 DEF ExecuteUse, InstructionIs, Instruction
  <2>2. ASSUME Holding PROVE seen' = seenNow'
    <3>1. StandsFor(Var, code[at.block][at.next].val, Instruction.val, at.block, at.next)
      BY <2>1, UseShape
    <3>2. Remains(Done, code[at.block][at.next].val)
      <4>1. /\ at.block \in Block /\ at.next \in DOMAIN code[at.block]
            /\ code[at.block][at.next].op = Instruction.op
        BY <2>1 DEF Inv, TypeOK, InstructionsOK, Instruction
      <4> QED
        BY <2>1, <4>1 DEF LoadsGone
    <3>3. seenNow' = Val[Instruction.val]
      BY <2>1, <2>2, <3>1, <3>2, ReadsWhatStands
    <3>4. /\ Instruction.val \in Value
          /\ Instruction.val[1] = "const" \/ IsLoad(Instruction.val)
      BY <2>1, InstructionShape
    <3>5. ResultOf(Instruction.val) = Val[Instruction.val]
      BY <3>4 DEF ResultOf, Val, IsLoad
    <3> QED
      BY <2>1, <3>3, <3>5
  <2> QED
    BY <1>5, <1>6, <1>9, <2>1, <2>2, HoldingAfterUse
<1>10. ASSUME NEW b \in Block, EnterBlock(b) PROVE SideBySide'
  <2>1. phase = "run" /\ UNCHANGED <<graph, source, phase, pass, seen, seenNow>>
    BY <1>10 DEF EnterBlock
  <2> QED
    BY <1>5, <1>6, <1>10, <2>1, HoldingAfterEntering
<1> QED
  BY <1>2, <1>3, <1>4, <1>7, <1>8, <1>9, <1>10 DEF Next

\* Renaming is right: in a function the pass can do all of, with the phi nodes where
\* definitions meet, every use sees on every path what it saw before the pass.
THEOREM RenamedFunctionMeansTheSame ==
  Spec => [](Replaceable(source) => RenamingPreservesMeaning)
<1> DEFINE G == Replaceable(source) => LoadsGone
           I == Inv /\ (Replaceable(source) => SideBySide)
<1>1. Init => I
  <2> SUFFICES ASSUME Init PROVE SideBySide
    BY InitInv
  <2> QED
    BY DEF Init, SideBySide, AtTheStart
<1>2. I /\ Inv /\ G /\ Inv' /\ [Next]_vars => I'
  <2> SUFFICES ASSUME I, G, Inv', [Next]_vars, Replaceable(source)' PROVE SideBySide'
    OBVIOUS
  <2>1. Replaceable(source)
    BY GraphAndSourceStay DEF Replaceable
  <2>2. CASE Next
    BY <2>1, <2>2, SideBySideStep
  <2>3. CASE UNCHANGED vars
    <3>1. UNCHANGED <<graph, source, code, phase, phiBlocks, at, mem, loaded, phiValue, seen, seenNow>>
      BY <2>3 DEF vars, pass, run
    <3>2. Val' = Val /\ PhisPlaced' = PhisPlaced /\ AtTheStart' = AtTheStart
      BY <3>1, SameLoaded DEF Val, PhisPlaced, JoinsOf, DefBlocks, DominanceFrontier, StrictlyDominates, AtTheStart
    <3>3. \A x, c, k : Before(x, c, k)' = Before(x, c, k)
      BY <3>1, SameBefore
    <3>4. Holding => Holding'
      BY <3>1, <3>2, <3>3 DEF Holding, Agrees
    <3> QED
      BY <2>1, <3>1, <3>2, <3>4 DEF SideBySide
  <2> QED
    BY <2>2, <2>3
<1>3. I => (Replaceable(source) => RenamingPreservesMeaning)
  BY DEF SideBySide, AtTheStart, RenamingPreservesMeaning
<1>4. Spec => [](Inv /\ G)
  BY LoadsAreReplaced
<1> QED
  BY <1>1, <1>2, <1>3, <1>4, PTL DEF Spec
=============================================================================

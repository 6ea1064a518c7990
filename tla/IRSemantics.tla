---------------------------- MODULE IRSemantics ----------------------------
(***************************************************************************)
(* What the instructions of an IR function do when they are executed.      *)
(*                                                                         *)
(* The state s of an execution has the values of the temporaries (env, and *)
(* entry when the block was entered) and of the stack slots (mem), the     *)
(* block to be executed and the one before it (to, from), the answers the  *)
(* called functions are still to give, the calls made so far, and mode:    *)
(* "run" inside a block, then "next" (to another block), "done" or         *)
(* "stuck".                                                                *)
(***************************************************************************)
EXTENDS IRFunctions, Arithmetic

\* The arguments of the function are 1, 2, ...; other variables are undefined.
Argument(i) == i

ValueIn(s, v) ==
  CASE v[1] = "const" -> v[2]
    [] v[1] = "param" -> Argument(v[2])
    [] v[1] = "temp" -> s.env[v[2]]

\* The first entry of a phi node for block b.
EntryFor(phi, b) == CHOOSE i \in DOMAIN phi.from :
                      phi.from[i] = b /\ \A j \in DOMAIN phi.from : phi.from[j] = b => i <= j

\* A phi node takes the value that belongs to the block control came from.  The
\* phi nodes of a block are evaluated at once.
IncomingFrom(s, inst) ==
  IF s.from \in ToSet(inst.from)
    THEN ValueIn([s EXCEPT !.env = s.entry], inst.args[EntryFor(inst, s.from)])
    ELSE Undefined

Defined(s, inst, v) == [s EXCEPT !.env[inst.res[2]] = v]

Executed(s, inst) ==
  LET arg(i) == ValueIn(s, inst.args[i])
  IN IF s.mode # "run" THEN s
     ELSE CASE inst.op \in {"label", "alloca"} -> s
            [] inst.op = "store" -> [s EXCEPT !.mem[inst.args[2][2]] = arg(1)]
            [] inst.op = "load" -> Defined(s, inst, s.mem[inst.args[1][2]])
            [] inst.op \in BinaryOperators -> Defined(s, inst, Applied(inst.op, arg(1), arg(2)))
            [] inst.op = "not" -> Defined(s, inst, Negated(arg(1)))
            [] inst.op = "phi" -> Defined(s, inst, IncomingFrom(s, inst))
            [] inst.op = "call" /\ s.answers = <<>> -> [s EXCEPT !.mode = "stuck"]
            [] inst.op = "call" /\ s.answers # <<>> ->
                 [Defined(s, inst, Head(s.answers)) EXCEPT
                    !.answers = Tail(@),
                    !.calls = Append(@, <<inst.callee, [i \in DOMAIN inst.args |-> arg(i)]>>)]
            [] inst.op = "ret" ->
                 [s EXCEPT !.mode = "done",
                           !.val = IF inst.args = <<>> THEN Undefined ELSE arg(1)]
            [] inst.op = "br" -> [s EXCEPT !.mode = "next", !.to = inst.to[1]]
            [] inst.op = "condbr" /\ arg(1) = Undefined -> [s EXCEPT !.mode = "stuck"]
            [] inst.op = "condbr" /\ arg(1) # Undefined ->
                 [s EXCEPT !.mode = "next", !.to = inst.to[IF arg(1) # 0 THEN 1 ELSE 2]]

\* Control enters the block it is about to execute; After[i] is the state after the
\* first i instructions.
ExecuteBlock(blocks, s) ==
  LET code == blocks[s.to].code
      After[i \in 0..Len(code)] ==
        IF i = 0 THEN [s EXCEPT !.mode = "run", !.entry = s.env]
        ELSE Executed(After[i - 1], code[i])
  IN [After[Len(code)] EXCEPT !.from = s.to]

CallsIn(code) == Len(SelectSeq(code, LAMBDA inst : inst.op = "call"))
=============================================================================

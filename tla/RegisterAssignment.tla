------------------------- MODULE RegisterAssignment -------------------------
(***************************************************************************)
(* What RegisterAllocator::allocate promises its only client, the x86-64   *)
(* backend, whatever the algorithm: every value ends up in one place, a    *)
(* register or a stack slot, and two values that are needed at the same    *)
(* time are never in the same place.  A value may be moved at most once,   *)
(* from its register to a slot nobody uses, to make room for another one.  *)
(***************************************************************************)
EXTENDS Integers

CONSTANTS Value, Reg

VARIABLES
  ready,        \* is it known which values interfere?
  interferes,   \* the pairs of values needed at the same time
  loc           \* the place of each value

avars == <<ready, interferes, loc>>

Unplaced == [kind |-> "none", at |-> 0]
InReg(r) == [kind |-> "reg", at |-> r]
InSlot(k) == [kind |-> "slot", at |-> k]
Place == [kind : {"none"}, at : {0}] \cup [kind : {"reg"}, at : Reg]
           \cup [kind : {"slot"}, at : Nat]

Symmetric(rel) == \A v, w \in Value : <<v, w>> \in rel => <<w, v>> \in rel

AInit ==
  /\ ready = FALSE
  /\ interferes = {}
  /\ loc = [v \in Value |-> Unplaced]

\* The interference of the function becomes known; nothing is placed yet.
Analyse ==
  /\ ~ready
  /\ ready' = TRUE
  /\ interferes' \subseteq Value \X Value
  /\ Symmetric(interferes')
  /\ UNCHANGED loc

\* Nothing that interferes with v, except possibly x, is in place p.
NoConflict(v, p, x) ==
  \A w \in Value \ {x, v} : <<v, w>> \in interferes => loc[w] # p

\* v goes to a register or slot where nothing interferes with it.
PlaceValue(v) ==
  /\ ready
  /\ loc[v] = Unplaced
  /\ loc'[v] \in Place \ {Unplaced}
  /\ loc' = [loc EXCEPT ![v] = loc'[v]]
  /\ NoConflict(v, loc'[v], v)
  /\ UNCHANGED <<ready, interferes>>

\* c leaves its register for an unused slot and v takes the register.
Displace(c, v) ==
  /\ ready
  /\ c # v
  /\ loc[v] = Unplaced
  /\ loc[c].kind = "reg"
  /\ loc'[c] \in [kind : {"slot"}, at : Nat]
  /\ \A w \in Value : loc[w] # loc'[c]
  /\ loc' = [loc EXCEPT ![c] = loc'[c], ![v] = loc[c]]
  /\ NoConflict(v, loc[c], c)
  /\ UNCHANGED <<ready, interferes>>

ANext ==
  \/ Analyse
  \/ \E v \in Value : PlaceValue(v)
  \/ \E c, v \in Value : Displace(c, v)

ASpec == AInit /\ [][ANext]_avars

-----------------------------------------------------------------------------
\* Two values that interfere never share a place: the generated code may keep
\* both, each where the allocator says it is (getRegister, getStackOffset).
Consistent ==
  \A v, w \in Value :
    v # w /\ <<v, w>> \in interferes /\ loc[v] # Unplaced => loc[v] # loc[w]
=============================================================================

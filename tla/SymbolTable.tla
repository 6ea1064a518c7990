---------------------------- MODULE SymbolTable ----------------------------
(***************************************************************************)
(* Nested scopes (lib/Sema/SymbolTable.cpp).                               *)
(*                                                                         *)
(* A table holds every scope ever made, the global one first, and the      *)
(* current one.  A scope is a map from names to symbols and the number of  *)
(* its parent, 0 for the global scope; it stays when it is left.           *)
(***************************************************************************)
EXTENDS Integers, Sequences, TLC

CONSTANT NoSymbol     \* what a lookup of an unknown name returns

Scope(parent) == [parent |-> parent, symbols |-> <<>>]

NewTable == [scopes |-> <<Scope(0)>>, current |-> 1]

PushScope(t) ==
  [scopes |-> Append(t.scopes, Scope(t.current)), current |-> Len(t.scopes) + 1]

PopScope(t) == IF t.current = 1 THEN t ELSE [t EXCEPT !.current = t.scopes[@].parent]

Declares(t, scope, name) == name \in DOMAIN t.scopes[scope].symbols

\* A name that is already in the current scope keeps its symbol.
CanInsert(t, name) == ~Declares(t, t.current, name)
Insert(t, name, symbol) ==
  IF CanInsert(t, name) THEN [t EXCEPT !.scopes[t.current].symbols = (name :> symbol) @@ @] ELSE t

Lookup(t, name) ==
  LET Found[scope \in 0..Len(t.scopes)] ==
        IF scope = 0 THEN NoSymbol
        ELSE IF Declares(t, scope, name) THEN t.scopes[scope].symbols[name]
        ELSE Found[t.scopes[scope].parent]
  IN Found[t.current]
=============================================================================

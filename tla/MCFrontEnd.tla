----------------------------- MODULE MCFrontEnd -----------------------------
(***************************************************************************)
(* The texts of the run: functions of MCPrograms, declarations with every  *)
(* pair of operators in both orders, texts with one word too many, missing *)
(* or in place of another, and all short texts over some alphabets.        *)
(***************************************************************************)
EXTENDS FrontEnd, MCPrograms

-----------------------------------------------------------------------------
(* Trees.                                                                  *)

\* In MCPrograms names and literals are numbers.
NameOf(id) == "v" \o ToString(id)
NumeralOf(id, type) ==
  CASE type = CharType -> "\n" [] type = FloatType -> ToString(id) \o ".0" [] OTHER -> ToString(id)

RECURSIVE Named(_)
Named(n) ==
  IF n = None THEN n ELSE
  [n EXCEPT !.kids = FoldLeft(LAMBDA kids, k : Append(kids, Named(k)), <<>>, n.kids),
            !.id = CASE n.kind = "literal" -> NumeralOf(n.id, n.type)
                     [] n.kind \in {"var", "call", "decl"} -> NameOf(n.id)
                     [] OTHER -> ""]

Parameter(i, type) == TypedNode("parameter", NameOf(i), type, <<>>)
FunctionNode(f) ==
  TypedNode("function", NameOf(f.name), f.ret,
            Append([i \in DOMAIN f.params |-> Parameter(i, f.params[i])], Named(f.body)))

A == Node("var", "a", <<>>)
B == Node("var", "b", <<>>)
C == Node("var", "c", <<>>)
Number(s) == TypedNode("literal", s, IntType, <<>>)
InfixKinds == BinaryOperators \cup Assignments \cup {"and", "or"}
PrefixKinds == UnaryOperators \cup {"++x", "--x"}
Suffixed(e) ==
  {Node("x++", "", <<e>>), Node("x--", "", <<e>>), Node("element", "", <<e, B>>), CallNode(e, <<B, C>>), CallNode(e, <<>>)}
Pairs ==
  UNION {{Node(op, "", <<Node(inner, "", <<A, B>>), C>>), Node(op, "", <<A, Node(inner, "", <<B, C>>)>>)} :
           op, inner \in {"=", "-=", "or", "and", "|", "^", "&", "==", "!=", "<", ">=", "<<", "+", "-", "*", "%"}}
Singles == {Node(op, "", <<A, B>>) : op \in InfixKinds} \cup {Node(op, "", <<A>>) : op \in PrefixKinds} \cup Suffixed(A)
Mixed ==
  {Node(op, "", <<e>>) : op \in PrefixKinds, e \in Singles}
    \cup {Node(op, "", <<Node(p, "", <<A>>), Node(q, "", <<B>>)>>) : op \in {"+", "-", "&", "*", "="}, p, q \in PrefixKinds}
    \cup {Node("-", "", <<s, Node("--x", "", <<A>>)>>) : s \in Suffixed(A)}
    \cup UNION {Suffixed(e) : e \in Singles}
Literals ==
  {Number("0"), Number("99"), TypedNode("literal", "1.5", FloatType, <<>>), TypedNode("literal", "2e+1", FloatType, <<>>)}
    \cup {TypedNode("literal", c, CharType, <<>>) : c \in {"a", "\n", "'", "\"", "\\", Nul}}
    \cup {TypedNode("literal", s, PointerTo(CharType), <<>>) : s \in {"", "\\'\"", "//\n" \o Nul}}

Variable(type, e) == TypedNode("decl", "int_", type, <<e>>)
Prototype(params) == TypedNode("function", "f", VoidType, Append(params, None))
Inner == TypedNode("function", "g", CharType, <<Node("block", "", <<Empty>>)>>)

Declarations ==
  {Variable(t, None) : t \in {FloatType, VoidType, ArrayOf(IntType, "3"), ArrayOf(CharType, Unsized)}}
    \cup {Prototype(ps) : ps \in {<<>>, <<TypedNode("parameter", "p", ArrayOf(IntType, Unsized), <<>>)>>}}
    \cup {TypedNode("function", "f", IntType, <<Node("block", "", <<s>>)>>) :
            s \in {Inner, Empty, Node("for", "", <<None, None, None, Empty>>), Node("for", "", <<A, A, None, Inner>>),
                   Node("do", "", <<Empty, A>>), Node("if", "", <<A, Node("block", "", <<>>), Node("if", "", <<B, Empty, Empty>>)>>)}}

MCUnits ==
  {<<Variable(IntType, e)>> : e \in Pairs \cup Mixed \cup Literals}
    \cup {<<d, Variable(IntType, A)>> : d \in Declarations}
    \cup {<<FunctionNode(Function(<<s>>, <<Show, Returning(X)>>, IntType))>> :
            s \in Effects \cup Calls \cup Operations \cup {ForEver(Show), ForBare(Call(1), Show)}
                    \cup Controls({Call(7), Or(Call(7), And(Call(8), Z))},
                                  {Show, Block(<<Decl(1, Z), Show>>)} \cup Controls({Call(1)}, {Show} \cup Jumps))}

-----------------------------------------------------------------------------
(* Spellings: a space between any two words, or nothing where that is      *)
(* possible and a comment where it is not.                                 *)

First(s) == SubSeq(s, 1, 1)
Final(s) == SubSeq(s, Len(s), Len(s))
NeedsGap(v, w) ==
  \/ {Final(v), First(w)} \subseteq InName
  \/ v \o First(w) \in Marks
  \/ v = "/" /\ First(w) \in {"/", "*"}
Spaced(words) == FoldLeft(LAMBDA t, w : t \o w \o " ", "", words)
Tight(words) ==
  FoldLeft(LAMBDA t, i : t \o (IF i > 1 /\ NeedsGap(words[i - 1], words[i]) THEN "/**/" ELSE "") \o words[i],
           "", [i \in DOMAIN words |-> i])
MCSpellings(words) == {Spaced(words), Tight(words)}

-----------------------------------------------------------------------------
(* Other texts.                                                            *)

Sentences ==
  {<<"int", "f", "(", "int", "a", ",", "char", "b", "[", "]", ")", "{", "return", "a", ";", "}">>,
   <<"int", "a", "[", "3", "]", "=", "b", ";", "void", "f", "(", ")", ";">>,
   <<"int", "f", "(", ")", "{", "if", "(", "a", ")", "b", ";", "else", "c", "(", "a", ",", "b", ")", ";", "}">>,
   <<"int", "f", "(", ")", "{", "for", "(", "int", "a", ";", "b", ";", "c", "++", ")", "break", ";", "}">>,
   <<"int", "f", "(", ")", "{", "do", "{", "int", "a", ";", "}", "while", "(", "a", "[", "b", "]", ")", ";", "}">>}
Others == {"(", ")", ";", "{", "}", "int", "a", "=", ",", "else", "["}
Damaged(words) ==
  LET n == Len(words)
      Before(i) == SubSeq(words, 1, i - 1)
      From(i) == SubSeq(words, i, n)
  IN {Before(i) \o From(i + 1) : i \in 1..n}
       \cup {Before(i) \o <<w>> \o From(i + 1) : i \in 1..n, w \in Others}
       \cup {Before(i) \o <<w>> \o From(i) : i \in 1..n + 1, w \in Others}

RECURSIVE Over(_, _)
Over(alphabet, n) ==
  IF n = 0 THEN {""} ELSE {""} \cup {c \o t : c \in alphabet, t \in Over(alphabet, n - 1)}

MCTexts ==
  {Spaced(w) : w \in UNION {Damaged(s) : s \in Sentences}}
    \cup Over({"1", ".", "e", "+"}, 5) \cup Over({"+", "=", "<", "a"}, 4) \cup Over({"/", "*", "\n", "a"}, 5)
    \cup Over({"\"", "\\", "n"}, 5) \cup Over({"'", "\\", "n"}, 5) \cup Over({"#", "9", "a"}, 3)
    \cup {"/*/*/", "int//x", "&&&|||", "a/**/b", "1/ *2", "intx int _int int1 1int", "100", "1e-21", "0.1e-19", "0.1e-20", "0.01e22", "0e99", "'\\x'", "\"\\x\""}
=============================================================================

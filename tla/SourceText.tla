----------------------------- MODULE SourceText -----------------------------
(***************************************************************************)
(* The text of a syntax tree, and what the words of C are: the reference   *)
(* the lexer and the parser are held to.                                   *)
(*                                                                         *)
(* The words of a tree are a sequence of strings.  Parentheses are put     *)
(* where the precedence of the operators needs them, or around every part  *)
(* of an expression that has parts.                                        *)
(***************************************************************************)
EXTENDS SyntaxTree, TLC

-----------------------------------------------------------------------------
(* Words.                                                                  *)

CharactersIn(s) == {SubSeq(s, i, i) : i \in 1..Len(s)}
Digit == CharactersIn("0123456789")
InName == Digit \cup CharactersIn("abcdefghijklmnopqrstuvwxyzABCDEFGHIJKLMNOPQRSTUVWXYZ_")
Marks ==
  {"+", "-", "*", "/", "%", "=", "<", ">", "!", "&", "|", "^", "~", "(", ")", "{", "}", "[", "]", ",", ";",
   "++", "--", "+=", "-=", "*=", "/=", "==", "!=", "<=", ">=", "<<", ">>", "&&", "||"}

IsInteger10(s) == s # "" /\ CharactersIn(s) \subseteq Digit
IsName(s) == s # "" /\ CharactersIn(s) \subseteq InName /\ SubSeq(s, 1, 1) \notin Digit
IsFraction(s) ==
  \/ IsInteger10(s)
  \/ \E i \in 2..Len(s) - 1 : /\ SubSeq(s, i, i) = "."
                              /\ IsInteger10(SubSeq(s, 1, i - 1)) /\ IsInteger10(SubSeq(s, i + 1, Len(s)))
IsNumber(s) ==
  \/ IsFraction(s)
  \/ \E i \in 2..Len(s), sign \in 0..1 :
       /\ SubSeq(s, i, i) \in {"e", "E"}
       /\ sign = 1 => i < Len(s) /\ SubSeq(s, i + 1, i + 1) \in {"+", "-"}
       /\ IsFraction(SubSeq(s, 1, i - 1)) /\ IsInteger10(SubSeq(s, i + 1 + sign, Len(s)))

\* What is between quotes: characters other than the quote, and escapes.
RECURSIVE IsQuotable(_, _)
IsQuotable(s, quote) ==
  LET Known == {"n", "t", "r", "0", "\\", quote}
  IN CASE s = "" -> TRUE
       [] Len(s) >= 2 /\ SubSeq(s, 1, 1) = "\\" ->
            SubSeq(s, 2, 2) \in Known /\ IsQuotable(SubSeq(s, 3, Len(s)), quote)
       [] s # "" /\ SubSeq(s, 1, 1) \notin {"\\", quote} -> IsQuotable(SubSeq(s, 2, Len(s)), quote)
       [] OTHER -> FALSE
Inside(s) == SubSeq(s, 2, Len(s) - 1)
Quoted(s, quote) ==
  Len(s) >= 2 /\ SubSeq(s, 1, 1) = quote /\ SubSeq(s, Len(s), Len(s)) = quote /\ IsQuotable(Inside(s), quote)
IsString(s) == Quoted(s, "\"")
IsCharacter(s) ==
  /\ Quoted(s, "'")
  /\ Len(Inside(s)) = IF Len(s) > 2 /\ SubSeq(s, 2, 2) = "\\" THEN 2 ELSE 1

IsWord(s) == s \in Marks \/ IsName(s) \/ IsNumber(s) \/ IsString(s) \/ IsCharacter(s)

\* What may be between words: white space and comments.
RECURSIVE IsGap(_)
IsGap(s) ==
  LET two == SubSeq(s, 1, 2)
      Drop(n) == SubSeq(s, n + 1, Len(s))
      stars == {i \in 3..Len(s) - 1 : SubSeq(s, i, i + 1) = "*/"}
      lines == {i \in 3..Len(s) : SubSeq(s, i, i) = "\n"}
  IN CASE s = "" -> TRUE
       [] s # "" /\ SubSeq(s, 1, 1) \in CharactersIn(" \t\n\r") -> IsGap(Drop(1))
       [] Len(s) >= 2 /\ two = "//" -> lines = {} \/ IsGap(Drop(Min(lines)))
       [] Len(s) >= 2 /\ two = "/*" -> stars # {} /\ IsGap(Drop(Min(stars) + 1))
       [] OTHER -> FALSE

\* The words of a text from place p on: the longest word that begins after a gap,
\* and so on.
Reading(ok) == [words |-> <<>>, ok |-> ok]
RECURSIVE WordsFrom(_, _)
WordsFrom(t, p) ==
  LET gaps == {q \in p..Len(t) + 1 : IsGap(SubSeq(t, p, q - 1))}
      from == CHOOSE q \in gaps : \A r \in gaps : r <= q
      opens == from < Len(t) /\ SubSeq(t, from, from + 1) = "/*"
      ends == {q \in from..Len(t) : ~opens /\ IsWord(SubSeq(t, from, q))}
      end == CHOOSE q \in ends : \A r \in ends : r <= q
      rest == WordsFrom(t, end + 1)
  IN CASE from > Len(t) -> Reading(TRUE)
       [] from <= Len(t) /\ ends = {} -> Reading(FALSE)
       [] OTHER -> [rest EXCEPT !.words = <<SubSeq(t, from, end)>> \o @]

-----------------------------------------------------------------------------
(* Trees.  In a literal "\f" stands for the character 0.                   *)

Symbol(kind) ==
  CASE kind = "or" -> "||" [] kind = "and" -> "&&" [] kind = "plus" -> "+" [] kind = "minus" -> "-"
    [] kind = "not" -> "!" [] kind = "addr" -> "&" [] kind = "deref" -> "*"
    [] kind \in {"++x", "x++"} -> "++" [] kind \in {"--x", "x--"} -> "--" [] OTHER -> kind

PrefixOperators == UnaryOperators \cup {"++x", "--x"}
InfixOperators == BinaryOperators \cup Assignments \cup {"and", "or"}

\* How tightly the parts of an expression are bound to each other.
Precedence(kind) ==
  CASE kind \in Assignments -> 1
    [] kind = "or" -> 2
    [] kind = "and" -> 3
    [] kind = "|" -> 4
    [] kind = "^" -> 5
    [] kind = "&" -> 6
    [] kind \in Equalities -> 7
    [] kind \in Relations -> 8
    [] kind \in {"<<", ">>"} -> 9
    [] kind \in {"+", "-"} -> 10
    [] kind \in {"*", "/", "%"} -> 11
    [] kind \in PrefixOperators -> 12
    [] OTHER -> 13

OfEach(nodes, Text(_)) == FoldLeft(LAMBDA t, n : t \o Text(n), <<>>, nodes)
WithCommas(nodes, Text(_)) ==
  FoldLeft(LAMBDA t, n : (IF t = <<>> THEN t ELSE Append(t, ",")) \o Text(n), <<>>, nodes)

LiteralText(n) ==
  LET escaped(c, quote) ==
        CASE c = "\n" -> "\\n" [] c = "\t" -> "\\t" [] c = "\r" -> "\\r" [] c = "\f" -> "\\0"
          [] c \in {"\\", quote} -> "\\" \o c [] OTHER -> c
      Inner[i \in 0..Len(n.id)] ==
        IF i = 0 THEN "" ELSE Inner[i - 1] \o escaped(SubSeq(n.id, i, i), "\"")
  IN CASE n.type = CharType -> "'" \o escaped(n.id, "'") \o "'"
       [] n.type = PointerTo(CharType) -> "\"" \o Inner[Len(n.id)] \o "\""
       [] OTHER -> n.id

\* The words of expression n where only operators that bind at least as tightly
\* as level may stand without parentheses.
RECURSIVE Expression(_, _, _)
Expression(n, level, all) ==
  LET E(i, l) == Expression(n.kids[i], l, all)
      p == Precedence(n.kind)
      List(nodes) == WithCommas(nodes, LAMBDA e : Expression(e, 1, all))
      words ==
        CASE n.kind = "literal" -> <<LiteralText(n)>>
          [] n.kind = "var" -> <<n.id>>
          [] n.kind = "call" -> <<n.id, "(">> \o List(n.kids) \o <<")">>
          [] n.kind = "apply" -> E(1, 13) \o <<"(">> \o List(Tail(n.kids)) \o <<")">>
          [] n.kind = "element" -> E(1, 13) \o <<"[">> \o E(2, 1) \o <<"]">>
          [] n.kind \in {"x++", "x--"} -> E(1, 13) \o <<Symbol(n.kind)>>
          [] n.kind \in PrefixOperators -> <<Symbol(n.kind)>> \o E(1, 12)
          [] n.kind \in Assignments -> E(1, 2) \o <<n.kind>> \o E(2, 1)
          [] n.kind \in InfixOperators \ Assignments -> E(1, p) \o <<Symbol(n.kind)>> \o E(2, p + 1)
  IN IF p < level \/ (all /\ n.kids # <<>>) THEN <<"(">> \o words \o <<")">> ELSE words

\* The words of a declaration or a statement.
Declarator(type, name) ==
  CASE type.kind = "array" ->
         <<type.of[1].kind, name, "[">> \o (IF type.size = Unsized THEN <<>> ELSE <<type.size>>) \o <<"]">>
    [] OTHER -> <<type.kind, name>>

RECURSIVE Words(_, _)
Words(n, all) ==
  LET W(i) == Words(n.kids[i], all)
      X(i) == IF n.kids[i] = None THEN <<>> ELSE Expression(n.kids[i], 1, all)
  IN CASE n.kind = "none" -> <<>>
       [] n.kind = "empty" -> <<";">>
       [] n.kind = "decl" ->
            Declarator(n.type, n.id) \o (IF n.kids[1] = None THEN <<>> ELSE <<"=">> \o X(1)) \o <<";">>
       [] n.kind = "function" ->
            <<n.type.kind, n.id, "(">> \o WithCommas(Front(n.kids), LAMBDA p : Declarator(p.type, p.id)) \o <<")">>
              \o (IF Last(n.kids) = None THEN <<";">> ELSE W(Len(n.kids)))
       [] n.kind = "block" -> <<"{">> \o OfEach(n.kids, LAMBDA s : Words(s, all)) \o <<"}">>
       [] n.kind = "if" ->
            <<"if", "(">> \o X(1) \o <<")">> \o W(2)
              \o (IF n.kids[3] = None THEN <<>> ELSE <<"else">> \o W(3))
       [] n.kind = "while" -> <<"while", "(">> \o X(1) \o <<")">> \o W(2)
       [] n.kind = "do" -> <<"do">> \o W(1) \o <<"while", "(">> \o X(2) \o <<")", ";">>
       [] n.kind = "for" ->
            <<"for", "(">> \o (IF n.kids[1] = None THEN <<";">> ELSE W(1))
              \o X(2) \o <<";">> \o X(3) \o <<")">> \o W(4)
       [] n.kind = "return" -> <<"return">> \o X(1) \o <<";">>
       [] n.kind \in {"break", "continue"} -> <<n.kind, ";">>
       [] OTHER -> Expression(n, 1, all) \o <<";">>

WordsOf(unit, all) == OfEach(unit, LAMBDA d : Words(d, all))
=============================================================================

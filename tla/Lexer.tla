------------------------------- MODULE Lexer -------------------------------
(***************************************************************************)
(* Lexer (lib/Parse/Lexer.cpp): what is read from a place of a text.       *)
(*                                                                         *)
(* A text is a string, a character a string of length one.  A token is     *)
(* [kind, value, from, to]; the kind of a keyword or an operator is its    *)
(* spelling.  What is read at a place is [end, tokens, errors, aborts]:    *)
(* where the reading goes on, the token, if there is one, and the errors   *)
(* reported.  std::stoll and std::stod throw, and nothing catches, when a  *)
(* literal is larger than MaxInteger or not in the range of double.  Lines *)
(* and columns are left out.                                               *)
(***************************************************************************)
EXTENDS Integers, Sequences, SequencesExt, TLC

CONSTANTS
  MaxInteger,   \* the largest int64_t
  MaxOrder      \* a double other than zero is of an order of magnitude in -MaxOrder..MaxOrder

CharactersOf(s) == {SubSeq(s, i, i) : i \in 1..Len(s)}

Letters == CharactersOf("abcdefghijklmnopqrstuvwxyzABCDEFGHIJKLMNOPQRSTUVWXYZ")
Digits == CharactersOf("0123456789")
InNames == Letters \cup Digits \cup {"_"}
White == CharactersOf(" \t\n\r")

Keywords == {"int", "float", "char", "void", "if", "else", "while", "for", "do", "return",
             "break", "continue"}
TwoCharacters == {"++", "--", "+=", "-=", "*=", "/=", "==", "!=", "<=", ">=", "<<", ">>", "&&", "||"}
OneCharacter == CharactersOf("+-*/%=<>!&|^~(){}[],;")

\* Stands for the character 0, for which there is no notation.
Nul == "\f"

\* The character an escape sequence stands for, by the character after \.
Escapes(quote) ==
  [c \in {"n", "t", "r", "0", "\\", quote} |->
     CASE c = "n" -> "\n" [] c = "t" -> "\t" [] c = "r" -> "\r" [] c = "0" -> Nul [] OTHER -> c]

\* currentChar and peek: there is no character after the end.
At(t, p) == IF p <= Len(t) THEN SubSeq(t, p, p) ELSE ""

\* The first place from p on whose character is not one of S.
Past(t, p, S) ==
  CHOOSE q \in p..Len(t) + 1 : At(t, q) \notin S /\ \A r \in p..q - 1 : At(t, r) \in S

\* Where the text goes on after the character at p.
After(t, p) == IF p <= Len(t) THEN p + 1 ELSE p

Skipped(end, errors) == [end |-> end, tokens |-> <<>>, errors |-> errors, aborts |-> FALSE]
Read(p, end, kind, value) ==
  [Skipped(end, {}) EXCEPT !.tokens = <<[kind |-> kind, value |-> value, from |-> p, to |-> end - 1]>>]
Reporting(r, wrong, error) == IF wrong THEN [r EXCEPT !.errors = @ \cup {error}] ELSE r

-----------------------------------------------------------------------------
SkipComment(t, p) == Skipped(Past(t, p, CharactersOf(t) \ {"\n"}), {})

\* Mutant: one character too many is passed over.
SkipBlockCommentFar(t, p) ==
  LET closed == {q \in p + 2..Len(t) - 1 : SubSeq(t, q, q + 1) = "*/"}
  IN IF closed = {} THEN Skipped(Len(t) + 1, {"comment"}) ELSE Skipped(Min(closed) + 3, {})

SkipBlockComment(t, p) ==
  LET closed == {q \in p + 2..Len(t) - 1 : SubSeq(t, q, q + 1) = "*/"}
  IN IF closed = {} THEN Skipped(Len(t) + 1, {"comment"}) ELSE Skipped(Min(closed) + 2, {})

LexIdentifierOrKeyword(t, p) ==
  LET end == Past(t, p, InNames)
      name == SubSeq(t, p, end - 1)
  IN Read(p, end, IF name \in Keywords THEN name ELSE "name", name)

\* The value of digits, or MaxInteger + 1 if they stand for more than MaxInteger.
IntegerValue(digits) ==
  LET Upto[i \in 0..Len(digits)] ==
        IF i = 0 THEN 0
        ELSE LET d == CHOOSE d \in 0..9 : At("0123456789", d + 1) = At(digits, i)
             IN Min({10 * Upto[i - 1] + d, MaxInteger + 1})
  IN Upto[Len(digits)]

\* Whether std::stod throws for the literal from p on whose integer part, fraction
\* and exponent end before int, frac and end, by the power of ten of its first
\* digit that is not 0.  Below the range it throws as it does above.
OutOfRange(t, p, int, frac, sign, end) ==
  LET figures == SubSeq(t, p, int - 1) \o SubSeq(t, int + 1, frac - 1)
      nonzero == {i \in 1..Len(figures) : At(figures, i) # "0"}
      exponent == IntegerValue(SubSeq(t, sign, end - 1))
      order == int - p - Min(nonzero) + (IF At(t, sign - 1) = "-" THEN 0 - exponent ELSE exponent)
  IN nonzero # {} /\ order \notin -MaxOrder..MaxOrder

\* The digits of an exponent may be missing.
LexNumber(t, p) ==
  LET int == Past(t, p, Digits)
      frac == IF At(t, int) = "." /\ At(t, int + 1) \in Digits THEN Past(t, int + 1, Digits) ELSE int
      sign == IF At(t, frac + 1) \in {"+", "-"} THEN frac + 2 ELSE frac + 1
      end == IF At(t, frac) \in {"e", "E"} THEN Past(t, sign, Digits) ELSE frac
      value == IntegerValue(SubSeq(t, p, end - 1))
  IN IF end # int
     THEN [Read(p, end, "decimal", SubSeq(t, p, end - 1)) EXCEPT !.aborts = OutOfRange(t, p, int, frac, sign, end)]
     ELSE [Read(p, end, "number", ToString(value)) EXCEPT !.aborts = value > MaxInteger]

\* A character literal may be empty.
LexCharLiteral(t, p) ==
  LET escaped == At(t, p + 1) = "\\"
      first == IF escaped THEN p + 2 ELSE p + 1
      c == At(t, first)
      close == IF escaped THEN After(t, first) ELSE IF c \in {"'", ""} THEN first ELSE first + 1
      known == ~escaped \/ c \in DOMAIN Escapes("'")
      value == IF escaped /\ known THEN Escapes("'")[c]
               ELSE IF close = first /\ ~escaped THEN Nul ELSE c
      ends == At(t, close) = "'"
      token == Read(p, IF ends THEN close + 1 ELSE close, "character", value)
  IN Reporting(Reporting(token, ~known, "escape"), ~ends, "character")

LexStringLiteral(t, p) ==
  LET escapes == Escapes("\"")
      \* from place q inside the quotes: the place of the closing one, the value
      \* and whether an escape sequence is unknown
      Rest[q \in p + 1..Len(t) + 1] ==
        LET c == At(t, q)
            e == At(t, q + 1)
            known == c # "\\" \/ e \in DOMAIN escapes
            rest == Rest[IF c = "\\" THEN After(t, q + 1) ELSE q + 1]
        IN IF c \in {"\"", ""} THEN [close |-> q, value |-> "", unknown |-> FALSE]
           ELSE [rest EXCEPT !.value = (IF c # "\\" THEN c ELSE IF known THEN escapes[e] ELSE e) \o @,
                             !.unknown = @ \/ ~known]
      ends == At(t, Rest[p + 1].close) = "\""
      token == Read(p, IF ends THEN Rest[p + 1].close + 1 ELSE Rest[p + 1].close, "string", Rest[p + 1].value)
  IN Reporting(Reporting(token, Rest[p + 1].unknown, "escape"), ~ends, "string")

\* Mutant: << and >> are not known.
LexOperatorNoShift(t, p) ==
  LET two == At(t, p) \o At(t, p + 1)
  IN CASE two \in TwoCharacters \ {"<<", ">>"} -> Read(p, p + 2, two, two)
       [] two \notin TwoCharacters \ {"<<", ">>"} /\ At(t, p) \in OneCharacter -> Read(p, p + 1, At(t, p), At(t, p))
       [] OTHER -> Skipped(p + 1, {"unknown"})

\* The operators of two characters are tried first.
LexOperator(t, p) ==
  LET one == At(t, p)
      two == one \o At(t, p + 1)
  IN IF two \in TwoCharacters THEN Read(p, p + 2, two, two)
     ELSE IF one \in OneCharacter THEN Read(p, p + 1, one, one)
     ELSE Skipped(p + 1, {"unknown"})

\* One turn of the loop of tokenize, from place from.
ReadNext(t, from) ==
  LET p == Past(t, from, White)
      c == At(t, p)
      two == c \o At(t, p + 1)
  IN CASE c = "" -> Skipped(p, {})
       [] two = "//" -> SkipComment(t, p)
       [] two = "/*" -> SkipBlockComment(t, p)
       [] c \in Letters \cup {"_"} -> LexIdentifierOrKeyword(t, p)
       [] c \in Digits -> LexNumber(t, p)
       [] c = "'" -> LexCharLiteral(t, p)
       [] c = "\"" -> LexStringLiteral(t, p)
       [] OTHER -> LexOperator(t, p)
=============================================================================

------------------------------ MODULE FrontEnd ------------------------------
(***************************************************************************)
(* The text of a file on its way to a syntax tree: Lexer::tokenize reads   *)
(* one token after the other and, if nothing was reported,                 *)
(* Parser::parseTranslationUnit makes one declaration after the other.     *)
(***************************************************************************)
EXTENDS Lexer, Parser, SourceText

CONSTANTS
  Units,        \* translation units (sequences of declarations), to be written out
  Spellings(_), \* the texts of a sequence of words
  Texts         \* other texts

VARIABLES
  unit,     \* the translation unit the text was written for, or <<>>
  text,     \* the file
  phase,    \* "lex", "parse", "done", "refused" or "aborted"
  pos,      \* Position
  tokens,   \* the tokens read so far
  rest,     \* the tokens from CurrentToken on
  decls,    \* the declarations made so far
  errors    \* the kinds of errors reported

vars == <<unit, text, phase, pos, tokens, rest, decls, errors>>

Init ==
  /\ \/ /\ unit \in Units
        /\ \E all \in BOOLEAN : text \in Spellings(WordsOf(unit, all))
     \/ unit = <<>> /\ text \in Texts
  /\ phase = "lex"
  /\ pos = 1
  /\ tokens = <<>> /\ rest = <<>>
  /\ decls = <<>>
  /\ errors = {}

LexToken ==
  /\ phase = "lex" /\ pos <= Len(text)
  /\ LET r == ReadNext(text, pos)
     IN /\ pos' = r.end
        /\ tokens' = tokens \o r.tokens
        /\ errors' = errors \cup r.errors
        /\ phase' = IF r.aborts THEN "aborted" ELSE "lex"
  /\ UNCHANGED <<unit, text, rest, decls>>

\* The token for the end is left out.
EndOfText ==
  /\ phase = "lex" /\ pos > Len(text)
  /\ phase' = IF errors = {} THEN "parse" ELSE "refused"
  /\ rest' = tokens
  /\ UNCHANGED <<unit, text, pos, tokens, decls, errors>>

\* Mutant: the semicolon the parser stops at after an error is not passed over.
RecoverAtSemicolon(p) ==
  LET ends == {i \in DOMAIN p.rest : p.rest[i].kind = ";"}
      from == IF ends = {} THEN Len(p.rest) + 1 ELSE Min(ends)
  IN IF Last(p.nodes) # None THEN p
     ELSE [p EXCEPT !.rest = SubSeq(@, from, Len(@)), !.nodes = Front(@)]

\* After an error that leaves no declaration the tokens up to a semicolon are
\* passed over.
Recover(p) ==
  LET ends == {i \in DOMAIN p.rest : p.rest[i].kind = ";"}
      from == IF ends = {} THEN Len(p.rest) + 1 ELSE Min(ends) + 1
  IN IF Last(p.nodes) # None THEN p
     ELSE [p EXCEPT !.rest = SubSeq(@, from, Len(@)), !.nodes = Front(@)]

ParseNext ==
  /\ phase = "parse" /\ rest # <<>>
  /\ LET p == Recover(ParseDeclaration([rest |-> rest, errors |-> errors, nodes |-> decls]))
     IN /\ rest' = p.rest
        /\ decls' = p.nodes
        /\ errors' = p.errors
  /\ UNCHANGED <<unit, text, phase, pos, tokens>>

EndOfTokens ==
  /\ phase = "parse" /\ rest = <<>>
  /\ phase' = IF errors = {} THEN "done" ELSE "refused"
  /\ UNCHANGED <<unit, text, pos, tokens, rest, decls, errors>>

Next == LexToken \/ EndOfText \/ ParseNext \/ EndOfTokens

Spec == Init /\ [][Next]_vars

-----------------------------------------------------------------------------
(* Properties.                                                             *)

TokenText(i) == SubSeq(text, tokens[i].from, tokens[i].to)
TokenTexts == [i \in DOMAIN tokens |-> TokenText(i)]

\* The tokens are in the order of the text and do not overlap, and the parser's
\* are the last of the lexer's.
TypeOK ==
  /\ phase \in {"lex", "parse", "done", "refused", "aborted"}
  /\ pos \in 1..Len(text) + 1
  /\ \A i \in DOMAIN tokens :
       /\ 1 <= tokens[i].from /\ tokens[i].from <= tokens[i].to /\ tokens[i].to < pos
       /\ i > 1 => tokens[i - 1].to < tokens[i].from
  /\ IsSuffix(rest, tokens)

\* What the lexer takes for a literal although it is none: an exponent without
\* digits and a character literal without a character.
Overlooked(s) ==
  \/ s = "''"
  \/ \E i \in 2..Len(s) : /\ IsFraction(SubSeq(s, 1, i - 1)) /\ SubSeq(s, i, i) \in {"e", "E"}
                          /\ SubSeq(s, i + 1, Len(s)) \in {"", "+", "-"}

\* Lexer::tokenize splits a text into the longest words there are, with white
\* space and comments between them, and reports the texts that cannot be split
\* this way and no others.
LongestWords ==
  unit = <<>> /\ phase \in {"parse", "refused"} /\ rest = tokens /\ (\A s \in ToSet(TokenTexts) : ~Overlooked(s)) =>
    LET w == WordsFrom(text, 1)
    IN /\ phase = "parse" <=> w.ok
       /\ w.ok => TokenTexts = w.words

\* The tree of a text is the one it was written for, whatever is between its
\* words and whether or not all parts are in parentheses: precedence and
\* associativity of the operators, the else that belongs to the nearest if, what
\* is optional in loops and declarations, and the values of the literals.
RoundTrip == unit # <<>> => phase \notin {"refused", "aborted"} /\ (phase = "done" => decls = unit)

WithoutParentheses(words) == SelectSeq(words, LAMBDA w : w \notin {"(", ")"})

\* A parameter without a name leaves no trace in the tree.
UnnamedParameter ==
  \E i \in 1..Len(tokens) - 1 : tokens[i].kind \in DOMAIN Specifiers /\ tokens[i + 1].kind \in {",", ")"}

\* No token is passed over without an error: expect() is always followed by
\* advance(), and a statement or a declaration that fails is left out.  So what
\* the parser accepts has every token of the text in its tree.
NothingSkipped ==
  phase = "done" /\ ~UnnamedParameter =>
    WithoutParentheses(TokenTexts) = WithoutParentheses(WordsOf(decls, FALSE))

\* Both loops end whatever the text is: every turn of tokenize passes at least
\* one character, every turn of parseTranslationUnit at least one token, and what
\* was read stays.
EveryTurnAdvances ==
  [][/\ phase = "lex" /\ pos <= Len(text) => pos' > pos /\ IsPrefix(tokens, tokens')
     /\ phase = "parse" /\ rest # <<>> => Len(rest') < Len(rest) /\ IsPrefix(decls, decls')]_vars
=============================================================================

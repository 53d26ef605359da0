------------------------------- MODULE MCLexer -------------------------------
(* All short texts; longer ones of the characters that blanks, comments and *)
(* strings are made of, and of those that make long symbols.                *)
EXTENDS Lexer

CONSTANTS ShortLength, LongLength

TextsOf(chars, lengths) == UNION {[1 .. n -> chars] : n \in lengths}
MCTexts ==
  TextsOf(Char, 0 .. ShortLength)
    \cup TextsOf({"space", "newline", "dquote", "quote", "letter"}, 0 .. LongLength)
    \cup TextsOf({"letter", "underscore", "colon", "equals", "dash"}, 0 .. LongLength - 1)
=============================================================================

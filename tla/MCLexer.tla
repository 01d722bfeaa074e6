------------------------------ MODULE MCLexer ------------------------------
(***************************************************************************)
(* Lexer on all streams of a few bytes, in all ways to read() them.        *)
(***************************************************************************)
EXTENDS Lexer
=============================================================================

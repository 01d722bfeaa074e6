------------------------------ MODULE MCParser ------------------------------
(***************************************************************************)
(* Parser on all streams of a few lexemes, with a command of each form.    *)
(***************************************************************************)
EXTENDS Parser
=============================================================================

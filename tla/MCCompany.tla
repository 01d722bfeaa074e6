----------------------------- MODULE MCCompany -----------------------------
(***************************************************************************)
(* Company with the numbers of the game, and an unsigned int of 30 bits:   *)
(* TLC counts up to 2^31.  And what the help for "build" claims.           *)
(***************************************************************************)
EXTENDS Company, FiniteSetsExt

Word30 == 2^30

\* "One factory cost: 2500 after current step and 2500 after (current + 4)
\* step": what an order of that month has cost by now.
CostByHelp(month) ==
  orders[month] * (MAKE_FACTORY_FIRST_HALF
    + IF step >= month + 4 THEN MAKE_FACTORY_SECOND_HALF ELSE 0)

\* Money is what those payments leave. The code asks for the second half
\* after step current + 3.
SecondHalfAsHelpSays ==
  money = Signed(START_MONEY + earned - MapThenSumSet(CostByHelp, 1 .. step))

=============================================================================

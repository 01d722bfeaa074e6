----------------------------- MODULE MCAuction -----------------------------
(***************************************************************************)
(* Auction on two blocks and both auctions of a month: two bids and two    *)
(* offers at one cost or at two, more or less than the market.  A liveness *)
(* property is checked, so the blocks are not taken as interchangeable.    *)
(***************************************************************************)
EXTENDS Auction

=============================================================================

----------------------------- MODULE MCAuction -----------------------------
(* The auction of a few goals among a few agents. *)
EXTENDS Auction
=============================================================================

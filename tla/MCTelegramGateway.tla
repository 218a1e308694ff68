-------------------------- MODULE MCTelegramGateway --------------------------
(* Instances of TelegramGateway, with the promise it implements, for TLC. *)
EXTENDS TelegramRefinement

CONSTANTS owner, other, short, long

Pieces == [r \in Replies |-> IF r = long THEN 2 ELSE 1]
=============================================================================

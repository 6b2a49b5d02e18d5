--------------------------- MODULE MCDurableTopic ---------------------------
(***************************************************************************)
(* A durable subscription and plain subscribers; messages published in and *)
(* outside a transaction.                                                  *)
(***************************************************************************)
EXTENDS DurableTopic

CONSTANTS m1, m2, m3

MatchAll == {Messages}
MatchSome == {Messages, {m1}}
=============================================================================

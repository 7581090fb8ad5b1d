------------------------------ MODULE MCSession ------------------------------
(* An instance of Session for TLC. *)
EXTENDS Session

\* The fallback, the empty string, one token more, the same with a space behind
\* it, a space alone, and one each outside ASCII and outside Latin-1.
SomeTokens == {Dev, Empty, "t", "t ", " ", "latin1", "arrow"}

HeaderValues ==
  [t \in SomeTokens |-> CASE t = "t " -> "t"
                          [] t \in {" ", "latin1"} -> Unreadable
                          [] t = "arrow" -> Unsendable
                          [] OTHER -> t]
=============================================================================

----------------------------- MODULE MCRequests ------------------------------
(* Two resources and lists around the size of a message, for TLC. *)
EXTENDS Requests

\* Two resources with the same name, one with a longer text.
SomeResources == {[name |-> "temp", size |-> 24], [name |-> "temp", size |-> 26]}
SomeNames     == {"temp", "led"}
OneMethod     == {1}
TwoTokens     == {"t1", "t2"}

\* No room, and all the sizes around one, two and three texts.
SomeAvails == {0, 24, 25, 27, 48, 50, 51, 52, 53, 76, 77, 80}
=============================================================================

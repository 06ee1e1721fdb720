--------------------------- MODULE MCCodexWebSocket ---------------------------
\* Two conversations of one account and one of another.
EXTENDS CodexWebSocket, TLC

CONSTANTS a1, a2, l1, l2, l3, i1, i2, i3

Owner == l1 :> a1 @@ l2 :> a1 @@ l3 :> a2
Identity == l1 :> {i1, i2} @@ l2 :> {i3} @@ l3 :> {i3}

\* An account may have one socket of the two, or both.
Settings == {[global |-> 2, perAccount |-> n] : n \in {1, 2}}

\* For the run in which the caps are exceeded: one setting is enough.
Equal == {[global |-> 2, perAccount |-> 2]}

\* Turns are alike, and so are the two identities of the first conversation.
Interchangeable == Permutations(Turn) \cup Permutations({i1, i2})
=============================================================================

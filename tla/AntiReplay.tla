----------------------------- MODULE AntiReplay -----------------------------
(***************************************************************************)
(* What a replay filter promises, without saying how: a counter is taken   *)
(* at most once, and none that has fallen more than WindowSize behind the  *)
(* highest one taken is taken at all.                                      *)
(***************************************************************************)
EXTENDS Naturals

CONSTANTS Counters,     \* the counters a packet may carry
          WindowSize    \* how far behind the highest one is still considered

VARIABLE taken          \* how often each counter has been taken

Taken == {c \in Counters : taken[c] > 0}

InWindow(c) == \A a \in Taken : a <= c + WindowSize

Fresh(c) == c \notin Taken /\ InWindow(c)

Init == taken = [c \in Counters |-> 0]

Take(c) == Fresh(c) /\ taken' = [taken EXCEPT ![c] = @ + 1]

Next == \E c \in Counters : Take(c)

Spec == Init /\ [][Next]_taken
=============================================================================

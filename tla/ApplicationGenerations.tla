----------------------- MODULE ApplicationGenerations -----------------------
(***************************************************************************)
(* What a hot-reloading server promises, whatever its candidates do: one   *)
(* generation of the application is current, every request is answered     *)
(* from start to end by the generation that was current when it arrived,   *)
(* a generation is retired only when it is neither current nor answering,  *)
(* and the current generation is only ever replaced by a newer one.        *)
(***************************************************************************)
EXTENDS Naturals

CONSTANTS Requests,    \* requests the server may be answering at once
          Generations  \* the generations there can be: numbers, the first is 1

VARIABLES current,  \* the current generation
          live,     \* generations that own their resources
          serving   \* the generation answering each request, 0 for none

vars == <<current, live, serving>>

Init ==
  /\ current = 1
  /\ live = {1}
  /\ serving = [q \in Requests |-> 0]

Admit(q) ==
  /\ serving[q] = 0
  /\ serving' = [serving EXCEPT ![q] = current]
  /\ UNCHANGED <<current, live>>

\* The last answer of a generation that waits for it may retire it.
Settle(q) ==
  /\ serving[q] # 0
  /\ serving' = [serving EXCEPT ![q] = 0]
  /\ \/ UNCHANGED live
     \/ /\ serving[q] # current
        /\ \A p \in Requests : serving'[p] # serving[q]
        /\ live' = live \ {serving[q]}
  /\ UNCHANGED current

\* A newer generation takes over; the old one retires now if it is idle.
Replace(g) ==
  /\ g > current
  /\ current' = g
  /\ \/ live' = live \cup {g}
     \/ /\ \A q \in Requests : serving[q] # current
        /\ live' = (live \ {current}) \cup {g}
  /\ UNCHANGED serving

Next ==
  \/ \E q \in Requests : Admit(q) \/ Settle(q)
  \/ \E g \in Generations : Replace(g)

Spec == Init /\ [][Next]_vars
=============================================================================

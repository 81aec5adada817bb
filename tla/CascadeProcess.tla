--------------------------- MODULE CascadeProcess ---------------------------
(***************************************************************************)
(* What an independent cascade is, whatever the order in which a program   *)
(* explores it: an arc whose tail is active and whose head is not may be   *)
(* tried, once and for all; it activates its head or it does not; the      *)
(* process is over when no arc is left to try.  An arc of weight 0 never   *)
(* activates, one of weight One always does.                               *)
(***************************************************************************)
EXTENDS Naturals

CONSTANTS NodeId, One

VARIABLES arcs,     \* the set of arcs [from, slot, to, weight]; never changes
          active,   \* the active nodes
          tried,    \* the arcs that had their one chance
          finished

vars == <<arcs, active, tried, finished>>

\* The arcs that may still activate somebody.
Open == {a \in arcs \ tried : a.from \in active /\ a.to \notin active}

Init == /\ active \subseteq NodeId
        /\ tried = {}
        /\ finished = FALSE

Try(a) == /\ ~finished
          /\ a \in Open
          /\ tried' = tried \cup {a}
          /\ \/ a.weight > 0   /\ active' = active \cup {a.to}
             \/ a.weight < One /\ active' = active
          /\ UNCHANGED <<arcs, finished>>

Finish == /\ ~finished
          /\ Open = {}
          /\ finished' = TRUE
          /\ UNCHANGED <<arcs, active, tried>>

Next == \/ \E a \in arcs : Try(a)
        \/ Finish

Spec == Init /\ [][Next]_vars

=============================================================================

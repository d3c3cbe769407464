-------------------------- MODULE EgressGateBoard --------------------------
(***************************************************************************)
(* The gate implements the question board: what a person sees and decides  *)
(* is all that opens a destination the policy asks about.                  *)
(***************************************************************************)
EXTENDS EgressGate

ASSUME BoardAssumption == /\ None \notin Dests
                          /\ None \notin [dest : Dests, tainted : BOOLEAN]

\* What a person sees of a question.
Shown(q) == [dest |-> ask[q].dest, tainted |-> ask[q].tainted]
Waiting(c, future) == pc[c] = "held" /\ ask[waits[c]].future = future

boardRule   == [d \in Dests |-> IF Refused(d) THEN "deny" ELSE Verdict(d)]
boardMemory == [d \in Dests |-> IF decisions[d] = None THEN None
                                ELSE decisions[d].action]
boardAsks   == [c \in Conns |-> IF Waiting(c, None) THEN Shown(waits[c]) ELSE None]
boardLeave  == [c \in Conns |-> IF Waiting(c, "allow") THEN ask[waits[c]].dest
                                ELSE None]
boardThrough == {c \in Conns : pc[c] \in {"resolving", "dialing", "tunnel", "half"}}

QB == INSTANCE QuestionBoard
        WITH tainted <- Tainted, rule <- boardRule, memory <- boardMemory,
             asks <- boardAsks, leave <- boardLeave, through <- boardThrough

\* "Anything else is held until a person decides" (README, "Ask"): whatever
\* the order of requests, answers, timers and taint, a connection to a
\* destination the policy asks about gets through only with an allow that a
\* person gave, to that destination, knowing of the taint there was.
OnlyAPersonOpens == QB!Spec
=============================================================================

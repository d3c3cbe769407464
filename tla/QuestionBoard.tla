---------------------------- MODULE QuestionBoard ----------------------------
(***************************************************************************)
(* What the egress gate promises, without slots, timers and resolvers:     *)
(* a connection gets through by a rule, by a remembered allow or by the    *)
(* leave a person gave to the question it waits on, and only a person's    *)
(* allow makes the other two.  Nothing is promised of refusals: a denial   *)
(* may be remembered or forgotten at any time, as a late timer does.       *)
(***************************************************************************)
CONSTANTS Conns, Dests, None

VARIABLES
    tainted,  \* the sandbox has read private data
    rule,     \* what the policy says of each destination right now
    memory,   \* the answer remembered for each destination, or None
    asks,     \* the question each connection waits on, [dest, tainted], or None
    leave,    \* the destination a person let a waiting connection go to, or None
    through   \* connections that are past the decision
vars == <<tainted, rule, memory, asks, leave, through>>

Init == /\ tainted = FALSE
        /\ rule \in [Dests -> {"allow", "ask", "deny"}]
        /\ memory = [d \in Dests |-> None]
        /\ asks = [c \in Conns |-> None]
        /\ leave = [c \in Conns |-> None]
        /\ through = {}

Waiters(q) == {c \in Conns : asks[c] = q}
Open       == {asks[c] : c \in Conns} \ {None}
Idle(c)    == asks[c] = None /\ leave[c] = None /\ c \notin through

-----------------------------------------------------------------------------
\* c joins the one question there is about a destination, or opens it, asking
\* in the light of the taint there is now.
Hold(c, d) ==
    /\ Idle(c) /\ rule[d] = "ask"
    /\ LET same == {q \in Open : q.dest = d}
       IN  \E q \in IF same = {} THEN {[dest |-> d, tainted |-> tainted]} ELSE same :
              asks' = [asks EXCEPT ![c] = q]
    /\ UNCHANGED <<tainted, rule, memory, leave, through>>

\* The question is off the board, for all who wait on it at once.
Settle(q) == /\ asks' = [c \in Conns |-> IF c \in Waiters(q) THEN None ELSE asks[c]]
             /\ UNCHANGED <<tainted, rule, through>>

\* A person allows what was asked, knowing of the taint there is.
Allow(q) ==
    /\ tainted => q.tainted
    /\ Settle(q)
    /\ leave' = [c \in Conns |-> IF c \in Waiters(q) THEN q.dest ELSE leave[c]]
    /\ \E m \in {"allow", None} : memory' = [memory EXCEPT ![q.dest] = m]

\* A person denies, the answer comes too late, or nobody answers.
Refuse(q) ==
    /\ Settle(q)
    /\ \E m \in {"deny", None, memory[q.dest]} : memory' = [memory EXCEPT ![q.dest] = m]
    /\ UNCHANGED leave

\* The timer of a connection whose question is settled still takes hold.
LateTimer(c, d) ==
    /\ leave[c] \in {None, d} /\ asks[c] = None
    /\ leave' = [leave EXCEPT ![c] = None]
    /\ \E m \in {"deny", None} : memory' = [memory EXCEPT ![d] = m]
    /\ UNCHANGED <<tainted, rule, asks, through>>

\* By a rule or an answer that is remembered.
PassAtOnce(c, d) ==
    /\ Idle(c)
    /\ rule[d] = "allow" \/ (rule[d] = "ask" /\ memory[d] = "allow")
    /\ through' = through \cup {c}
    /\ UNCHANGED <<tainted, rule, memory, asks, leave>>

PassWithLeave(c) ==
    /\ leave[c] # None
    /\ leave' = [leave EXCEPT ![c] = None]
    /\ through' = through \cup {c}
    /\ UNCHANGED <<tainted, rule, memory, asks>>

End(c) == /\ through' = through \ {c}
          /\ UNCHANGED <<tainted, rule, memory, asks, leave>>

\* Taint comes and goes, and with it what the policy says; answers lapse.  No
\* remembered allow lives on when taint rises.
Turn ==
    /\ tainted' \in BOOLEAN
    /\ rule' \in [Dests -> {"allow", "ask", "deny"}]
    /\ tainted' = tainted => rule' = rule
    /\ \A d \in Dests : /\ memory'[d] \in {memory[d], None}
                        /\ tainted' /\ ~tainted => memory'[d] # "allow"
    /\ memory' \in [Dests -> {"allow", "deny", None}]
    /\ UNCHANGED <<asks, leave, through>>

Next == \/ \E q \in Open : Allow(q) \/ Refuse(q)
        \/ \E c \in Conns : \/ PassWithLeave(c) \/ End(c)
                            \/ \E d \in Dests : \/ Hold(c, d) \/ PassAtOnce(c, d)
                                               \/ LateTimer(c, d)
        \/ Turn

Spec == Init /\ [][Next]_vars
=============================================================================

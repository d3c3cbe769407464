---------------------------- MODULE EgressPolicy ----------------------------
(***************************************************************************)
(* The egress policy of prax_sandbox/egress_gate/policy.py: an ordered     *)
(* list of rules, the first that applies decides, a default answers the    *)
(* rest.                                                                   *)
(*                                                                         *)
(* A host is the sequence of its DNS labels: the code lowers the case of   *)
(* both sides of every comparison and strips the root dot, so neither is   *)
(* represented.  A method that the gate cannot see (CONNECT) is NoMethod,  *)
(* Python's None.  The ports and methods of a rule are sets, empty for     *)
(* "any".                                                                  *)
(***************************************************************************)
EXTENDS Integers, Sequences, SequencesExt

CONSTANT NoMethod   \* the method of a CONNECT request, hidden by TLS

Actions == {"allow", "deny", "ask"}

\* A rule as Policy.from_dict builds it: anything else is refused at start-up.
IsRule(r) ==
    /\ DOMAIN r = {"host", "wild", "action", "ports", "methods", "clean_only"}
    /\ r.action \in Actions
    /\ r.wild \in BOOLEAN
    /\ r.clean_only \in BOOLEAN
    /\ NoMethod \notin r.methods

IsPolicy(p) == /\ DOMAIN p = {"rules", "default"}
               /\ Len(p.rules) \in Nat
               /\ DOMAIN p.rules = 1 .. Len(p.rules)
               /\ \A i \in 1 .. Len(p.rules) : IsRule(p.rules[i])
               /\ p.default \in Actions

-----------------------------------------------------------------------------
\* Mutant: "*.suffix" would cover the suffix itself.
MatchesHostApex(r, h) == IF r.wild THEN IsSuffix(r.host, h)
                                   ELSE h = r.host

(***************************************************************************)
(* Rule.matches_host: "*.suffix" covers proper subdomains only; anything   *)
(* else is compared whole.                                                 *)
(***************************************************************************)
MatchesHost(r, h) == IF r.wild THEN IsStrictSuffix(r.host, h)
                               ELSE h = r.host

\* Mutants: a method that cannot be seen counts as a match; the taint test of
\* a clean_only rule is the wrong way round.
AppliesUnseenMethod(r, d, tainted) ==
    /\ MatchesHost(r, d.host)
    /\ r.ports # {} => d.port \in r.ports
    /\ r.methods # {} => d.method = NoMethod \/ d.method \in r.methods
    /\ ~(r.clean_only /\ tainted)
AppliesTaintSwapped(r, d, tainted) ==
    /\ MatchesHost(r, d.host)
    /\ r.ports # {} => d.port \in r.ports
    /\ r.methods # {} => d.method \in r.methods
    /\ ~(r.clean_only /\ ~tainted)

\* The loop body of Policy.decide: each conjunct is one of its "continue"s.
Applies(r, d, tainted) ==
    /\ MatchesHost(r, d.host)
    /\ r.ports # {} => d.port \in r.ports
    /\ r.methods # {} => d.method # NoMethod /\ d.method \in r.methods
    /\ ~(r.clean_only /\ tainted)

Matching(p, d, tainted) ==
    {i \in 1 .. Len(p.rules) : Applies(p.rules[i], d, tainted)}

\* Policy.decide: the action of the first rule that applies, else the default.
Decide(p, d, tainted) ==
    LET M == Matching(p, d, tainted)
    IN  IF M = {} THEN p.default
        ELSE p.rules[CHOOSE i \in M : \A j \in M : i <= j].action

-----------------------------------------------------------------------------
\* How freely an action lets a request out.
Looseness == [deny |-> 0, ask |-> 1, allow |-> 2]

\* The shape of the shipped policy: only "allow" rules are clean_only.
OnlyAllowsLapse(p) == \A i \in 1 .. Len(p.rules) :
                          p.rules[i].clean_only => p.rules[i].action = "allow"
=============================================================================

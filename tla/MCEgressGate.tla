---------------------------- MODULE MCEgressGate ----------------------------
(***************************************************************************)
(* Small instances of EgressGate.  The destinations are chosen so that     *)
(* every branch of the gate is taken: one that is always asked about, one  *)
(* whose rule lapses under taint, one that is allowed, one that is denied, *)
(* and two literals, one of them unreachable.                              *)
(***************************************************************************)
EXTENDS EgressGateBoard, MCEgressPolicy, TLC

Site(name) == <<name, "org">>
Web(name) == [host |-> Site(name), port |-> 443, method |-> NoMethod, literal |-> None]
Ip(name, addr) == [host |-> <<name>>, port |-> 443, method |-> NoMethod, literal |-> addr]

Rule(name, action, clean) ==
    [host |-> Site(name), wild |-> FALSE, action |-> action, ports |-> {},
     methods |-> {}, clean_only |-> clean]

\* As in egress-policy.example.json: only allow rules are clean_only.
ShippedPolicy == [rules |-> <<Rule("ads", "deny", FALSE),
                              Rule("pypi", "allow", FALSE),
                              Rule("github", "allow", TRUE)>>,
                  default |-> "ask"]

\* A request to a name under no rule.
Asked == Web("other")

AllDests  == {Asked, Web("github"), Web("pypi"), Web("ads"),
              Ip("public", "public"), Ip("metadata", "private")}
OneDest   == {Asked}

ConnSymmetry == Permutations(Conns)

-----------------------------------------------------------------------------
(***************************************************************************)
(* What the gate's verdicts rest on, whatever the policy.  There are no    *)
(* variables in it, so it is looked at in the initial state only.          *)
(***************************************************************************)
\* A CONNECT request is decided as if no rule spoke of methods: such a rule
\* never passes "as if the method had been checked" (policy.py:20-24).
HiddenMethodDecidesNothing ==
    Init => \A p \in Policies, d \in Requests, t \in BOOLEAN : MethodUnseen(p, d, t)

\* A wildcard says nothing of the name it is a wildcard of, nor an exact rule
\* of the subdomains (Rule.matches_host).
WildcardsCoverSubdomainsOnly ==
    Init => \A p \in Policies, d \in Requests, t \in BOOLEAN : WildcardsAbove(p, d, t)

\* If only allow rules are clean_only, taint never makes a request freer.
TaintOnlyTightens == Init => \A p \in Policies, d \in Requests : Tightens(p, d)
=============================================================================

--------------------------- MODULE MCEgressPolicy ---------------------------
(***************************************************************************)
(* Every policy of at most MaxRules rules out of a small vocabulary, every *)
(* request to a registrable name and a name under it.                      *)
(***************************************************************************)
EXTENDS EgressPolicy

\* The method of a CONNECT is Python's None, never the name of a method.
ASSUME MethodAssumption == NoMethod \notin {"GET", "POST"}

MaxRules == 3

Apex == <<"pypi", "org">>
Sub  == <<"files", "pypi", "org">>

AnyRule(host, wild, action, ports, methods, clean) ==
    [host |-> host, wild |-> wild, action |-> action, ports |-> ports,
     methods |-> methods, clean_only |-> clean]

\* The rules about the apex, for any port and method.
ApexRules ==
    {AnyRule(Apex, w, a, {}, {}, c) : w \in BOOLEAN, a \in Actions, c \in BOOLEAN}

RuleSet ==
    ApexRules
    \cup {AnyRule(Apex, FALSE, "allow", {}, {"GET"}, FALSE),
          AnyRule(Sub, FALSE, "deny", {443}, {}, FALSE),
          AnyRule(Apex, TRUE, "allow", {}, {"GET"}, TRUE)}

Policies == [rules : UNION {[1 .. n -> RuleSet] : n \in 0 .. MaxRules},
             default : {"ask", "deny"}]

\* CONNECT goes to 443; the method of what is tunnelled is not seen.
Requests == {d \in [host : {Apex, Sub}, port : {80, 443},
                    method : {NoMethod, "GET", "POST"}] :
                d.method = NoMethod => d.port = 443}

\* The policy without its i-th rule.
Without(p, i) == [p EXCEPT !.rules = RemoveAt(@, i)]

-----------------------------------------------------------------------------
\* Independent readings of policy.py, for one policy, request and taint.

\* A rule that speaks of methods makes no difference to a request whose method
\* cannot be seen.
MethodUnseen(p, d, t) ==
    d.method = NoMethod =>
        \A i \in DOMAIN p.rules :
            p.rules[i].methods # {} => Decide(p, d, t) = Decide(Without(p, i), d, t)

\* Only the wildcards of shorter names, and exact rules of no shorter one, make
\* a difference to a request.
WildcardsAbove(p, d, t) ==
    \A i \in DOMAIN p.rules :
        p.rules[i].wild # (Len(d.host) > Len(p.rules[i].host)) =>
            Decide(p, d, t) = Decide(Without(p, i), d, t)

\* Tainted it is no freer than clean.
Tightens(p, d) ==
    OnlyAllowsLapse(p) =>
        Looseness[Decide(p, d, TRUE)] <= Looseness[Decide(p, d, FALSE)]
=============================================================================

-------------------------- MODULE EgressGateProofs --------------------------
(***************************************************************************)
(* The safety of EgressGate for any number of connections, destinations,   *)
(* slots and any time bounds.  First what EgressPolicy decides, for every  *)
(* policy and every destination.  Then the gate, whose invariant is built  *)
(* in two layers: Bookkeeping (types, the slot queue, which connection     *)
(* refers to which question), then Board (the two indexes of the open      *)
(* questions and what the waiters can rely on), proved on top of it.  Last *)
(* that the gate implements QuestionBoard.                                 *)
(***************************************************************************)
EXTENDS MCEgressGate, SequenceTheorems, FiniteSetTheorems, WellFoundedInduction,
        TLAPS

\* A set of rule numbers that is not empty has a first element.
LEMMA FirstExists ==
    ASSUME NEW T \in SUBSET Nat, T # {}
    PROVE  \E i \in T : \A j \in T : i <= j
<1>1. \E i \in T : \A j \in T : ~(<<j, i>> \in OpToRel(<, Nat))
  BY NatLessThanWellFounded, WFMin
<1>2. \A i, j \in Nat : <<j, i>> \in OpToRel(<, Nat) <=> j < i
  BY DEF OpToRel
<1>3. PICK i \in T : \A j \in T : ~(<<j, i>> \in OpToRel(<, Nat))
  BY <1>1
<1>4. \A j \in T : ~(j < i)
  BY <1>2, <1>3
<1> QED
  BY <1>4

\* Decide returns the action of a rule that applies and that no earlier rule
\* forestalls, or the default if no rule applies.
LEMMA DecideSpec ==
    ASSUME NEW p, IsPolicy(p), NEW d, NEW t
    PROVE  \/ /\ Matching(p, d, t) = {}
              /\ Decide(p, d, t) = p.default
           \/ \E i \in Matching(p, d, t) :
                 /\ \A j \in Matching(p, d, t) : i <= j
                 /\ Decide(p, d, t) = p.rules[i].action
<1> DEFINE M == Matching(p, d, t)
           First(i) == \A j \in M : i <= j
<1>1. M \in SUBSET Nat
  BY DEF Matching, IsPolicy
<1>2. CASE M = {}
  BY <1>2 DEF Decide
<1>3. CASE M # {}
  <2>1. PICK i \in M : First(i)
    BY <1>1, <1>3, FirstExists
  <2>2. (CHOOSE k \in M : First(k)) \in M /\ First(CHOOSE k \in M : First(k))
    BY <2>1
  <2>3. Decide(p, d, t) = p.rules[CHOOSE k \in M : First(k)].action
    BY <1>3 DEF Decide
  <2> HIDE DEF First
  <2> QED
    BY <2>2, <2>3 DEF First
<1> QED
  BY <1>2, <1>3

\* Whatever the policy, a decision is one of the three actions.
THEOREM DecideType ==
    ASSUME NEW p, IsPolicy(p), NEW d, NEW t
    PROVE  Decide(p, d, t) \in Actions
<1>1. \A i \in Matching(p, d, t) : p.rules[i].action \in Actions
  BY DEF Matching, IsPolicy, IsRule
<1>2. p.default \in Actions
  BY DEF IsPolicy
<1> QED
  BY <1>1, <1>2, DecideSpec

\* Every rule that applies to a tainted request applies to a clean one, and
\* the converse holds of the rules that are not clean_only.
LEMMA MatchingUnderTaint ==
    ASSUME NEW p, IsPolicy(p), NEW d
    PROVE  /\ Matching(p, d, TRUE) \subseteq Matching(p, d, FALSE)
           /\ \A i \in Matching(p, d, FALSE) :
                 ~p.rules[i].clean_only => i \in Matching(p, d, TRUE)
  BY DEF Matching, Applies

\* Becoming tainted never makes a request freer, provided only "allow" rules
\* are clean_only (policy.py:31-34; the shipped policy is of that shape).
THEOREM TaintTightensPolicy ==
    ASSUME NEW p, IsPolicy(p), OnlyAllowsLapse(p), NEW d
    PROVE  Looseness[Decide(p, d, TRUE)] <= Looseness[Decide(p, d, FALSE)]
<1> DEFINE Clean == Matching(p, d, FALSE)
           Dirty == Matching(p, d, TRUE)
           Tight == Decide(p, d, TRUE)
           Loose == Decide(p, d, FALSE)
<1>1. Tight \in Actions /\ Loose \in Actions
  <2> HIDE DEF Tight, Loose
  <2>1. \A t : Decide(p, d, t) \in Actions
    BY DecideType
  <2> QED
    BY <2>1 DEF Tight, Loose
<1>2. \A a \in Actions : Looseness[a] <= Looseness[a] /\ Looseness[a] <= Looseness["allow"]
  BY DEF Looseness, Actions
<1>3. CASE Clean = {}
  <2>1. Dirty = {}
    BY <1>3, MatchingUnderTaint
  <2>2. Decide(p, d, TRUE) = Decide(p, d, FALSE)
    BY <1>3, <2>1, DecideSpec
  <2> QED
    BY <1>1, <1>2, <2>2
<1>4. ASSUME NEW i \in Clean, \A j \in Clean : i <= j,
             Decide(p, d, FALSE) = p.rules[i].action
      PROVE  Looseness[Decide(p, d, TRUE)] <= Looseness[Decide(p, d, FALSE)]
  <2>1. CASE p.rules[i].clean_only
    <3>1. i \in 1 .. Len(p.rules)
      BY DEF Matching
    <3>2. Decide(p, d, FALSE) = "allow"
      BY <1>4, <2>1, <3>1 DEF OnlyAllowsLapse
    <3> QED
      BY <1>1, <1>2, <3>2
  <2>2. CASE ~p.rules[i].clean_only
    <3>1. i \in Dirty /\ Dirty \subseteq Clean
      BY <2>2, MatchingUnderTaint
    <3>2. PICK k \in Dirty : /\ \A j \in Dirty : k <= j
                             /\ Decide(p, d, TRUE) = p.rules[k].action
      BY <3>1, DecideSpec
    <3>3. i <= k /\ k <= i
      BY <1>4, <3>1, <3>2
    <3>4. k = i
      <4>1. i \in 1 .. Len(p.rules) /\ k \in 1 .. Len(p.rules)
        BY <3>1 DEF Matching
      <4> HIDE DEF Clean, Dirty
      <4> QED
        BY <3>3, <4>1
    <3> QED
      BY <1>1, <1>2, <1>4, <3>2, <3>4
  <2> QED
    BY <2>1, <2>2
<1> QED
  BY <1>3, <1>4, DecideSpec

\* A policy without its i-th rule: the rules before it stay, those after it
\* move up by one.
LEMMA RulesWithout ==
    ASSUME NEW p, IsPolicy(p), NEW S, p.rules \in Seq(S), NEW i \in 1 .. Len(p.rules)
    PROVE  /\ Without(p, i).default = p.default
           /\ Without(p, i).rules \in Seq(S)
           /\ Len(Without(p, i).rules) = Len(p.rules) - 1
           /\ \A j \in 1 .. Len(p.rules) - 1 :
                 Without(p, i).rules[j] = p.rules[IF j < i THEN j ELSE j + 1]
<1> DEFINE s == p.rules
           before == SubSeq(s, 1, i - 1)
           after == SubSeq(s, i + 1, Len(s))
<1>1. /\ Without(p, i).default = p.default
      /\ Without(p, i).rules = before \o after
  BY DEF Without, RemoveAt, IsPolicy
<1>2. Len(s) \in Nat /\ s \in Seq(S)
  BY DEF IsPolicy
<1> HIDE DEF s
<1>3. /\ before \in Seq(S)
      /\ Len(before) = i - 1
      /\ \A j \in 1 .. i - 1 : before[j] = s[j]
  <2>1. /\ i - 1 \in Int /\ \A j \in 1 .. i - 1 : s[j] \in S
        /\ (IF 1 <= i - 1 THEN i - 1 - 1 + 1 ELSE 0) = i - 1
        /\ i - 1 - 1 + 1 = i - 1
        /\ \A j \in 1 .. i - 1 : 1 + j - 1 = j
    BY <1>2 DEF s
  <2>2. /\ before \in Seq(S)
        /\ Len(before) = IF 1 <= i - 1 THEN i - 1 - 1 + 1 ELSE 0
        /\ \A j \in 1 .. i - 1 - 1 + 1 : before[j] = s[1 + j - 1]
    BY <1>2, <2>1, SubSeqProperties
  <2> HIDE DEF before
  <2> QED
    BY <2>1, <2>2
<1>4. /\ after \in Seq(S)
      /\ Len(after) = Len(s) - i
      /\ \A j \in 1 .. Len(s) - i : after[j] = s[j + i]
  <2>1. /\ i + 1 \in Int /\ Len(s) \in Int /\ \A j \in i + 1 .. Len(s) : s[j] \in S
        /\ (IF i + 1 <= Len(s) THEN Len(s) - (i + 1) + 1 ELSE 0) = Len(s) - i
        /\ Len(s) - (i + 1) + 1 = Len(s) - i
        /\ \A j \in 1 .. Len(s) - i : i + 1 + j - 1 = j + i
    BY <1>2 DEF s
  <2>2. /\ after \in Seq(S)
        /\ Len(after) = IF i + 1 <= Len(s) THEN Len(s) - (i + 1) + 1 ELSE 0
        /\ \A j \in 1 .. Len(s) - (i + 1) + 1 : after[j] = s[i + 1 + j - 1]
    <3>1. \A a, b \in Int : (\A j \in a .. b : s[j] \in S) =>
             /\ SubSeq(s, a, b) \in Seq(S)
             /\ Len(SubSeq(s, a, b)) = IF a <= b THEN b - a + 1 ELSE 0
             /\ \A j \in 1 .. b - a + 1 : SubSeq(s, a, b)[j] = s[a + j - 1]
      BY SubSeqProperties
    <3> QED
      BY <2>1, <3>1
  <2> HIDE DEF after
  <2> QED
    BY <2>1, <2>2
<1> HIDE DEF before, after
<1>5. /\ before \o after \in Seq(S)
      /\ Len(before \o after) = Len(s) - 1
      /\ \A j \in 1 .. Len(s) - 1 :
            (before \o after)[j] = IF j <= i - 1 THEN before[j] ELSE after[j - (i - 1)]
  <2>1. Len(before) + Len(after) = Len(s) - 1
    BY <1>2, <1>3, <1>4 DEF s
  <2>2. /\ before \o after \in Seq(S)
        /\ Len(before \o after) = Len(before) + Len(after)
        /\ \A j \in 1 .. Len(before) + Len(after) :
              (before \o after)[j] = IF j <= Len(before) THEN before[j]
                                                        ELSE after[j - Len(before)]
    BY <1>3, <1>4, ConcatProperties
  <2> QED
    BY <1>3, <1>4, <2>1, <2>2
<1>6. \A j \in 1 .. Len(s) - 1 :
         (before \o after)[j] = s[IF j < i THEN j ELSE j + 1]
  <2> SUFFICES ASSUME NEW j \in 1 .. Len(s) - 1
               PROVE  (before \o after)[j] = s[IF j < i THEN j ELSE j + 1]
    OBVIOUS
  <2>1. CASE j < i
    BY <1>2, <1>3, <1>5, <2>1
  <2>2. CASE ~(j < i)
    <3>1. j - (i - 1) \in 1 .. Len(s) - i /\ (j - (i - 1)) + i = j + 1
      BY <1>2, <2>2
    <3>2. after[j - (i - 1)] = s[j + 1]
      BY <1>4, <3>1
    <3> QED
      BY <1>2, <1>5, <2>2, <3>2
  <2> QED
    BY <2>1, <2>2
<1> QED
  BY <1>1, <1>2, <1>5, <1>6 DEF s

\* Taking away a rule leaves a policy.
LEMMA PolicyWithout ==
    ASSUME NEW p, IsPolicy(p), NEW S, p.rules \in Seq(S), NEW i \in 1 .. Len(p.rules)
    PROVE  IsPolicy(Without(p, i))
<1> DEFINE w == Without(p, i)
<1>1. /\ w.default \in Actions
      /\ Len(w.rules) \in Nat
      /\ DOMAIN w.rules = 1 .. Len(w.rules)
  BY RulesWithout DEF IsPolicy
<1>2. \A j \in 1 .. Len(w.rules) : IsRule(w.rules[j])
  <2> SUFFICES ASSUME NEW j \in 1 .. Len(w.rules)
               PROVE  IsRule(w.rules[j])
    OBVIOUS
  <2>1. j \in 1 .. Len(p.rules) - 1 /\ w.rules[j] = p.rules[IF j < i THEN j ELSE j + 1]
    BY RulesWithout
  <2>2. (IF j < i THEN j ELSE j + 1) \in 1 .. Len(p.rules)
    BY <2>1 DEF IsPolicy
  <2> QED
    BY <2>1, <2>2 DEF IsPolicy
<1>3. DOMAIN w = {"rules", "default"}
  BY DEF Without, IsPolicy
<1> QED
  BY <1>1, <1>2, <1>3 DEF IsPolicy

\* A rule that does not apply to a request can be taken away: what is decided
\* of the request stays.
LEMMA IdleRuleDecidesNothing ==
    ASSUME NEW p, IsPolicy(p), NEW S, p.rules \in Seq(S), NEW i \in 1 .. Len(p.rules),
           NEW d, NEW t, ~Applies(p.rules[i], d, t)
    PROVE  Decide(p, d, t) = Decide(Without(p, i), d, t)
<1> DEFINE w == Without(p, i)
           M == Matching(p, d, t)
           W == Matching(w, d, t)
           Old(j) == IF j < i THEN j ELSE j + 1
           New(k) == IF k < i THEN k ELSE k - 1
<1>1. IsPolicy(w) /\ w.default = p.default /\ Len(w.rules) = Len(p.rules) - 1
  BY PolicyWithout, RulesWithout
<1>2. \A j \in 1 .. Len(w.rules) : w.rules[j] = p.rules[Old(j)]
  BY <1>1, RulesWithout
<1>3. Len(p.rules) \in Nat
  BY DEF IsPolicy
<1>4. i \notin M /\ M \subseteq 1 .. Len(p.rules) /\ W \subseteq 1 .. Len(w.rules)
  BY DEF Matching
<1>5. \A j \in 1 .. Len(w.rules) : j \in W <=> Old(j) \in M
  <2> SUFFICES ASSUME NEW j \in 1 .. Len(w.rules)
               PROVE  j \in W <=> Old(j) \in M
    OBVIOUS
  <2>1. Old(j) \in 1 .. Len(p.rules)
    BY <1>1, <1>3
  <2>2. j \in W <=> Applies(w.rules[j], d, t)
    BY DEF Matching
  <2>3. Old(j) \in M <=> Applies(p.rules[Old(j)], d, t)
    BY <2>1 DEF Matching
  <2> QED
    BY <1>2, <2>2, <2>3
<1> HIDE DEF w, M, W
<1>6. \A j \in W : Old(j) \in M /\ w.rules[j].action = p.rules[Old(j)].action
  BY <1>2, <1>4, <1>5
<1>7. \A k \in M : New(k) \in W /\ Old(New(k)) = k
  <2> SUFFICES ASSUME NEW k \in M
               PROVE  New(k) \in W /\ Old(New(k)) = k
    OBVIOUS
  <2>1. New(k) \in 1 .. Len(w.rules) /\ Old(New(k)) = k
    BY <1>1, <1>3, <1>4
  <2> QED
    BY <1>5, <2>1
<1>8. CASE M = {}
  <2>1. W = {}
    BY <1>6, <1>8
  <2> QED
    BY <1>1, <1>8, <2>1, DecideSpec DEF M, W, w
<1>9. CASE M # {}
  <2>1. W # {}
    BY <1>7, <1>9
  <2>2. PICK k \in M : (\A j \in M : k <= j) /\ Decide(p, d, t) = p.rules[k].action
    BY <1>9, DecideSpec DEF M
  <2>3. PICK n \in W : (\A j \in W : n <= j) /\ Decide(w, d, t) = w.rules[n].action
    BY <1>1, <2>1, DecideSpec DEF W
  <2>4. Old(n) \in M /\ New(k) \in W /\ Old(New(k)) = k
    BY <1>6, <1>7
  <2>5. k <= Old(n) /\ n <= New(k)
    BY <2>2, <2>3, <2>4
  <2>6. Old(n) = k
    BY <1>3, <1>1, <1>4, <2>4, <2>5
  <2> QED
    BY <1>6, <2>2, <2>3, <2>6 DEF w
<1> QED
  BY <1>8, <1>9

\* A CONNECT request, whose method is hidden, is never decided by a rule that
\* speaks of methods (policy.py:20-24).
THEOREM HiddenMethodNeverMatches ==
    ASSUME NEW p, IsPolicy(p), NEW d, d.method = NoMethod, NEW t
    PROVE  \A i \in Matching(p, d, t) : p.rules[i].methods = {}
  BY DEF Matching, Applies

\* Nor can such a rule hide another one: taken away, it is not missed.
THEOREM HiddenMethodPolicy ==
    ASSUME NEW p, IsPolicy(p), NEW S, p.rules \in Seq(S), NEW d, NEW t
    PROVE  MethodUnseen(p, d, t)
<1> SUFFICES ASSUME d.method = NoMethod, NEW i \in DOMAIN p.rules,
                    p.rules[i].methods # {}
             PROVE  Decide(p, d, t) = Decide(Without(p, i), d, t)
  BY DEF MethodUnseen
<1>1. i \in 1 .. Len(p.rules)
  BY DEF IsPolicy
<1>2. ~Applies(p.rules[i], d, t)
  BY DEF Applies
<1> QED
  BY <1>1, <1>2, IdleRuleDecidesNothing

\* A name is a strict suffix of longer names only.
LEMMA SuffixIsShorter ==
    ASSUME NEW L, NEW s \in Seq(L), NEW h \in Seq(L), IsStrictSuffix(s, h)
    PROVE  Len(s) < Len(h)
<1> DEFINE n == Len(s)
           rs == Reverse(s)
           rh == Reverse(h)
<1>1. n \in Nat /\ Len(h) \in Nat
  OBVIOUS
<1>2. /\ rs \in Seq(L) /\ Len(rs) = n
      /\ \A j \in 1 .. n : rs[j] = s[n - j + 1]
  BY DEF Reverse
<1>3. /\ rh \in Seq(L) /\ Len(rh) = Len(h)
      /\ \A j \in 1 .. Len(h) : rh[j] = h[Len(h) - j + 1]
  BY DEF Reverse
<1>4. n <= Len(h) /\ SubSeq(rs, 1, n) = SubSeq(rh, 1, n) /\ s # h
  BY <1>2, <1>3 DEF IsStrictSuffix, IsSuffix, IsPrefix
<1>5. ASSUME n = Len(h)
      PROVE  FALSE
  <2> HIDE DEF rs, rh, n
  <2>1. \A j \in 1 .. n : SubSeq(rs, 1, n)[j] = rs[j] /\ SubSeq(rh, 1, n)[j] = rh[j]
    BY <1>1, <1>2, <1>3, <1>5
  <2>2. \A j \in 1 .. n : rs[j] = rh[j]
    BY <1>4, <2>1
  <2>3. ASSUME NEW k \in 1 .. n
        PROVE  s[k] = h[k]
    <3>1. n - k + 1 \in 1 .. n /\ n - (n - k + 1) + 1 = k
      BY <1>1
    <3>2. rs[n - k + 1] = s[k] /\ rh[n - k + 1] = h[k]
      BY <1>2, <1>3, <1>5, <3>1
    <3> QED
      BY <2>2, <3>1, <3>2
  <2>4. s = h
    BY <1>5, <2>3, SeqEqual DEF n
  <2> QED
    BY <1>4, <2>4
<1> QED
  BY <1>1, <1>4, <1>5

\* Only the wildcards of shorter names, and exact rules of no shorter one, make
\* a difference to a request (Rule.matches_host).
THEOREM WildcardPolicy ==
    ASSUME NEW p, IsPolicy(p), NEW S, p.rules \in Seq(S), NEW d, NEW t,
           NEW L, d.host \in Seq(L), \A i \in DOMAIN p.rules : p.rules[i].host \in Seq(L)
    PROVE  WildcardsAbove(p, d, t)
<1> SUFFICES ASSUME NEW i \in DOMAIN p.rules,
                    p.rules[i].wild # (Len(d.host) > Len(p.rules[i].host))
             PROVE  Decide(p, d, t) = Decide(Without(p, i), d, t)
  BY DEF WildcardsAbove
<1> DEFINE r == p.rules[i]
<1>1. i \in 1 .. Len(p.rules) /\ r.wild \in BOOLEAN
  BY DEF IsPolicy, IsRule
<1>2. Len(d.host) \in Nat /\ Len(r.host) \in Nat
  OBVIOUS
<1>3. ~MatchesHost(r, d.host)
  <2>1. CASE r.wild
    <3>1. ~(Len(r.host) < Len(d.host))
      BY <1>1, <1>2, <2>1
    <3>2. ~IsStrictSuffix(r.host, d.host)
      BY <3>1, SuffixIsShorter
    <3> QED
      BY <2>1, <3>2 DEF MatchesHost
  <2>2. CASE ~r.wild
    <3>1. Len(d.host) > Len(r.host)
      BY <1>1, <1>2, <2>2
    <3>2. d.host # r.host
      BY <1>2, <3>1
    <3> QED
      BY <2>2, <3>2 DEF MatchesHost
  <2> QED
    BY <2>1, <2>2
<1>4. ~Applies(r, d, t)
  BY <1>3 DEF Applies
<1> QED
  BY <1>1, <1>4, IdleRuleDecidesNothing

-----------------------------------------------------------------------------
\* The policies and requests of the run are among those.
Labels == {"pypi", "org", "files"}

LEMMA PoliciesAreSmall ==
    ASSUME NEW p \in Policies
    PROVE  /\ IsPolicy(p)
           /\ p.rules \in Seq(RuleSet)
           /\ \A i \in DOMAIN p.rules : p.rules[i].host \in Seq(Labels)
<1>1. /\ DOMAIN p = {"rules", "default"} /\ p.default \in Actions
      /\ p.rules \in UNION {[1 .. n -> RuleSet] : n \in 0 .. MaxRules}
  BY DEF Policies, Actions
<1>2. PICK n \in 0 .. MaxRules : p.rules \in [1 .. n -> RuleSet]
  BY <1>1
<1>3. n \in Nat
  BY DEF MaxRules
<1>4. p.rules \in Seq(RuleSet) /\ Len(p.rules) = n /\ DOMAIN p.rules = 1 .. n
  BY <1>2, <1>3
<1>5. Apex \in Seq(Labels) /\ Sub \in Seq(Labels)
  BY DEF Apex, Sub, Labels
<1>6. \A r \in RuleSet : IsRule(r) /\ r.host \in {Apex, Sub}
  <2> SUFFICES ASSUME NEW r \in RuleSet
               PROVE  IsRule(r) /\ r.host \in {Apex, Sub}
    OBVIOUS
  <2>1. ASSUME NEW host \in {Apex, Sub}, NEW w \in BOOLEAN, NEW a \in Actions, NEW po,
               NEW m \in {{}, {"GET"}}, NEW c \in BOOLEAN,
               r = AnyRule(host, w, a, po, m, c)
        PROVE  IsRule(r) /\ r.host \in {Apex, Sub}
    <3>1. NoMethod \notin m
      BY MethodAssumption
    <3> QED
      BY <2>1, <3>1 DEF AnyRule, IsRule
  <2>2. \/ \E w \in BOOLEAN, a \in Actions, c \in BOOLEAN :
               r = AnyRule(Apex, w, a, {}, {}, c)
        \/ r = AnyRule(Apex, FALSE, "allow", {}, {"GET"}, FALSE)
        \/ r = AnyRule(Sub, FALSE, "deny", {443}, {}, FALSE)
        \/ r = AnyRule(Apex, TRUE, "allow", {}, {"GET"}, TRUE)
    <3>1. \/ r \in ApexRules
          \/ r = AnyRule(Apex, FALSE, "allow", {}, {"GET"}, FALSE)
          \/ r = AnyRule(Sub, FALSE, "deny", {443}, {}, FALSE)
          \/ r = AnyRule(Apex, TRUE, "allow", {}, {"GET"}, TRUE)
      BY DEF RuleSet
    <3>2. r \in ApexRules => \E w \in BOOLEAN, a \in Actions, c \in BOOLEAN :
                                r = AnyRule(Apex, w, a, {}, {}, c)
      BY DEF ApexRules
    <3> QED
      BY <3>1, <3>2
  <2> HIDE DEF IsRule
  <2>3. "allow" \in Actions /\ "deny" \in Actions
    BY DEF Actions
  <2> QED
    BY <2>1, <2>2, <2>3
<1> QED
  BY <1>1, <1>3, <1>4, <1>5, <1>6 DEF IsPolicy

LEMMA RequestHosts ==
    ASSUME NEW d \in Requests
    PROVE  d.host \in Seq(Labels)
<1>1. d.host \in {Apex, Sub}
  BY DEF Requests
<1>2. Apex \in Seq(Labels) /\ Sub \in Seq(Labels)
  BY DEF Apex, Sub, Labels
<1> QED
  BY <1>1, <1>2

\* No rule that speaks of methods decides, or hides, anything of a CONNECT
\* request (policy.py:20-24).
THEOREM HiddenMethodRules == Spec => []HiddenMethodDecidesNothing
<1>1. HiddenMethodDecidesNothing
  BY PoliciesAreSmall, HiddenMethodPolicy DEF HiddenMethodDecidesNothing
<1> QED
  BY <1>1, PTL

\* No wildcard decides of the name it is a wildcard of, no exact rule of the
\* names under it (Rule.matches_host).
THEOREM WildcardRules == Spec => []WildcardsCoverSubdomainsOnly
<1>1. WildcardsCoverSubdomainsOnly
  BY PoliciesAreSmall, RequestHosts, WildcardPolicy DEF WildcardsCoverSubdomainsOnly
<1> QED
  BY <1>1, PTL

\* Taint makes no request freer if only "allow" rules lapse (policy.py:31-34).
THEOREM TaintTightens == Spec => []TaintOnlyTightens
<1>1. TaintOnlyTightens
  BY PoliciesAreSmall, TaintTightensPolicy DEF TaintOnlyTightens, Tightens
<1> QED
  BY <1>1, PTL

-----------------------------------------------------------------------------
\* The gate.
Early == {"new", "queued", "reading"}

\* The connections in the queue are those that wait for a slot, each once.
QueueOK == /\ \A i \in 1 .. Len(queue) : pc[queue[i]] = "queued"
           /\ \A i, j \in 1 .. Len(queue) : queue[i] = queue[j] => i = j

\* A held connection refers to a question that exists; a connection that has
\* not been judged has opened none.
IdsOK == /\ \A c \in Conns : pc[c] = "held" <=> waits[c] # None
         /\ \A c \in Conns : waits[c] # None => ask[waits[c]] # None
         /\ \A q \in pending : ask[q] # None /\ ask[q].future = None
         /\ \A q \in Conns : pc[q] \in Early => ask[q] = None

Bookkeeping == TypeOK /\ QueueOK /\ IdsOK

\* Connection c goes to one of the stages S; another may be given a slot.
Shift(c, S) ==
    /\ pc' \in [Conns -> Stages]
    /\ queue' \in Seq(Conns)
    /\ free' \in Nat
    /\ QueueOK'
    /\ pc'[c] \in S
    /\ \A k \in Conns \ {c} :
          pc'[k] = pc[k] \/ (pc[k] = "queued" /\ pc'[k] = "reading")

-----------------------------------------------------------------------------
LEMMA ExitShifts ==
    ASSUME Bookkeeping, NEW c \in Conns, pc[c] # "queued", Exit(c)
    PROVE  Shift(c, {"closed"})
<1> USE DEF Bookkeeping, TypeOK
<1>1. CASE queue = <<>>
  BY <1>1 DEF Exit, Shift, QueueOK, Stages
<1>2. CASE queue # <<>>
  <2>1. /\ Head(queue) \in Conns /\ Tail(queue) \in Seq(Conns)
        /\ Len(queue) \in Nat \ {0} /\ Len(Tail(queue)) = Len(queue) - 1
        /\ Head(queue) = queue[1]
        /\ \A i \in 1 .. Len(Tail(queue)) : Tail(queue)[i] = queue[i + 1]
    BY <1>2
  <2>2. pc[Head(queue)] = "queued"
    BY <2>1 DEF QueueOK
  <2>3. /\ pc' \in [Conns -> Stages]
        /\ queue' = Tail(queue)
        /\ pc'[c] = "closed"
        /\ \A k \in Conns \ {c} :
              pc'[k] = IF k = Head(queue) THEN "reading" ELSE pc[k]
    BY <1>2 DEF Exit, Stages
  <2>4. free' \in Nat
    BY <1>2 DEF Exit
  <2>5. QueueOK'
    <3>1. ASSUME NEW i \in 1 .. Len(queue')
          PROVE  pc'[queue'[i]] = "queued"
      <4>1. i + 1 \in 1 .. Len(queue) /\ 1 \in 1 .. Len(queue) /\ i + 1 # 1
        BY <2>1, <2>3
      <4>2. queue'[i] = queue[i + 1] /\ queue[i + 1] \in Conns
        BY <2>1, <2>3, <4>1
      <4>3. queue[i + 1] # Head(queue) /\ pc[queue[i + 1]] = "queued"
        BY <2>1, <4>1 DEF QueueOK
      <4> QED
        BY <2>3, <4>2, <4>3
    <3>2. ASSUME NEW i \in 1 .. Len(queue'), NEW j \in 1 .. Len(queue'),
                 queue'[i] = queue'[j]
          PROVE  i = j
      <4>1. /\ i + 1 \in 1 .. Len(queue) /\ j + 1 \in 1 .. Len(queue)
            /\ queue'[i] = queue[i + 1] /\ queue'[j] = queue[j + 1]
        BY <2>1, <2>3
      <4>2. i + 1 = j + 1
        BY <3>2, <4>1 DEF QueueOK
      <4> QED
        BY <4>2
    <3> QED
      BY <3>1, <3>2 DEF QueueOK
  <2> QED
    BY <2>1, <2>2, <2>3, <2>4, <2>5 DEF Shift
<1> QED
  BY <1>1, <1>2

LEMMA MoveShifts ==
    ASSUME Bookkeeping, NEW c \in Conns, pc[c] # "queued",
           NEW s \in Stages, Move(c, s)
    PROVE  Shift(c, {s})
<1>1. queue \in Seq(Conns) /\ pc \in [Conns -> Stages] /\ free \in Nat
  BY DEF Bookkeeping, TypeOK
<1>2. \A i \in 1 .. Len(queue) : queue[i] \in Conns
  BY <1>1
<1> QED
  BY <1>1, <1>2 DEF Bookkeeping, Move, slotVars, Shift, QueueOK

LEMMA ConnectShifts ==
    ASSUME Bookkeeping, NEW c \in Conns, Connect(c)
    PROVE  Shift(c, {"queued", "reading"})
<1>1. /\ queue \in Seq(Conns) /\ pc \in [Conns -> Stages] /\ free \in Nat
      /\ pc[c] = "new" /\ QueueOK
  BY DEF Bookkeeping, TypeOK, Connect
<1>2. \A i \in 1 .. Len(queue) : queue[i] \in Conns /\ queue[i] # c
  BY <1>1 DEF QueueOK
<1>3. CASE free > 0
  BY <1>1, <1>2, <1>3 DEF Connect, Shift, QueueOK, Stages
<1>4. CASE ~(free > 0)
  <2>1. /\ pc' = [pc EXCEPT ![c] = "queued"] /\ free' = free
        /\ queue' = Append(queue, c)
    BY <1>4 DEF Connect
  <2>2. /\ Len(queue') = Len(queue) + 1 /\ Len(queue) \in Nat
        /\ \A i \in 1 .. Len(queue) : queue'[i] = queue[i]
        /\ queue'[Len(queue) + 1] = c
    BY <1>1, <2>1
  <2>3. QueueOK'
    <3>1. \A i \in 1 .. Len(queue') :
             i = Len(queue) + 1 \/ (i \in 1 .. Len(queue) /\ queue'[i] = queue[i])
      BY <2>2
    <3> QED
      BY <1>1, <1>2, <2>1, <2>2, <3>1 DEF QueueOK
  <2> QED
    BY <1>1, <2>1, <2>3 DEF Shift, Stages
<1> QED
  BY <1>3, <1>4

LEMMA ProceedShifts ==
    ASSUME Bookkeeping, NEW c \in Conns, pc[c] # "queued", NEW d, Proceed(c, d)
    PROVE  Shift(c, {"resolving", "dialing"})
<1>1. CASE d.literal = None
  <2>1. Shift(c, {"resolving"})
    BY <1>1, MoveShifts DEF Proceed, Stages
  <2> QED
    BY <2>1 DEF Shift
<1>2. CASE d.literal # None
  <2>1. Shift(c, {"dialing"})
    BY <1>2, MoveShifts DEF Proceed, Stages
  <2> QED
    BY <2>1 DEF Shift
<1> QED
  BY <1>1, <1>2

-----------------------------------------------------------------------------
(***************************************************************************)
(* The steps that touch no question: the connection is not held, before or *)
(* after, and is not judged again once it has been.                        *)
(***************************************************************************)
PlainStep(c) ==
    /\ pc[c] \notin {"held", "queued"}
    /\ Shift(c, Stages \ {"held"})
    /\ pc[c] \in Early \/ pc'[c] \notin Early
    /\ UNCHANGED <<waits, boardVars, decisions, taintLeft>>

LEMMA PlainSteps ==
    ASSUME Bookkeeping, NEW c \in Conns,
           \/ Connect(c) \/ BadRequest(c)
           \/ \E d \in Dests : \/ DenyByRule(c, d) \/ RefuseLiteral(c, d)
                               \/ AllowByRule(c, d) \/ UseRemembered(c, d)
           \/ Resolve(c) \/ Dial(c) \/ CopyEnds(c) \/ TunnelFails(c)
    PROVE  PlainStep(c)
<1> DEFINE Rest == UNCHANGED <<waits, boardVars, decisions, taintLeft>>
<1>1. ASSUME pc[c] \notin {"held", "queued"}, Exit(c), Rest
      PROVE  PlainStep(c)
  BY <1>1, ExitShifts DEF PlainStep, Shift, Stages, Early
<1>2. ASSUME pc[c] \notin {"held", "queued"}, NEW d, Proceed(c, d), Rest
      PROVE  PlainStep(c)
  BY <1>2, ProceedShifts DEF PlainStep, Shift, Stages, Early
<1>3. ASSUME pc[c] \notin {"held", "queued"}, Rest,
             NEW s \in {"dialing", "tunnel", "half"}, Move(c, s)
      PROVE  PlainStep(c)
  BY <1>3, MoveShifts DEF PlainStep, Shift, Stages, Early
<1>4. ASSUME Connect(c) PROVE PlainStep(c)
  BY <1>4, ConnectShifts DEF Connect, PlainStep, Shift, Stages, Early
<1>5. ASSUME BadRequest(c) PROVE PlainStep(c)
  BY <1>1, <1>5 DEF BadRequest
<1>6. ASSUME NEW d \in Dests, DenyByRule(c, d) \/ RefuseLiteral(c, d)
      PROVE  PlainStep(c)
  BY <1>1, <1>6 DEF DenyByRule, RefuseLiteral
<1>7. ASSUME NEW d \in Dests, AllowByRule(c, d) \/ UseRemembered(c, d)
      PROVE  PlainStep(c)
  BY <1>1, <1>2, <1>7 DEF AllowByRule, UseRemembered
<1>8. ASSUME Resolve(c) \/ Dial(c) PROVE PlainStep(c)
  BY <1>1, <1>3, <1>8 DEF Resolve, Dial
<1>9. ASSUME CopyEnds(c) \/ TunnelFails(c) PROVE PlainStep(c)
  BY <1>1, <1>3, <1>9 DEF CopyEnds, TunnelFails
<1> QED
  BY <1>4, <1>5, <1>6, <1>7, <1>8, <1>9

LEMMA PlainKeepsBookkeeping ==
    ASSUME Bookkeeping, NEW c \in Conns, PlainStep(c)
    PROVE  Bookkeeping'
<1>1. TypeOK'
  BY DEF Bookkeeping, TypeOK, PlainStep, Shift, boardVars
<1>2. QueueOK'
  BY DEF PlainStep, Shift
<1>3. IdsOK'
  BY DEF Bookkeeping, IdsOK, TypeOK, PlainStep, Shift, boardVars, Early
<1> QED
  BY <1>1, <1>2, <1>3 DEF Bookkeeping

-----------------------------------------------------------------------------
\* A connection that is held has a question, and the question a destination.
LEMMA HeldHasQuestion ==
    ASSUME Bookkeeping, NEW c \in Conns, pc[c] = "held"
    PROVE  /\ waits[c] \in Conns
           /\ ask[waits[c]] \in Question
           /\ ask[waits[c]].dest \in Dests
  BY DEF Bookkeeping, TypeOK, IdsOK, Question

LEMMA RememberType ==
    ASSUME NEW action \in {"allow", "deny"}, NEW hold \in Nat,
           NEW granted \in BOOLEAN, NEW by \in {"person", "timeout"}
    PROVE  Remember(action, hold, granted, by) \in Decision \cup {None}
  BY DEF Remember, Decision

LEMMA OpenKeepsBookkeeping ==
    ASSUME Bookkeeping, NEW c \in Conns, NEW d \in Dests, OpenQuestion(c, d)
    PROVE  Bookkeeping'
<1>1. pc[c] = "reading"
  BY DEF OpenQuestion, Asks
<1>2. Shift(c, {"held"})
  BY <1>1, MoveShifts DEF OpenQuestion, Stages
<1> DEFINE q == [dest |-> d, tainted |-> Tainted, age |-> 0, future |-> None]
<1>3. q \in Question
  BY TimeAssumption DEF Question, Tainted
<1>4. q # None /\ q.future = None
  BY <1>3, NoneAssumption
<1>5. /\ ask' = [ask EXCEPT ![c] = q] /\ waits' = [waits EXCEPT ![c] = c]
      /\ pending' = pending \cup {c} /\ byDest' = [byDest EXCEPT ![d] = c]
      /\ UNCHANGED <<decisions, taintLeft>>
  BY DEF OpenQuestion
<1> HIDE DEF q
<1>6. TypeOK'
  BY <1>2, <1>3, <1>5 DEF Bookkeeping, TypeOK, Shift
<1>7. IdsOK'
  BY <1>1, <1>2, <1>4, <1>5, NoneAssumption
     DEF Bookkeeping, TypeOK, IdsOK, Shift, Early
<1> QED
  BY <1>2, <1>6, <1>7 DEF Bookkeeping, Shift

LEMMA JoinKeepsBookkeeping ==
    ASSUME Bookkeeping, NEW c \in Conns, NEW d \in Dests, JoinQuestion(c, d)
    PROVE  Bookkeeping'
<1>1. pc[c] = "reading" /\ byDest[d] \in pending
  BY DEF JoinQuestion, Asks
<1>2. Shift(c, {"held"})
  BY <1>1, MoveShifts DEF JoinQuestion, Stages
<1>3. waits' = [waits EXCEPT ![c] = byDest[d]]
      /\ UNCHANGED <<boardVars, decisions, taintLeft>>
  BY DEF JoinQuestion
<1>4. TypeOK'
  BY <1>1, <1>2, <1>3 DEF Bookkeeping, TypeOK, Shift, boardVars
<1>5. IdsOK'
  BY <1>1, <1>2, <1>3, NoneAssumption
     DEF Bookkeeping, TypeOK, IdsOK, Shift, Early, boardVars
<1> QED
  BY <1>2, <1>4, <1>5 DEF Bookkeeping, Shift

\* A held connection resumes: its reference goes, and the question with it if
\* nobody else waits.
LEMMA DetachKeepsIds ==
    ASSUME Bookkeeping, NEW c \in Conns, pc[c] = "held", NEW r \in Question,
           Shift(c, {"closed", "resolving", "dialing"}), Detach(c, r),
           pending' \subseteq pending, waits[c] \notin pending'
    PROVE  /\ waits' \in [Conns -> Conns \cup {None}]
           /\ ask' \in [Conns -> Question \cup {None}]
           /\ IdsOK'
<1>1. waits[c] \in Conns /\ r # None
  BY HeldHasQuestion, NoneAssumption
<1>2. /\ waits' = [waits EXCEPT ![c] = None]
      /\ ask' = [ask EXCEPT ![waits[c]] = IF SharedWith(c) = {} THEN None ELSE r]
  BY DEF Detach
<1>3. /\ waits' \in [Conns -> Conns \cup {None}]
      /\ ask' \in [Conns -> Question \cup {None}]
  BY <1>1, <1>2 DEF Bookkeeping, TypeOK
<1>4. \A k \in Conns : pc'[k] = "held" <=> waits'[k] # None
  BY <1>2 DEF Bookkeeping, TypeOK, IdsOK, Shift
<1>5. ASSUME NEW k \in Conns, waits'[k] # None
      PROVE  ask'[waits'[k]] # None
  <2>1. k # c /\ waits'[k] = waits[k] /\ waits[k] \in Conns
    BY <1>2, <1>5 DEF Bookkeeping, TypeOK
  <2>2. CASE waits[k] = waits[c]
    BY <1>1, <1>2, <2>1, <2>2 DEF SharedWith, Bookkeeping, TypeOK
  <2>3. CASE waits[k] # waits[c]
    BY <1>2, <1>5, <2>1, <2>3 DEF Bookkeeping, TypeOK, IdsOK
  <2> QED
    BY <2>2, <2>3
<1>6. \A q \in pending' : ask'[q] # None /\ ask'[q].future = None
  BY <1>1, <1>2 DEF Bookkeeping, TypeOK, IdsOK
<1>7. \A q \in Conns : pc'[q] \in Early => ask'[q] = None
  <2>1. ask[waits[c]] # None
    BY <1>1, HeldHasQuestion, NoneAssumption
  <2>2. \A q \in Conns : pc'[q] \in Early => pc[q] \in Early
    BY DEF Shift, Early
  <2> QED
    BY <1>1, <1>2, <2>1, <2>2 DEF Bookkeeping, TypeOK, IdsOK
<1> QED
  BY <1>3, <1>4, <1>5, <1>6, <1>7 DEF IdsOK

LEMMA WakeKeepsBookkeeping ==
    ASSUME Bookkeeping, NEW c \in Conns, Wake(c)
    PROVE  Bookkeeping'
<1> DEFINE q == ask[waits[c]]
<1>1. /\ pc[c] = "held" /\ q.future # None /\ Detach(c, q)
      /\ UNCHANGED <<pending, byDest, decisions, taintLeft>>
  BY DEF Wake
<1>2. q \in Question /\ waits[c] \notin pending
  BY <1>1, HeldHasQuestion DEF Bookkeeping, IdsOK
<1>3. Shift(c, {"closed", "resolving", "dialing"})
  <2>1. CASE Proceed(c, q.dest)
    <3>1. Shift(c, {"resolving", "dialing"})
      BY <1>1, <2>1, ProceedShifts
    <3> QED
      BY <3>1 DEF Shift
  <2>2. CASE Exit(c)
    <3>1. Shift(c, {"closed"})
      BY <1>1, <2>2, ExitShifts
    <3> QED
      BY <3>1 DEF Shift
  <2> QED
    BY <2>1, <2>2 DEF Wake
<1> HIDE DEF q
<1>4. /\ waits' \in [Conns -> Conns \cup {None}]
      /\ ask' \in [Conns -> Question \cup {None}]
      /\ IdsOK'
  BY <1>1, <1>2, <1>3, DetachKeepsIds
<1> QED
  BY <1>1, <1>3, <1>4 DEF Bookkeeping, TypeOK, Shift

LEMMA TimeoutKeepsBookkeeping ==
    ASSUME Bookkeeping, NEW c \in Conns, Timeout(c)
    PROVE  Bookkeeping'
<1> DEFINE q == waits[c]
           d == ask[q].dest
           r == [ask[q] EXCEPT !.future = IF @ = None THEN "deny" ELSE @]
           e == Remember("deny", DenyTTL, FALSE, "timeout")
<1>1. /\ pc[c] = "held" /\ Forget(q, d) /\ Detach(c, r) /\ Exit(c)
      /\ decisions' = [decisions EXCEPT ![d] = e]
      /\ taintLeft' = taintLeft
  BY DEF Timeout
<1>2. q \in Conns /\ ask[q] \in Question /\ d \in Dests
  BY <1>1, HeldHasQuestion
<1>3. r \in Question
  BY <1>2 DEF Question
<1>4. e \in Decision \cup {None}
  BY RememberType, TimeAssumption
<1>5. Shift(c, {"closed", "resolving", "dialing"})
  BY <1>1, ExitShifts DEF Shift
<1>6. /\ pending' = pending \ {q}
      /\ byDest' = [byDest EXCEPT ![d] = IF @ = q THEN None ELSE @]
  BY <1>1 DEF Forget
<1> HIDE DEF r, e
<1>7. /\ waits' \in [Conns -> Conns \cup {None}]
      /\ ask' \in [Conns -> Question \cup {None}]
      /\ IdsOK'
  BY <1>1, <1>3, <1>5, <1>6, DetachKeepsIds
<1>8. /\ byDest' \in [Dests -> Conns \cup {None}]
      /\ pending' \subseteq Conns
      /\ decisions' \in [Dests -> Decision \cup {None}]
      /\ taintLeft' \in Nat
  BY <1>1, <1>2, <1>4, <1>6 DEF Bookkeeping, TypeOK
<1> QED
  BY <1>5, <1>7, <1>8 DEF Bookkeeping, TypeOK, Shift

-----------------------------------------------------------------------------
\* The connections do not move and the queue stands still.
Still == UNCHANGED <<pc, waits, slotVars>>

LEMMA StillKeepsQueue == ASSUME Bookkeeping, Still PROVE QueueOK'
  BY DEF Bookkeeping, Still, slotVars, QueueOK

\* An answer, of either kind, sets the future of a question it withdraws.
LEMMA SettledKeepsIds ==
    ASSUME Bookkeeping, Still, NEW q \in pending, Forget(q, ask[q].dest),
           NEW a \in {"allow", "deny"},
           ask' = [ask EXCEPT ![q].future = a]
    PROVE  /\ ask[q] \in Question
           /\ ask' \in [Conns -> Question \cup {None}]
           /\ byDest' \in [Dests -> Conns \cup {None}]
           /\ pending' \subseteq Conns
           /\ IdsOK'
<1>1. q \in Conns /\ ask[q] \in Question /\ ask[q] # None
  BY DEF Bookkeeping, TypeOK, IdsOK
<1> DEFINE r == [ask[q] EXCEPT !.future = a]
<1>2. r \in Question
  BY <1>1 DEF Question
<1>3. r # None
  BY <1>2, NoneAssumption
<1>4. ask' = [ask EXCEPT ![q] = r]
  BY <1>1 DEF Bookkeeping, TypeOK
<1> HIDE DEF r
<1>5. ask' \in [Conns -> Question \cup {None}]
  BY <1>1, <1>2, <1>4 DEF Bookkeeping, TypeOK
<1>6. /\ byDest' \in [Dests -> Conns \cup {None}]
      /\ pending' \subseteq Conns
  BY <1>1 DEF Forget, Bookkeeping, TypeOK
<1>7. IdsOK'
  BY <1>1, <1>3, <1>4 DEF Bookkeeping, TypeOK, IdsOK, Still, Forget, Early
<1> QED
  BY <1>1, <1>5, <1>6, <1>7

LEMMA AnswerKeepsBookkeeping ==
    ASSUME Bookkeeping, NEW q \in Conns,
           \/ AnswerVoid(q)
           \/ \E a \in {"allow", "deny"}, ttl \in AnswerTTLs : Answer(q, a, ttl)
    PROVE  Bookkeeping'
<1>1. CASE AnswerVoid(q)
  <2>1. /\ Still /\ q \in pending /\ Forget(q, ask[q].dest)
        /\ ask' = [ask EXCEPT ![q].future = "deny"]
        /\ UNCHANGED <<decisions, taintLeft>>
    BY <1>1 DEF AnswerVoid, Still
  <2> QED
    BY <2>1, SettledKeepsIds, StillKeepsQueue
       DEF Bookkeeping, TypeOK, Still, slotVars
<1>2. ASSUME NEW a \in {"allow", "deny"}, NEW ttl \in AnswerTTLs, Answer(q, a, ttl)
      PROVE  Bookkeeping'
  <2> DEFINE hold == IF ttl # Unset THEN ttl
                     ELSE IF a = "allow" THEN AllowTTL ELSE DenyTTL
             e == Remember(a, hold, ask[q].tainted, "person")
  <2>1. /\ Still /\ q \in pending /\ Forget(q, ask[q].dest)
        /\ ask' = [ask EXCEPT ![q].future = a]
        /\ decisions' = [decisions EXCEPT ![ask[q].dest] = e]
        /\ taintLeft' = taintLeft
    BY <1>2 DEF Answer, Still
  <2>2. /\ ask[q] \in Question
        /\ ask' \in [Conns -> Question \cup {None}]
        /\ byDest' \in [Dests -> Conns \cup {None}]
        /\ pending' \subseteq Conns
        /\ IdsOK'
    BY <2>1, SettledKeepsIds
  <2>3. hold \in Nat
    BY TimeAssumption
  <2>4. ask[q].tainted \in BOOLEAN /\ ask[q].dest \in Dests
    BY <2>2 DEF Question
  <2> HIDE DEF hold
  <2>5. e \in Decision \cup {None}
    BY <2>3, <2>4, RememberType
  <2> HIDE DEF e
  <2>6. decisions' \in [Dests -> Decision \cup {None}]
    BY <2>1, <2>4, <2>5 DEF Bookkeeping, TypeOK
  <2> QED
    BY <2>1, <2>2, <2>6, StillKeepsQueue DEF Bookkeeping, TypeOK, Still, slotVars
<1> QED
  BY <1>1, <1>2

LEMMA TaintKeepsBookkeeping ==
    ASSUME Bookkeeping,
           ClearTaint \/ \E ttl \in TaintTTLs : SetTaint(ttl) \/ RaiseTaint(ttl)
    PROVE  Bookkeeping'
<1>1. Still /\ UNCHANGED boardVars
  BY DEF ClearTaint, SetTaint, RaiseTaint, Still
<1>2. taintLeft' \in Nat
  BY TimeAssumption DEF ClearTaint, SetTaint, RaiseTaint, TaintFor, Bookkeeping, TypeOK
<1>3. decisions' \in [Dests -> Decision \cup {None}]
  BY DEF ClearTaint, SetTaint, RaiseTaint, PurgeAllows, Bookkeeping, TypeOK
<1>4. IdsOK'
  BY <1>1 DEF Bookkeeping, IdsOK, Still, boardVars
<1> QED
  BY <1>1, <1>2, <1>3, <1>4, StillKeepsQueue
     DEF Bookkeeping, TypeOK, Still, slotVars, boardVars

\* Tick ages the questions and lets the decisions and the taint run down.
LEMMA TickTypes ==
    ASSUME Bookkeeping, Tick
    PROVE  /\ ask' \in [Conns -> Question \cup {None}]
           /\ decisions' \in [Dests -> Decision \cup {None}]
           /\ taintLeft' \in Nat
           /\ \A q \in Conns :
                 /\ ask'[q] = None <=> ask[q] = None
                 /\ ask[q] # None => /\ ask'[q].dest = ask[q].dest
                                     /\ ask'[q].tainted = ask[q].tainted
                                     /\ ask'[q].future = ask[q].future
<1>1. taintLeft' \in Nat
  BY DEF Tick, Bookkeeping, TypeOK
<1>2. ASSUME NEW q \in Conns
      PROVE  /\ ask'[q] \in Question \cup {None}
             /\ ask'[q] = None <=> ask[q] = None
             /\ ask[q] # None => /\ ask'[q].dest = ask[q].dest
                                 /\ ask'[q].tainted = ask[q].tainted
                                 /\ ask'[q].future = ask[q].future
  <2>1. CASE ask[q] = None \/ ask[q].age >= AskTimeout
    BY <2>1 DEF Tick, Bookkeeping, TypeOK
  <2>2. CASE ~(ask[q] = None \/ ask[q].age >= AskTimeout)
    <3>1. ask[q] \in Question
      BY <2>2 DEF Bookkeeping, TypeOK
    <3> DEFINE r == [ask[q] EXCEPT !.age = @ + 1]
    <3>2. ask'[q] = r
      BY <2>2 DEF Tick
    <3>3. ask[q].age + 1 \in 0 .. AskTimeout
      BY <2>2, <3>1, TimeAssumption DEF Question
    <3>4. r \in Question
      BY <3>1, <3>3 DEF Question
    <3>5. r.dest = ask[q].dest /\ r.tainted = ask[q].tainted /\ r.future = ask[q].future
      BY <3>1 DEF Question
    <3> HIDE DEF r
    <3> QED
      BY <2>2, <3>2, <3>4, <3>5, NoneAssumption
  <2> QED
    BY <2>1, <2>2
<1>3. ASSUME NEW d \in Dests
      PROVE  decisions'[d] \in Decision \cup {None}
  <2>1. decisions[d] \in Decision \cup {None}
    BY DEF Bookkeeping, TypeOK
  <2>2. decisions'[d] = IF decisions[d] = None THEN None
                        ELSE IF decisions[d].left = 1 THEN None
                        ELSE [decisions[d] EXCEPT !.left = @ - 1]
    BY DEF Tick
  <2> QED
    BY <2>1, <2>2 DEF Decision
<1> QED
  BY <1>1, <1>2, <1>3 DEF Tick

LEMMA TickKeepsBookkeeping == ASSUME Bookkeeping, Tick PROVE Bookkeeping'
<1>1. Still /\ UNCHANGED <<pending, byDest>>
  BY DEF Tick, Still
<1>2. IdsOK'
  BY <1>1, TickTypes DEF Bookkeeping, TypeOK, IdsOK, Still
<1> QED
  BY <1>1, <1>2, TickTypes, StillKeepsQueue DEF Bookkeeping, TypeOK, Still, slotVars

-----------------------------------------------------------------------------
LEMMA InitBookkeeping == Init => Bookkeeping
<1> SUFFICES ASSUME Init PROVE Bookkeeping
  OBVIOUS
<1>1. TypeOK
  BY TimeAssumption DEF Init, TypeOK, Stages
<1>2. QueueOK /\ IdsOK
  BY DEF Init, QueueOK, IdsOK
<1> QED
  BY <1>1, <1>2 DEF Bookkeeping

LEMMA NextKeepsBookkeeping == Bookkeeping /\ [Next]_vars => Bookkeeping'
<1> SUFFICES ASSUME Bookkeeping, [Next]_vars PROVE Bookkeeping'
  OBVIOUS
<1>1. ASSUME NEW c \in Conns, Handle(c) PROVE Bookkeeping'
  <2>1. CASE \E d \in Dests : OpenQuestion(c, d)
    BY <2>1, OpenKeepsBookkeeping
  <2>2. CASE \E d \in Dests : JoinQuestion(c, d)
    BY <2>2, JoinKeepsBookkeeping
  <2>3. CASE Wake(c)
    BY <2>3, WakeKeepsBookkeeping
  <2>4. CASE Timeout(c)
    BY <2>4, TimeoutKeepsBookkeeping
  <2>5. CASE \/ Connect(c) \/ BadRequest(c)
             \/ \E d \in Dests : \/ DenyByRule(c, d) \/ RefuseLiteral(c, d)
                                 \/ AllowByRule(c, d) \/ UseRemembered(c, d)
             \/ Resolve(c) \/ Dial(c) \/ CopyEnds(c) \/ TunnelFails(c)
    BY <2>5, PlainSteps, PlainKeepsBookkeeping
  <2> QED
    BY <1>1, <2>1, <2>2, <2>3, <2>4, <2>5 DEF Handle
<1>2. CASE AdminStep
  BY <1>2, AnswerKeepsBookkeeping, TaintKeepsBookkeeping DEF AdminStep
<1>3. CASE TaintTokenStep
  BY <1>3, TaintKeepsBookkeeping DEF TaintTokenStep
<1>4. CASE Tick
  BY <1>4, TickKeepsBookkeeping
<1>5. CASE UNCHANGED vars
  BY <1>5 DEF vars, Bookkeeping, TypeOK, QueueOK, IdsOK, slotVars, boardVars
<1> QED
  BY <1>1, <1>2, <1>3, <1>4, <1>5 DEF Next

\* Every variable keeps its type, the queue holds the waiting connections and
\* every reference to a question is good, in every reachable state.
THEOREM BookkeepingHolds == Spec => []Bookkeeping
  BY InitBookkeeping, NextKeepsBookkeeping, PTL DEF Spec

THEOREM TypesHold == Spec => []TypeOK
<1>1. Bookkeeping => TypeOK
  BY DEF Bookkeeping
<1> QED
  BY <1>1, BookkeepingHolds, PTL

-----------------------------------------------------------------------------
(***************************************************************************)
(* The board of open questions.  Index says pointwise what                 *)
(* OneQuestionPerDest says of sets; Served says of references what         *)
(* HeldIsAnswerable says of held connections.                              *)
(***************************************************************************)
Index == \A q \in Conns, d \in Dests :
            byDest[d] = q <=> q \in pending /\ ask[q].dest = d

Served == /\ \A c \in Conns : waits[c] # None /\ ask[waits[c]].future = None
                                 => waits[c] \in pending
          /\ \A q \in pending : \E c \in Conns : waits[c] = q

Board == Index /\ Served /\ QuestionsAreWorthAsking

\* A question that is settled or timed out disturbs no other question.
LEMMA WithdrawKeepsBoard ==
    ASSUME Bookkeeping, Board, NEW q \in Conns, ask[q] # None,
           Forget(q, ask[q].dest),
           \A p \in Conns \ {q} : ask'[p] = ask[p],
           \A c \in Conns : waits'[c] = waits[c]
                            \/ (waits[c] = q /\ waits'[c] = None),
           \A c \in Conns : waits'[c] = q => ask'[q].future # None
    PROVE  Board'
<1> DEFINE d == ask[q].dest
<1>1. /\ pending' = pending \ {q}
      /\ byDest' = [byDest EXCEPT ![d] = IF @ = q THEN None ELSE @]
  BY DEF Forget
<1>2. /\ byDest \in [Dests -> Conns \cup {None}] /\ pending \subseteq Conns
      /\ waits \in [Conns -> Conns \cup {None}] /\ d \in Dests
  BY DEF Bookkeeping, TypeOK, Question
<1> HIDE DEF d
<1>3. Index'
  <2>1. ASSUME NEW p \in Conns, NEW e \in Dests
        PROVE  byDest'[e] = p <=> p \in pending' /\ ask'[p].dest = e
    <3>1. byDest[e] = p <=> p \in pending /\ ask[p].dest = e
      BY DEF Board, Index
    <3>2. CASE p = q
      <4>1. byDest[e] = q => e = d
        BY <3>1, <3>2 DEF d
      <4> QED
        BY <1>1, <1>2, <3>2, <4>1, NoneAssumption
    <3>3. CASE p # q
      BY <1>1, <1>2, <3>1, <3>3, NoneAssumption
    <3> QED
      BY <3>2, <3>3
  <2> QED
    BY <2>1 DEF Index
<1>4. Served'
  <2>1. ASSUME NEW c \in Conns, waits'[c] # None, ask'[waits'[c]].future = None
        PROVE  waits'[c] \in pending'
    <3>1. waits'[c] = waits[c] /\ waits[c] # q /\ waits[c] \in Conns
      BY <1>2, <2>1
    <3> QED
      BY <1>1, <2>1, <3>1 DEF Board, Served
  <2>2. ASSUME NEW p \in pending' PROVE \E c \in Conns : waits'[c] = p
    BY <1>1 DEF Board, Served
  <2> QED
    BY <2>1, <2>2 DEF Served
<1>5. QuestionsAreWorthAsking'
  BY <1>1, <1>2 DEF Board, QuestionsAreWorthAsking, Refused
<1> QED
  BY <1>3, <1>4, <1>5 DEF Board

LEMMA OpenKeepsBoard ==
    ASSUME Bookkeeping, Board, NEW c \in Conns, NEW d \in Dests, OpenQuestion(c, d)
    PROVE  Board'
<1> DEFINE q == [dest |-> d, tainted |-> Tainted, age |-> 0, future |-> None]
<1>1. /\ pc[c] = "reading" /\ byDest[d] \notin pending
      /\ Verdict(d) = "ask" /\ ~Refused(d)
      /\ ask' = [ask EXCEPT ![c] = q] /\ waits' = [waits EXCEPT ![c] = c]
      /\ pending' = pending \cup {c} /\ byDest' = [byDest EXCEPT ![d] = c]
  BY DEF OpenQuestion, Asks
<1>2. ask[c] = None /\ c \notin pending /\ waits[c] = None
  BY <1>1 DEF Bookkeeping, TypeOK, IdsOK, Early
<1>3. /\ q.dest = d /\ q.tainted = Tainted /\ q.future = None
  OBVIOUS
<1> HIDE DEF q
<1>4. byDest[d] = None
  BY <1>1 DEF Bookkeeping, TypeOK, Board, Index
<1>5. Index'
  BY <1>1, <1>2, <1>3, <1>4, NoneAssumption DEF Bookkeeping, TypeOK, Board, Index
<1>6. Served'
  <2>1. \A k \in Conns : waits[k] # c
    BY <1>2, NoneAssumption DEF Bookkeeping, IdsOK, TypeOK
  <2> QED
    BY <1>1, <1>2, <1>3, <2>1, NoneAssumption DEF Bookkeeping, TypeOK, Board, Served
<1>7. QuestionsAreWorthAsking'
  <2>1. ASSUME NEW p \in pending'
        PROVE  /\ ~(ask'[p].dest.literal \in Addrs \ Reachable)
               /\ Decide(Policy, ask'[p].dest, ask'[p].tainted) = "ask"
    <3>1. CASE p = c
      BY <1>1, <1>3, <3>1 DEF Bookkeeping, TypeOK, Verdict, Refused
    <3>2. CASE p # c
      BY <1>1, <3>2 DEF Bookkeeping, TypeOK, Board, QuestionsAreWorthAsking, Refused
    <3> QED
      BY <3>1, <3>2
  <2> QED
    BY <2>1 DEF QuestionsAreWorthAsking, Refused
<1> QED
  BY <1>5, <1>6, <1>7 DEF Board

LEMMA JoinKeepsBoard ==
    ASSUME Bookkeeping, Board, NEW c \in Conns, NEW d \in Dests, JoinQuestion(c, d)
    PROVE  Board'
<1>1. /\ pc[c] = "reading" /\ byDest[d] \in pending
      /\ waits' = [waits EXCEPT ![c] = byDest[d]]
      /\ UNCHANGED boardVars
  BY DEF JoinQuestion, Asks
<1>2. waits[c] = None
  BY <1>1 DEF Bookkeeping, TypeOK, IdsOK
<1>3. Served'
  BY <1>1, <1>2, NoneAssumption DEF Bookkeeping, TypeOK, Board, Served, boardVars
<1> QED
  BY <1>1, <1>3 DEF Board, Index, QuestionsAreWorthAsking, Refused, boardVars

LEMMA WakeKeepsBoard ==
    ASSUME Bookkeeping, Board, NEW c \in Conns, Wake(c)
    PROVE  Board'
<1> DEFINE q == waits[c]
<1>1. /\ pc[c] = "held" /\ ask[q].future # None /\ Detach(c, ask[q])
      /\ UNCHANGED <<pending, byDest>>
  BY DEF Wake
<1>2. q \in Conns /\ q \notin pending
  BY <1>1, HeldHasQuestion DEF Bookkeeping, IdsOK
<1>3. /\ \A p \in Conns \ {q} : ask'[p] = ask[p]
      /\ SharedWith(c) # {} => ask'[q] = ask[q]
      /\ waits' = [waits EXCEPT ![c] = None]
  BY <1>1, <1>2 DEF Detach, Bookkeeping, TypeOK
<1>4. Index'
  BY <1>1, <1>2, <1>3 DEF Bookkeeping, TypeOK, Board, Index
<1>5. Served'
  <2>1. ASSUME NEW k \in Conns, waits'[k] # None, ask'[waits'[k]].future = None
        PROVE  waits'[k] \in pending'
    <3>1. k # c /\ waits'[k] = waits[k] /\ waits[k] \in Conns
      BY <1>3, <2>1 DEF Bookkeeping, TypeOK
    <3>2. waits[k] # q
      BY <1>1, <1>3, <2>1, <3>1 DEF SharedWith
    <3> QED
      BY <1>1, <1>3, <2>1, <3>1, <3>2 DEF Board, Served
  <2>2. ASSUME NEW p \in pending' PROVE \E k \in Conns : waits'[k] = p
    BY <1>1, <1>2, <1>3 DEF Bookkeeping, TypeOK, Board, Served
  <2> QED
    BY <2>1, <2>2 DEF Served
<1>6. QuestionsAreWorthAsking'
  BY <1>1, <1>2, <1>3 DEF Bookkeeping, TypeOK, Board, QuestionsAreWorthAsking, Refused
<1> QED
  BY <1>4, <1>5, <1>6 DEF Board

LEMMA TimeoutKeepsBoard ==
    ASSUME Bookkeeping, Board, NEW c \in Conns, Timeout(c)
    PROVE  Board'
<1> DEFINE q == waits[c]
           r == [ask[q] EXCEPT !.future = IF @ = None THEN "deny" ELSE @]
<1>1. pc[c] = "held" /\ Forget(q, ask[q].dest) /\ Detach(c, r)
  BY DEF Timeout
<1>2. q \in Conns /\ ask[q] \in Question /\ ask[q] # None
  BY <1>1, HeldHasQuestion, NoneAssumption
<1>3. r.future # None
  BY <1>2, NoneAssumption DEF Question
<1> HIDE DEF r
<1>4. /\ \A p \in Conns \ {q} : ask'[p] = ask[p]
      /\ SharedWith(c) # {} => ask'[q] = r
      /\ waits' = [waits EXCEPT ![c] = None]
  BY <1>1, <1>2 DEF Detach, Bookkeeping, TypeOK
<1>5. ASSUME NEW k \in Conns
      PROVE  waits'[k] = waits[k] \/ (waits[k] = q /\ waits'[k] = None)
  <2>1. waits \in [Conns -> Conns \cup {None}]
    BY DEF Bookkeeping, TypeOK
  <2> QED
    BY <1>4, <2>1
<1>6. \A k \in Conns : waits'[k] = q => ask'[q].future # None
  BY <1>2, <1>3, <1>4, NoneAssumption DEF SharedWith, Bookkeeping, TypeOK
<1> HIDE DEF q
<1> QED
  BY <1>1, <1>2, <1>4, <1>5, <1>6, WithdrawKeepsBoard

LEMMA AnswerKeepsBoard ==
    ASSUME Bookkeeping, Board, NEW q \in Conns,
           \/ AnswerVoid(q)
           \/ \E a \in {"allow", "deny"}, ttl \in AnswerTTLs : Answer(q, a, ttl)
    PROVE  Board'
<1>1. PICK a \in {"allow", "deny"} :
         /\ q \in pending /\ Forget(q, ask[q].dest) /\ UNCHANGED waits
         /\ ask' = [ask EXCEPT ![q].future = a]
  BY DEF AnswerVoid, Answer
<1>2. ask[q] \in Question /\ ask[q] # None
  BY <1>1 DEF Bookkeeping, TypeOK, IdsOK
<1>3. /\ \A p \in Conns \ {q} : ask'[p] = ask[p]
      /\ ask'[q].future # None
  BY <1>1, <1>2, NoneAssumption DEF Bookkeeping, TypeOK, Question
<1>4. /\ \A c \in Conns : waits'[c] = waits[c]
                            \/ (waits[c] = q /\ waits'[c] = None)
      /\ \A c \in Conns : waits'[c] = q => ask'[q].future # None
  BY <1>1, <1>3
<1> QED
  BY <1>1, <1>2, <1>3, <1>4, WithdrawKeepsBoard

LEMMA TickKeepsBoard == ASSUME Bookkeeping, Board, Tick PROVE Board'
<1>1. UNCHANGED <<waits, pending, byDest>>
  BY DEF Tick
<1>2. \A q \in pending : q \in Conns /\ ask[q] # None
  BY DEF Bookkeeping, TypeOK, IdsOK
<1>3. Index'
  BY <1>1, <1>2, TickTypes DEF Board, Index
<1>4. Served'
  <2>1. \A c \in Conns : waits[c] # None => waits[c] \in Conns /\ ask[waits[c]] # None
    BY DEF Bookkeeping, TypeOK, IdsOK
  <2> QED
    BY <1>1, <2>1, TickTypes DEF Board, Served
<1>5. QuestionsAreWorthAsking'
  BY <1>1, <1>2, TickTypes DEF Board, QuestionsAreWorthAsking, Refused
<1> QED
  BY <1>3, <1>4, <1>5 DEF Board

LEMMA InitBoard == Init => Board
  BY NoneAssumption DEF Init, Board, Index, Served, QuestionsAreWorthAsking

LEMMA NextKeepsBoard == Bookkeeping /\ Board /\ [Next]_vars => Board'
<1> SUFFICES ASSUME Bookkeeping, Board, [Next]_vars PROVE Board'
  OBVIOUS
<1>0. ASSUME UNCHANGED <<waits, boardVars>> PROVE Board'
  BY <1>0 DEF Board, Index, Served, QuestionsAreWorthAsking, Refused, boardVars
<1>1. ASSUME NEW c \in Conns, Handle(c) PROVE Board'
  <2>1. CASE \E d \in Dests : OpenQuestion(c, d)
    BY <2>1, OpenKeepsBoard
  <2>2. CASE \E d \in Dests : JoinQuestion(c, d)
    BY <2>2, JoinKeepsBoard
  <2>3. CASE Wake(c)
    BY <2>3, WakeKeepsBoard
  <2>4. CASE Timeout(c)
    BY <2>4, TimeoutKeepsBoard
  <2>5. CASE \/ Connect(c) \/ BadRequest(c)
             \/ \E d \in Dests : \/ DenyByRule(c, d) \/ RefuseLiteral(c, d)
                                 \/ AllowByRule(c, d) \/ UseRemembered(c, d)
             \/ Resolve(c) \/ Dial(c) \/ CopyEnds(c) \/ TunnelFails(c)
    BY <1>0, <2>5, PlainSteps DEF PlainStep
  <2> QED
    BY <1>1, <2>1, <2>2, <2>3, <2>4, <2>5 DEF Handle
<1>2. CASE AdminStep
  BY <1>0, <1>2, AnswerKeepsBoard DEF AdminStep, SetTaint, ClearTaint
<1>3. CASE TaintTokenStep
  BY <1>0, <1>3 DEF TaintTokenStep, RaiseTaint
<1>4. CASE Tick
  BY <1>4, TickKeepsBoard
<1>5. CASE UNCHANGED vars
  BY <1>0, <1>5 DEF vars, boardVars
<1> QED
  BY <1>1, <1>2, <1>3, <1>4, <1>5 DEF Next

LEMMA BoardHolds == Spec => []Board
  BY BookkeepingHolds, InitBoard, NextKeepsBoard, PTL DEF Spec

\* Requests for one destination share one question, and the two indexes of the
\* open questions agree, whatever the interleaving of requests, answers and
\* timeouts.
THEOREM OneQuestion == Spec => []OneQuestionPerDest
<1>1. Bookkeeping /\ Board => OneQuestionPerDest
  <2> SUFFICES ASSUME Bookkeeping, Board, NEW d \in Dests
               PROVE  {q \in pending : ask[q].dest = d}
                        = IF byDest[d] = None THEN {} ELSE {byDest[d]}
    BY DEF OneQuestionPerDest
  <2> QED
    BY NoneAssumption DEF Bookkeeping, TypeOK, Board, Index
<1> QED
  BY <1>1, BookkeepingHolds, BoardHolds, PTL

\* A held connection that has no answer yet waits on a question that can still
\* be answered, and every question on the board has a connection waiting.
THEOREM NobodyWaitsForNothing == Spec => []HeldIsAnswerable
<1>1. Bookkeeping /\ Board => HeldIsAnswerable
  BY NoneAssumption
     DEF Bookkeeping, TypeOK, IdsOK, Board, Served, HeldIsAnswerable
<1> QED
  BY <1>1, BookkeepingHolds, BoardHolds, PTL

\* No one is ever asked about a destination that is refused or decided anyway.
THEOREM OnlyOpenMattersAreAsked == Spec => []QuestionsAreWorthAsking
<1>1. Board => QuestionsAreWorthAsking
  BY DEF Board
<1> QED
  BY <1>1, BoardHolds, PTL

-----------------------------------------------------------------------------
(***************************************************************************)
(* The memory and taint.                                                   *)
(***************************************************************************)
LEMMA NextKeepsCleanAllowsOut ==
    Bookkeeping /\ NoCleanAllowWhileTainted /\ [Next]_vars
        => NoCleanAllowWhileTainted'
<1> SUFFICES ASSUME Bookkeeping, NoCleanAllowWhileTainted, [Next]_vars, Tainted',
                    NEW d \in Dests, decisions'[d] # None,
                    decisions'[d].action = "allow"
             PROVE  decisions'[d].granted
  BY DEF NoCleanAllowWhileTainted
<1>0. /\ taintLeft \in Nat /\ decisions \in [Dests -> Decision \cup {None}]
      /\ ask \in [Conns -> Question \cup {None}] /\ pending \subseteq Conns
      /\ \A q \in pending : ask[q] # None
  BY DEF Bookkeeping, TypeOK, IdsOK
<1>a. ASSUME UNCHANGED <<decisions, taintLeft>> PROVE decisions'[d].granted
  BY <1>a DEF NoCleanAllowWhileTainted, Tainted
<1>1. ASSUME NEW c \in Conns, Timeout(c) PROVE decisions'[d].granted
  <2> DEFINE e == Remember("deny", DenyTTL, FALSE, "timeout")
  <2>1. /\ decisions' = [decisions EXCEPT ![ask[waits[c]].dest] = e]
        /\ taintLeft' = taintLeft
    BY <1>1 DEF Timeout
  <2>2. e # None => e.action = "deny"
    BY DEF Remember
  <2> HIDE DEF e
  <2>3. decisions'[d] = decisions[d]
    BY <1>0, <2>1, <2>2
  <2> QED
    BY <2>1, <2>3 DEF NoCleanAllowWhileTainted, Tainted
<1>2. ASSUME NEW c \in Conns, Handle(c), ~Timeout(c) PROVE decisions'[d].granted
  BY <1>a, <1>2 DEF Handle, Connect, BadRequest, DenyByRule, RefuseLiteral,
     AllowByRule, UseRemembered, OpenQuestion, JoinQuestion, Wake, Resolve, Dial,
     CopyEnds, TunnelFails
<1>3. ASSUME NEW q \in Conns, NEW a \in {"allow", "deny"}, NEW ttl \in AnswerTTLs,
             Answer(q, a, ttl)
      PROVE  decisions'[d].granted
  <2> DEFINE hold == IF ttl # Unset THEN ttl
                     ELSE IF a = "allow" THEN AllowTTL ELSE DenyTTL
             e == Remember(a, hold, ask[q].tainted, "person")
  <2>1. /\ q \in pending /\ taintLeft' = taintLeft
        /\ decisions' = [decisions EXCEPT ![ask[q].dest] = e]
        /\ ~(a = "allow" /\ Tainted /\ ~ask[q].tainted)
    BY <1>3 DEF Answer, Voided
  <2>2. CASE decisions'[d] = decisions[d]
    BY <2>1, <2>2 DEF NoCleanAllowWhileTainted, Tainted
  <2>3. CASE decisions'[d] # decisions[d]
    <3>1. decisions'[d] = e
      BY <1>0, <2>1, <2>3
    <3>2. /\ e.action = a
          /\ e.granted = (ask[q].tainted /\ a = "allow")
      BY <3>1 DEF Remember
    <3>3. Tainted
      BY <2>1 DEF Tainted
    <3> HIDE DEF e
    <3>4. a = "allow" /\ ask[q].tainted
      BY <2>1, <3>1, <3>2, <3>3
    <3> QED
      BY <3>1, <3>2, <3>4
  <2> QED
    BY <2>2, <2>3
<1>4. ASSUME NEW q \in Conns, AnswerVoid(q) PROVE decisions'[d].granted
  BY <1>a, <1>4 DEF AnswerVoid
<1>5. ASSUME PurgeAllows PROVE decisions'[d].granted
  BY <1>5 DEF PurgeAllows, NoCleanAllowWhileTainted
<1>6. ASSUME ClearTaint PROVE FALSE
  BY <1>6 DEF ClearTaint, Tainted
<1>7. ASSUME AdminStep PROVE decisions'[d].granted
  BY <1>3, <1>4, <1>5, <1>6, <1>7 DEF AdminStep, SetTaint
<1>8. ASSUME TaintTokenStep PROVE decisions'[d].granted
  BY <1>5, <1>8 DEF TaintTokenStep, RaiseTaint
<1>9. ASSUME Tick PROVE decisions'[d].granted
  <2>1. Tainted
    BY <1>0, <1>9 DEF Tick, Tainted
  <2>2. /\ decisions[d] \in Decision /\ decisions[d] # None
        /\ decisions'[d] = [decisions[d] EXCEPT !.left = @ - 1]
           \/ decisions'[d] = decisions[d]
    BY <1>0, <1>9 DEF Tick
  <2>3. /\ decisions'[d].action = decisions[d].action
        /\ decisions'[d].granted = decisions[d].granted
    BY <2>2 DEF Decision
  <2> QED
    BY <2>1, <2>2, <2>3 DEF NoCleanAllowWhileTainted
<1> QED
  BY <1>a, <1>1, <1>2, <1>7, <1>8, <1>9 DEF Next, vars

\* Whatever the order of requests, answers and taint calls, while the sandbox
\* is tainted no remembered allow dates from a clean period.
THEOREM CleanAllowsDoNotOutliveTaint == Spec => []NoCleanAllowWhileTainted
<1>1. Init => NoCleanAllowWhileTainted
  BY DEF Init, NoCleanAllowWhileTainted, Tainted
<1> QED
  BY <1>1, BookkeepingHolds, NextKeepsCleanAllowsOut, PTL DEF Spec

\* Hence the test in Gate.decide that passes over such an allow never fires:
\* what is remembered is what is recalled (gate.py:146-149).
THEOREM RecallNeverSkips ==
    ASSUME NoCleanAllowWhileTainted, NEW d \in Dests
    PROVE  Recalled(d) = IF decisions[d] = None THEN None ELSE decisions[d].action
  BY DEF NoCleanAllowWhileTainted, Recalled

\* Raising taint tightens every destination if the policy is of the shipped
\* shape.
LEMMA RaiseTightens ==
    ASSUME OnlyAllowsLapse(Policy), Bookkeeping, NEW ttl \in TaintTTLs,
           RaiseTaint(ttl), NEW d \in Dests
    PROVE  taintLeft' >= taintLeft /\ Standing(d)' <= Standing(d)
<1> DEFINE before == Verdict(d)
           after  == Verdict(d)'
<1>1. /\ taintLeft \in Nat /\ decisions \in [Dests -> Decision \cup {None}]
  BY DEF Bookkeeping, TypeOK
<1>2. TaintFor(ttl) \in Nat \ {0}
  BY TimeAssumption DEF TaintFor
<1>3. /\ taintLeft' = IF TaintFor(ttl) > taintLeft THEN TaintFor(ttl) ELSE taintLeft
      /\ PurgeAllows
  BY DEF RaiseTaint
<1>4. taintLeft' \in Nat \ {0} /\ taintLeft' >= taintLeft
  BY <1>1, <1>2, <1>3
<1>5. Tainted' = TRUE
  BY <1>4 DEF Tainted
<1>6. before \in Actions /\ after \in Actions
  BY DecideType, PolicyAssumption DEF Verdict
<1>7. CASE Tainted
  <2>1. Tainted = TRUE /\ decisions' = decisions
    BY <1>3, <1>7 DEF PurgeAllows, Tainted
  <2>2. Standing(d)' = Standing(d)
    BY <1>5, <2>1 DEF Standing, Verdict, Recalled, Refused
  <2>3. Standing(d) \in Nat
    BY <1>1, <1>6, NoneAssumption
       DEF Standing, Recalled, Looseness, Actions, Decision
  <2> QED
    BY <1>4, <2>2, <2>3
<1>8. CASE ~Tainted
  <2>1. Tainted = FALSE
    BY <1>8 DEF Tainted
  <2>2. Looseness[after] <= Looseness[before]
    BY <1>5, <2>1, TaintTightensPolicy, PolicyAssumption DEF Verdict
  <2>3. \/ decisions[d] = None /\ decisions'[d] = None
        \/ decisions[d].action = "allow" /\ decisions'[d] = None
        \/ decisions[d] # None /\ decisions[d].action = "deny"
           /\ decisions'[d] = decisions[d]
    BY <1>1, <1>3, <1>8 DEF PurgeAllows, Decision
  <2>4. /\ Recalled(d) \in {None, "allow", "deny"}
        /\ Recalled(d)' = IF Recalled(d) = "deny" THEN "deny" ELSE None
    BY <1>8, <2>3, NoneAssumption DEF Recalled
  <2> DEFINE r == Recalled(d)
             s == Recalled(d)'
  <2>5. /\ Standing(d) = Looseness[IF Refused(d) THEN "deny"
                                   ELSE IF before = "ask" /\ r # None THEN r
                                   ELSE before]
        /\ Standing(d)' = Looseness[IF Refused(d) THEN "deny"
                                    ELSE IF after = "ask" /\ s # None THEN s
                                    ELSE after]
    BY DEF Standing, Refused
  <2> HIDE DEF before, after, r, s
  <2>6. r \in {None, "allow", "deny"} /\ s = IF r = "deny" THEN "deny" ELSE None
    BY <2>4 DEF r, s
  <2> QED
    BY <1>4, <1>6, <2>2, <2>5, <2>6, NoneAssumption DEF Looseness, Actions
<1> QED
  BY <1>7, <1>8

\* With a policy whose clean_only rules are all allows, the taint token can
\* only make things stricter (gate.py:402-405).
THEOREM TaintTokenTightens ==
    ASSUME OnlyAllowsLapse(Policy)
    PROVE  Spec => TaintTokenOnlyTightens
<1>1. ASSUME Bookkeeping, TaintTokenStep
      PROVE  taintLeft' >= taintLeft /\ \A d \in Dests : Standing(d)' <= Standing(d)
  <2>1. PICK ttl \in TaintTTLs : RaiseTaint(ttl)
    BY <1>1 DEF TaintTokenStep
  <2>2. taintLeft' >= taintLeft
    BY <1>1, <2>1, TimeAssumption DEF RaiseTaint, TaintFor, Bookkeeping, TypeOK
  <2> QED
    BY <1>1, <2>1, <2>2, RaiseTightens
<1>2. Bookkeeping /\ [Next]_vars =>
        [ TaintTokenStep => /\ taintLeft' >= taintLeft
                            /\ \A d \in Dests : Standing(d)' <= Standing(d) ]_vars
  BY <1>1
<1> QED
  BY <1>2, BookkeepingHolds, PTL DEF Spec, TaintTokenOnlyTightens

-----------------------------------------------------------------------------
(***************************************************************************)
(* The slots.                                                              *)
(***************************************************************************)
Holders == {c \in Conns : pc[c] \in Active}

\* SlotsConserved, with what it takes for the cardinality to be a number.
Slots == /\ IsFiniteSet(Holders)
         /\ free + Cardinality(Holders) = MaxConnections
         /\ queue # <<>> => free = 0
         /\ \A c \in Conns : pc[c] = "queued"
                               <=> \E i \in 1 .. Len(queue) : queue[i] = c

LEMMA ConnectKeepsSlots ==
    ASSUME Bookkeeping, Slots, NEW c \in Conns, Connect(c)
    PROVE  Slots'
<1>1. /\ pc \in [Conns -> Stages] /\ queue \in Seq(Conns) /\ free \in Nat
      /\ pc[c] = "new"
  BY DEF Bookkeeping, TypeOK, Connect
<1>2. CASE free > 0
  <2>1. /\ pc' = [pc EXCEPT ![c] = "reading"] /\ free' = free - 1
        /\ queue' = queue /\ queue = <<>>
    BY <1>2 DEF Connect, Slots
  <2>2. Holders' = Holders \cup {c} /\ c \notin Holders
    BY <1>1, <2>1 DEF Holders, Active
  <2>3. IsFiniteSet(Holders') /\ Cardinality(Holders') = Cardinality(Holders) + 1
    BY <2>2, FS_AddElement DEF Slots
  <2>4. Cardinality(Holders) \in Nat
    BY FS_CardinalityType DEF Slots
  <2>5. free' + Cardinality(Holders') = MaxConnections
    BY <1>1, <2>1, <2>3, <2>4 DEF Slots
  <2>6. \A k \in Conns : pc'[k] = "queued" <=> pc[k] = "queued"
    BY <1>1, <2>1
  <2> QED
    BY <2>1, <2>3, <2>5, <2>6 DEF Slots
<1>3. CASE ~(free > 0)
  <2>1. /\ pc' = [pc EXCEPT ![c] = "queued"] /\ free' = free /\ free = 0
        /\ queue' = Append(queue, c)
    BY <1>1, <1>3 DEF Connect
  <2>2. Holders' = Holders
    BY <1>1, <2>1 DEF Holders, Active
  <2>3. /\ Len(queue) \in Nat /\ Len(queue') = Len(queue) + 1
        /\ \A i \in 1 .. Len(queue) : queue'[i] = queue[i]
        /\ queue'[Len(queue) + 1] = c
    BY <1>1, <2>1
  <2>4. ASSUME NEW k \in Conns
        PROVE  pc'[k] = "queued" <=> \E i \in 1 .. Len(queue') : queue'[i] = k
    <3>1. /\ 1 .. Len(queue') = 1 .. Len(queue) \cup {Len(queue) + 1}
      BY <2>3
    <3>2. (\E i \in 1 .. Len(queue') : queue'[i] = k)
             <=> k = c \/ \E i \in 1 .. Len(queue) : queue[i] = k
      BY <2>3, <3>1
    <3> QED
      BY <1>1, <2>1, <3>2 DEF Slots
  <2> QED
    BY <2>1, <2>2, <2>4 DEF Slots
<1> QED
  BY <1>2, <1>3

LEMMA ExitKeepsSlots ==
    ASSUME Bookkeeping, Slots, NEW c \in Conns, pc[c] \in Active, Exit(c)
    PROVE  Slots'
<1>1. /\ pc \in [Conns -> Stages] /\ queue \in Seq(Conns) /\ free \in Nat
      /\ Cardinality(Holders) \in Nat /\ c \in Holders /\ pc[c] # "queued"
  BY FS_CardinalityType DEF Bookkeeping, TypeOK, Slots, Holders, Active
<1>2. CASE queue = <<>>
  <2>1. /\ queue' = queue /\ free' = free + 1
        /\ pc' = [k \in Conns |-> IF k = c THEN "closed" ELSE pc[k]]
    BY <1>2 DEF Exit
  <2>2. Holders' = Holders \ {c}
    BY <1>1, <2>1 DEF Holders, Active
  <2>3. IsFiniteSet(Holders') /\ Cardinality(Holders') = Cardinality(Holders) - 1
    BY <1>1, <2>2, FS_RemoveElement DEF Slots
  <2>4. free' + Cardinality(Holders') = MaxConnections
    BY <1>1, <2>1, <2>3 DEF Slots
  <2>5. \A k \in Conns : pc'[k] = "queued" <=> pc[k] = "queued"
    BY <1>1, <2>1
  <2> QED
    BY <1>2, <2>1, <2>3, <2>4, <2>5 DEF Slots
<1>3. CASE queue # <<>>
  <2> DEFINE h == Head(queue)
  <2>1. /\ h \in Conns /\ h = queue[1] /\ Len(queue) \in Nat \ {0}
        /\ Len(Tail(queue)) = Len(queue) - 1
        /\ \A i \in 1 .. Len(Tail(queue)) : Tail(queue)[i] = queue[i + 1]
    BY <1>1, <1>3
  <2>2. pc[h] = "queued" /\ h # c
    BY <1>1, <2>1 DEF Bookkeeping, QueueOK
  <2>3. /\ queue' = Tail(queue) /\ free' = free
        /\ pc' = [k \in Conns |-> IF k = c THEN "closed"
                                  ELSE IF k = h THEN "reading" ELSE pc[k]]
    BY <1>3 DEF Exit
  <2> HIDE DEF h
  <2>4. Holders' = (Holders \ {c}) \cup {h} /\ h \notin Holders
    BY <1>1, <2>1, <2>2, <2>3 DEF Holders, Active
  <2>5. /\ IsFiniteSet(Holders \ {c})
        /\ Cardinality(Holders \ {c}) = Cardinality(Holders) - 1
    BY <1>1, FS_RemoveElement DEF Slots
  <2>6. /\ IsFiniteSet(Holders')
        /\ Cardinality(Holders') = Cardinality(Holders \ {c}) + 1
    BY <2>4, <2>5, FS_AddElement
  <2>7. free' + Cardinality(Holders') = MaxConnections
    BY <1>1, <2>3, <2>5, <2>6 DEF Slots
  <2>8. queue' # <<>> => free' = 0
    BY <1>3, <2>3 DEF Slots
  <2>9. ASSUME NEW k \in Conns
        PROVE  pc'[k] = "queued" <=> \E i \in 1 .. Len(queue') : queue'[i] = k
    <3>1. CASE k = c \/ k = h
      <4>1. pc'[k] # "queued"
        BY <2>3, <3>1
      <4>2. ASSUME NEW i \in 1 .. Len(queue'), queue'[i] = k PROVE FALSE
        <5>1. i + 1 \in 1 .. Len(queue) /\ i + 1 # 1 /\ 1 \in 1 .. Len(queue)
          BY <2>1, <2>3
        <5>2. queue[i + 1] = k
          BY <2>1, <2>3, <4>2
        <5> QED
          BY <1>1, <2>1, <3>1, <5>1, <5>2 DEF Bookkeeping, QueueOK
      <4> QED
        BY <4>1, <4>2
    <3>2. CASE k # c /\ k # h
      <4>1. pc'[k] = pc[k]
        BY <2>3, <3>2
      <4>2. ASSUME NEW i \in 1 .. Len(queue), queue[i] = k
            PROVE  \E j \in 1 .. Len(queue') : queue'[j] = k
        <5>1. i # 1 /\ i - 1 \in 1 .. Len(queue')
          BY <2>1, <2>3, <3>2, <4>2
        <5>2. queue'[i - 1] = queue[i]
          BY <2>1, <2>3, <5>1
        <5> QED
          BY <4>2, <5>1, <5>2
      <4>3. ASSUME NEW j \in 1 .. Len(queue'), queue'[j] = k
            PROVE  \E i \in 1 .. Len(queue) : queue[i] = k
        <5>1. j + 1 \in 1 .. Len(queue) /\ queue[j + 1] = k
          BY <2>1, <2>3, <4>3
        <5> QED
          BY <5>1
      <4> QED
        BY <4>1, <4>2, <4>3 DEF Slots
    <3> QED
      BY <3>1, <3>2
  <2> QED
    BY <2>6, <2>7, <2>8, <2>9 DEF Slots
<1> QED
  BY <1>2, <1>3

LEMMA MoveKeepsSlots ==
    ASSUME Bookkeeping, Slots, NEW c \in Conns, pc[c] \in Active,
           NEW s \in Active, Move(c, s)
    PROVE  Slots'
<1>1. pc \in [Conns -> Stages]
  BY DEF Bookkeeping, TypeOK
<1>2. Holders' = Holders
  BY <1>1 DEF Holders, Move
<1>3. \A k \in Conns : pc'[k] = "queued" <=> pc[k] = "queued"
  BY <1>1 DEF Move, Active
<1> QED
  BY <1>2, <1>3 DEF Slots, Move, slotVars

LEMMA HandleKeepsSlots ==
    ASSUME Bookkeeping, Slots, NEW c \in Conns, Handle(c)
    PROVE  Slots'
<1>1. ASSUME pc[c] \in {"reading", "held"}, NEW d, Proceed(c, d) PROVE Slots'
  BY <1>1, MoveKeepsSlots DEF Proceed, Active
<1>2. ASSUME NEW d \in Dests,
             \/ DenyByRule(c, d) \/ RefuseLiteral(c, d)
             \/ AllowByRule(c, d) \/ UseRemembered(c, d)
      PROVE  Slots'
  BY <1>1, <1>2, ExitKeepsSlots
     DEF DenyByRule, RefuseLiteral, AllowByRule, UseRemembered, Active
<1>3. ASSUME NEW d \in Dests, OpenQuestion(c, d) \/ JoinQuestion(c, d)
      PROVE  Slots'
  BY <1>3, MoveKeepsSlots DEF OpenQuestion, JoinQuestion, Asks, Active
<1>4. ASSUME Wake(c) PROVE Slots'
  BY <1>1, <1>4, ExitKeepsSlots DEF Wake, Active
<1>5. ASSUME BadRequest(c) \/ Timeout(c) \/ TunnelFails(c) PROVE Slots'
  BY <1>5, ExitKeepsSlots DEF BadRequest, Timeout, TunnelFails, Active
<1>6. ASSUME Resolve(c) \/ Dial(c) \/ CopyEnds(c) PROVE Slots'
  BY <1>6, ExitKeepsSlots, MoveKeepsSlots DEF Resolve, Dial, CopyEnds, Active
<1> QED
  BY <1>2, <1>3, <1>4, <1>5, <1>6, ConnectKeepsSlots DEF Handle

\* No slot is lost or given twice, and no connection waits while one is free.
THEOREM SlotsAreConserved == Spec => []SlotsConserved
<1>1. Init => Slots
  <2> SUFFICES ASSUME Init PROVE Slots
    OBVIOUS
  <2>1. Holders = {} /\ free = MaxConnections /\ queue = <<>>
    BY DEF Init, Holders, Active
  <2>2. IsFiniteSet(Holders) /\ Cardinality(Holders) = 0
    BY <2>1, FS_EmptySet
  <2> QED
    BY <2>1, <2>2, TimeAssumption DEF Slots, Init
<1>2. Bookkeeping /\ Slots /\ [Next]_vars => Slots'
  <2> SUFFICES ASSUME Bookkeeping, Slots, [Next]_vars PROVE Slots'
    OBVIOUS
  <2>1. ASSUME UNCHANGED <<pc, slotVars>> PROVE Slots'
    BY <2>1 DEF Slots, Holders, slotVars
  <2>2. CASE AdminStep \/ TaintTokenStep \/ Tick \/ UNCHANGED vars
    BY <2>1, <2>2 DEF AdminStep, TaintTokenStep, AnswerVoid, Answer, SetTaint,
       ClearTaint, RaiseTaint, Tick, vars, slotVars
  <2> QED
    BY <2>2, HandleKeepsSlots DEF Next
<1>3. Slots => SlotsConserved
  BY DEF Slots, SlotsConserved, Holders
<1> QED
  BY <1>1, <1>2, <1>3, BookkeepingHolds, PTL DEF Spec

-----------------------------------------------------------------------------
(***************************************************************************)
(* EgressGate implements QuestionBoard: its initial states are the board's *)
(* and under Bookkeeping and Board each of its steps is a step of the      *)
(* board or leaves the board as it is.                                     *)
(***************************************************************************)

Calm == UNCHANGED <<Tainted, boardRule, boardMemory, boardAsks, boardLeave>>

-----------------------------------------------------------------------------
LEMMA RuleType == boardRule \in [Dests -> {"allow", "ask", "deny"}]
  BY DecideType, PolicyAssumption DEF boardRule, Verdict, Actions

LEMMA MemoryType ==
    ASSUME Bookkeeping
    PROVE  boardMemory \in [Dests -> {"allow", "deny", None}]
  BY DEF boardMemory, Bookkeeping, TypeOK, Decision

LEMMA SameTaint ==
    ASSUME UNCHANGED taintLeft
    PROVE  UNCHANGED <<Tainted, boardRule>>
  BY DEF Tainted, boardRule, Verdict, Refused

LEMMA SameMemory ==
    ASSUME UNCHANGED decisions
    PROVE  UNCHANGED boardMemory
  BY DEF boardMemory

LEMMA InitMaps == Init => QB!Init
<1> SUFFICES ASSUME Init PROVE QB!Init
  OBVIOUS
<1>1. Tainted = FALSE
  BY DEF Init, Tainted
<1>2. boardMemory = [d \in Dests |-> None]
  BY DEF Init, boardMemory
<1>3. /\ boardAsks = [c \in Conns |-> None]
      /\ boardLeave = [c \in Conns |-> None]
      /\ boardThrough = {}
  BY DEF Init, boardAsks, boardLeave, boardThrough, Waiting
<1> QED
  BY <1>1, <1>2, <1>3, RuleType DEF QB!Init

-----------------------------------------------------------------------------
\* A plain step moves one connection in or out, or nobody.
LEMMA PlainIsCalm ==
    ASSUME Bookkeeping, NEW c \in Conns, PlainStep(c)
    PROVE  /\ Calm
           /\ boardThrough' \ {c} = boardThrough \ {c}
<1>1. /\ UNCHANGED <<waits, ask, decisions, taintLeft>>
      /\ \A k \in Conns : pc'[k] = "held" <=> pc[k] = "held"
  BY DEF PlainStep, Shift, boardVars
<1>2. UNCHANGED <<Tainted, boardRule, boardMemory>>
  BY <1>1, SameTaint, SameMemory
<1>3. \A f : \A k \in Conns : Waiting(k, f)' <=> Waiting(k, f)
  BY <1>1 DEF Waiting
<1>4. UNCHANGED <<boardAsks, boardLeave>>
  BY <1>1, <1>3 DEF boardAsks, boardLeave, Shown
<1>5. boardThrough' \ {c} = boardThrough \ {c}
  BY DEF PlainStep, Shift, boardThrough
<1> QED
  BY <1>2, <1>4, <1>5 DEF Calm

\* It is a stutter or the end of a connection unless c gets through.
LEMMA PlainMaps ==
    ASSUME Bookkeeping, NEW c \in Conns, PlainStep(c),
           c \in boardThrough' => c \in boardThrough
    PROVE  QB!Next \/ UNCHANGED QB!vars
<1>1. Calm /\ boardThrough' \ {c} = boardThrough \ {c}
  BY PlainIsCalm
<1>2. CASE c \in boardThrough /\ c \notin boardThrough'
  <2>1. QB!End(c)
    BY <1>1, <1>2 DEF Calm, QB!End
  <2> QED
    BY <2>1 DEF QB!Next
<1>3. CASE c \in boardThrough <=> c \in boardThrough'
  <2>1. boardThrough' = boardThrough
    BY <1>1, <1>3
  <2> QED
    BY <1>1, <2>1 DEF Calm, QB!vars
<1> QED
  BY <1>2, <1>3

\* c gets through at once.
LEMMA ThroughAtOnce ==
    ASSUME Bookkeeping, NEW c \in Conns, PlainStep(c), NEW d \in Dests,
           pc[c] = "reading", c \in boardThrough', ~Refused(d),
           \/ Verdict(d) = "allow"
           \/ Verdict(d) = "ask" /\ Recalled(d) = "allow"
    PROVE  QB!Next
<1>1. Calm /\ boardThrough' \ {c} = boardThrough \ {c}
  BY PlainIsCalm
<1>2. c \notin boardThrough /\ boardAsks[c] = None /\ boardLeave[c] = None
  BY DEF boardThrough, boardAsks, boardLeave, Waiting
<1>3. boardThrough' = boardThrough \cup {c}
  BY <1>1, <1>2
<1>4. boardRule[d] = Verdict(d)
  BY DEF boardRule
<1>5. Recalled(d) = "allow" => boardMemory[d] = "allow"
  BY NoneAssumption DEF Recalled, boardMemory
<1>6. QB!PassAtOnce(c, d)
  BY <1>1, <1>2, <1>3, <1>4, <1>5 DEF Calm, QB!PassAtOnce, QB!Idle
<1> QED
  BY <1>6 DEF QB!Next

LEMMA PlainStepsMap ==
    ASSUME Bookkeeping, NEW c \in Conns,
           \/ Connect(c) \/ BadRequest(c)
           \/ \E d \in Dests : \/ DenyByRule(c, d) \/ RefuseLiteral(c, d)
                               \/ AllowByRule(c, d) \/ UseRemembered(c, d)
           \/ Resolve(c) \/ Dial(c) \/ CopyEnds(c) \/ TunnelFails(c)
    PROVE  QB!Next \/ UNCHANGED QB!vars
<1>1. PlainStep(c)
  BY PlainSteps
<1>2. ASSUME Exit(c) PROVE QB!Next \/ UNCHANGED QB!vars
  <2>1. c \notin boardThrough'
    BY <1>2 DEF Exit, boardThrough
  <2> QED
    BY <1>1, <2>1, PlainMaps
<1>3. CASE Connect(c)
  <2>1. pc'[c] \in {"reading", "queued"}
    BY <1>3 DEF Connect, Bookkeeping, TypeOK
  <2>2. c \notin boardThrough'
    BY <2>1 DEF boardThrough
  <2> QED
    BY <1>1, <2>2, PlainMaps
<1>4. CASE Resolve(c) \/ Dial(c) \/ CopyEnds(c) \/ TunnelFails(c)
  <2>1. c \in boardThrough
    BY <1>4 DEF Resolve, Dial, CopyEnds, TunnelFails, boardThrough
  <2> QED
    BY <1>1, <2>1, PlainMaps
<1>5. ASSUME NEW d \in Dests, AllowByRule(c, d) \/ UseRemembered(c, d)
      PROVE  QB!Next \/ UNCHANGED QB!vars
  <2>1. CASE Exit(c)
    BY <1>2, <2>1
  <2>2. CASE ~Exit(c)
    <3>1. /\ pc[c] = "reading" /\ Proceed(c, d) /\ ~Refused(d)
          /\ \/ Verdict(d) = "allow"
             \/ Verdict(d) = "ask" /\ Recalled(d) = "allow"
      BY <1>5, <2>2 DEF AllowByRule, UseRemembered
    <3>2. c \in boardThrough'
      BY <3>1 DEF Proceed, Move, boardThrough, Bookkeeping, TypeOK
    <3> QED
      BY <1>1, <3>1, <3>2, ThroughAtOnce
  <2> QED
    BY <2>1, <2>2
<1> QED
  BY <1>2, <1>3, <1>4, <1>5 DEF BadRequest, DenyByRule, RefuseLiteral

-----------------------------------------------------------------------------
(***************************************************************************)
(* Questions are asked, joined, answered and withdrawn.                    *)
(***************************************************************************)

\* A connection whose question reads the same stands where it stood.
LEMMA StandsStill ==
    ASSUME NEW k \in Conns,
           pc'[k] = "held" <=> pc[k] = "held",
           pc[k] = "held" => /\ waits'[k] = waits[k]
                             /\ ask'[waits[k]].dest = ask[waits[k]].dest
                             /\ ask'[waits[k]].tainted = ask[waits[k]].tainted
                             /\ ask'[waits[k]].future = ask[waits[k]].future
    PROVE  boardAsks'[k] = boardAsks[k] /\ boardLeave'[k] = boardLeave[k]
<1>1. \A f : Waiting(k, f)' <=> Waiting(k, f)
  BY DEF Waiting
<1> QED
  BY <1>1 DEF boardAsks, boardLeave, Waiting, Shown

\* On the board, waiting on an open question means referring to it: there is
\* one question about a destination.
LEMMA WaitersOfOpen ==
    ASSUME Bookkeeping, Board, NEW q \in pending
    PROVE  /\ Shown(q) # None
           /\ Shown(q) \in QB!Open
           /\ QB!Waiters(Shown(q)) = {k \in Conns : waits[k] = q}
           /\ \A k \in Conns : waits[k] = q => /\ boardAsks[k] = Shown(q)
                                               /\ boardLeave[k] = None
<1>1. /\ q \in Conns /\ ask[q] \in Question /\ ask[q].future = None
  BY DEF Bookkeeping, TypeOK, IdsOK
<1>2. Shown(q) # None
  BY <1>1, BoardAssumption DEF Shown, Question
<1>3. ASSUME NEW k \in Conns, waits[k] = q
      PROVE  boardAsks[k] = Shown(q) /\ boardLeave[k] = None
  <2>1. pc[k] = "held"
    BY <1>1, <1>3, NoneAssumption DEF Bookkeeping, IdsOK
  <2> QED
    BY <1>1, <1>3, <2>1, NoneAssumption DEF boardAsks, boardLeave, Waiting
<1>4. ASSUME NEW k \in Conns, boardAsks[k] = Shown(q)
      PROVE  waits[k] = q
  <2>1. Waiting(k, None) /\ Shown(waits[k]) = Shown(q)
    BY <1>2, <1>4 DEF boardAsks
  <2>2. waits[k] \in pending /\ waits[k] \in Conns
    BY <2>1, HeldHasQuestion DEF Waiting, Board, Served, Bookkeeping, IdsOK
  <2>3. ask[waits[k]].dest = ask[q].dest /\ ask[q].dest \in Dests
    BY <1>1, <2>1 DEF Shown, Question
  <2> QED
    BY <1>1, <2>2, <2>3 DEF Board, Index
<1>5. \E k \in Conns : waits[k] = q
  BY DEF Board, Served
<1>6. Shown(q) \in QB!Open
  BY <1>2, <1>3, <1>5 DEF QB!Open
<1> QED
  BY <1>2, <1>3, <1>4, <1>6 DEF QB!Waiters

\* A connection that has not been judged is idle.
LEMMA ReadingIsIdle ==
    ASSUME NEW c \in Conns, pc[c] = "reading"
    PROVE  QB!Idle(c)
  BY DEF QB!Idle, boardAsks, boardLeave, boardThrough, Waiting

\* What a person sees of open questions about d.
LEMMA OpenQuestionsOf ==
    ASSUME Bookkeeping, Board, NEW d \in Dests
    PROVE  {q \in QB!Open : q.dest = d} =
              IF byDest[d] \in pending THEN {Shown(byDest[d])} ELSE {}
<1>1. ASSUME NEW s \in QB!Open, s.dest = d
      PROVE  byDest[d] \in pending /\ s = Shown(byDest[d])
  <2>1. PICK k \in Conns : boardAsks[k] = s /\ s # None
    BY DEF QB!Open
  <2>2. Waiting(k, None) /\ s = Shown(waits[k])
    BY <2>1 DEF boardAsks
  <2>3. waits[k] \in pending /\ waits[k] \in Conns
    BY <2>2, HeldHasQuestion DEF Waiting, Board, Served, Bookkeeping, IdsOK
  <2>4. ask[waits[k]].dest = d
    BY <1>1, <2>2 DEF Shown
  <2>5. byDest[d] = waits[k]
    BY <2>3, <2>4 DEF Board, Index
  <2> QED
    BY <2>2, <2>3, <2>5
<1>2. ASSUME byDest[d] \in pending
      PROVE  Shown(byDest[d]) \in QB!Open /\ Shown(byDest[d]).dest = d
  <2>1. byDest[d] \in Conns /\ ask[byDest[d]].dest = d
    BY <1>2 DEF Bookkeeping, TypeOK, Board, Index
  <2> QED
    BY <1>2, <2>1, WaitersOfOpen DEF Shown
<1> QED
  BY <1>1, <1>2

LEMMA OpenMaps ==
    ASSUME Bookkeeping, Board, NEW c \in Conns, NEW d \in Dests, OpenQuestion(c, d)
    PROVE  QB!Hold(c, d)
<1> DEFINE r == [dest |-> d, tainted |-> Tainted, age |-> 0, future |-> None]
           s == [dest |-> d, tainted |-> Tainted]
<1>1. /\ pc[c] = "reading" /\ byDest[d] \notin pending
      /\ Verdict(d) = "ask" /\ ~Refused(d)
      /\ ask' = [ask EXCEPT ![c] = r] /\ waits' = [waits EXCEPT ![c] = c]
      /\ pc' = [pc EXCEPT ![c] = "held"]
      /\ UNCHANGED <<decisions, taintLeft>>
  BY DEF OpenQuestion, Asks, Move
<1>2. UNCHANGED <<Tainted, boardRule, boardMemory>>
  BY <1>1, SameTaint, SameMemory
<1>3. boardRule[d] = "ask"
  BY <1>1 DEF boardRule
<1>4. {q \in QB!Open : q.dest = d} = {}
  BY <1>1, OpenQuestionsOf
<1>5. ask[c] = None /\ \A k \in Conns : waits[k] # c
  BY <1>1, NoneAssumption DEF Bookkeeping, IdsOK, Early
<1>6. ASSUME NEW k \in Conns, k # c
      PROVE  boardAsks'[k] = boardAsks[k] /\ boardLeave'[k] = boardLeave[k]
  BY <1>1, <1>5, <1>6, StandsStill DEF Bookkeeping, TypeOK
<1>7. boardAsks'[c] = s /\ boardLeave'[c] = None
  <2>1. /\ pc'[c] = "held" /\ waits'[c] = c /\ ask'[c] = r
    BY <1>1 DEF Bookkeeping, TypeOK
  <2> QED
    BY <2>1, NoneAssumption DEF boardAsks, boardLeave, Waiting, Shown
<1>8. QB!Idle(c)
  BY <1>1, ReadingIsIdle
<1>9. boardAsks' = [boardAsks EXCEPT ![c] = s]
  BY <1>6, <1>7 DEF boardAsks
<1>10. boardLeave' = boardLeave
  BY <1>6, <1>7, <1>8 DEF boardLeave, QB!Idle
<1>11. boardThrough' = boardThrough
  BY <1>1 DEF boardThrough, Bookkeeping, TypeOK
<1> QED
  BY <1>2, <1>3, <1>4, <1>8, <1>9, <1>10, <1>11 DEF QB!Hold

LEMMA JoinMaps ==
    ASSUME Bookkeeping, Board, NEW c \in Conns, NEW d \in Dests, JoinQuestion(c, d)
    PROVE  QB!Hold(c, d)
<1> DEFINE q == byDest[d]
<1>1. /\ pc[c] = "reading" /\ q \in pending
      /\ Verdict(d) = "ask" /\ ~Refused(d)
      /\ ask' = ask /\ waits' = [waits EXCEPT ![c] = q]
      /\ pc' = [pc EXCEPT ![c] = "held"]
      /\ UNCHANGED <<decisions, taintLeft>>
  BY DEF JoinQuestion, Asks, Move, boardVars
<1>2. UNCHANGED <<Tainted, boardRule, boardMemory>>
  BY <1>1, SameTaint, SameMemory
<1>3. boardRule[d] = "ask"
  BY <1>1 DEF boardRule
<1>4. {p \in QB!Open : p.dest = d} = {Shown(q)}
  BY <1>1, OpenQuestionsOf
<1>5. q \in Conns /\ ask[q].future = None
  BY <1>1 DEF Bookkeeping, TypeOK, IdsOK
<1>6. ASSUME NEW k \in Conns, k # c
      PROVE  boardAsks'[k] = boardAsks[k] /\ boardLeave'[k] = boardLeave[k]
  BY <1>1, <1>6, StandsStill DEF Bookkeeping, TypeOK
<1>7. boardAsks'[c] = Shown(q) /\ boardLeave'[c] = None
  <2>1. pc'[c] = "held" /\ waits'[c] = q
    BY <1>1 DEF Bookkeeping, TypeOK
  <2> QED
    BY <1>1, <1>5, <2>1, NoneAssumption DEF boardAsks, boardLeave, Waiting, Shown
<1>8. QB!Idle(c)
  BY <1>1, ReadingIsIdle
<1> HIDE DEF q
<1>9. boardAsks' = [boardAsks EXCEPT ![c] = Shown(q)]
  BY <1>6, <1>7 DEF boardAsks
<1>10. boardLeave' = boardLeave
  BY <1>6, <1>7, <1>8 DEF boardLeave, QB!Idle
<1>11. boardThrough' = boardThrough
  BY <1>1 DEF boardThrough, Bookkeeping, TypeOK
<1> QED
  BY <1>2, <1>3, <1>4, <1>8, <1>9, <1>10, <1>11 DEF QB!Hold

\* An open question gets the answer a; those who waited on it may leave.
LEMMA SettleMaps ==
    ASSUME Bookkeeping, Board, NEW q \in pending, NEW a \in {"allow", "deny"},
           UNCHANGED <<taintLeft, boardThrough>>,
           \A p \in Conns \ {q} : ask'[p] = ask[p],
           \A k \in Conns : waits[k] # q =>
               /\ pc'[k] = "held" <=> pc[k] = "held"
               /\ waits'[k] = waits[k],
           \A k \in Conns : waits[k] = q /\ pc'[k] = "held" =>
               /\ waits'[k] = q /\ ask'[q].future = a
               /\ ask'[q].dest = ask[q].dest
    PROVE  /\ QB!Settle(Shown(q))
           /\ boardLeave' = [k \in Conns |->
                 IF waits[k] = q /\ pc'[k] = "held" /\ a = "allow"
                 THEN ask[q].dest ELSE boardLeave[k]]
<1>1. /\ Shown(q) # None
      /\ QB!Waiters(Shown(q)) = {k \in Conns : waits[k] = q}
      /\ \A k \in Conns : waits[k] = q => /\ boardAsks[k] = Shown(q)
                                          /\ boardLeave[k] = None
  BY WaitersOfOpen
<1>2. ASSUME NEW k \in Conns, waits[k] # q
      PROVE  boardAsks'[k] = boardAsks[k] /\ boardLeave'[k] = boardLeave[k]
  <2>1. pc[k] = "held" => waits[k] \in Conns \ {q}
    BY <1>2, HeldHasQuestion
  <2> QED
    BY <1>2, <2>1, StandsStill
<1>3. ASSUME NEW k \in Conns, waits[k] = q
      PROVE  /\ boardAsks'[k] = None
             /\ boardLeave'[k] = IF pc'[k] = "held" /\ a = "allow"
                                 THEN ask[q].dest ELSE None
  <2>1. CASE pc'[k] = "held"
    BY <1>3, <2>1, NoneAssumption DEF boardAsks, boardLeave, Waiting
  <2>2. CASE pc'[k] # "held"
    BY <2>2 DEF boardAsks, boardLeave, Waiting
  <2> QED
    BY <2>1, <2>2
<1>4. boardAsks' = [k \in Conns |-> IF k \in QB!Waiters(Shown(q)) THEN None
                                    ELSE boardAsks[k]]
  BY <1>1, <1>2, <1>3 DEF boardAsks
<1>5. boardLeave' = [k \in Conns |->
                 IF waits[k] = q /\ pc'[k] = "held" /\ a = "allow"
                 THEN ask[q].dest ELSE boardLeave[k]]
  BY <1>1, <1>2, <1>3 DEF boardLeave
<1> QED
  BY <1>4, <1>5, SameTaint DEF QB!Settle

\* What becomes of the memory when the decision e is stored for d.
LEMMA StoreMaps ==
    ASSUME Bookkeeping, NEW d \in Dests, NEW action \in {"allow", "deny"},
           NEW hold, NEW granted, NEW by,
           decisions' = [decisions EXCEPT ![d] = Remember(action, hold, granted, by)]
    PROVE  \E m \in {action, None} : boardMemory' = [boardMemory EXCEPT ![d] = m]
<1> DEFINE e == Remember(action, hold, granted, by)
           m == IF e = None THEN None ELSE e.action
<1>1. m \in {action, None}
  BY DEF Remember
<1>2. ASSUME NEW x \in Dests
      PROVE  boardMemory'[x] = IF x = d THEN m ELSE boardMemory[x]
  BY DEF boardMemory, Bookkeeping, TypeOK
<1>3. boardMemory' = [boardMemory EXCEPT ![d] = m]
  <2> HIDE DEF m
  <2> QED
    BY <1>2 DEF boardMemory
<1> QED
  BY <1>1, <1>3

LEMMA AnswerMaps ==
    ASSUME Bookkeeping, Board, NEW q \in Conns, NEW a \in {"allow", "deny"},
           NEW ttl \in AnswerTTLs, Answer(q, a, ttl)
    PROVE  QB!Next
<1> DEFINE hold == IF ttl # Unset THEN ttl
                   ELSE IF a = "allow" THEN AllowTTL ELSE DenyTTL
           d == ask[q].dest
<1>1. /\ q \in pending /\ ~(a = "allow" /\ Voided(q))
      /\ decisions' = [decisions EXCEPT ![d] = Remember(a, hold, ask[q].tainted, "person")]
      /\ ask' = [ask EXCEPT ![q].future = a]
      /\ UNCHANGED <<pc, waits, taintLeft>>
  BY DEF Answer
<1>2. ask[q] \in Question /\ d \in Dests
  BY <1>1 DEF Bookkeeping, TypeOK, IdsOK, Question
<1>3. /\ \A p \in Conns \ {q} : ask'[p] = ask[p]
      /\ ask'[q].future = a /\ ask'[q].dest = d
  BY <1>1, <1>2 DEF Bookkeeping, TypeOK, Question
<1>4. boardThrough' = boardThrough
  BY <1>1 DEF boardThrough
<1>5. /\ QB!Settle(Shown(q))
      /\ boardLeave' = [k \in Conns |->
            IF waits[k] = q /\ pc'[k] = "held" /\ a = "allow"
            THEN d ELSE boardLeave[k]]
  BY <1>1, <1>3, <1>4, SettleMaps
<1>6. PICK m \in {a, None} : boardMemory' = [boardMemory EXCEPT ![d] = m]
  <2> HIDE DEF hold, d
  <2> QED
    BY <1>1, <1>2, StoreMaps
<1>7. /\ Shown(q) \in QB!Open /\ Shown(q).dest = d
      /\ Shown(q).tainted = ask[q].tainted
      /\ QB!Waiters(Shown(q)) = {k \in Conns : waits[k] = q}
  BY <1>1, WaitersOfOpen DEF Shown
<1>8. CASE a = "allow"
  <2>1. Tainted => Shown(q).tainted
    BY <1>1, <1>7, <1>8 DEF Voided
  <2>2. \A k \in Conns : waits[k] = q => pc'[k] = "held"
    BY <1>1, NoneAssumption DEF Bookkeeping, IdsOK
  <2>3. boardLeave' = [k \in Conns |-> IF k \in QB!Waiters(Shown(q))
                                       THEN Shown(q).dest ELSE boardLeave[k]]
    BY <1>5, <1>7, <1>8, <2>2
  <2>4. QB!Allow(Shown(q))
    BY <1>5, <1>6, <1>7, <1>8, <2>1, <2>3 DEF QB!Allow
  <2> QED
    BY <1>7, <2>4 DEF QB!Next
<1>9. CASE a = "deny"
  <2>1. boardLeave' = boardLeave
    BY <1>5, <1>9 DEF boardLeave
  <2>2. QB!Refuse(Shown(q))
    BY <1>5, <1>6, <1>7, <1>9, <2>1 DEF QB!Refuse
  <2> QED
    BY <1>7, <2>2 DEF QB!Next
<1> QED
  BY <1>8, <1>9

LEMMA AnswerVoidMaps ==
    ASSUME Bookkeeping, Board, NEW q \in Conns, AnswerVoid(q)
    PROVE  QB!Next
<1>1. /\ q \in pending /\ ask' = [ask EXCEPT ![q].future = "deny"]
      /\ UNCHANGED <<pc, waits, decisions, taintLeft>>
  BY DEF AnswerVoid
<1>2. ask[q] \in Question /\ ask[q].dest \in Dests
  BY <1>1 DEF Bookkeeping, TypeOK, IdsOK, Question
<1>3. /\ \A p \in Conns \ {q} : ask'[p] = ask[p]
      /\ ask'[q].future = "deny" /\ ask'[q].dest = ask[q].dest
  BY <1>1, <1>2 DEF Bookkeeping, TypeOK, Question
<1>4. boardThrough' = boardThrough
  BY <1>1 DEF boardThrough
<1>5. /\ QB!Settle(Shown(q))
      /\ boardLeave' = [k \in Conns |->
            IF waits[k] = q /\ pc'[k] = "held" /\ "deny" = "allow"
            THEN ask[q].dest ELSE boardLeave[k]]
  BY <1>1, <1>3, <1>4, SettleMaps
<1>6. boardLeave' = boardLeave
  BY <1>5 DEF boardLeave
<1>7. boardMemory' = [boardMemory EXCEPT ![ask[q].dest] = boardMemory[ask[q].dest]]
  BY <1>1, SameMemory DEF boardMemory
<1>8. Shown(q) \in QB!Open /\ Shown(q).dest = ask[q].dest
  BY <1>1, WaitersOfOpen DEF Shown
<1>9. QB!Refuse(Shown(q))
  BY <1>5, <1>6, <1>7, <1>8 DEF QB!Refuse
<1> QED
  BY <1>8, <1>9 DEF QB!Next

-----------------------------------------------------------------------------
(***************************************************************************)
(* A held connection resumes.                                              *)
(***************************************************************************)
\* If c alone leaves its question, which reads the same, the others stand
\* where they stood.
LEMMA OthersStandStill ==
    ASSUME Bookkeeping, NEW c \in Conns, pc[c] = "held",
           Shift(c, {"closed", "resolving", "dialing"}),
           NEW r \in Question, Detach(c, r),
           /\ r.dest = ask[waits[c]].dest
           /\ r.tainted = ask[waits[c]].tainted
           /\ r.future = ask[waits[c]].future
    PROVE  /\ \A k \in Conns \ {c} : /\ boardAsks'[k] = boardAsks[k]
                                     /\ boardLeave'[k] = boardLeave[k]
           /\ boardAsks'[c] = None /\ boardLeave'[c] = None
           /\ boardThrough' \ {c} = boardThrough \ {c}
           /\ c \notin boardThrough
<1>1. /\ waits' = [waits EXCEPT ![c] = None]
      /\ ask' = [ask EXCEPT ![waits[c]] = IF SharedWith(c) = {} THEN None ELSE r]
      /\ waits[c] \in Conns
  BY HeldHasQuestion DEF Detach
<1>2. /\ pc'[c] # "held"
      /\ \A k \in Conns \ {c} : pc'[k] = "held" <=> pc[k] = "held"
  BY DEF Shift
<1>3. ASSUME NEW k \in Conns \ {c}
      PROVE  boardAsks'[k] = boardAsks[k] /\ boardLeave'[k] = boardLeave[k]
  <2>1. waits'[k] = waits[k]
    BY <1>1 DEF Bookkeeping, TypeOK
  <2>2. CASE waits[k] = waits[c]
    <3>1. ask'[waits[k]] = r
      BY <1>1, <2>2 DEF SharedWith, Bookkeeping, TypeOK
    <3> QED
      BY <1>2, <2>1, <2>2, <3>1, StandsStill
  <2>3. CASE waits[k] # waits[c]
    <3>1. pc[k] = "held" => ask'[waits[k]] = ask[waits[k]]
      BY <1>1, <2>3, HeldHasQuestion DEF Bookkeeping, TypeOK
    <3> QED
      BY <1>2, <2>1, <3>1, StandsStill
  <2> QED
    BY <2>2, <2>3
<1>4. boardAsks'[c] = None /\ boardLeave'[c] = None
  BY <1>2 DEF boardAsks, boardLeave, Waiting
<1>5. boardThrough' \ {c} = boardThrough \ {c} /\ c \notin boardThrough
  BY DEF Shift, boardThrough
<1> QED
  BY <1>3, <1>4, <1>5

LEMMA WakeMaps ==
    ASSUME Bookkeeping, NEW c \in Conns, Wake(c)
    PROVE  QB!Next \/ UNCHANGED QB!vars
<1> DEFINE q == ask[waits[c]]
<1>1. /\ pc[c] = "held" /\ q.future # None /\ Detach(c, q)
      /\ UNCHANGED <<decisions, taintLeft>>
      /\ IF q.future = "allow" THEN Proceed(c, q.dest) ELSE Exit(c)
  BY DEF Wake
<1>2. q \in Question /\ q.dest \in Dests
  BY <1>1, HeldHasQuestion
<1>3. UNCHANGED <<Tainted, boardRule, boardMemory>>
  BY <1>1, SameTaint, SameMemory
<1>4. boardAsks[c] = None
  BY <1>1 DEF boardAsks, Waiting
<1>5. CASE q.future = "allow"
  <2>1. Shift(c, {"resolving", "dialing"})
    BY <1>1, <1>5, ProceedShifts
  <2>2. Shift(c, {"closed", "resolving", "dialing"}) /\ c \in boardThrough'
    BY <2>1 DEF Shift, boardThrough
  <2>3. /\ \A k \in Conns \ {c} : /\ boardAsks'[k] = boardAsks[k]
                                  /\ boardLeave'[k] = boardLeave[k]
        /\ boardAsks'[c] = None /\ boardLeave'[c] = None
        /\ boardThrough' \ {c} = boardThrough \ {c}
    BY <1>1, <1>2, <2>2, OthersStandStill
  <2>4. boardLeave[c] # None
    BY <1>1, <1>2, <1>5, BoardAssumption DEF boardLeave, Waiting
  <2>5. boardAsks' = boardAsks
    BY <1>4, <2>3 DEF boardAsks
  <2>6. boardLeave' = [boardLeave EXCEPT ![c] = None]
    BY <2>3 DEF boardLeave
  <2>7. boardThrough' = boardThrough \cup {c}
    BY <2>2, <2>3
  <2>8. QB!PassWithLeave(c)
    BY <1>3, <2>4, <2>5, <2>6, <2>7 DEF QB!PassWithLeave
  <2> QED
    BY <2>8 DEF QB!Next
<1>6. CASE q.future # "allow"
  <2>1. Shift(c, {"closed"})
    BY <1>1, <1>6, ExitShifts
  <2>2. Shift(c, {"closed", "resolving", "dialing"}) /\ c \notin boardThrough'
    BY <2>1 DEF Shift, boardThrough
  <2>3. /\ \A k \in Conns \ {c} : /\ boardAsks'[k] = boardAsks[k]
                                  /\ boardLeave'[k] = boardLeave[k]
        /\ boardAsks'[c] = None /\ boardLeave'[c] = None
        /\ boardThrough' \ {c} = boardThrough \ {c} /\ c \notin boardThrough
    BY <1>1, <1>2, <2>2, OthersStandStill
  <2>4. boardLeave[c] = None
    BY <1>6 DEF boardLeave, Waiting
  <2>5. boardAsks' = boardAsks
    BY <1>4, <2>3 DEF boardAsks
  <2>6. boardLeave' = boardLeave
    BY <2>3, <2>4 DEF boardLeave
  <2>7. boardThrough' = boardThrough
    BY <2>2, <2>3
  <2> QED
    BY <1>3, <2>5, <2>6, <2>7 DEF QB!vars
<1> QED
  BY <1>5, <1>6

\* Nobody answered: every waiter is refused.
LEMMA TimeoutOfOpenMaps ==
    ASSUME Bookkeeping, Board, NEW c \in Conns, Timeout(c),
           ask[waits[c]].future = None
    PROVE  QB!Next
<1> DEFINE q == waits[c]
           d == ask[q].dest
           r == [ask[q] EXCEPT !.future = IF @ = None THEN "deny" ELSE @]
<1>1. /\ pc[c] = "held" /\ Detach(c, r) /\ Exit(c) /\ taintLeft' = taintLeft
      /\ decisions' = [decisions EXCEPT
             ![d] = Remember("deny", DenyTTL, FALSE, "timeout")]
  BY DEF Timeout
<1>2. q \in Conns /\ ask[q] \in Question /\ d \in Dests
  BY <1>1, HeldHasQuestion
<1>3. q \in pending
  BY <1>2, NoneAssumption DEF Board, Served
<1>4. r.future = "deny" /\ r.dest = d
  BY <1>2 DEF Question
<1>5. Shift(c, {"closed"})
  BY <1>1, ExitShifts
<1>6. /\ waits' = [waits EXCEPT ![c] = None]
      /\ ask' = [ask EXCEPT ![q] = IF SharedWith(c) = {} THEN None ELSE r]
  BY <1>1 DEF Detach
<1>7. boardThrough' = boardThrough
  BY <1>1, <1>5 DEF Shift, boardThrough
<1> HIDE DEF r
<1>8. \A p \in Conns \ {q} : ask'[p] = ask[p]
  BY <1>6 DEF Bookkeeping, TypeOK
<1>9. \A k \in Conns : waits[k] # q => /\ pc'[k] = "held" <=> pc[k] = "held"
                                       /\ waits'[k] = waits[k]
  BY <1>1, <1>5, <1>6 DEF Shift, Bookkeeping, TypeOK
<1>10. ASSUME NEW k \in Conns, waits[k] = q, pc'[k] = "held"
       PROVE  waits'[k] = q /\ ask'[q].future = "deny" /\ ask'[q].dest = d
  <2>1. k # c
    BY <1>5, <1>10 DEF Shift
  <2> QED
    BY <1>2, <1>4, <1>6, <1>10, <2>1 DEF SharedWith, Bookkeeping, TypeOK
<1>11. /\ QB!Settle(Shown(q))
       /\ boardLeave' = [k \in Conns |->
             IF waits[k] = q /\ pc'[k] = "held" /\ "deny" = "allow"
             THEN d ELSE boardLeave[k]]
  <2> HIDE DEF q
  <2> QED
    BY <1>1, <1>3, <1>7, <1>8, <1>9, <1>10, SettleMaps
<1>12. boardLeave' = boardLeave
  BY <1>11 DEF boardLeave
<1>13. PICK m \in {"deny", None} : boardMemory' = [boardMemory EXCEPT ![d] = m]
  <2> HIDE DEF d
  <2> QED
    BY <1>1, <1>2, StoreMaps
<1>14. Shown(q) \in QB!Open /\ Shown(q).dest = d
  BY <1>3, WaitersOfOpen DEF Shown
<1>15. QB!Refuse(Shown(q))
  BY <1>11, <1>12, <1>13, <1>14 DEF QB!Refuse
<1> QED
  BY <1>14, <1>15 DEF QB!Next

\* The question is settled, and the timer takes hold all the same.
LEMMA LateTimeoutMaps ==
    ASSUME Bookkeeping, Board, NEW c \in Conns, Timeout(c),
           ask[waits[c]].future # None
    PROVE  QB!Next
<1> DEFINE q == waits[c]
           d == ask[q].dest
           r == [ask[q] EXCEPT !.future = IF @ = None THEN "deny" ELSE @]
<1>1. /\ pc[c] = "held" /\ Detach(c, r) /\ Exit(c) /\ taintLeft' = taintLeft
      /\ decisions' = [decisions EXCEPT
             ![d] = Remember("deny", DenyTTL, FALSE, "timeout")]
  BY DEF Timeout
<1>2. q \in Conns /\ ask[q] \in Question /\ d \in Dests
  BY <1>1, HeldHasQuestion
<1>3. /\ r \in Question /\ r.dest = d
      /\ r.tainted = ask[q].tainted /\ r.future = ask[q].future
  BY <1>2 DEF Question
<1>4. Shift(c, {"closed"})
  BY <1>1, ExitShifts
<1>5. Shift(c, {"closed", "resolving", "dialing"}) /\ c \notin boardThrough'
  BY <1>4 DEF Shift, boardThrough
<1> HIDE DEF r
<1>6. /\ \A k \in Conns \ {c} : /\ boardAsks'[k] = boardAsks[k]
                                /\ boardLeave'[k] = boardLeave[k]
      /\ boardAsks'[c] = None /\ boardLeave'[c] = None
      /\ boardThrough' \ {c} = boardThrough \ {c} /\ c \notin boardThrough
  BY <1>1, <1>3, <1>5, OthersStandStill
<1>7. boardAsks[c] = None /\ boardLeave[c] \in {None, d}
  BY DEF boardAsks, boardLeave, Waiting
<1>8. boardAsks' = boardAsks
  BY <1>6, <1>7 DEF boardAsks
<1>9. boardLeave' = [boardLeave EXCEPT ![c] = None]
  BY <1>6 DEF boardLeave
<1>10. boardThrough' = boardThrough
  BY <1>5, <1>6
<1>11. \E m \in {"deny", None} : boardMemory' = [boardMemory EXCEPT ![d] = m]
  <2> HIDE DEF d
  <2> QED
    BY <1>1, <1>2, StoreMaps
<1>12. UNCHANGED <<Tainted, boardRule>>
  BY <1>1, SameTaint
<1>13. QB!LateTimer(c, d)
  BY <1>7, <1>8, <1>9, <1>10, <1>11, <1>12 DEF QB!LateTimer
<1> QED
  BY <1>2, <1>13 DEF QB!Next

-----------------------------------------------------------------------------
(***************************************************************************)
(* Taint and time.                                                         *)
(***************************************************************************)
LEMMA TurnMaps ==
    ASSUME Bookkeeping, Bookkeeping', UNCHANGED <<boardAsks, boardLeave, boardThrough>>,
           \A d \in Dests : boardMemory'[d] \in {boardMemory[d], None},
           Tainted' /\ ~Tainted =>
               \A d \in Dests : boardMemory'[d] # "allow"
    PROVE  QB!Next
<1>1. Tainted' \in BOOLEAN
  BY DEF Tainted
<1>2. boardRule' \in [Dests -> {"allow", "ask", "deny"}]
  BY DecideType, PolicyAssumption DEF boardRule, Verdict, Actions
<1>3. Tainted' = Tainted => boardRule' = boardRule
  BY DEF boardRule, Verdict, Refused
<1>4. boardMemory' \in [Dests -> {"allow", "deny", None}]
  BY DEF boardMemory, Bookkeeping, TypeOK, Decision
<1>5. QB!Turn
  BY <1>1, <1>2, <1>3, <1>4 DEF QB!Turn
<1> QED
  BY <1>5 DEF QB!Next

LEMMA TaintMaps ==
    ASSUME Bookkeeping,
           ClearTaint \/ \E ttl \in TaintTTLs : SetTaint(ttl) \/ RaiseTaint(ttl)
    PROVE  QB!Next
<1>1. UNCHANGED <<pc, waits, ask>>
  BY DEF ClearTaint, SetTaint, RaiseTaint, boardVars
<1>2. UNCHANGED <<boardAsks, boardLeave, boardThrough>>
  BY <1>1 DEF boardAsks, boardLeave, boardThrough, Waiting, Shown
<1>3. CASE ClearTaint
  <2>1. ~Tainted' /\ boardMemory' = boardMemory
    BY <1>3, SameMemory DEF ClearTaint, Tainted
  <2> QED
    BY <1>2, <2>1, TaintKeepsBookkeeping, TurnMaps
<1>4. CASE \E ttl \in TaintTTLs : SetTaint(ttl) \/ RaiseTaint(ttl)
  <2>1. PurgeAllows
    BY <1>4 DEF SetTaint, RaiseTaint
  <2>2. ASSUME NEW d \in Dests
        PROVE  /\ boardMemory'[d] \in {boardMemory[d], None}
               /\ ~Tainted => boardMemory'[d] # "allow"
    BY <2>1, NoneAssumption DEF PurgeAllows, boardMemory
  <2> QED
    BY <1>2, <2>2, TaintKeepsBookkeeping, TurnMaps
<1> QED
  BY <1>3, <1>4

LEMMA TickMaps == ASSUME Bookkeeping, Tick PROVE QB!Next
<1>1. UNCHANGED <<pc, waits>>
  BY DEF Tick
<1>2. ASSUME NEW k \in Conns
      PROVE  boardAsks'[k] = boardAsks[k] /\ boardLeave'[k] = boardLeave[k]
  <2>1. pc[k] = "held" => waits[k] \in Conns /\ ask[waits[k]] # None
    BY HeldHasQuestion, NoneAssumption
  <2> QED
    BY <1>1, <2>1, TickTypes, StandsStill
<1>3. UNCHANGED <<boardAsks, boardLeave, boardThrough>>
  <2>1. boardAsks' = boardAsks
    BY <1>2 DEF boardAsks
  <2>2. boardLeave' = boardLeave
    BY <1>2 DEF boardLeave
  <2> QED
    BY <1>1, <2>1, <2>2 DEF boardThrough
<1>4. Tainted' => Tainted
  BY DEF Tick, Tainted, Bookkeeping, TypeOK
<1>5. ASSUME NEW d \in Dests
      PROVE  boardMemory'[d] \in {boardMemory[d], None}
  <2>1. decisions[d] \in Decision \cup {None}
    BY DEF Bookkeeping, TypeOK
  <2>2. \/ decisions'[d] = None
        \/ decisions[d] # None /\ decisions'[d] = [decisions[d] EXCEPT !.left = @ - 1]
    BY DEF Tick
  <2>3. decisions[d] # None =>
           [decisions[d] EXCEPT !.left = @ - 1].action = decisions[d].action
    BY <2>1 DEF Decision
  <2>4. boardMemory'[d] = IF decisions'[d] = None THEN None ELSE decisions'[d].action
    BY DEF boardMemory
  <2> QED
    BY <2>2, <2>3, <2>4 DEF boardMemory
<1> QED
  BY <1>3, <1>4, <1>5, TickKeepsBookkeeping, TurnMaps

-----------------------------------------------------------------------------
LEMMA NextMaps ==
    Bookkeeping /\ Board /\ [Next]_vars => [QB!Next]_(QB!vars)
<1> SUFFICES ASSUME Bookkeeping, Board, [Next]_vars
             PROVE  QB!Next \/ UNCHANGED QB!vars
  OBVIOUS
<1>1. ASSUME NEW c \in Conns, Handle(c) PROVE QB!Next \/ UNCHANGED QB!vars
  <2>1. ASSUME NEW d \in Dests, OpenQuestion(c, d) \/ JoinQuestion(c, d)
        PROVE  QB!Next
    BY <2>1, OpenMaps, JoinMaps DEF QB!Next
  <2>2. CASE Wake(c)
    BY <2>2, WakeMaps
  <2>3. CASE Timeout(c)
    BY <2>3, TimeoutOfOpenMaps, LateTimeoutMaps
  <2>4. CASE \/ Connect(c) \/ BadRequest(c)
             \/ \E d \in Dests : \/ DenyByRule(c, d) \/ RefuseLiteral(c, d)
                                 \/ AllowByRule(c, d) \/ UseRemembered(c, d)
             \/ Resolve(c) \/ Dial(c) \/ CopyEnds(c) \/ TunnelFails(c)
    BY <2>4, PlainStepsMap
  <2> QED
    BY <1>1, <2>1, <2>2, <2>3, <2>4 DEF Handle
<1>2. CASE AdminStep
  BY <1>2, AnswerMaps, AnswerVoidMaps, TaintMaps DEF AdminStep
<1>3. CASE TaintTokenStep
  BY <1>3, TaintMaps DEF TaintTokenStep
<1>4. CASE Tick
  BY <1>4, TickMaps
<1>5. CASE UNCHANGED vars
  <2>1. UNCHANGED <<Tainted, boardRule, boardMemory>>
    BY <1>5, SameTaint, SameMemory DEF vars
  <2>2. UNCHANGED <<boardAsks, boardLeave, boardThrough>>
    BY <1>5 DEF vars, boardAsks, boardLeave, boardThrough, Waiting, Shown
  <2> QED
    BY <2>1, <2>2 DEF QB!vars
<1> QED
  BY <1>1, <1>2, <1>3, <1>4, <1>5 DEF Next

\* Whatever the order of requests, answers, timers and taint, a connection to
\* a destination the policy asks about gets through only with an allow that a
\* person gave, to that destination, knowing of the taint there was: every
\* behaviour of the gate is one of the question board (gate.py:137-197,
\* README, "Ask").
THEOREM GateImplementsBoard == Spec => OnlyAPersonOpens
  BY InitMaps, NextMaps, BookkeepingHolds, BoardHolds, PTL
     DEF Spec, OnlyAPersonOpens, QB!Spec
=============================================================================

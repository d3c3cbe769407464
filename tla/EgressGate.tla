----------------------------- MODULE EgressGate -----------------------------
(***************************************************************************)
(* The egress gate of prax_sandbox/egress_gate/gate.py: a proxy that       *)
(* decides every connection by the policy, by a remembered answer, or by   *)
(* putting a question to a person and holding the connection meanwhile.    *)
(*                                                                         *)
(* The gate is one asyncio loop.  Handlers interleave only where they      *)
(* await, so a stretch of code between two awaits is one action here.      *)
(*                                                                         *)
(* Time is kept as what is left of it: every deadline of the code is a     *)
(* countdown, every "created" stamp an age that stops at the bound it is   *)
(* compared with, and Tick moves them all.  A destination is what          *)
(* _dest_key makes of a request: connections with equal keys share one     *)
(* destination, and the policy sees only what is in the key.               *)
(*                                                                         *)
(* A connection opens at most one question, so the connection that opened  *)
(* a question serves as its id (the code draws ids from a counter).        *)
(***************************************************************************)
EXTENDS EgressPolicy, FiniteSets

CONSTANTS
    Conns,           \* client connections, each used once
    Dests,           \* destinations: [host, port, method, literal]
    Policy,          \* cfg.policy: [rules, default]
    Addrs,           \* addresses the resolver can return
    Reachable,       \* those that are public or in allow_private_addresses
    MaxConnections,  \* cfg.max_connections
    AskTimeout, AllowTTL, DenyTTL, TaintTTL,    \* cfg, in ticks
    AnswerTTLs,      \* "ttl" of POST /pending/<id>: ticks or Unset
    TaintTTLs,       \* "ttl" of POST /taint: ticks or Unset
    Unset, None

ASSUME PolicyAssumption == IsPolicy(Policy)
ASSUME AddrAssumption ==
    /\ Reachable \subseteq Addrs
    /\ \A d \in Dests : d.literal \in Addrs \cup {None}
ASSUME TimeAssumption ==
    /\ MaxConnections \in Nat \ {0}
    /\ AskTimeout \in Nat /\ AllowTTL \in Nat /\ DenyTTL \in Nat
    /\ TaintTTL \in Nat \ {0}
    /\ Unset \notin Nat
    /\ AnswerTTLs \subseteq Nat \cup {Unset}
    /\ TaintTTLs \subseteq Nat \cup {Unset}

VARIABLES
    pc,         \* where each connection's handler is
    waits,      \* the question a held connection awaits
    queue,      \* connections waiting for a slot, first come first served
    free,       \* slots left in the semaphore
    ask,        \* every Pending object somebody still refers to
    pending,    \* _pending: ids of the questions a person can answer
    byDest,     \* _by_dest: destination -> id
    decisions,  \* _decisions: destination -> remembered decision
    taintLeft   \* time left until _tainted_until
vars == <<pc, waits, queue, free, ask, pending, byDest, decisions, taintLeft>>
slotVars  == <<queue, free>>
boardVars == <<ask, pending, byDest>>

\* A handler is: not connected, waiting for a slot, reading the request head,
\* held on a question, in getaddrinfo, in open_connection, copying both ways,
\* copying one way, over.
Stages == {"new", "queued", "reading", "held", "resolving", "dialing",
           "tunnel", "half", "closed"}
Active == {"reading", "held", "resolving", "dialing", "tunnel", "half"}

\* The future of a question is unset (None) or holds the action.  Of `why'
\* only who decided matters; `granted' (granted_while_tainted) is read only of
\* an allow, so it is left FALSE in a deny.
Question == [dest : Dests, tainted : BOOLEAN, age : 0 .. AskTimeout,
             future : {None, "allow", "deny"}]
Decision == [action : {"allow", "deny"}, left : Nat \ {0},
             granted : BOOLEAN, by : {"person", "timeout"}]

ASSUME NoneAssumption ==
    /\ None \notin Conns /\ None \notin Addrs
    /\ None \notin {"allow", "deny"}
    /\ None \notin Question /\ None \notin Decision

Init == /\ pc = [c \in Conns |-> "new"]
        /\ waits = [c \in Conns |-> None]
        /\ queue = <<>>
        /\ free = MaxConnections
        /\ ask = [q \in Conns |-> None]
        /\ pending = {}
        /\ byDest = [d \in Dests |-> None]
        /\ decisions = [d \in Dests |-> None]
        /\ taintLeft = 0

-----------------------------------------------------------------------------
Tainted    == taintLeft > 0
Verdict(d) == Decide(Policy, d, Tainted)

\* literal_refusal: an IP literal that can never be reached.
Refused(d) == d.literal \in Addrs \ Reachable

\* Mutant: an answer with ttl 0 is kept.
RememberAnyway(action, hold, granted, by) ==
    [action |-> action, left |-> hold,
     granted |-> granted /\ action = "allow", by |-> by]

\* An entry that has expired is never read as a decision again, so it is
\* represented by its absence.
Remember(action, hold, granted, by) ==
    IF hold = 0 THEN None
    ELSE [action |-> action, left |-> hold,
          granted |-> granted /\ action = "allow", by |-> by]

\* The lookup in decide: an allow given while clean does not count once the
\* sandbox is tainted.
Recalled(d) ==
    IF /\ decisions[d] # None
       /\ ~(decisions[d].action = "allow" /\ Tainted /\ ~decisions[d].granted)
    THEN decisions[d].action ELSE None

-----------------------------------------------------------------------------
(***************************************************************************)
(* Gate.handle: the connection slots (async with self._slots).             *)
(***************************************************************************)

\* Mutant: a slot that is handed on is counted as free as well.
ExitCountsTwice(c) ==
    /\ queue' = IF queue = <<>> THEN queue ELSE Tail(queue)
    /\ free' = free + 1
    /\ pc' = [k \in Conns |->
                IF k = c THEN "closed"
                ELSE IF queue # <<>> /\ k = Head(queue) THEN "reading"
                ELSE pc[k]]

\* The handler of c is over: the writer is closed, and the slot goes to the
\* connection that has waited longest, if there is one.
Exit(c) ==
    /\ queue' = IF queue = <<>> THEN queue ELSE Tail(queue)
    /\ free' = IF queue = <<>> THEN free + 1 ELSE free
    /\ pc' = [k \in Conns |->
                IF k = c THEN "closed"
                ELSE IF queue # <<>> /\ k = Head(queue) THEN "reading"
                ELSE pc[k]]

Move(c, stage) == pc' = [pc EXCEPT ![c] = stage] /\ UNCHANGED slotVars

Connect(c) ==
    /\ pc[c] = "new"
    /\ IF free > 0
         THEN /\ pc' = [pc EXCEPT ![c] = "reading"]
              /\ free' = free - 1
              /\ queue' = queue
         ELSE /\ pc' = [pc EXCEPT ![c] = "queued"]
              /\ queue' = Append(queue, c)
              /\ free' = free
    /\ UNCHANGED <<waits, boardVars, decisions, taintLeft>>

\* _read_head returned None, the request was malformed (400), or an exception
\* ended the handler before it judged anything.
BadRequest(c) ==
    /\ pc[c] = "reading"
    /\ Exit(c)
    /\ UNCHANGED <<waits, boardVars, decisions, taintLeft>>

-----------------------------------------------------------------------------
(***************************************************************************)
(* Gate._handle and Gate.decide up to the first await after the request    *)
(* head: the policy, then the literal check, then the memory, and only     *)
(* then the question.                                                      *)
(***************************************************************************)

\* After an allow: a name goes to the resolver, a literal needs none.
Proceed(c, d) == Move(c, IF d.literal = None THEN "resolving" ELSE "dialing")

DenyByRule(c, d) ==
    /\ pc[c] = "reading" /\ Verdict(d) = "deny"
    /\ Exit(c)
    /\ UNCHANGED <<waits, boardVars, decisions, taintLeft>>

RefuseLiteral(c, d) ==
    /\ pc[c] = "reading" /\ Verdict(d) # "deny" /\ Refused(d)
    /\ Exit(c)
    /\ UNCHANGED <<waits, boardVars, decisions, taintLeft>>

AllowByRule(c, d) ==
    /\ pc[c] = "reading" /\ Verdict(d) = "allow" /\ ~Refused(d)
    /\ Proceed(c, d)
    /\ UNCHANGED <<waits, boardVars, decisions, taintLeft>>

\* Mutant: the literal check comes after the question.
AsksBeforeLiteral(c, d) == /\ pc[c] = "reading" /\ Verdict(d) = "ask"
                           /\ Recalled(d) = None

\* The request has to be put to a person.
Asks(c, d) == /\ pc[c] = "reading" /\ Verdict(d) = "ask" /\ ~Refused(d)
              /\ Recalled(d) = None

UseRemembered(c, d) ==
    /\ pc[c] = "reading" /\ Verdict(d) = "ask" /\ ~Refused(d)
    /\ Recalled(d) # None
    /\ IF Recalled(d) = "allow" THEN Proceed(c, d) ELSE Exit(c)
    /\ UNCHANGED <<waits, boardVars, decisions, taintLeft>>

\* The first half of _ask.
OpenQuestion(c, d) ==
    /\ Asks(c, d) /\ byDest[d] \notin pending
    /\ ask' = [ask EXCEPT ![c] = [dest |-> d, tainted |-> Tainted, age |-> 0,
                                  future |-> None]]
    /\ pending' = pending \cup {c}
    /\ byDest' = [byDest EXCEPT ![d] = c]
    /\ waits' = [waits EXCEPT ![c] = c]
    /\ Move(c, "held")
    /\ UNCHANGED <<decisions, taintLeft>>

JoinQuestion(c, d) ==
    /\ Asks(c, d) /\ byDest[d] \in pending
    /\ waits' = [waits EXCEPT ![c] = byDest[d]]
    /\ Move(c, "held")
    /\ UNCHANGED <<boardVars, decisions, taintLeft>>

-----------------------------------------------------------------------------
(***************************************************************************)
(* The second half of _ask: the held connection resumes.                   *)
(***************************************************************************)

\* Mutant: the id check is dropped.
ForgetBlindly(q, d) == /\ pending' = pending \ {q}
                       /\ byDest' = [byDest EXCEPT ![d] = None]

\* _forget: the destination may have a newer question by now.
Forget(q, d) ==
    /\ pending' = pending \ {q}
    /\ byDest' = [byDest EXCEPT ![d] = IF @ = q THEN None ELSE @]

SharedWith(c) == {k \in Conns \ {c} : waits[k] = waits[c]}

\* c no longer refers to its question, whose record becomes r.
Detach(c, r) ==
    /\ waits' = [waits EXCEPT ![c] = None]
    /\ ask' = [ask EXCEPT ![waits[c]] = IF SharedWith(c) = {} THEN None ELSE r]

\* The future was set: its result is the decision.
Wake(c) ==
    /\ pc[c] = "held"
    /\ LET q == ask[waits[c]]
       IN  /\ q.future # None
           /\ Detach(c, q)
           /\ IF q.future = "allow" THEN Proceed(c, q.dest) ELSE Exit(c)
    /\ UNCHANGED <<pending, byDest, decisions, taintLeft>>

\* Mutant: off by one.
DueLate(c) == ask[waits[c]].age > AskTimeout

\* remaining (gate.py:161) has run out.  The timer cancels the wait whether or
\* not the future was set meanwhile: until the handler has resumed, the timer
\* wins (asyncio.wait_for as of Python 3.12; the project requires 3.13).
Due(c) == ask[waits[c]].age >= AskTimeout

\* Mutant: the future is left unset.
TimeoutAlone(c) ==
    /\ pc[c] = "held" /\ Due(c)
    /\ LET q == waits[c]
           d == ask[q].dest
       IN  /\ Forget(q, d)
           /\ decisions' = [decisions EXCEPT
                  ![d] = Remember("deny", DenyTTL, FALSE, "timeout")]
           /\ Detach(c, ask[q])
    /\ Exit(c)
    /\ UNCHANGED taintLeft
\* Mutant: the question is never withdrawn.
TimeoutKeepsQuestion(c) ==
    /\ pc[c] = "held" /\ Due(c)
    /\ LET q == waits[c]
           d == ask[q].dest
       IN  /\ decisions' = [decisions EXCEPT
                  ![d] = Remember("deny", DenyTTL, FALSE, "timeout")]
           /\ waits' = [waits EXCEPT ![c] = None]
    /\ Exit(c)
    /\ UNCHANGED <<boardVars, taintLeft>>

\* TimeoutError: the question is withdrawn and every waiter is denied, and the
\* lack of an answer is remembered.
Timeout(c) ==
    /\ pc[c] = "held" /\ Due(c)
    /\ LET q == waits[c]
           d == ask[q].dest
       IN  /\ Forget(q, d)
           /\ decisions' = [decisions EXCEPT
                  ![d] = Remember("deny", DenyTTL, FALSE, "timeout")]
           /\ Detach(c, [ask[q] EXCEPT !.future = IF @ = None THEN "deny" ELSE @])
    /\ Exit(c)
    /\ UNCHANGED taintLeft

-----------------------------------------------------------------------------
(***************************************************************************)
(* The rest of _handle.                                                    *)
(***************************************************************************)

\* public_address and open_connection: every address the name resolves to has
\* to be reachable, and there has to be one.
Resolve(c) ==
    /\ pc[c] = "resolving"
    /\ \E addrs \in SUBSET Addrs :
          IF addrs # {} /\ addrs \subseteq Reachable THEN Move(c, "dialing")
                                                     ELSE Exit(c)
    /\ UNCHANGED <<waits, boardVars, decisions, taintLeft>>

Dial(c) ==
    /\ pc[c] = "dialing"
    /\ Move(c, "tunnel") \/ Exit(c)
    /\ UNCHANGED <<waits, boardVars, decisions, taintLeft>>

\* One _copy has seen the end of its source; gather waits for the other.
CopyEnds(c) ==
    /\ \/ pc[c] = "tunnel" /\ Move(c, "half")
       \/ pc[c] = "half" /\ Exit(c)
    /\ UNCHANGED <<waits, boardVars, decisions, taintLeft>>

\* An exception that _copy does not catch ends both.
TunnelFails(c) ==
    /\ pc[c] \in {"tunnel", "half"}
    /\ Exit(c)
    /\ UNCHANGED <<waits, boardVars, decisions, taintLeft>>

-----------------------------------------------------------------------------
(***************************************************************************)
(* The admin API (handle_admin): each call is one action.  Answering an id *)
(* that is not pending changes nothing and is left out.                    *)
(***************************************************************************)

\* Mutant: what the question was asked under is not looked at.
NeverVoided(q) == FALSE

\* A question asked while clean cannot be allowed once the sandbox is tainted.
Voided(q) == Tainted /\ ~ask[q].tainted

\* "allow" to such a question refuses the request and remembers nothing.
AnswerVoid(q) ==
    /\ q \in pending /\ Voided(q)
    /\ Forget(q, ask[q].dest)
    /\ ask' = [ask EXCEPT ![q].future = "deny"]
    /\ UNCHANGED <<pc, waits, slotVars, decisions, taintLeft>>

Answer(q, action, ttl) ==
    /\ q \in pending
    /\ ~(action = "allow" /\ Voided(q))
    /\ LET hold == IF ttl # Unset THEN ttl
                   ELSE IF action = "allow" THEN AllowTTL ELSE DenyTTL
       IN  decisions' = [decisions EXCEPT
               ![ask[q].dest] = Remember(action, hold, ask[q].tainted, "person")]
    /\ Forget(q, ask[q].dest)
    /\ ask' = [ask EXCEPT ![q].future = action]
    /\ UNCHANGED <<pc, waits, slotVars, taintLeft>>

\* `ttl or self.cfg.taint_ttl': neither nothing nor zero is a time to live.
TaintFor(ttl) == IF ttl \in {Unset, 0} THEN TaintTTL ELSE ttl

\* Mutant: a person's denials are dropped with the allows.
PurgeEverything ==
    decisions' = IF Tainted THEN decisions ELSE [d \in Dests |-> None]

\* Going from clean to tainted drops every remembered allow.
PurgeAllows ==
    decisions' =
        IF Tainted THEN decisions
        ELSE [d \in Dests |->
                IF decisions[d] # None /\ decisions[d].action = "allow"
                  THEN None ELSE decisions[d]]

\* POST /taint with the admin token.
SetTaint(ttl) ==
    /\ taintLeft' = TaintFor(ttl)
    /\ PurgeAllows
    /\ UNCHANGED <<pc, waits, slotVars, boardVars>>

ClearTaint ==
    /\ taintLeft' = 0
    /\ UNCHANGED <<pc, waits, slotVars, boardVars, decisions>>

\* Mutant: the raise-only caller sets the deadline as the admin does.
RaiseTaintResets(ttl) ==
    /\ taintLeft' = TaintFor(ttl)
    /\ PurgeAllows
    /\ UNCHANGED <<pc, waits, slotVars, boardVars>>

\* POST /taint with the taint token (raise_only).
RaiseTaint(ttl) ==
    /\ taintLeft' = IF TaintFor(ttl) > taintLeft THEN TaintFor(ttl) ELSE taintLeft
    /\ PurgeAllows
    /\ UNCHANGED <<pc, waits, slotVars, boardVars>>

-----------------------------------------------------------------------------
\* time.monotonic moves on.
Tick ==
    /\ taintLeft' = IF taintLeft > 0 THEN taintLeft - 1 ELSE 0
    /\ decisions' = [d \in Dests |->
           IF decisions[d] = None THEN None
           ELSE IF decisions[d].left = 1 THEN None
           ELSE [decisions[d] EXCEPT !.left = @ - 1]]
    /\ ask' = [q \in Conns |->
           IF ask[q] = None \/ ask[q].age >= AskTimeout THEN ask[q]
           ELSE [ask[q] EXCEPT !.age = @ + 1]]
    /\ UNCHANGED <<pc, waits, slotVars, pending, byDest>>

Handle(c) ==
    \/ Connect(c) \/ BadRequest(c)
    \/ \E d \in Dests : \/ DenyByRule(c, d) \/ RefuseLiteral(c, d)
                        \/ AllowByRule(c, d) \/ UseRemembered(c, d)
                        \/ OpenQuestion(c, d) \/ JoinQuestion(c, d)
    \/ Wake(c) \/ Timeout(c)
    \/ Resolve(c) \/ Dial(c) \/ CopyEnds(c) \/ TunnelFails(c)

AdminStep ==
    \/ \E q \in Conns :
          \/ AnswerVoid(q)
          \/ \E a \in {"allow", "deny"}, ttl \in AnswerTTLs : Answer(q, a, ttl)
    \/ \E ttl \in TaintTTLs : SetTaint(ttl)
    \/ ClearTaint

TaintTokenStep == \E ttl \in TaintTTLs : RaiseTaint(ttl)

Next == \/ \E c \in Conns : Handle(c)
        \/ AdminStep \/ TaintTokenStep \/ Tick

Spec == Init /\ [][Next]_vars

\* Time passes and the loop runs what is ready.  Nothing makes a client send
\* its request, a tunnel end or a person answer.
Fairness == /\ WF_vars(Tick)
            /\ \A c \in Conns : WF_vars(Wake(c)) /\ WF_vars(Timeout(c))

FairSpec == Spec /\ Fairness

-----------------------------------------------------------------------------
TypeOK ==
    /\ pc \in [Conns -> Stages]
    /\ waits \in [Conns -> Conns \cup {None}]
    /\ queue \in Seq(Conns)
    /\ free \in Nat
    /\ ask \in [Conns -> Question \cup {None}]
    /\ pending \subseteq Conns
    /\ byDest \in [Dests -> Conns \cup {None}]
    /\ decisions \in [Dests -> Decision \cup {None}]
    /\ taintLeft \in Nat

\* Held connections of one destination share one question (README, "Ask"):
\* _pending and _by_dest say the same, however answers, timeouts and new
\* requests interleave.  What can break it is a waiter that resumes late,
\* after its destination has a newer question.
OneQuestionPerDest ==
    \A d \in Dests :
        {q \in pending : ask[q].dest = d}
          = IF byDest[d] = None THEN {} ELSE {byDest[d]}

\* Nobody waits on a question no one can see or answer (gate.py:165), and no
\* one is shown a question that nobody waits on.
HeldIsAnswerable ==
    /\ \A c \in Conns : pc[c] = "held" /\ ask[waits[c]].future = None
                            => waits[c] \in pending
    /\ \A q \in pending : ask[q].future = None
                          /\ \E c \in Conns : pc[c] = "held" /\ waits[c] = q

\* While the sandbox is tainted no remembered allow dates from a clean period
\* (gate.py:124-127), whichever of a request, an answer or a taint call came
\* first.
NoCleanAllowWhileTainted ==
    Tainted => \A d \in Dests :
        decisions[d] # None /\ decisions[d].action = "allow"
            => decisions[d].granted

\* Every slot is free or held by one running handler, and no connection queues
\* for a slot while one is free.
SlotsConserved ==
    /\ free + Cardinality({c \in Conns : pc[c] \in Active}) = MaxConnections
    /\ queue # <<>> => free = 0
    /\ \A c \in Conns : pc[c] = "queued" <=> \E i \in 1 .. Len(queue) : queue[i] = c

\* A person is only asked what an answer can change: never about a literal
\* that is refused anyway, nor about a destination the policy decides under
\* either taint (gate.py:280-285).
QuestionsAreWorthAsking ==
    \A q \in pending :
        /\ ~Refused(ask[q].dest)
        /\ Decide(Policy, ask[q].dest, ask[q].tainted) = "ask"

\* How freely a request for d would get through right now.
Standing(d) ==
    Looseness[IF Refused(d) THEN "deny"
              ELSE IF Verdict(d) = "ask" /\ Recalled(d) # None THEN Recalled(d)
              ELSE Verdict(d)]

\* "The judged party may only make things stricter" (gate.py:403): no call made
\* with the taint token lets a destination through more freely or brings the
\* end of the taint nearer.
TaintTokenOnlyTightens ==
    [][ TaintTokenStep => /\ taintLeft' >= taintLeft
                          /\ \A d \in Dests : Standing(d)' <= Standing(d) ]_vars

\* A person's answer is remembered (README, "Ask"): until it lapses or the
\* sandbox becomes tainted, only another answer replaces it.
AnswerIsRemembered ==
    [][ \A d \in Dests :
          decisions[d] # None /\ decisions[d].by = "person" /\ decisions'[d] # None
              => decisions'[d].by = "person" ]_vars

\* A held connection is released in the end, answer or no answer.
HeldIsReleased == \A c \in Conns : pc[c] = "held" ~> pc[c] # "held"

\* A question does not stay on the board for ever.
QuestionIsWithdrawn == \A q \in Conns : q \in pending ~> q \notin pending
=============================================================================

-------------------------- MODULE RemoteExecProofs --------------------------
(***************************************************************************)
(* The safety of RemoteExec for any number of requests and slots and any   *)
(* deadlines.                                                              *)
(***************************************************************************)
EXTENDS RemoteExec, FiniteSetTheorems, TLAPS

Codes == OwnCodes \cup {TimedOut, Killed, NoCode}

TypeOK ==
    /\ stage \in [Reqs -> {"none", "running", "over", "recording", "done"}]
    /\ timeout \in [Reqs -> Timeouts \cup {0}]
    /\ age \in [Reqs -> Nat]
    /\ termed \in [Reqs -> BOOLEAN]
    /\ code \in [Reqs -> Codes]
    /\ note \in [Reqs -> BOOLEAN]
    /\ stray \subseteq Reqs
    /\ client \in [Reqs -> {"none", "waiting", "answered", "refused", "gaveup"}]
    /\ used \in Int
    /\ up \in BOOLEAN

\* The time a command may run: to its TERM, and then to its KILL.
Bound(r) == Whole(r) + (IF termed[r] THEN KillGrace ELSE 0)

\* What the clocks of a request have brought about.  A command that was sent
\* TERM had a deadline; one that runs has no exit code and is within the time
\* it may run; and so its client has no reason to go, unless the command went well
\* and is recorded.
OnTime(r) ==
    /\ termed[r] => Armed(r)
    /\ stage[r] = "running" => code[r] = NoCode
    /\ stage[r] = "running" /\ Armed(r) => age[r] <= Bound(r)
    /\ Armed(r) /\ client[r] = "gaveup"
          => code[r] = Success /\ stage[r] \in {"recording", "done"}
    /\ stage[r] = "recording" => code[r] = Success

Clocks == \A r \in Reqs : OnTime(r)

-----------------------------------------------------------------------------
LEMMA WholeSeconds ==
    ASSUME NEW t \in Nat
    PROVE  /\ (t \div Second) * Second \in Nat
           /\ (t \div Second) * Second <= t
           /\ t >= Second => (t \div Second) * Second > 0
<1> DEFINE q == t \div Second
           m == t % Second
<1>1. Second \in Nat /\ Second > 0
  BY TimeAssumption
<1>2. q \in Nat /\ m \in Nat /\ m < Second /\ t = Second * q + m
  BY <1>1
<1> HIDE DEF q, m
<1>3. Second * q = q * Second /\ q * Second \in Nat
  BY <1>1, <1>2
<1>4. q * Second <= t
  BY <1>1, <1>2, <1>3
<1>5. ASSUME t >= Second PROVE q * Second > 0
  <2>1. q # 0
    <3> SUFFICES ASSUME q = 0 PROVE FALSE
      OBVIOUS
    <3>1. q * Second = 0
      BY <1>1
    <3> QED
      BY <1>1, <1>2, <1>3, <1>5, <3>1
  <2>2. q >= 1
    BY <1>2, <2>1
  <2>3. q = (q - 1) + 1 /\ q - 1 \in Nat
    BY <1>2, <2>2
  <2>4. q * Second = (q - 1) * Second + Second /\ (q - 1) * Second \in Nat
    BY <1>1, <1>2, <2>3
  <2> QED
    BY <1>1, <2>4
<1> QED
  BY <1>3, <1>4, <1>5 DEF q

LEMMA WholeBounds ==
    ASSUME TypeOK, NEW r \in Reqs
    PROVE  /\ timeout[r] \in Nat
           /\ Whole(r) \in Nat /\ Whole(r) <= timeout[r]
           /\ timeout[r] >= Second => Whole(r) > 0
           /\ Bound(r) \in Nat /\ Bound(r) <= timeout[r] + KillGrace
<1>1. timeout[r] \in Nat /\ KillGrace \in Nat
  <2>1. Timeouts \cup {0} \subseteq Nat /\ KillGrace \in Nat
    BY TimeAssumption
  <2>2. timeout[r] \in Timeouts \cup {0}
    BY DEF TypeOK
  <2> QED
    BY <2>1, <2>2
<1>2. /\ Whole(r) \in Nat /\ Whole(r) <= timeout[r]
      /\ timeout[r] >= Second => Whole(r) > 0
  BY <1>1, WholeSeconds DEF Whole
<1> QED
  BY <1>1, <1>2 DEF Bound

LEMMA SameTimeout ==
    ASSUME NEW r \in Reqs, timeout'[r] = timeout[r]
    PROVE  /\ Whole(r)' = Whole(r) /\ Enforced(r)' = Enforced(r)
           /\ Armed(r)' = Armed(r)
           /\ termed'[r] = termed[r] => Bound(r)' = Bound(r)
BY DEF Whole, Enforced, Armed, Bound

LEMMA TypeStep ==
    ASSUME TypeOK, [Next]_vars
    PROVE  TypeOK'
<1> USE DEF TypeOK, Codes
<1>1. ASSUME NEW r \in Reqs, NEW t \in Timeouts, Call(r, t)
      PROVE  TypeOK'
  BY <1>1 DEF Call
<1>2. ASSUME NEW r \in Reqs, NEW c \in OwnCodes \cup {TimedOut, Killed},
             CommandEnds(r, c)
      PROVE  TypeOK'
  BY <1>2 DEF CommandEnds, Over, TimeoutNote, Enforced
<1>3. ASSUME NEW r \in Reqs, Term(r) \/ Kill(r)
      PROVE  TypeOK'
  BY <1>3 DEF Term, Kill, Over, TimeoutNote, Enforced
<1>4. ASSUME NEW r \in Reqs, Finish(r) \/ Record(r) \/ RecordEnds(r) \/ GiveUp(r)
      PROVE  TypeOK'
  BY <1>4 DEF Finish, Record, RecordEnds, Leave, GiveUp
<1>5. CASE ContainerStops
  BY <1>5 DEF ContainerStops, TimeoutNote, Enforced
<1>6. CASE ContainerStarts
  BY <1>6 DEF ContainerStarts
<1>7. CASE Tick
  BY <1>7 DEF Tick
<1>8. CASE UNCHANGED vars
  BY <1>8 DEF vars
<1> QED
  BY <1>1, <1>2, <1>3, <1>4, <1>5, <1>6, <1>7, <1>8 DEF Next, Step

-----------------------------------------------------------------------------
(***************************************************************************)
(* A step of one request leaves the others as they were.                   *)
(***************************************************************************)
Untouched(k) ==
    /\ stage'[k] = stage[k] /\ timeout'[k] = timeout[k] /\ age'[k] = age[k]
    /\ termed'[k] = termed[k] /\ code'[k] = code[k] /\ note'[k] = note[k]
    /\ client'[k] = client[k]

LEMMA OthersUntouched ==
    ASSUME TypeOK, NEW r \in Reqs, Step(r), NEW k \in Reqs, k # r
    PROVE  Untouched(k)
<1> USE DEF TypeOK, Untouched
<1>1. ASSUME NEW t \in Timeouts, Call(r, t) PROVE Untouched(k)
  BY <1>1 DEF Call
<1>2. ASSUME NEW c \in OwnCodes \cup {TimedOut, Killed}, CommandEnds(r, c)
      PROVE Untouched(k)
  BY <1>2 DEF CommandEnds, Over
<1>3. CASE Term(r) \/ Kill(r) \/ Finish(r) \/ Record(r) \/ RecordEnds(r) \/ GiveUp(r)
  BY <1>3 DEF Term, Kill, Over, Finish, Record, RecordEnds, Leave, GiveUp
<1> QED
  BY <1>1, <1>2, <1>3 DEF Step

LEMMA UntouchedOnTime ==
    ASSUME NEW k \in Reqs, OnTime(k), Untouched(k)
    PROVE  OnTime(k)'
BY SameTimeout DEF OnTime, Untouched

LEMMA OwnStepOnTime ==
    ASSUME TypeOK, Clocks, NEW r \in Reqs, Step(r)
    PROVE  OnTime(r)'
<1>0. OnTime(r) /\ r \in Reqs
  BY DEF Clocks
<1>1. ASSUME NEW t \in Timeouts, Call(r, t) PROVE OnTime(r)'
  <2>1. /\ timeout'[r] = t /\ age'[r] = 0 /\ termed'[r] = FALSE
        /\ code'[r] = NoCode /\ client'[r] # "gaveup" /\ stage'[r] # "recording"
    BY <1>1 DEF Call, TypeOK
  <2>2. t \in Nat /\ KillGrace \in Nat
    BY TimeAssumption
  <2>3. Whole(r)' \in Nat
    BY <2>1, <2>2, WholeSeconds DEF Whole
  <2>4. age'[r] <= Bound(r)'
    BY <2>1, <2>3 DEF Bound
  <2> QED
    BY <2>1, <2>4 DEF OnTime
<1>2. ASSUME NEW c \in OwnCodes \cup {TimedOut, Killed}, CommandEnds(r, c)
      PROVE OnTime(r)'
  <2>1. /\ stage'[r] = "over" /\ timeout'[r] = timeout[r] /\ termed'[r] = termed[r]
        /\ client'[r] = client[r] /\ stage[r] = "running"
    BY <1>2 DEF CommandEnds, Over, TypeOK
  <2> QED
    BY <1>0, <2>1, SameTimeout DEF OnTime
<1>3. CASE Kill(r)
  <2>1. /\ stage'[r] = "over" /\ timeout'[r] = timeout[r] /\ termed'[r] = termed[r]
        /\ client'[r] = client[r] /\ stage[r] = "running"
    BY <1>3 DEF Kill, KillDue, Over, TypeOK
  <2> QED
    BY <1>0, <2>1, SameTimeout DEF OnTime
<1>4. CASE Term(r)
  <2>1. /\ stage'[r] = "running" /\ timeout'[r] = timeout[r] /\ termed'[r] = TRUE
        /\ client'[r] = client[r] /\ age'[r] = age[r] /\ code'[r] = code[r]
        /\ stage[r] = "running" /\ Armed(r) /\ ~termed[r]
    BY <1>4 DEF Term, TermDue, TypeOK
  <2>2. Whole(r)' = Whole(r) /\ Armed(r)' = Armed(r) /\ Whole(r) \in Nat
    BY <2>1, SameTimeout, WholeBounds
  <2>3. age[r] <= Whole(r) /\ age[r] \in Nat /\ KillGrace \in Nat
    BY <1>0, <2>1, <2>2, TimeAssumption DEF OnTime, Bound, TypeOK
  <2>4. age'[r] <= Bound(r)'
    BY <2>1, <2>2, <2>3 DEF Bound
  <2> QED
    BY <1>0, <2>1, <2>2, <2>4 DEF OnTime
<1>5. CASE Finish(r) \/ RecordEnds(r)
  <2>1. /\ stage'[r] = "done" /\ timeout'[r] = timeout[r] /\ termed'[r] = termed[r]
        /\ code'[r] = code[r] /\ stage[r] \in {"over", "recording"}
        /\ client[r] # "gaveup" => client'[r] # "gaveup"
    BY <1>5 DEF Finish, RecordEnds, Leave, TypeOK
  <2> QED
    BY <1>0, <2>1, SameTimeout DEF OnTime
<1>7. CASE Record(r)
  <2>1. /\ stage'[r] = "recording" /\ timeout'[r] = timeout[r] /\ termed'[r] = termed[r]
        /\ code'[r] = code[r] /\ code[r] = Success /\ client'[r] = client[r]
    BY <1>7 DEF Record, TypeOK
  <2> QED
    BY <1>0, <2>1, SameTimeout DEF OnTime
<1>6. CASE GiveUp(r)
  <2>1. /\ stage'[r] = stage[r] /\ timeout'[r] = timeout[r] /\ termed'[r] = termed[r]
        /\ age'[r] = age[r] /\ code'[r] = code[r]
        /\ stage[r] \in {"running", "recording"} /\ age[r] >= ClientLimit(r)
    BY <1>6 DEF GiveUp, GiveUpDue, Busy, TypeOK
  <2>2. Armed(r) => stage[r] # "running"
    <3> SUFFICES ASSUME Armed(r), stage[r] = "running" PROVE FALSE
      OBVIOUS
    <3>1. age[r] <= Bound(r) /\ age[r] \in Nat
      BY <1>0 DEF OnTime, TypeOK
    <3>2. /\ timeout[r] \in Nat /\ Bound(r) \in Nat
          /\ Bound(r) <= timeout[r] + KillGrace
      BY WholeBounds
    <3>3. Margin \in Nat /\ DaemonTimeout \in Nat /\ KillGrace \in Nat /\ KillGrace < Margin
      BY TimeAssumption, MarginAssumption
    <3>4. timeout[r] + Margin <= ClientLimit(r) /\ ClientLimit(r) \in Nat
      BY <3>2, <3>3 DEF ClientLimit
    <3> QED
      BY <2>1, <3>1, <3>2, <3>3, <3>4
  <2> QED
    BY <1>0, <2>1, <2>2, SameTimeout DEF OnTime
<1> QED
  BY <1>1, <1>2, <1>3, <1>4, <1>5, <1>6, <1>7 DEF Step

LEMMA ClocksStep ==
    ASSUME TypeOK, Clocks, [Next]_vars
    PROVE  Clocks'
<1> SUFFICES ASSUME NEW k \in Reqs PROVE OnTime(k)'
  BY DEF Clocks
<1>0. OnTime(k)
  BY DEF Clocks
<1>1. ASSUME NEW r \in Reqs, Step(r) PROVE OnTime(k)'
  BY <1>0, <1>1, OwnStepOnTime, OthersUntouched, UntouchedOnTime
<1>2. CASE ContainerStops
  <2>1. /\ timeout'[k] = timeout[k] /\ age'[k] = age[k] /\ termed'[k] = termed[k]
        /\ client'[k] = client[k] /\ stage'[k] # "running"
        /\ stage[k] = "running"
           \/ (stage'[k] = stage[k] /\ code'[k] = code[k])
        /\ stage[k] = "running" => stage'[k] = "over"
    BY <1>2 DEF ContainerStops, TypeOK
  <2> QED
    BY <1>0, <2>1, SameTimeout DEF OnTime
<1>3. CASE ContainerStarts \/ UNCHANGED vars
  <2>1. Untouched(k)
    BY <1>3 DEF ContainerStarts, vars, Untouched
  <2> QED
    BY <1>0, <2>1, UntouchedOnTime
<1>4. CASE Tick
  <2>1. /\ timeout'[k] = timeout[k] /\ termed'[k] = termed[k] /\ stage'[k] = stage[k]
        /\ client'[k] = client[k] /\ code'[k] = code[k]
        /\ age'[k] = age[k] \/ age'[k] = age[k] + 1
        /\ ~TermDue(k) /\ ~KillDue(k)
    BY <1>4 DEF Tick, TypeOK
  <2>2. Armed(k)' = Armed(k) /\ Bound(k)' = Bound(k)
    BY <2>1, SameTimeout
  <2>3. /\ Whole(k) \in Nat /\ age[k] \in Nat /\ KillGrace \in Nat
        /\ termed[k] \in BOOLEAN
    BY WholeBounds, TimeAssumption DEF TypeOK
  <2>4. ASSUME stage[k] = "running", Armed(k) PROVE age'[k] <= Bound(k)
    <3>1. CASE termed[k]
      BY <1>0, <2>1, <2>3, <2>4, <3>1 DEF KillDue, Bound, OnTime
    <3>2. CASE ~termed[k]
      BY <1>0, <2>1, <2>3, <2>4, <3>2 DEF TermDue, Bound, OnTime
    <3> QED
      BY <3>1, <3>2
  <2> QED
    BY <1>0, <2>1, <2>2, <2>4 DEF OnTime
<1> QED
  BY <1>1, <1>2, <1>3, <1>4 DEF Next

-----------------------------------------------------------------------------
(***************************************************************************)
(* What stderr says about a request.                                       *)
(***************************************************************************)
Told(r) ==
    /\ note[r] => termed[r] \/ age[r] >= timeout[r]
    /\ termed[r] /\ (code[r] = TimedOut \/ (code[r] = Killed /\ age[r] >= timeout[r]))
          => note[r]
    /\ stage[r] = "running" => ~note[r]

Notes == \A r \in Reqs : Told(r)

LEMMA UntouchedTold ==
    ASSUME NEW k \in Reqs, Told(k), Untouched(k)
    PROVE  Told(k)'
BY DEF Told, Untouched

\* The command is over: code and note are written together.
LEMMA OverTold ==
    ASSUME TypeOK, Clocks, NEW r \in Reqs, NEW c,
           timeout'[r] = timeout[r], age'[r] = age[r], termed'[r] = termed[r],
           code'[r] = c, note'[r] = TimeoutNote(r, c), stage'[r] = "over",
           c = TimedOut => termed[r]
    PROVE  Told(r)'
<1>1. termed[r] => Enforced(r)
  BY DEF Clocks, OnTime, Armed
<1> QED
  BY <1>1 DEF Told, TimeoutNote, TimedOut, Killed

LEMMA NotesStep ==
    ASSUME TimedOut \notin OwnCodes, TypeOK, Clocks, Notes, [Next]_vars
    PROVE  Notes'
<1> SUFFICES ASSUME NEW k \in Reqs PROVE Told(k)'
  BY DEF Notes
<1>0. Told(k) /\ OnTime(k)
  BY DEF Notes, Clocks
<1>1. ASSUME NEW r \in Reqs, Step(r), r # k PROVE Told(k)'
  BY <1>0, <1>1, OthersUntouched, UntouchedTold
<1>2. ASSUME NEW t \in Timeouts, Call(k, t) PROVE Told(k)'
  <2>1. note'[k] = FALSE /\ termed'[k] = FALSE
    BY <1>2 DEF Call, TypeOK
  <2> QED
    BY <2>1 DEF Told
<1>3. ASSUME NEW c \in OwnCodes \cup {TimedOut, Killed}, CommandEnds(k, c)
      PROVE Told(k)'
  <2>1. /\ timeout'[k] = timeout[k] /\ age'[k] = age[k] /\ termed'[k] = termed[k]
        /\ code'[k] = c /\ note'[k] = TimeoutNote(k, c) /\ stage'[k] = "over"
        /\ c = TimedOut => termed[k]
    BY <1>3 DEF CommandEnds, Over, TypeOK
  <2> QED
    BY <2>1, OverTold
<1>4. CASE Kill(k)
  <2>1. /\ timeout'[k] = timeout[k] /\ age'[k] = age[k] /\ termed'[k] = termed[k]
        /\ code'[k] = Killed /\ note'[k] = TimeoutNote(k, Killed)
        /\ stage'[k] = "over" /\ Killed # TimedOut
    BY <1>4 DEF Kill, Over, TypeOK, Killed, TimedOut
  <2> QED
    BY <2>1, OverTold
<1>5. CASE Term(k)
  <2>1. /\ note'[k] = note[k] /\ code'[k] = NoCode
        /\ stage[k] = "running"
    BY <1>0, <1>5 DEF Term, TermDue, OnTime
  <2> QED
    BY <1>0, <2>1 DEF Told, NoCode, TimedOut, Killed
<1>6. CASE Finish(k) \/ Record(k) \/ RecordEnds(k) \/ GiveUp(k)
  <2>1. /\ note'[k] = note[k] /\ code'[k] = code[k] /\ termed'[k] = termed[k]
        /\ age'[k] = age[k] /\ timeout'[k] = timeout[k]
        /\ stage'[k] = "running" => stage[k] = "running"
    BY <1>6 DEF Finish, Record, RecordEnds, Leave, GiveUp, TypeOK
  <2> QED
    BY <1>0, <2>1 DEF Told
<1>7. CASE ContainerStops
  <2>1. CASE stage[k] = "running"
    <3>1. /\ timeout'[k] = timeout[k] /\ age'[k] = age[k] /\ termed'[k] = termed[k]
          /\ code'[k] = Killed /\ note'[k] = TimeoutNote(k, Killed)
          /\ stage'[k] = "over" /\ Killed # TimedOut
      BY <1>7, <2>1 DEF ContainerStops, Killed, TimedOut
    <3> QED
      BY <3>1, OverTold
  <2>2. CASE stage[k] # "running"
    <3>1. Untouched(k)
      BY <1>7, <2>2 DEF ContainerStops, Untouched
    <3> QED
      BY <1>0, <3>1, UntouchedTold
  <2> QED
    BY <2>1, <2>2
<1>8. CASE ContainerStarts \/ UNCHANGED vars
  <2>1. Untouched(k)
    BY <1>8 DEF ContainerStarts, vars, Untouched
  <2> QED
    BY <1>0, <2>1, UntouchedTold
<1>9. CASE Tick
  <2>1. /\ note'[k] = note[k] /\ code'[k] = code[k] /\ termed'[k] = termed[k]
        /\ timeout'[k] = timeout[k] /\ stage'[k] = stage[k]
        /\ stage[k] \in {"running", "recording"} \/ age'[k] = age[k]
    BY <1>9 DEF Tick, Busy
  <2>2. CASE stage[k] = "running"
    BY <1>0, <2>1, <2>2 DEF Told, OnTime, NoCode, TimedOut, Killed
  <2>3. CASE stage[k] = "recording"
    <3>1. code[k] # TimedOut /\ code[k] # Killed
      BY <1>0, <2>3 DEF OnTime, Success, TimedOut, Killed
    <3>2. note[k] => termed'[k] \/ age'[k] >= timeout'[k]
      BY <1>0, <2>1, <1>9, <2>3, WholeBounds DEF Told, Tick, TypeOK
    <3> QED
      BY <2>1, <2>3, <3>1, <3>2 DEF Told
  <2>4. CASE stage[k] \notin {"running", "recording"}
    BY <1>0, <2>1, <2>4 DEF Told
  <2> QED
    BY <2>2, <2>3, <2>4
<1> QED
  BY <1>1, <1>2, <1>3, <1>4, <1>5, <1>6, <1>7, <1>8, <1>9 DEF Next, Step

-----------------------------------------------------------------------------
(***************************************************************************)
(* The slots of _Limiter.                                                  *)
(***************************************************************************)
InFlight == {r \in Reqs : Busy(r) \/ stage[r] = "over"}

LEMMA SlotsStep ==
    ASSUME TypeOK, SlotsConserved, [Next]_vars
    PROVE  SlotsConserved'
<1>0. /\ IsFiniteSet(InFlight) /\ used = Cardinality(InFlight) /\ used <= MaxExec
      /\ used \in Nat /\ MaxExec \in Nat
  <2>1. IsFiniteSet(InFlight)
    BY ReqsAssumption, FS_Subset DEF InFlight
  <2> QED
    BY <2>1, FS_CardinalityType, LimitAssumption DEF SlotsConserved, InFlight
<1>1. ASSUME InFlight' = InFlight, used' = used PROVE SlotsConserved'
  BY <1>0, <1>1 DEF SlotsConserved, InFlight
<1>2. ASSUME NEW r \in Reqs, NEW t \in Timeouts, Call(r, t) PROVE SlotsConserved'
  <2>1. CASE used = MaxExec
    BY <1>1, <1>2, <2>1 DEF Call, InFlight, Busy, TypeOK
  <2>2. CASE used # MaxExec
    <3>1. InFlight' = InFlight \cup {r} /\ r \notin InFlight /\ used' = used + 1
      BY <1>2, <2>2 DEF Call, InFlight, Busy, TypeOK
    <3>2. Cardinality(InFlight \cup {r}) = Cardinality(InFlight) + 1
      BY <1>0, <3>1, FS_AddElement
    <3> QED
      BY <1>0, <2>2, <3>1, <3>2 DEF SlotsConserved, InFlight, Busy
  <2> QED
    BY <2>1, <2>2
<1>3. ASSUME NEW r \in Reqs, Finish(r) \/ RecordEnds(r) PROVE SlotsConserved'
  <2>1. InFlight' = InFlight \ {r} /\ r \in InFlight /\ used' = used - 1
    BY <1>3 DEF Finish, RecordEnds, Leave, InFlight, Busy, TypeOK
  <2>2. Cardinality(InFlight \ {r}) = Cardinality(InFlight) - 1
    BY <1>0, <2>1, FS_RemoveElement
  <2>3. used' = Cardinality(InFlight') /\ used' <= MaxExec
    BY <1>0, <2>1, <2>2
  <2> QED
    BY <2>3 DEF SlotsConserved, InFlight
<1>4. ASSUME NEW r \in Reqs, NEW c, CommandEnds(r, c) PROVE SlotsConserved'
  BY <1>1, <1>4 DEF CommandEnds, Over, InFlight, Busy, TypeOK
<1>5. ASSUME NEW r \in Reqs, Term(r) \/ Kill(r) \/ Record(r) \/ GiveUp(r)
      PROVE SlotsConserved'
  BY <1>1, <1>5 DEF Term, Kill, KillDue, Over, Record, GiveUp, InFlight, Busy, TypeOK
<1>6. CASE ContainerStops
  BY <1>1, <1>6 DEF ContainerStops, InFlight, Busy
<1>7. CASE ContainerStarts \/ Tick \/ UNCHANGED vars
  <2>1. UNCHANGED <<stage, used>>
    BY <1>7 DEF ContainerStarts, Tick, vars
  <2> QED
    BY <1>1, <2>1 DEF InFlight, Busy
<1> QED
  BY <1>2, <1>3, <1>4, <1>5, <1>6, <1>7 DEF Next, Step

-----------------------------------------------------------------------------
LEMMA InitHolds == Init => TypeOK /\ Clocks /\ Notes /\ SlotsConserved
<1> SUFFICES ASSUME Init PROVE TypeOK /\ Clocks /\ Notes /\ SlotsConserved
  OBVIOUS
<1>1. TypeOK
  BY DEF Init, TypeOK, Codes
<1>2. Clocks
  BY DEF Init, Clocks, OnTime, Armed, Enforced
<1>3. Notes
  BY DEF Init, Notes, Told
<1>4. InFlight = {}
  BY DEF Init, InFlight, Busy
<1>5. SlotsConserved
  BY <1>4, FS_EmptySet, LimitAssumption DEF Init, InFlight, SlotsConserved
<1> QED
  BY <1>1, <1>2, <1>3, <1>5

\* TypeOK: every variable keeps its shape, whatever the commands and the
\* container do.
THEOREM TypesHold == Spec => []TypeOK
<1>1. Init => TypeOK
  BY InitHolds
<1> QED
  BY <1>1, TypeStep, PTL DEF Spec

\* Clocks: no command runs beyond its time, and no deadline of the client is
\* met before that of the command.
THEOREM ClocksHold == Spec => []Clocks
<1>1. Init => Clocks
  BY InitHolds
<1>2. TypeOK /\ Clocks /\ [Next]_vars => Clocks'
  BY ClocksStep
<1> QED
  BY <1>1, <1>2, TypesHold, PTL DEF Spec

\* _Limiter (daemon/app.py): however commands end, whoever gives up and
\* whatever the container does, the slots taken are those of the handlers
\* inside it, never more than there are.
THEOREM SlotsAreConserved == Spec => []SlotsConserved
<1>1. Init => SlotsConserved
  BY InitHolds
<1>2. TypeOK /\ SlotsConserved /\ [Next]_vars => SlotsConserved'
  BY SlotsStep
<1> QED
  BY <1>1, <1>2, TypesHold, PTL DEF Spec

\* DeadlineIsKept (exec_in_sandbox): a command with a timeout of a second or
\* more is gone a grace period after it.
THEOREM DeadlinesAreKept == Spec => []DeadlineIsKept
<1>1. TypeOK /\ Clocks => DeadlineIsKept
  <2> SUFFICES ASSUME TypeOK, Clocks, NEW r \in Reqs,
                      Enforced(r), timeout[r] >= Second, stage[r] = "running"
               PROVE  age[r] <= timeout[r] + KillGrace
    BY DEF DeadlineIsKept
  <2>1. /\ timeout[r] \in Nat /\ Bound(r) \in Nat
        /\ Bound(r) <= timeout[r] + KillGrace /\ Whole(r) > 0
    BY WholeBounds
  <2>2. age[r] <= Bound(r) /\ age[r] \in Nat /\ KillGrace \in Nat
    BY <2>1, TimeAssumption DEF Clocks, OnTime, Armed, TypeOK
  <2> QED
    BY <2>1, <2>2
<1> QED
  BY <1>1, TypesHold, ClocksHold, PTL

\* NoAnswerIsLost (HttpTransport's own deadline): with a margin longer than
\* the grace period, the client of a command that has a deadline is still
\* there when it is over; it can only give up on the records of one that went
\* well.
THEOREM AnswersAreAwaited == Spec => []NoAnswerIsLost
<1>1. Clocks => NoAnswerIsLost
  BY DEF Clocks, OnTime, NoAnswerIsLost
<1> QED
  BY <1>1, ClocksHold, PTL

\* NoteMeansDeadline (exec.py): as long as commands do not exit with 124 of
\* their own accord, what stderr says of a timeout is so.
THEOREM NotesAreTrue ==
    ASSUME TimedOut \notin OwnCodes
    PROVE  Spec => []NoteMeansDeadline
<1>1. Init => Notes
  BY InitHolds
<1>2. TypeOK /\ Clocks /\ Notes /\ [Next]_vars => Notes'
  BY NotesStep
<1>3. Notes => NoteMeansDeadline
  BY DEF Notes, Told, NoteMeansDeadline
<1> QED
  BY <1>1, <1>2, <1>3, TypesHold, ClocksHold, PTL DEF Spec
=============================================================================

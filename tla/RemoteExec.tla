----------------------------- MODULE RemoteExec -----------------------------
(***************************************************************************)
(* A command run through the remote daemon: HttpTransport waits with a     *)
(* deadline of its own, the daemon admits a few at a time (_Limiter), and  *)
(* exec_in_sandbox runs each under coreutils timeout, which signals TERM,  *)
(* then KILL.  The container may be restarted under all of them.           *)
(*                                                                         *)
(* Time is counted in ticks, Second of them to a second.  The way there    *)
(* and back takes no tick: the margins of the deadlines are what is left.  *)
(***************************************************************************)
EXTENDS Integers, FiniteSets

CONSTANTS
    Reqs,           \* requests under way at the same time
    Timeouts,       \* the timeouts they ask for, in ticks
    Second,         \* ticks in a second
    KillGrace,      \* _KILL_GRACE_SECONDS, in ticks
    Margin,         \* what run_shell and run_command add for the way, in ticks
    DaemonTimeout,  \* daemon_timeout, in ticks
    MaxExec,        \* max_concurrent_exec
    Enforce,        \* enforce_exec_timeout
    OwnCodes,       \* how commands may end on their own
    Horizon         \* bound: ages are not told apart beyond it

ASSUME TimeAssumption ==
    /\ Second \in Nat \ {0} /\ KillGrace \in Nat /\ Margin \in Nat
    /\ DaemonTimeout \in Nat /\ Timeouts \subseteq Nat /\ Horizon \in Nat
    /\ \A t \in Timeouts : t + KillGrace + Margin + DaemonTimeout < Horizon
ASSUME LimitAssumption == MaxExec \in Nat \ {0} /\ Enforce \in BOOLEAN
\* _KILL_GRACE_SECONDS is 5; transport.py adds 30 seconds for the way.
ASSUME MarginAssumption == KillGrace < Margin
ASSUME ReqsAssumption == IsFiniteSet(Reqs)

TimedOut == 124
Killed   == 137
NoCode   == -1
Success  == 0

VARIABLES
    stage,    \* "none", "running" in the container, "over": exec_run is back,
              \* "recording" what was installed, "done"
    timeout,  \* what each asked for
    age,      \* ticks since the call, while it runs or records
    termed,   \* coreutils timeout has signalled TERM
    code,     \* exit code; NoCode also when the exec raised
    note,     \* stderr carries "command timed out ... and was stopped"
    stray,    \* requests whose command left a process behind
    client,   \* "none", "waiting", "answered", "refused" (429), "gaveup"
    used,     \* slots of _Limiter taken
    up        \* the container is running
vars == <<stage, timeout, age, termed, code, note, stray, client, used, up>>

-----------------------------------------------------------------------------
\* exec_in_sandbox wraps the command if the flag is set and timeout > 0, with
\* int(timeout); coreutils takes 0 for no deadline.
Enforced(r) == Enforce /\ timeout[r] > 0
Whole(r) == (timeout[r] \div Second) * Second

\* Mutant: deadlines of a single second are lost.
ArmedLate(r) == Enforced(r) /\ Whole(r) > Second

Armed(r) == Enforced(r) /\ Whole(r) > 0

\* Mutant: the client waits exactly as long as the command may run.
ClientLimitTight(r) == timeout[r]

ClientLimit(r) == IF timeout[r] + Margin > DaemonTimeout
                  THEN timeout[r] + Margin ELSE DaemonTimeout

\* Mutant: the exit code alone decides.
TimeoutNoteByCode(r, c) == Enforced(r) /\ c \in {TimedOut, Killed}

\* 137 counts only after the deadline.
TimeoutNote(r, c) ==
    Enforced(r) /\ (c = TimedOut \/ (c = Killed /\ age[r] >= timeout[r]))

Init == /\ stage = [r \in Reqs |-> "none"]
        /\ timeout = [r \in Reqs |-> 0]
        /\ age = [r \in Reqs |-> 0]
        /\ termed = [r \in Reqs |-> FALSE]
        /\ code = [r \in Reqs |-> NoCode]
        /\ note = [r \in Reqs |-> FALSE]
        /\ stray = {}
        /\ client = [r \in Reqs |-> "none"]
        /\ used = 0
        /\ up = TRUE

-----------------------------------------------------------------------------
\* HttpTransport.run_shell or run_command, and the daemon's handler up to
\* exec_run.  Without a free slot it answers 429 at once; without a running
\* container the exec raises.  r is a new request each time.
Call(r, t) ==
    /\ stage[r] \in {"none", "done"} /\ client[r] # "waiting"
    /\ timeout' = [timeout EXCEPT ![r] = t]
    /\ age' = [age EXCEPT ![r] = 0]
    /\ termed' = [termed EXCEPT ![r] = FALSE]
    /\ code' = [code EXCEPT ![r] = NoCode]
    /\ note' = [note EXCEPT ![r] = FALSE]
    /\ stray' = stray \ {r}
    /\ IF used = MaxExec
       THEN /\ client' = [client EXCEPT ![r] = "refused"]
            /\ stage' = [stage EXCEPT ![r] = "none"]
            /\ UNCHANGED used
       ELSE /\ client' = [client EXCEPT ![r] = "waiting"]
            /\ stage' = [stage EXCEPT ![r] = IF up THEN "running" ELSE "over"]
            /\ used' = used + 1
    /\ UNCHANGED up

Over(r, c) ==
    /\ stage' = [stage EXCEPT ![r] = "over"]
    /\ code' = [code EXCEPT ![r] = c]
    /\ note' = [note EXCEPT ![r] = TimeoutNote(r, c)]

\* The command ends: on its own, or on TERM, which timeout turns into 124
\* (137 if the memory limit was quicker).  timeout watches the shell only: a
\* child that ignores TERM may outlive it.
CommandEnds(r, c) ==
    /\ stage[r] = "running"
    /\ IF termed[r] THEN c \in {TimedOut, Killed} ELSE c \in OwnCodes
    /\ Over(r, c)
    /\ stray' \in IF termed[r] THEN {stray, stray \cup {r}} ELSE {stray}
    /\ UNCHANGED <<timeout, age, termed, client, used, up>>

TermDue(r) == stage[r] = "running" /\ Armed(r) /\ ~termed[r] /\ age[r] >= Whole(r)
KillDue(r) == stage[r] = "running" /\ termed[r] /\ age[r] >= Whole(r) + KillGrace

\* coreutils timeout: TERM to the process group at the deadline ...
Term(r) ==
    /\ TermDue(r)
    /\ termed' = [termed EXCEPT ![r] = TRUE]
    /\ UNCHANGED <<stage, timeout, age, code, note, stray, client, used, up>>

\* Mutant: no -k, so only TERM is sent.
KillNever(r) == FALSE /\ UNCHANGED vars

\* ... and KILL to whatever of it still runs.
Kill(r) ==
    /\ KillDue(r)
    /\ Over(r, Killed)
    /\ UNCHANGED <<timeout, age, termed, stray, client, used, up>>

\* Mutant: the slot is given back only on the way of a result.
FinishOnResult(r) ==
    /\ stage[r] = "over"
    /\ stage' = [stage EXCEPT ![r] = "done"]
    /\ used' = IF code[r] = NoCode THEN used ELSE used - 1
    /\ client' = [client EXCEPT ![r] = IF @ = "waiting" THEN "answered" ELSE @]
    /\ UNCHANGED <<timeout, age, termed, code, note, stray, up>>

\* The handler leaves "async with exec_limit", with a result or an error.
Leave(r) ==
    /\ stage' = [stage EXCEPT ![r] = "done"]
    /\ used' = used - 1
    /\ client' = [client EXCEPT ![r] = IF @ = "waiting" THEN "answered" ELSE @]
    /\ UNCHANGED <<timeout, age, termed, code, note, stray, up>>

Finish(r) == stage[r] = "over" /\ Leave(r)

\* run_shell of a pip or npm install that went well writes the records first,
\* with further execs inside the limiter that no deadline bounds; what becomes
\* of them changes nothing of the answer.
Record(r) ==
    /\ stage[r] = "over" /\ code[r] = Success
    /\ stage' = [stage EXCEPT ![r] = "recording"]
    /\ UNCHANGED <<timeout, age, termed, code, note, stray, client, used, up>>

RecordEnds(r) == stage[r] = "recording" /\ Leave(r)

Busy(r) == stage[r] \in {"running", "recording"}
GiveUpDue(r) == client[r] = "waiting" /\ Busy(r) /\ age[r] >= ClientLimit(r)

\* requests raises; nothing tells the daemon, whose thread goes on.
GiveUp(r) ==
    /\ GiveUpDue(r)
    /\ client' = [client EXCEPT ![r] = "gaveup"]
    /\ UNCHANGED <<stage, timeout, age, termed, code, note, stray, used, up>>

\* docker restart stops every process of the container; execs get 137.
ContainerStops ==
    /\ up /\ up' = FALSE
    /\ LET hit == {r \in Reqs : stage[r] = "running"}
       IN /\ stage' = [r \in Reqs |-> IF r \in hit THEN "over" ELSE stage[r]]
          /\ code' = [r \in Reqs |-> IF r \in hit THEN Killed ELSE code[r]]
          /\ note' = [r \in Reqs |-> IF r \in hit THEN TimeoutNote(r, Killed) ELSE note[r]]
    /\ stray' = {}
    /\ UNCHANGED <<timeout, age, termed, client, used>>

ContainerStarts ==
    /\ ~up /\ up' = TRUE
    /\ UNCHANGED <<stage, timeout, age, termed, code, note, stray, client, used>>

\* Time passes for commands and records; nothing that is due waits for it.
Tick ==
    /\ \A r \in Reqs : /\ stage[r] # "over"
                       /\ ~TermDue(r) /\ ~KillDue(r) /\ ~GiveUpDue(r)
    /\ age' = [r \in Reqs |-> IF Busy(r) /\ age[r] < Horizon
                              THEN age[r] + 1 ELSE age[r]]
    /\ UNCHANGED <<stage, timeout, termed, code, note, stray, client, used, up>>

Step(r) == \/ \E t \in Timeouts : Call(r, t)
           \/ \E c \in OwnCodes \cup {TimedOut, Killed} : CommandEnds(r, c)
           \/ Term(r) \/ Kill(r) \/ Finish(r) \/ Record(r) \/ RecordEnds(r) \/ GiveUp(r)
Next == (\E r \in Reqs : Step(r)) \/ ContainerStops \/ ContainerStarts \/ Tick
Spec == Init /\ [][Next]_vars

\* Time passes however often handlers run, timeout does its work, handlers go
\* on; commands and records need not end, and clients need not wait.
FairSpec == Spec /\ SF_vars(Tick)
                 /\ \A r \in Reqs : WF_vars(Term(r)) /\ WF_vars(Kill(r))
                                    /\ WF_vars(Finish(r)) /\ WF_vars(GiveUp(r))

-----------------------------------------------------------------------------
\* _Limiter: the slots taken are the handlers inside "async with exec_limit",
\* whether their command ended, was killed, raised, is being recorded, or lost
\* its client.
SlotsConserved ==
    /\ used = Cardinality({r \in Reqs : Busy(r) \/ stage[r] = "over"})
    /\ used <= MaxExec

\* transport.py:203, "timeout + 30": a client whose command has a deadline is
\* still there when the command is over, even one that had to be killed.  It may
\* only give up while the records of one that went well are written
\* (control_plane.py:177).
NoAnswerIsLost ==
    \A r \in Reqs : Armed(r) /\ client[r] = "gaveup"
                       => code[r] = Success /\ stage[r] \in {"recording", "done"}

\* "137 before the deadline is something else, e.g. the memory limit, and is
\* left alone" (exec.py:99): what is said to have timed out had come to its
\* deadline, and what TERM or KILL ended is said to, if it ended with 124 or
\* lived through the grace period.
NoteMeansDeadline ==
    \A r \in Reqs :
        /\ note[r] => termed[r] \/ age[r] >= timeout[r]
        /\ termed[r] /\ (code[r] = TimedOut \/ (code[r] = Killed /\ age[r] >= timeout[r]))
              => note[r]

\* "Enforce each exec's timeout inside the container" (config.py:40): none whose
\* timeout is a second or more runs longer than its timeout and the grace period.
DeadlineIsKept ==
    \A r \in Reqs : Enforced(r) /\ timeout[r] >= Second /\ stage[r] = "running"
                       => age[r] <= timeout[r] + KillGrace

\* Slots come back by the deadline alone, whatever commands and clients do, but
\* for a command that went well and whose records are being written.
SlotsComeBack ==
    \A r \in Reqs : stage[r] = "running" /\ Armed(r)
                       ~> stage[r] = "done" \/ (stage[r] = "recording" /\ code[r] = Success)

\* "so a runaway child (...) is stopped too" (exec.py:67): where stderr says the
\* command was stopped, nothing of it is left.
StoppedMeansStopped == \A r \in Reqs : note[r] => r \notin stray
=============================================================================

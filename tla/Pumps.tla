-------------------------------- MODULE Pumps --------------------------------
(***************************************************************************)
(* The two places where a connection is passed on in both directions: the  *)
(* CDP proxy of the daemon (daemon/cdp_proxy.py), which ends both          *)
(* directions with the first that ends, and the relays of the egress gate  *)
(* (egress_gate/__main__.py), where each direction ends by itself and      *)
(* closes the end it sends to.  A pump is named by the end it reads from.  *)
(***************************************************************************)
EXTENDS Naturals
CONSTANT MaxSaid   \* messages an end sends (bound)

Ends == {"client", "server"}
Other(e) == CHOOSE o \in Ends : o # e

VARIABLES
    kind,     \* "proxy" or "relay"
    reading,  \* the ends that take what they are sent, as long as they are there
    phase,    \* "auth", "dial", "pump", "done", "refused"
    left,     \* the ends that have hung up
    said, read, passed,  \* messages of each end: sent, taken in, passed on
    over,     \* pumps that have ended
    stray     \* (history) the client hung up, was not understood or was not heard
vars == <<kind, reading, phase, left, said, read, passed, over, stray>>

Zero == [e \in Ends |-> 0]
Init == /\ kind \in {"proxy", "relay"}
        /\ phase = IF kind = "proxy" THEN "auth" ELSE "dial"
        /\ reading \in SUBSET Ends
        /\ left = {} /\ over = {} /\ stray = FALSE
        /\ said = Zero /\ read = Zero /\ passed = Zero

Add(count, e) == [count EXCEPT ![e] = @ + 1]
Held(e) == read[e] > passed[e]
\* A pump of a relay closes the end it sends to when it ends.
Shut(e) == kind = "relay" /\ Other(e) \in over
Gone(e) == e \in left \/ Shut(e)
Runs(e) == phase = "pump" /\ e \notin over

-----------------------------------------------------------------------------
\* The bearer token is right or not, the other side is reached or not.
Authorize == /\ phase = "auth" /\ phase' \in {"dial", "refused"}
             /\ UNCHANGED <<kind, reading, left, said, read, passed, over, stray>>
Dial      == /\ phase = "dial" /\ phase' \in {"pump", "refused"}
             /\ UNCHANGED <<kind, reading, left, said, read, passed, over, stray>>

Connected(e) == phase = "pump" \/ (phase = "dial" /\ e = "client")
Say(e) == /\ Connected(e) /\ ~Gone(e) /\ said[e] < MaxSaid
          /\ said' = Add(said, e)
          /\ UNCHANGED <<kind, reading, phase, left, read, passed, over, stray>>
HangUp(e) == /\ Connected(e) /\ e \notin left
             /\ left' = left \cup {e}
             /\ stray' = (stray \/ e = "client")
             /\ UNCHANGED <<kind, reading, phase, said, read, passed, over>>

Read(e) == /\ Runs(e) /\ ~Held(e) /\ read[e] < said[e]
           /\ read' = Add(read, e)
           /\ UNCHANGED <<kind, reading, phase, left, said, passed, over, stray>>
Pass(e) == /\ Runs(e) /\ Held(e) /\ ~Gone(Other(e))
           /\ passed' = Add(passed, e)
           /\ UNCHANGED <<kind, reading, phase, left, said, read, over, stray>>

EndPump(e) == /\ over' = over \cup {e}
            /\ UNCHANGED <<kind, reading, phase, left, said, read, passed>>
\* The end it sends to is gone.  asyncio drops what is written to a closed
\* transport, until it notices.
PassFails(e) ==
    /\ Runs(e) /\ Held(e) /\ Gone(Other(e))
    /\ stray' = (stray \/ e = "client")
    /\ \/ EndPump(e)
       \/ /\ kind = "relay" /\ passed' = Add(passed, e)
          /\ UNCHANGED <<kind, reading, phase, left, said, read, over>>

\* Mutant: the pump asks whether the other side is there before it reads.
InputEndsEarly(e) == Runs(e) /\ ~Held(e) /\ Gone(e)
                     /\ EndPump(e) /\ UNCHANGED stray
\* What had arrived is read first.
InputEnds(e) == Runs(e) /\ ~Held(e) /\ read[e] = said[e] /\ Gone(e)
                /\ EndPump(e) /\ UNCHANGED stray

\* receive_text meets a binary frame, or the write of a relay to an end that is
\* gone is answered with a reset, and what was not read is lost.
Breaks(e) == /\ Runs(e) /\ ~Held(e)
             /\ \/ kind = "proxy" /\ e = "client" /\ read[e] < said[e]
                \/ kind = "relay" /\ e \in left /\ passed[Other(e)] > 0
             /\ EndPump(e) /\ stray' = TRUE

\* Mutant: the bridge waits for both of its tasks.
FinishTogether == /\ phase = "pump" /\ over = Ends
                  /\ phase' = "done"
                  /\ UNCHANGED <<kind, reading, left, said, read, passed, over, stray>>
\* FIRST_COMPLETED, then both are cancelled and the upstream closed; gather.
Finish == /\ phase = "pump"
          /\ IF kind = "proxy" THEN over # {} ELSE over = Ends
          /\ phase' = "done"
          /\ UNCHANGED <<kind, reading, left, said, read, passed, over, stray>>

Step(e) == Read(e) \/ PassFails(e) \/ InputEnds(e)
Next == \/ Authorize \/ Dial \/ Finish
        \/ \E e \in Ends : Say(e) \/ HangUp(e) \/ Pass(e) \/ Step(e) \/ Breaks(e)
Spec == Init /\ [][Next]_vars

\* The tasks run; an end that reads takes what waits for it.
FairSpec == /\ Spec
            /\ WF_vars(Authorize) /\ WF_vars(Dial) /\ WF_vars(Finish)
            /\ \A e \in Ends : /\ WF_vars(Step(e))
                               /\ WF_vars(Other(e) \in reading /\ Pass(e))

-----------------------------------------------------------------------------
\* When one end hangs up the other is let go, as long as it reads: whatever was
\* on its way, and whether or not the one that left had read what it was sent
\* ("until either side closes", cdp_proxy.py:77).
NobodyStaysAlone ==
    \A e \in Ends : (e \in left /\ Other(e) \in reading) ~> phase \in {"done", "refused"}

\* What the server said before it hung up has been passed on, unless the client
\* hung up too or went on talking (cdp_proxy.py:99), or, through a relay, had
\* ever spoken: what it said may reach a server that is gone, whose reset costs
\* what was not read (egress_gate/__main__.py:32-35).
LastWordsArrive ==
    phase = "done" /\ "server" \in left /\ ~stray => passed["server"] = said["server"]
=============================================================================

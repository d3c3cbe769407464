---------------------------- MODULE PumpsProofs ----------------------------
(***************************************************************************)
(* The safety of Pumps for any number of messages: what the server said    *)
(* before it hung up has been passed on when the connection is over.       *)
(***************************************************************************)
EXTENDS Pumps, TLAPS

Types ==
    /\ kind \in {"proxy", "relay"}
    /\ phase \in {"auth", "dial", "pump", "done", "refused"}
    /\ left \subseteq Ends /\ over \subseteq Ends
    /\ stray \in BOOLEAN
    /\ said \in [Ends -> Nat] /\ read \in [Ends -> Nat] /\ passed \in [Ends -> Nat]

\* A pump holds at most one message, and none that was not sent.
Counted == \A e \in Ends : /\ passed[e] <= read[e] /\ read[e] <= said[e]
                           /\ read[e] <= passed[e] + 1

\* A pump that took its end for gone with nothing of the client's in the way
\* had passed on all there will ever be.
Emptied == "server" \in over /\ ~stray =>
               passed["server"] = said["server"] /\ Gone("server")

\* In the proxy, the client's pump ends first only if the client does.
Strays == /\ "client" \in left => stray
          /\ kind = "proxy" /\ "client" \in over => stray

\* What has ended when all is done.
Finished == phase = "done" => IF kind = "proxy" THEN over # {} ELSE over = Ends

Pumping == Types /\ Counted /\ Emptied /\ Strays /\ Finished

LEMMA Others == Other("client") = "server" /\ Other("server") = "client"
<1>1. \E o \in Ends : o # "client"
  BY DEF Ends
<1>2. \E o \in Ends : o # "server"
  BY DEF Ends
<1>3. Other("client") \in Ends /\ Other("client") # "client"
  BY <1>1 DEF Other
<1>4. Other("server") \in Ends /\ Other("server") # "server"
  BY <1>2 DEF Other
<1> QED
  BY <1>3, <1>4 DEF Ends

LEMMA PumpingBegins == Init => Pumping
<1> SUFFICES ASSUME Init PROVE Pumping
  OBVIOUS
<1>1. /\ said = [e \in Ends |-> 0] /\ read = said /\ passed = said
      /\ kind \in {"proxy", "relay"} /\ phase \in {"auth", "dial"}
      /\ left = {} /\ over = {} /\ stray = FALSE
  BY DEF Init, Zero
<1>2. Types /\ Counted
  <2>1. [e \in Ends |-> 0] \in [Ends -> Nat]
    OBVIOUS
  <2>2. Types
    BY <1>1, <2>1 DEF Types
  <2>3. \A e \in Ends : said[e] = 0 /\ read[e] = 0 /\ passed[e] = 0
    BY <1>1
  <2> QED
    BY <2>2, <2>3 DEF Counted
<1> QED
  BY <1>1, <1>2 DEF Pumping, Emptied, Strays, Finished

\* Steps that touch neither the counts nor the pumps.
LEMMA PhaseStep ==
    ASSUME Pumping, Authorize \/ Dial \/ Finish
    PROVE  Pumping'
<1> USE DEF Pumping, Types
<1>1. Types' /\ UNCHANGED <<kind, left, said, read, passed, over, stray>>
  BY DEF Authorize, Dial, Finish
<1>2. Finished'
  BY <1>1 DEF Finished, Authorize, Dial, Finish
<1> QED
  BY <1>1, <1>2 DEF Counted, Emptied, Strays, Gone, Shut

LEMMA SayStep ==
    ASSUME Pumping, NEW e \in Ends, Say(e)
    PROVE  Pumping'
<1> USE DEF Pumping
<1>1. /\ UNCHANGED <<kind, phase, left, read, passed, over, stray>>
      /\ ~Gone(e)
      /\ said' = [said EXCEPT ![e] = @ + 1]
  BY DEF Say, Add
<1>2. /\ said' \in [Ends -> Nat] /\ said'[e] = said[e] + 1
      /\ \A d \in Ends \ {e} : said'[d] = said[d]
  BY <1>1 DEF Types
<1>3. Types' /\ Strays' /\ Finished'
  BY <1>1, <1>2 DEF Types, Strays, Finished
<1>4. Counted'
  BY <1>1, <1>2 DEF Types, Counted
<1>5. Emptied'
  <2>1. Gone("server")' <=> Gone("server")
    BY <1>1 DEF Gone, Shut
  <2>2. Gone("server") => said'["server"] = said["server"]
    BY <1>1, <1>2 DEF Ends
  <2> QED
    BY <1>1, <2>1, <2>2 DEF Emptied
<1> QED
  BY <1>3, <1>4, <1>5

LEMMA HangUpStep ==
    ASSUME Pumping, NEW e \in Ends, HangUp(e)
    PROVE  Pumping'
<1> USE DEF Pumping
<1>1. /\ UNCHANGED <<kind, phase, said, read, passed, over>>
      /\ left' = left \cup {e} /\ stray' = (stray \/ e = "client")
  BY DEF HangUp
<1>2. Gone("server") => Gone("server")'
  BY <1>1 DEF Gone, Shut
<1> QED
  BY <1>1, <1>2 DEF Types, Counted, Emptied, Strays, Finished

LEMMA ReadStep ==
    ASSUME Pumping, NEW e \in Ends, Read(e)
    PROVE  Pumping'
<1> USE DEF Pumping
<1>1. /\ UNCHANGED <<kind, phase, left, said, passed, over, stray>>
      /\ ~Held(e) /\ read[e] < said[e] /\ e \notin over
      /\ read' = [read EXCEPT ![e] = @ + 1]
  BY DEF Read, Add, Runs
<1>2. /\ read' \in [Ends -> Nat] /\ read'[e] = read[e] + 1
      /\ \A d \in Ends \ {e} : read'[d] = read[d]
  BY <1>1 DEF Types
<1>3. Counted'
  BY <1>1, <1>2 DEF Types, Counted, Held
<1> QED
  BY <1>1, <1>2, <1>3 DEF Types, Emptied, Strays, Finished, Gone, Shut

\* A message goes on, or into a transport that is closed.
LEMMA PassedStep ==
    ASSUME Pumping, NEW e \in Ends, Runs(e), Held(e), passed' = Add(passed, e),
           UNCHANGED <<kind, phase, left, said, read, over>>,
           stray' \in BOOLEAN, stray => stray'
    PROVE  Pumping'
<1> USE DEF Pumping
<1>1. /\ passed' \in [Ends -> Nat] /\ passed'[e] = passed[e] + 1
      /\ \A d \in Ends \ {e} : passed'[d] = passed[d]
  BY DEF Types, Add
<1>2. Counted'
  BY <1>1 DEF Types, Counted, Held
<1>3. Types' /\ Strays' /\ Finished'
  BY <1>1 DEF Types, Strays, Finished
<1>4. Emptied'
  <2>1. "server" \in over => passed'["server"] = passed["server"]
    BY <1>1 DEF Runs, Types
  <2> QED
    BY <2>1 DEF Emptied, Gone, Shut
<1> QED
  BY <1>2, <1>3, <1>4

\* A pump ends.
LEMMA OverStep ==
    ASSUME Pumping, NEW e \in Ends, Runs(e), EndPump(e), stray' \in BOOLEAN,
           stray => stray',
           ~stray' /\ e = "server" =>
               passed["server"] = said["server"] /\ Gone("server"),
           kind = "proxy" /\ e = "client" => stray'
    PROVE  Pumping'
<1> USE DEF Pumping
<1>1. /\ UNCHANGED <<kind, phase, left, said, read, passed>>
      /\ over' = over \cup {e} /\ phase = "pump"
  BY DEF EndPump, Runs
<1>2. Gone("server") => Gone("server")'
  BY <1>1 DEF Gone, Shut
<1> QED
  BY <1>1, <1>2 DEF Types, Counted, Emptied, Strays, Finished

LEMMA PumpStep ==
    ASSUME Pumping, NEW e \in Ends, Pass(e) \/ PassFails(e) \/ InputEnds(e) \/ Breaks(e)
    PROVE  Pumping'
<1>0. e \in {"client", "server"} /\ stray \in BOOLEAN
  BY DEF Ends, Pumping, Types
<1>1. CASE Pass(e)
  BY <1>0, <1>1, PassedStep DEF Pass
<1>2. CASE PassFails(e)
  <2>1. Runs(e) /\ Held(e) /\ Gone(Other(e)) /\ stray' = (stray \/ e = "client")
    BY <1>2 DEF PassFails
  <2>2. CASE EndPump(e)
    <3>1. e = "server" => stray
      <4>1. SUFFICES ASSUME e = "server" PROVE stray
        OBVIOUS
      <4>2. ~Shut("client")
        BY <2>1, <4>1, Others DEF Shut, Runs
      <4>3. "client" \in left
        BY <2>1, <4>1, <4>2, Others DEF Gone
      <4> QED
        BY <4>3 DEF Pumping, Strays
    <3> QED
      BY <1>0, <2>1, <2>2, <3>1, OverStep
  <2>3. CASE ~EndPump(e)
    BY <1>0, <1>2, <2>1, <2>3, PassedStep DEF PassFails
  <2> QED
    BY <2>2, <2>3
<1>3. CASE InputEnds(e)
  <2>1. Runs(e) /\ ~Held(e) /\ read[e] = said[e] /\ Gone(e) /\ EndPump(e) /\ stray' = stray
    BY <1>3 DEF InputEnds
  <2>2. passed[e] = said[e]
    BY <2>1 DEF Pumping, Types, Counted, Held
  <2>3. kind = "proxy" /\ e = "client" => stray
    BY <2>1 DEF Gone, Shut, Pumping, Strays
  <2> QED
    BY <1>0, <2>1, <2>2, <2>3, OverStep
<1>4. CASE Breaks(e)
  BY <1>0, <1>4, OverStep DEF Breaks
<1> QED
  BY <1>1, <1>2, <1>3, <1>4

LEMMA PumpingStays == Pumping /\ [Next]_vars => Pumping'
<1> SUFFICES ASSUME Pumping, [Next]_vars PROVE Pumping'
  OBVIOUS
<1>1. CASE UNCHANGED vars
  BY <1>1 DEF vars, Pumping, Types, Counted, Emptied, Strays, Finished, Gone, Shut
<1> QED
  BY <1>1, PhaseStep, SayStep, HangUpStep, ReadStep, PumpStep DEF Next, Step

-----------------------------------------------------------------------------
\* When the connection is over and the client neither hung up nor went on
\* talking to a server that was gone, every message of the server has been
\* passed on (cdp_proxy.py: the upstream's pump; __main__.py: _pump).
THEOREM LastWordsAlwaysArrive == Spec => []LastWordsArrive
<1>1. Pumping => LastWordsArrive
  <2> SUFFICES ASSUME Pumping, phase = "done", ~stray
               PROVE  passed["server"] = said["server"]
    BY DEF LastWordsArrive
  <2>1. "server" \in over
    BY DEF Pumping, Types, Strays, Finished, Ends
  <2> QED
    BY <2>1 DEF Pumping, Emptied
<1> QED
  BY <1>1, PumpingBegins, PumpingStays, PTL DEF Spec
=============================================================================

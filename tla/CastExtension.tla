--------------------------- MODULE CastExtension ---------------------------
(***************************************************************************)
(* The tab-cast extension: the service worker of cast-ext/background.js,   *)
(* which reacts to the user's toggle, and the offscreen document of        *)
(* cast-ext/offscreen.js, which owns the media stream and the recorder.    *)
(*                                                                         *)
(* They talk over one port.  Both ends run to completion between awaits,   *)
(* so a stretch of code between two awaits is one action.  Messages of a   *)
(* port arrive in order; what is posted to an end that has died is lost.   *)
(*                                                                         *)
(* Every toggle is used once and names what comes of it: the asynchronous  *)
(* startCast in the worker, then the start message, then the media stream  *)
(* and the recorder in the document.                                       *)
(***************************************************************************)
EXTENDS Naturals, Sequences, FiniteSets

CONSTANTS
    Gestures,   \* toggles by the user: the shortcut or the toolbar icon
    MaxFaults,  \* bound: deaths of the worker and of the document
    MaxQueue,   \* bound: client stops are sent while this many reports wait
    None

ASSUME NoneAssumption == None \notin Gestures /\ "stop" \notin Gestures
                          /\ "disconnect" \notin Gestures
ASSUME BoundAssumption == MaxFaults \in Nat /\ MaxQueue \in Nat \ {0}

VARIABLES
    casting,   \* worker: capture state as the worker knows it
    castPort,  \* worker: it holds a port to the document
    doc,       \* the offscreen document exists
    bgPort,    \* document: it holds a port to the worker
    toSw,      \* reports on their way to the worker
    toOff,     \* commands on their way to the document
    ws,        \* document: the signaling socket is open
    recorder,  \* document: whose MediaRecorder the global holds
    stream,    \* document: whose MediaStream the global holds
    stage,     \* what each toggle has come to
    live,      \* streams whose tracks run: the tab is being captured
    faults     \* deaths so far
vars == <<casting, castPort, doc, bgPort, toSw, toOff, ws, recorder, stream,
          stage, live, faults>>
workerVars  == <<casting, castPort>>
captureVars == <<recorder, stream, live>>

\* In the worker: awaiting ensureOffscreen, past it, awaiting the tab and the
\* stream id.  In the document: awaiting getUserMedia, recording, recorder
\* stopped with onstop still to run.
InWorker   == {"ensuring", "ensured", "asking"}
InDocument == {"posted", "acquiring", "recording", "stopping"}
Stages     == {"unused", "over"} \cup InWorker \cup InDocument

Init == /\ casting = FALSE /\ castPort = FALSE
        /\ doc = TRUE /\ bgPort = TRUE
        /\ toSw = <<"connect">> /\ toOff = <<>>
        /\ ws = FALSE
        /\ recorder = None /\ stream = None
        /\ stage = [g \in Gestures |-> "unused"]
        /\ live = {}
        /\ faults = 0

-----------------------------------------------------------------------------
\* The worker at the other end of bgPort is still the one it was opened to.
Linked == bgPort /\ \A i \in 1 .. Len(toOff) : toOff[i] # "disconnect"

\* notifyBg: postMessage on a port whose other end is gone goes nowhere.
Report(msg) == toSw' = IF Linked THEN Append(toSw, msg) ELSE toSw

\* castPort still leads to the document: its close is not on the way.
Heard == castPort /\ \A i \in 1 .. Len(toSw) : toSw[i] # "gone"

Becomes(g, s) == stage' = [stage EXCEPT ![g] = s]

-----------------------------------------------------------------------------
(***************************************************************************)
(* The service worker.                                                     *)
(***************************************************************************)

\* toggleCast and stopCast: a toggle while casting asks for a stop.
ToggleOff(g) ==
    /\ stage[g] = "unused" /\ casting
    /\ toOff' = IF Heard THEN Append(toOff, "stop") ELSE toOff
    /\ Becomes(g, "over")
    /\ UNCHANGED <<workerVars, doc, bgPort, toSw, ws, captureVars, faults>>

\* toggleCast and the head of startCast.
ToggleOn(g) ==
    /\ stage[g] = "unused" /\ ~casting
    /\ Becomes(g, IF castPort THEN "asking" ELSE "ensuring")
    /\ UNCHANGED <<workerVars, doc, bgPort, toSw, toOff, ws, captureVars, faults>>

\* ensureOffscreen: nothing if the document exists, else it is created, and
\* its script connects at once.
EnsureDocument(g) ==
    /\ stage[g] = "ensuring"
    /\ Becomes(g, "ensured")
    /\ doc' = TRUE /\ bgPort' = (bgPort \/ ~doc)
    /\ toSw' = IF doc THEN toSw ELSE Append(toSw, "connect")
    /\ UNCHANGED <<workerVars, toOff, ws, captureVars, faults>>

\* startCast resumes: without a port it gives up.
Ensured(g) ==
    /\ stage[g] = "ensured"
    /\ Becomes(g, IF castPort THEN "asking" ELSE "over")
    /\ UNCHANGED <<workerVars, doc, bgPort, toSw, toOff, ws, captureVars, faults>>

\* tabs.query and getMediaStreamId succeed; casting is not looked at again.
PostStart(g) ==
    /\ stage[g] = "asking" /\ castPort
    /\ toOff' = IF Heard THEN Append(toOff, g) ELSE toOff
    /\ Becomes(g, IF Heard THEN "posted" ELSE "over")
    /\ UNCHANGED <<workerVars, doc, bgPort, toSw, ws, captureVars, faults>>

\* One of them fails, or the port is null by now and postMessage throws.
StartFails(g) ==
    /\ stage[g] = "asking"
    /\ Becomes(g, "over")
    /\ UNCHANGED <<workerVars, doc, bgPort, toSw, toOff, ws, captureVars, faults>>

\* Mutant: a document that dies leaves the worker's idea of casting alone.
HearKeepsCasting ==
    /\ toSw # <<>>
    /\ toSw' = Tail(toSw)
    /\ castPort' = (Head(toSw) = "connect" \/ (castPort /\ Head(toSw) # "gone"))
    /\ casting' = (Head(toSw) = "started" \/ (casting /\ Head(toSw) # "stopped"))
    /\ UNCHANGED <<doc, bgPort, toOff, ws, captureVars, stage, faults>>

\* The worker's listeners: onConnect, onMessage, onDisconnect.
Hear ==
    /\ toSw # <<>>
    /\ toSw' = Tail(toSw)
    /\ castPort' = (Head(toSw) = "connect" \/ (castPort /\ Head(toSw) # "gone"))
    /\ casting' = (Head(toSw) = "started"
                   \/ (casting /\ Head(toSw) \notin {"stopped", "gone"}))
    /\ UNCHANGED <<doc, bgPort, toOff, ws, captureVars, stage, faults>>

\* The browser ends the worker and starts it anew: globals are as at first,
\* the awaiting startCasts are gone, the document hears of the closed port,
\* and ensureOffscreen runs.
WorkerRestarts ==
    /\ faults < MaxFaults /\ faults' = faults + 1
    /\ casting' = FALSE /\ castPort' = FALSE
    /\ stage' = [g \in Gestures |->
                   IF stage[g] \in InWorker THEN "over" ELSE stage[g]]
    /\ toOff' = IF Linked THEN Append(toOff, "disconnect") ELSE toOff
    /\ toSw' = IF doc THEN <<>> ELSE <<"connect">>
    /\ doc' = TRUE /\ bgPort' = (bgPort \/ ~doc)
    /\ UNCHANGED <<ws, captureVars>>

-----------------------------------------------------------------------------
(***************************************************************************)
(* The offscreen document.                                                 *)
(***************************************************************************)

\* Mutant: only a document that records looks for the worker again.
ReconnectRecording ==
    /\ doc /\ ~bgPort /\ recorder # None
    /\ bgPort' = TRUE
    /\ toSw' = Append(toSw, "connect")
    /\ UNCHANGED <<workerVars, doc, toOff, ws, captureVars, stage, faults>>

\* onDisconnect ran and its timer is due: ensureBgPort.
Reconnect ==
    /\ doc /\ ~bgPort
    /\ bgPort' = TRUE
    /\ toSw' = Append(toSw, "connect")
    /\ UNCHANGED <<workerVars, doc, toOff, ws, captureVars, stage, faults>>

\* stopCapture: an active recorder is stopped and onstop does the rest;
\* otherwise the stream is ended here.
StopCapture ==
    IF recorder # None /\ stage[recorder] = "recording"
    THEN /\ Becomes(recorder, "stopping")
         /\ UNCHANGED <<captureVars, toSw>>
    ELSE /\ live' = live \ {stream}
         /\ stream' = None /\ recorder' = None
         /\ Report("stopped")
         /\ UNCHANGED stage

Receive == toOff # <<>> /\ toOff' = Tail(toOff)

\* Mutant: a duplicate start stays accounted as posted.
ReceiveStartUnsettled(g) ==
    /\ Receive /\ Head(toOff) = g
    /\ IF recorder = None THEN Becomes(g, "acquiring") ELSE UNCHANGED stage
    /\ UNCHANGED <<workerVars, doc, bgPort, toSw, ws, captureVars, faults>>

\* start-capture: beginCapture up to getUserMedia.
ReceiveStart(g) ==
    /\ Receive /\ Head(toOff) = g
    /\ Becomes(g, IF recorder = None THEN "acquiring" ELSE "over")
    /\ UNCHANGED <<workerVars, doc, bgPort, toSw, ws, captureVars, faults>>

ReceiveStop ==
    /\ Receive /\ Head(toOff) = "stop"
    /\ StopCapture
    /\ UNCHANGED <<workerVars, doc, bgPort, ws, faults>>

\* onDisconnect of the port.
ReceiveDisconnect ==
    /\ Receive /\ Head(toOff) = "disconnect"
    /\ bgPort' = FALSE
    /\ UNCHANGED <<workerVars, doc, toSw, ws, captureVars, stage, faults>>

\* getUserMedia resolves: the globals are overwritten, whatever they hold.
Acquired(g) ==
    /\ stage[g] = "acquiring"
    /\ stream' = g /\ recorder' = g
    /\ live' = live \cup {g}
    /\ Becomes(g, "recording")
    /\ Report("started")
    /\ UNCHANGED <<workerVars, doc, bgPort, toOff, ws, faults>>

NotAcquired(g) ==
    /\ stage[g] = "acquiring"
    /\ Becomes(g, "over")
    /\ UNCHANGED <<workerVars, doc, bgPort, toSw, toOff, ws, captureVars, faults>>

\* The captured tab is closed.
TabCloses(g) ==
    /\ g \in live
    /\ live' = live \ {g}
    /\ UNCHANGED <<workerVars, doc, bgPort, toSw, toOff, ws, recorder, stream,
                   stage, faults>>

\* A recorder whose tracks have all ended stops itself.
RecorderEnds(g) ==
    /\ stage[g] = "recording" /\ g \notin live
    /\ Becomes(g, "stopping")
    /\ UNCHANGED <<workerVars, doc, bgPort, toSw, toOff, ws, captureVars, faults>>

\* Mutant: onstop tells the client but not the worker.
OnStopSilent(g) ==
    /\ stage[g] = "stopping"
    /\ live' = live \ {stream}
    /\ stream' = None /\ recorder' = None
    /\ Becomes(g, "over")
    /\ UNCHANGED <<workerVars, doc, bgPort, toSw, toOff, ws, faults>>

\* recorder.onstop acts on the globals, whoever's they are by now.
OnStop(g) ==
    /\ stage[g] = "stopping"
    /\ live' = live \ {stream}
    /\ stream' = None /\ recorder' = None
    /\ Becomes(g, "over")
    /\ Report("stopped")
    /\ UNCHANGED <<workerVars, doc, bgPort, toOff, ws, faults>>

SignalingOpens ==
    /\ doc /\ ~ws /\ ws' = TRUE
    /\ UNCHANGED <<workerVars, doc, bgPort, toSw, toOff, captureVars, stage, faults>>

\* ws.onclose, of an open socket or of an attempt that failed.
SignalingCloses ==
    /\ doc /\ (ws \/ recorder # None)
    /\ ws' = FALSE
    /\ IF recorder # None THEN StopCapture
       ELSE UNCHANGED <<captureVars, stage, toSw>>
    /\ UNCHANGED <<workerVars, doc, bgPort, toOff, faults>>

\* The client asks for a stop over the signaling socket.
ClientStops ==
    /\ ws /\ Len(toSw) < MaxQueue
    /\ StopCapture
    /\ UNCHANGED <<workerVars, doc, bgPort, toOff, ws, faults>>

\* The document dies with all it holds; the worker sees its port close.
DocumentDies ==
    /\ doc /\ faults < MaxFaults /\ faults' = faults + 1
    /\ doc' = FALSE /\ bgPort' = FALSE /\ ws' = FALSE
    /\ toSw' = IF Linked THEN Append(toSw, "gone") ELSE toSw
    /\ toOff' = <<>>
    /\ recorder' = None /\ stream' = None /\ live' = {}
    /\ stage' = [g \in Gestures |->
                   IF stage[g] \in InDocument THEN "over" ELSE stage[g]]
    /\ UNCHANGED workerVars

-----------------------------------------------------------------------------
Worker(g)   == \/ ToggleOff(g) \/ ToggleOn(g) \/ EnsureDocument(g)
               \/ Ensured(g) \/ PostStart(g) \/ StartFails(g)
Document(g) == \/ ReceiveStart(g) \/ Acquired(g) \/ NotAcquired(g)
               \/ TabCloses(g) \/ RecorderEnds(g) \/ OnStop(g)
Next == \/ \E g \in Gestures : Worker(g) \/ Document(g)
        \/ Hear \/ WorkerRestarts \/ Reconnect
        \/ ReceiveStop \/ ReceiveDisconnect
        \/ SignalingOpens \/ SignalingCloses \/ ClientStops \/ DocumentDies

Spec == Init /\ [][Next]_vars

\* Messages arrive, a stopped recorder runs onstop, timers fire.  Nothing is
\* assumed of the user, of tabs, of getUserMedia or of the network.
Fairness == /\ WF_vars(Hear) /\ WF_vars(Reconnect)
            /\ WF_vars(ReceiveStop) /\ WF_vars(ReceiveDisconnect)
            /\ \A g \in Gestures : WF_vars(ReceiveStart(g)) /\ WF_vars(OnStop(g))
FairSpec == Spec /\ Fairness

-----------------------------------------------------------------------------
(***************************************************************************)
(* What should hold.                                                       *)
(***************************************************************************)

\* The state has the shape the code gives it: among others, a start is posted
\* as long as its message is on its way.
TypeOK ==
    /\ casting \in BOOLEAN /\ castPort \in BOOLEAN
    /\ doc \in BOOLEAN /\ bgPort \in BOOLEAN /\ ws \in BOOLEAN
    /\ toSw \in Seq({"connect", "started", "stopped", "gone"})
    /\ toOff \in Seq(Gestures \cup {"stop", "disconnect"})
    /\ recorder \in Gestures \cup {None} /\ stream \in Gestures \cup {None}
    /\ stage \in [Gestures -> Stages]
    /\ live \subseteq Gestures
    /\ faults \in 0 .. MaxFaults
    /\ \A g \in Gestures :
         stage[g] = "posted" <=> \E i \in 1 .. Len(toOff) : toOff[i] = g

\* Once the worker has heard every report, it says "casting" only while the
\* document has a recorder, so that the stop a toggle asks for stops
\* something (toggleCast, onstop, stopCapture, the disconnect listeners).
StopHasATarget ==
    casting /\ toSw = <<>> =>
        recorder # None /\ stage[recorder] \in {"recording", "stopping"}

\* A stop on its way to a document in which one toggle's capture runs, while no
\* other toggle is being carried out, ends that capture, and the worker stops
\* believing in it (stopCast, stopCapture, onstop).  Nothing is said of a stop
\* that finds getUserMedia still pending: it is answered "stopped", and the
\* capture begins all the same (offscreen.js:159-161); nor of two captures.
StopIsCarriedOut ==
    \A g \in Gestures :
        /\ \E i \in 1 .. Len(toOff) : toOff[i] = "stop"
        /\ recorder = g /\ stage[g] = "recording"
        /\ \A h \in Gestures \ {g} : stage[h] \in {"unused", "over"}
        ~> g \notin live /\ ~casting

\* The document finds the worker again after a restart (ensureBgPort: "so we
\* recover from SW restarts").
PortIsRestored == doc /\ ~castPort ~> castPort \/ ~doc

\* "capture already running -- ignoring duplicate start" (offscreen.js:103):
\* never are two streams captured at once.
OneCapture == Cardinality(live) <= 1
=============================================================================

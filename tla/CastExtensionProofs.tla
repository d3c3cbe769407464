------------------------ MODULE CastExtensionProofs ------------------------
(***************************************************************************)
(* The safety of CastExtension for any number of toggles, deaths of the    *)
(* worker and of the document, and waiting reports: the types, and that    *)
(* the worker believes in a capture only while there is something to stop. *)
(***************************************************************************)
EXTENDS CastExtension, TLAPS

Reports  == {"connect", "started", "stopped", "gone"}
Commands == Gestures \cup {"stop", "disconnect"}

In(s, x) == \E i \in 1 .. Len(s) : s[i] = x

\* TypeOK without its last part, which Posted says again with In.
Types ==
    /\ casting \in BOOLEAN /\ castPort \in BOOLEAN
    /\ doc \in BOOLEAN /\ bgPort \in BOOLEAN /\ ws \in BOOLEAN
    /\ toSw \in Seq(Reports)
    /\ toOff \in Seq(Commands)
    /\ recorder \in Gestures \cup {None} /\ stream \in Gestures \cup {None}
    /\ stage \in [Gestures -> Stages]
    /\ live \subseteq Gestures
    /\ faults \in 0 .. MaxFaults

Posted == \A g \in Gestures : stage[g] = "posted" <=> In(toOff, g)

\* Every toggle posts one start.
Once == \A i, j \in 1 .. Len(toOff) :
            toOff[i] \in Gestures /\ toOff[i] = toOff[j] => i = j

Messages == Types /\ Posted /\ Once

-----------------------------------------------------------------------------
LEMMA InAppend ==
    ASSUME NEW S, NEW s \in Seq(S), NEW m \in S, NEW x
    PROVE  In(Append(s, m), x) <=> In(s, x) \/ x = m
<1>1. /\ Len(s) \in Nat /\ Len(Append(s, m)) = Len(s) + 1
      /\ \A i \in 1 .. Len(s) : Append(s, m)[i] = s[i]
      /\ Append(s, m)[Len(s) + 1] = m
  OBVIOUS
<1>2. \A i \in 1 .. Len(s) + 1 : i = Len(s) + 1 \/ i \in 1 .. Len(s)
  BY <1>1
<1>3. Len(s) + 1 \in 1 .. Len(s) + 1 /\ \A i \in 1 .. Len(s) : i \in 1 .. Len(s) + 1
  BY <1>1
<1> QED
  BY <1>1, <1>2, <1>3 DEF In

LEMMA InTail ==
    ASSUME NEW S, NEW s \in Seq(S), s # <<>>, NEW x
    PROVE  In(s, x) <=> x = Head(s) \/ In(Tail(s), x)
<1>1. /\ Len(s) \in Nat /\ Len(s) >= 1 /\ Len(Tail(s)) = Len(s) - 1
      /\ \A i \in 1 .. Len(s) - 1 : Tail(s)[i] = s[i + 1]
      /\ Head(s) = s[1]
  OBVIOUS
<1>2. ASSUME NEW i \in 1 .. Len(s), s[i] = x PROVE x = Head(s) \/ In(Tail(s), x)
  <2>1. CASE i = 1
    BY <1>1, <1>2, <2>1
  <2>2. CASE i # 1
    <3>1. i - 1 \in 1 .. Len(s) - 1 /\ (i - 1) + 1 = i
      BY <1>1, <2>2
    <3> QED
      BY <1>1, <1>2, <3>1 DEF In
  <2> QED
    BY <2>1, <2>2
<1>3. ASSUME NEW i \in 1 .. Len(s) - 1, Tail(s)[i] = x PROVE In(s, x)
  <2>1. i + 1 \in 1 .. Len(s) /\ s[i + 1] = x
    BY <1>1, <1>3
  <2> QED
    BY <2>1 DEF In
<1>4. 1 \in 1 .. Len(s)
  BY <1>1
<1> QED
  BY <1>1, <1>2, <1>3, <1>4 DEF In

-----------------------------------------------------------------------------
(***************************************************************************)
(* What the worker will believe when it has heard the reports s and has    *)
(* believed b before: the last one that tells decides.                     *)
(***************************************************************************)
Closing == {"stopped", "gone"}
Lasts(s, i) == \A j \in i .. Len(s) : s[j] \notin Closing
WillBelieve(b, s) == \/ b /\ Lasts(s, 1)
                     \/ \E i \in 1 .. Len(s) : s[i] = "started" /\ Lasts(s, i)

LEMMA NoReport == ASSUME NEW b PROVE WillBelieve(b, <<>>) <=> b
BY DEF WillBelieve, Lasts

LEMMA OneMoreReport ==
    ASSUME NEW s \in Seq(Reports), NEW b, NEW m \in Reports,
           WillBelieve(b, Append(s, m))
    PROVE  m \notin Closing /\ (m = "started" \/ WillBelieve(b, s))
<1> DEFINE t == Append(s, m)
<1>1. /\ Len(s) \in Nat /\ Len(t) = Len(s) + 1
      /\ \A i \in 1 .. Len(s) : t[i] = s[i]
      /\ t[Len(s) + 1] = m
  OBVIOUS
<1> HIDE DEF t
<1>2. ASSUME NEW i \in 1 .. Len(s) + 1, Lasts(t, i)
      PROVE  m \notin Closing /\ Lasts(s, i)
  <2>1. Len(s) + 1 \in i .. Len(t) /\ \A j \in i .. Len(s) : j \in i .. Len(t) /\ j \in 1 .. Len(s)
    BY <1>1
  <2> QED
    BY <1>1, <1>2, <2>1 DEF Lasts
<1>3. WillBelieve(b, t)
  BY DEF t
<1>4. CASE b /\ Lasts(t, 1)
  <2>1. 1 \in 1 .. Len(s) + 1
    BY <1>1
  <2> QED
    BY <1>2, <1>4, <2>1 DEF WillBelieve
<1>5. ASSUME NEW i \in 1 .. Len(t), t[i] = "started", Lasts(t, i)
      PROVE  m \notin Closing /\ (m = "started" \/ WillBelieve(b, s))
  <2>1. m \notin Closing /\ Lasts(s, i)
    BY <1>1, <1>2, <1>5
  <2>2. i = Len(s) + 1 \/ i \in 1 .. Len(s)
    BY <1>1
  <2> QED
    BY <1>1, <1>5, <2>1, <2>2 DEF WillBelieve
<1> QED
  BY <1>3, <1>4, <1>5 DEF WillBelieve

LEMMA HearingBelieves ==
    ASSUME NEW s \in Seq(Reports), s # <<>>, NEW b,
           WillBelieve(Head(s) = "started" \/ (b /\ Head(s) \notin Closing), Tail(s))
    PROVE  WillBelieve(b, s)
<1> DEFINE t == Tail(s)
           a == Head(s) = "started" \/ (b /\ Head(s) \notin Closing)
<1>1. /\ Len(s) \in Nat /\ Len(s) >= 1 /\ Len(t) = Len(s) - 1
      /\ \A i \in 1 .. Len(s) - 1 : t[i] = s[i + 1]
      /\ Head(s) = s[1]
  OBVIOUS
<1> HIDE DEF t
<1>2. ASSUME NEW i \in 1 .. Len(s), Lasts(t, i) PROVE Lasts(s, i + 1)
  <2> SUFFICES ASSUME NEW j \in i + 1 .. Len(s) PROVE s[j] \notin Closing
    BY DEF Lasts
  <2>1. j - 1 \in i .. Len(t) /\ j - 1 \in 1 .. Len(s) - 1 /\ (j - 1) + 1 = j
    BY <1>1
  <2> QED
    BY <1>1, <1>2, <2>1 DEF Lasts
<1>3. CASE a /\ Lasts(t, 1)
  <2>1. 1 \in 1 .. Len(s) /\ Lasts(s, 1 + 1)
    BY <1>1, <1>2, <1>3
  <2>2. \A j \in 1 .. Len(s) : j = 1 \/ j \in 1 + 1 .. Len(s)
    BY <1>1
  <2>3. s[1] \notin Closing => Lasts(s, 1)
    BY <2>1, <2>2 DEF Lasts
  <2>4. s[1] \notin Closing
    BY <1>1, <1>3 DEF Closing
  <2> QED
    BY <1>1, <1>3, <2>1, <2>3, <2>4 DEF WillBelieve
<1>4. ASSUME NEW i \in 1 .. Len(t), t[i] = "started", Lasts(t, i)
      PROVE  WillBelieve(b, s)
  <2>1. i + 1 \in 1 .. Len(s) /\ i \in 1 .. Len(s) /\ s[i + 1] = "started"
    BY <1>1, <1>4
  <2> QED
    BY <1>2, <1>4, <2>1 DEF WillBelieve
<1>5. WillBelieve(a, t)
  BY DEF t
<1> QED
  BY <1>3, <1>4, <1>5 DEF WillBelieve

-----------------------------------------------------------------------------
(***************************************************************************)
(* The messages.                                                           *)
(***************************************************************************)
LEMMA ReportTypes ==
    ASSUME Types, NEW m \in Reports, Report(m)
    PROVE  toSw' \in Seq(Reports)
BY DEF Types, Report

LEMMA StopCaptureTypes ==
    ASSUME Types, StopCapture
    PROVE  /\ toSw' \in Seq(Reports) /\ stage' \in [Gestures -> Stages]
           /\ recorder' \in Gestures \cup {None} /\ stream' \in Gestures \cup {None}
           /\ live' \subseteq Gestures
           /\ \A g \in Gestures : stage'[g] = "posted" <=> stage[g] = "posted"
<1>1. CASE recorder # None /\ stage[recorder] = "recording"
  <2>1. /\ stage' = [stage EXCEPT ![recorder] = "stopping"]
        /\ UNCHANGED <<recorder, stream, live, toSw>>
    BY <1>1 DEF StopCapture, Becomes, captureVars
  <2> QED
    BY <1>1, <2>1 DEF Types, Stages, InDocument
<1>2. CASE ~(recorder # None /\ stage[recorder] = "recording")
  <2>1. /\ live' = live \ {stream} /\ stream' = None /\ recorder' = None
        /\ Report("stopped") /\ stage' = stage
    BY <1>2 DEF StopCapture
  <2>2. toSw' \in Seq(Reports)
    BY <2>1, ReportTypes DEF Reports
  <2> QED
    BY <2>1, <2>2 DEF Types
<1> QED
  BY <1>1, <1>2

LEMMA KeepMessages ==
    ASSUME Messages, Types',
           \A g \in Gestures : stage'[g] = "posted" <=> stage[g] = "posted",
           toOff' = toOff \/ \E m \in {"stop", "disconnect"} : toOff' = Append(toOff, m)
    PROVE  Messages'
<1>1. CASE toOff' = toOff
  BY <1>1 DEF Messages, Posted, Once
<1>2. ASSUME NEW m \in {"stop", "disconnect"}, toOff' = Append(toOff, m)
      PROVE  Messages'
  <2>1. m \in Commands /\ m \notin Gestures /\ toOff \in Seq(Commands)
    BY NoneAssumption DEF Commands, Messages, Types
  <2>2. \A g \in Gestures : In(toOff', g) <=> In(toOff, g)
    BY <1>2, <2>1, InAppend
  <2>3. /\ Len(toOff) \in Nat /\ Len(toOff') = Len(toOff) + 1
        /\ \A i \in 1 .. Len(toOff) : toOff'[i] = toOff[i]
        /\ toOff'[Len(toOff) + 1] = m
    BY <1>2, <2>1
  <2>4. \A i \in 1 .. Len(toOff') : i = Len(toOff) + 1 \/ i \in 1 .. Len(toOff)
    BY <2>3
  <2>5. Once'
    BY <2>1, <2>3, <2>4 DEF Messages, Once
  <2> QED
    BY <2>2, <2>5 DEF Messages, Posted
<1> QED
  BY <1>1, <1>2

LEMMA ReceiveMessage ==
    ASSUME Messages, Types', Receive,
           \A g \in Gestures : stage'[g] = "posted" <=> stage[g] = "posted" /\ g # Head(toOff)
    PROVE  Messages'
<1>1. toOff # <<>> /\ toOff' = Tail(toOff) /\ toOff \in Seq(Commands)
  BY DEF Receive, Messages, Types
<1>2. /\ Len(toOff) \in Nat /\ Len(toOff) >= 1 /\ Len(toOff') = Len(toOff) - 1
      /\ \A i \in 1 .. Len(toOff) - 1 : toOff'[i] = toOff[i + 1]
      /\ Head(toOff) = toOff[1]
  BY <1>1
<1>3. ASSUME NEW i \in 1 .. Len(toOff'), NEW j \in 1 .. Len(toOff'),
             toOff'[i] \in Gestures, toOff'[i] = toOff'[j]
      PROVE  i = j
  <2>1. i + 1 \in 1 .. Len(toOff) /\ j + 1 \in 1 .. Len(toOff)
    BY <1>2
  <2>2. toOff[i + 1] \in Gestures /\ toOff[i + 1] = toOff[j + 1]
    BY <1>2, <1>3
  <2>3. i + 1 = j + 1
    BY <2>1, <2>2 DEF Messages, Once
  <2> QED
    BY <1>2, <2>3
<1>4. ASSUME Head(toOff) \in Gestures PROVE ~In(toOff', Head(toOff))
  <2> SUFFICES ASSUME NEW i \in 1 .. Len(toOff'), toOff'[i] = Head(toOff) PROVE FALSE
    BY DEF In
  <2>1. i + 1 \in 1 .. Len(toOff) /\ 1 \in 1 .. Len(toOff) /\ toOff[i + 1] = toOff[1]
    BY <1>2
  <2>2. i + 1 = 1
    BY <1>2, <1>4, <2>1 DEF Messages, Once
  <2> QED
    BY <1>2, <2>2
<1>5. \A g \in Gestures : In(toOff, g) <=> g = Head(toOff) \/ In(toOff', g)
  BY <1>1, InTail
<1>6. Posted'
  BY <1>4, <1>5 DEF Messages, Posted
<1> QED
  BY <1>3, <1>6 DEF Messages, Once

LEMMA WorkerMessages ==
    ASSUME Messages, NEW g \in Gestures, Worker(g)
    PROVE  Messages'
<1> USE DEF Stages, InWorker, InDocument
<1>0. Types /\ stage \in [Gestures -> Stages]
  BY DEF Messages, Types
<1>1. CASE ToggleOff(g)
  <2>1. Types'
    BY <1>0, <1>1 DEF ToggleOff, Becomes, Types, workerVars, captureVars, Commands
  <2>2. \A h \in Gestures : stage'[h] = "posted" <=> stage[h] = "posted"
    BY <1>0, <1>1 DEF ToggleOff, Becomes
  <2>3. toOff' = toOff \/ toOff' = Append(toOff, "stop")
    BY <1>1 DEF ToggleOff
  <2> QED
    BY <2>1, <2>2, <2>3, KeepMessages
<1>2. CASE ToggleOn(g) \/ Ensured(g) \/ StartFails(g)
  <2>1. Types'
    BY <1>0, <1>2 DEF ToggleOn, Ensured, StartFails, Becomes, Types, workerVars, captureVars
  <2>2. /\ \A h \in Gestures : stage'[h] = "posted" <=> stage[h] = "posted"
        /\ toOff' = toOff
    BY <1>0, <1>2 DEF ToggleOn, Ensured, StartFails, Becomes
  <2> QED
    BY <2>1, <2>2, KeepMessages
<1>3. CASE EnsureDocument(g)
  <2>1. Types'
    BY <1>0, <1>3 DEF EnsureDocument, Becomes, Types, workerVars, captureVars, Reports
  <2>2. /\ \A h \in Gestures : stage'[h] = "posted" <=> stage[h] = "posted"
        /\ toOff' = toOff
    BY <1>0, <1>3 DEF EnsureDocument, Becomes
  <2> QED
    BY <2>1, <2>2, KeepMessages
<1>4. CASE PostStart(g)
  <2>1. Types'
    BY <1>0, <1>4 DEF PostStart, Becomes, Types, workerVars, captureVars, Commands
  <2>2. CASE ~Heard
    <3>1. /\ \A h \in Gestures : stage'[h] = "posted" <=> stage[h] = "posted"
          /\ toOff' = toOff
      BY <1>0, <1>4, <2>2 DEF PostStart, Becomes
    <3> QED
      BY <2>1, <3>1, KeepMessages
  <2>3. CASE Heard
    <3>1. /\ stage[g] = "asking" /\ stage'[g] = "posted"
          /\ \A h \in Gestures \ {g} : stage'[h] = stage[h]
          /\ toOff' = Append(toOff, g) /\ toOff \in Seq(Commands) /\ g \in Commands
      BY <1>0, <1>4, <2>3 DEF PostStart, Becomes, Types, Commands
    <3>2. ~In(toOff, g)
      BY <3>1 DEF Messages, Posted
    <3>3. \A h \in Gestures : In(toOff', h) <=> In(toOff, h) \/ h = g
      BY <3>1, InAppend
    <3>4. Posted'
      BY <3>1, <3>3 DEF Messages, Posted
    <3>5. /\ Len(toOff) \in Nat /\ Len(toOff') = Len(toOff) + 1
          /\ \A i \in 1 .. Len(toOff) : toOff'[i] = toOff[i]
          /\ toOff'[Len(toOff) + 1] = g
      BY <3>1
    <3>6. \A i \in 1 .. Len(toOff') : i = Len(toOff) + 1 \/ i \in 1 .. Len(toOff)
      BY <3>5
    <3>7. Once'
      BY <3>2, <3>5, <3>6 DEF Messages, Once, In
    <3> QED
      BY <2>1, <3>4, <3>7 DEF Messages
  <2> QED
    BY <2>2, <2>3
<1> QED
  BY <1>1, <1>2, <1>3, <1>4 DEF Worker

LEMMA DocumentMessages ==
    ASSUME Messages, NEW g \in Gestures, Document(g)
    PROVE  Messages'
<1> USE DEF Stages, InWorker, InDocument
<1>0. Types /\ stage \in [Gestures -> Stages]
  BY DEF Messages, Types
<1>1. CASE ReceiveStart(g)
  <2>1. /\ Receive /\ Head(toOff) = g /\ toOff \in Seq(Commands)
        /\ \A h \in Gestures \ {g} : stage'[h] = stage[h]
        /\ stage'[g] \in {"acquiring", "over"}
        /\ stage' \in [Gestures -> Stages]
    BY <1>0, <1>1 DEF ReceiveStart, Becomes, Types
  <2>2. toOff' \in Seq(Commands)
    BY <2>1 DEF Receive
  <2>3. Types'
    BY <1>0, <1>1, <2>1, <2>2 DEF ReceiveStart, Types, workerVars, captureVars
  <2> QED
    BY <2>1, <2>3, ReceiveMessage
<1>2. CASE Acquired(g) \/ OnStop(g)
  <2>1. toSw' \in Seq(Reports)
    BY <1>0, <1>2, ReportTypes DEF Acquired, OnStop, Reports
  <2>2. Types'
    BY <1>0, <1>2, <2>1 DEF Acquired, OnStop, Becomes, Types, workerVars
  <2>3. /\ \A h \in Gestures : stage'[h] = "posted" <=> stage[h] = "posted"
        /\ toOff' = toOff
    BY <1>0, <1>2 DEF Acquired, OnStop, Becomes
  <2> QED
    BY <2>2, <2>3, KeepMessages
<1>3. CASE NotAcquired(g) \/ TabCloses(g) \/ RecorderEnds(g)
  <2>1. Types'
    BY <1>0, <1>3 DEF NotAcquired, TabCloses, RecorderEnds, Becomes, Types,
                      workerVars, captureVars
  <2>2. /\ \A h \in Gestures : stage'[h] = "posted" <=> stage[h] = "posted"
        /\ toOff' = toOff
    BY <1>0, <1>3 DEF NotAcquired, TabCloses, RecorderEnds, Becomes
  <2> QED
    BY <2>1, <2>2, KeepMessages
<1> QED
  BY <1>1, <1>2, <1>3 DEF Document

LEMMA MessagesStep ==
    ASSUME Messages, [Next]_vars
    PROVE  Messages'
<1> USE DEF Stages, InWorker, InDocument
<1>0. Types /\ stage \in [Gestures -> Stages] /\ toOff \in Seq(Commands)
      /\ toSw \in Seq(Reports)
  BY DEF Messages, Types
<1>1. CASE Hear
  <2>1. Types' /\ toOff' = toOff /\ stage' = stage
    BY <1>0, <1>1 DEF Hear, Types, captureVars
  <2> QED
    BY <2>1, KeepMessages
<1>2. CASE WorkerRestarts
  <2>1a. faults' \in 0 .. MaxFaults
    BY <1>0, <1>2, BoundAssumption DEF WorkerRestarts, Types
  <2>1b. toSw' \in Seq(Reports)
    <3>1. <<>> \in Seq(Reports) /\ <<"connect">> \in Seq(Reports)
      BY DEF Reports
    <3>2. toSw' = <<>> \/ toSw' = <<"connect">>
      BY <1>2 DEF WorkerRestarts
    <3> QED
      BY <3>1, <3>2
  <2>1c. toOff' \in Seq(Commands)
    BY <1>0, <1>2 DEF WorkerRestarts, Commands
  <2>1d. stage' \in [Gestures -> Stages]
    BY <1>0, <1>2 DEF WorkerRestarts
  <2>1e. doc' \in BOOLEAN /\ bgPort' \in BOOLEAN
    BY <1>0, <1>2 DEF WorkerRestarts, Types
  <2>1. Types'
    BY <1>0, <1>2, <2>1a, <2>1b, <2>1c, <2>1d, <2>1e DEF WorkerRestarts, Types, captureVars
  <2>2. /\ \A h \in Gestures : stage'[h] = "posted" <=> stage[h] = "posted"
        /\ toOff' = toOff \/ toOff' = Append(toOff, "disconnect")
    BY <1>0, <1>2 DEF WorkerRestarts
  <2> QED
    BY <2>1, <2>2, KeepMessages
<1>3. CASE Reconnect \/ SignalingOpens
  <2>0. toSw' \in Seq(Reports)
    BY <1>0, <1>3 DEF Reconnect, SignalingOpens, Reports
  <2>1. Types' /\ toOff' = toOff /\ stage' = stage
    BY <1>0, <1>3, <2>0 DEF Reconnect, SignalingOpens, Types, workerVars, captureVars
  <2> QED
    BY <2>1, KeepMessages
<1>4. CASE ReceiveStop \/ ReceiveDisconnect
  <2>1. /\ Receive /\ Head(toOff) \notin Gestures /\ toOff' \in Seq(Commands)
    BY <1>0, <1>4, NoneAssumption DEF ReceiveStop, ReceiveDisconnect, Receive
  <2>2. CASE ReceiveStop
    <3>1. Types' /\ \A g \in Gestures : stage'[g] = "posted" <=> stage[g] = "posted"
      BY <1>0, <2>1, <2>2, StopCaptureTypes DEF ReceiveStop, Types, workerVars
    <3> QED
      BY <2>1, <3>1, ReceiveMessage
  <2>3. CASE ReceiveDisconnect
    <3>1. Types' /\ stage' = stage
      BY <1>0, <2>1, <2>3 DEF ReceiveDisconnect, Types, workerVars, captureVars
    <3> QED
      BY <2>1, <3>1, ReceiveMessage
  <2> QED
    BY <1>4, <2>2, <2>3
<1>5. CASE SignalingCloses \/ ClientStops
  <2>1. CASE StopCapture
    <3>1. Types' /\ (\A g \in Gestures : stage'[g] = "posted" <=> stage[g] = "posted")
          /\ toOff' = toOff
      BY <1>0, <1>5, <2>1, StopCaptureTypes
      DEF SignalingCloses, ClientStops, Types, workerVars
    <3> QED
      BY <3>1, KeepMessages
  <2>2. CASE ~StopCapture
    <3>1. Types' /\ stage' = stage /\ toOff' = toOff
      BY <1>0, <1>5, <2>2 DEF SignalingCloses, ClientStops, Types, workerVars, captureVars
    <3> QED
      BY <3>1, KeepMessages
  <2> QED
    BY <2>1, <2>2
<1>6. CASE DocumentDies
  <2>1a. faults' \in 0 .. MaxFaults
    BY <1>0, <1>6, BoundAssumption DEF DocumentDies, Types
  <2>1b. toSw' \in Seq(Reports) /\ toOff' \in Seq(Commands)
    BY <1>0, <1>6 DEF DocumentDies, Reports
  <2>1c. stage' \in [Gestures -> Stages] /\ toOff' = <<>>
         /\ \A g \in Gestures : stage'[g] # "posted"
    BY <1>0, <1>6 DEF DocumentDies
  <2>1. Types' /\ toOff' = <<>> /\ \A g \in Gestures : stage'[g] # "posted"
    BY <1>0, <1>6, <2>1a, <2>1b, <2>1c DEF DocumentDies, Types, workerVars
  <2> QED
    BY <2>1 DEF Messages, Posted, Once, In
<1>7. CASE UNCHANGED vars
  BY <1>7 DEF vars, workerVars, captureVars, Messages, Types, Posted, Once
<1> QED
  BY <1>1, <1>2, <1>3, <1>4, <1>5, <1>6, <1>7, WorkerMessages, DocumentMessages DEF Next

-----------------------------------------------------------------------------
(***************************************************************************)
(* What the worker will believe is so.                                     *)
(***************************************************************************)
Busy(g) == g # None /\ stage[g] \in {"recording", "stopping"}

\* If nothing but the reports on their way decided, a worker that believes in
\* a capture is linked to the document, so that its end will be reported, and
\* there is one to end.
Faith == WillBelieve(casting, toSw) => Linked /\ Busy(recorder)

LEMMA LinkedKept ==
    ASSUME Types, bgPort' = bgPort,
           \/ toOff' = toOff \/ Receive
           \/ \E m \in Commands \ {"disconnect"} : toOff' = Append(toOff, m)
    PROVE  Linked => Linked'
<1>0. toOff \in Seq(Commands)
  BY DEF Types
<1>1. CASE toOff' = toOff
  BY <1>1 DEF Linked
<1>2. CASE Receive
  <2>1. In(toOff', "disconnect") => In(toOff, "disconnect")
    BY <1>0, <1>2, InTail DEF Receive
  <2> QED
    BY <2>1 DEF Linked, In
<1>3. ASSUME NEW m \in Commands \ {"disconnect"}, toOff' = Append(toOff, m)
      PROVE  Linked => Linked'
  <2>1. In(toOff', "disconnect") => In(toOff, "disconnect")
    BY <1>0, <1>3, InAppend
  <2> QED
    BY <2>1 DEF Linked, In
<1> QED
  BY <1>1, <1>2, <1>3

LEMMA FaithKept ==
    ASSUME Types, Faith, casting' = casting, recorder' = recorder,
           toSw' = toSw \/ toSw' = Append(toSw, "connect"),
           Linked => Linked',
           Busy(recorder) => stage'[recorder] \in {"recording", "stopping"}
    PROVE  Faith'
<1>1. WillBelieve(casting, toSw') => WillBelieve(casting, toSw)
  <2>1. toSw \in Seq(Reports) /\ "connect" \in Reports /\ "connect" # "started"
    BY DEF Types, Reports
  <2>2. WillBelieve(casting, Append(toSw, "connect")) => WillBelieve(casting, toSw)
    BY <2>1, OneMoreReport
  <2> QED
    BY <2>2
<1> QED
  BY <1>1 DEF Faith, Busy

\* The end of a capture is reported to whoever may believe in it.
LEMMA FaithEnds ==
    ASSUME Types, Faith, casting' = casting, NEW m \in Closing, Report(m)
    PROVE  Faith'
<1>1. CASE Linked
  <2>1. ~WillBelieve(casting, Append(toSw, m))
    BY OneMoreReport DEF Types, Closing, Reports
  <2> QED
    BY <1>1, <2>1 DEF Faith, Report
<1>2. CASE ~Linked
  BY <1>2 DEF Faith, Report
<1> QED
  BY <1>1, <1>2

LEMMA StopCaptureFaith ==
    ASSUME Types, Faith, StopCapture, casting' = casting, Linked => Linked'
    PROVE  Faith'
<1>1. CASE recorder # None /\ stage[recorder] = "recording"
  <2>1. toSw' = toSw /\ recorder' = recorder /\ recorder \in Gestures
        /\ stage' = [stage EXCEPT ![recorder] = "stopping"]
    BY <1>1 DEF StopCapture, Becomes, captureVars, Types
  <2>2. stage'[recorder] = "stopping"
    BY <2>1 DEF Types
  <2> QED
    BY <2>1, <2>2, FaithKept
<1>2. CASE ~(recorder # None /\ stage[recorder] = "recording")
  <2>1. Report("stopped")
    BY <1>2 DEF StopCapture
  <2> QED
    BY <2>1, FaithEnds DEF Closing
<1> QED
  BY <1>1, <1>2

\* A step of another toggle leaves the recorder's alone.
LEMMA OthersTurn ==
    ASSUME Types, NEW g \in Gestures, NEW s, Becomes(g, s),
           stage[g] \notin {"recording", "stopping"} \/ s = "stopping"
    PROVE  Busy(recorder) => stage'[recorder] \in {"recording", "stopping"}
BY DEF Types, Becomes, Busy

LEMMA WorkerFaith ==
    ASSUME Messages, Faith, NEW g \in Gestures, Worker(g)
    PROVE  Faith'
<1>0. Types
  BY DEF Messages
<1>1. CASE ToggleOff(g)
  <2>1. casting' = casting /\ recorder' = recorder /\ toSw' = toSw /\ bgPort' = bgPort
        /\ stage[g] = "unused" /\ Becomes(g, "over")
        /\ (toOff' = toOff \/ toOff' = Append(toOff, "stop"))
    BY <1>1 DEF ToggleOff, workerVars, captureVars
  <2>2. Linked => Linked'
    BY <1>0, <2>1, LinkedKept DEF Commands
  <2> QED
    BY <1>0, <2>1, <2>2, OthersTurn, FaithKept
<1>2. CASE ToggleOn(g) \/ Ensured(g) \/ StartFails(g)
  <2>1. casting' = casting /\ recorder' = recorder /\ toSw' = toSw /\ bgPort' = bgPort
        /\ toOff' = toOff /\ stage[g] \notin {"recording", "stopping"}
        /\ \E s \in Stages : Becomes(g, s)
    BY <1>2 DEF ToggleOn, Ensured, StartFails, workerVars, captureVars,
                Stages, InWorker
  <2>2. Linked => Linked'
    BY <1>0, <2>1, LinkedKept
  <2>3. PICK s \in Stages : Becomes(g, s)
    BY <2>1
  <2> QED
    BY <1>0, <2>1, <2>2, <2>3, OthersTurn, FaithKept
<1>3. CASE EnsureDocument(g)
  <2>1. casting' = casting /\ recorder' = recorder /\ toOff' = toOff
        /\ (toSw' = toSw \/ toSw' = Append(toSw, "connect"))
        /\ bgPort' = (bgPort \/ ~doc)
        /\ stage[g] = "ensuring" /\ Becomes(g, "ensured")
    BY <1>3 DEF EnsureDocument, workerVars, captureVars
  <2>2. Linked => Linked'
    BY <2>1 DEF Linked
  <2> QED
    BY <1>0, <2>1, <2>2, OthersTurn, FaithKept
<1>4. CASE PostStart(g)
  <2>1. casting' = casting /\ recorder' = recorder /\ toSw' = toSw /\ bgPort' = bgPort
        /\ stage[g] = "asking" /\ (Becomes(g, "posted") \/ Becomes(g, "over"))
        /\ (toOff' = toOff \/ toOff' = Append(toOff, g))
    BY <1>4 DEF PostStart, workerVars, captureVars
  <2>2. g \in Commands \ {"disconnect"}
    BY NoneAssumption DEF Commands
  <2>3. Linked => Linked'
    BY <1>0, <2>1, <2>2, LinkedKept
  <2> QED
    BY <1>0, <2>1, <2>3, OthersTurn, FaithKept
<1> QED
  BY <1>1, <1>2, <1>3, <1>4 DEF Worker

LEMMA DocumentFaith ==
    ASSUME Messages, Faith, NEW g \in Gestures, Document(g)
    PROVE  Faith'
<1>0. Types
  BY DEF Messages
<1>1. CASE ReceiveStart(g)
  <2>1. casting' = casting /\ recorder' = recorder /\ toSw' = toSw /\ bgPort' = bgPort
        /\ Receive /\ Head(toOff) = g
        /\ (Becomes(g, "acquiring") \/ Becomes(g, "over"))
    BY <1>1 DEF ReceiveStart, workerVars, captureVars
  <2>2. In(toOff, g)
    BY <1>0, <2>1, InTail DEF Receive, Types
  <2>3. stage[g] = "posted"
    BY <2>2 DEF Messages, Posted
  <2>4. Linked => Linked'
    BY <1>0, <2>1, LinkedKept
  <2> QED
    BY <1>0, <2>1, <2>3, <2>4, OthersTurn, FaithKept
<1>2. CASE Acquired(g)
  <2>1. casting' = casting /\ recorder' = g /\ bgPort' = bgPort /\ toOff' = toOff
        /\ Report("started") /\ stage' = [stage EXCEPT ![g] = "recording"]
    BY <1>2 DEF Acquired, Becomes, workerVars
  <2>2. (Linked <=> Linked') /\ stage'[g] = "recording" /\ g # None
    BY <1>0, <2>1, NoneAssumption DEF Linked, Types
  <2>3. CASE Linked
    BY <2>1, <2>2, <2>3 DEF Faith, Busy
  <2>4. CASE ~Linked
    BY <2>1, <2>4 DEF Faith, Report
  <2> QED
    BY <2>3, <2>4
<1>3. CASE NotAcquired(g) \/ RecorderEnds(g)
  <2>1. casting' = casting /\ recorder' = recorder /\ toSw' = toSw /\ bgPort' = bgPort
        /\ toOff' = toOff
        /\ \/ stage[g] = "acquiring" /\ Becomes(g, "over")
           \/ Becomes(g, "stopping")
    BY <1>3 DEF NotAcquired, RecorderEnds, workerVars, captureVars
  <2>2. Linked => Linked'
    BY <1>0, <2>1, LinkedKept
  <2>3. Busy(recorder) => stage'[recorder] \in {"recording", "stopping"}
    BY <1>0, <2>1, OthersTurn
  <2> QED
    BY <1>0, <2>1, <2>2, <2>3, FaithKept
<1>4. CASE TabCloses(g)
  <2>1. casting' = casting /\ recorder' = recorder /\ toSw' = toSw /\ bgPort' = bgPort
        /\ toOff' = toOff /\ stage' = stage
    BY <1>4 DEF TabCloses, workerVars
  <2> QED
    BY <2>1 DEF Faith, Busy, Linked
<1>5. CASE OnStop(g)
  <2>1. casting' = casting /\ Report("stopped")
    BY <1>5 DEF OnStop, workerVars
  <2> QED
    BY <1>0, <2>1, FaithEnds DEF Closing
<1> QED
  BY <1>1, <1>2, <1>3, <1>4, <1>5 DEF Document

LEMMA FaithStep ==
    ASSUME Messages, Faith, [Next]_vars
    PROVE  Faith'
<1>0. Types /\ toOff \in Seq(Commands) /\ toSw \in Seq(Reports)
  BY DEF Messages, Types
<1>1. CASE Hear
  <2>1. /\ toSw # <<>> /\ toSw' = Tail(toSw)
        /\ casting' = (Head(toSw) = "started" \/ (casting /\ Head(toSw) \notin Closing))
        /\ bgPort' = bgPort /\ toOff' = toOff /\ recorder' = recorder /\ stage' = stage
    BY <1>1 DEF Hear, captureVars, Closing
  <2>2. WillBelieve(casting', toSw') => WillBelieve(casting, toSw)
    BY <1>0, <2>1, HearingBelieves
  <2> QED
    BY <2>1, <2>2 DEF Faith, Busy, Linked
<1>2. CASE WorkerRestarts
  <2>1. casting' = FALSE /\ (toSw' = <<>> \/ toSw' = Append(<<>>, "connect"))
    BY <1>2 DEF WorkerRestarts
  <2>2. ~WillBelieve(FALSE, <<>>)
    BY NoReport
  <2>3. ~WillBelieve(FALSE, Append(<<>>, "connect"))
    <3>1. <<>> \in Seq(Reports) /\ "connect" \in Reports
      BY DEF Reports
    <3> QED
      BY <2>2, <3>1, OneMoreReport
  <2> QED
    BY <2>1, <2>2, <2>3 DEF Faith
<1>3. CASE Reconnect
  <2>1. casting' = casting /\ recorder' = recorder /\ toSw' = Append(toSw, "connect")
        /\ ~bgPort /\ stage' = stage
    BY <1>3 DEF Reconnect, workerVars, captureVars
  <2> QED
    BY <1>0, <2>1, FaithKept DEF Linked, Busy
<1>4. CASE ReceiveStop
  <2>1. casting' = casting /\ Receive /\ bgPort' = bgPort /\ StopCapture
    BY <1>4 DEF ReceiveStop, workerVars
  <2> QED
    BY <1>0, <2>1, LinkedKept, StopCaptureFaith
<1>5. CASE ReceiveDisconnect
  <2>1. In(toOff, "disconnect")
    BY <1>0, <1>5, InTail DEF ReceiveDisconnect, Receive
  <2>2. ~Linked
    BY <2>1 DEF Linked, In
  <2>3. casting' = casting /\ toSw' = toSw
    BY <1>5 DEF ReceiveDisconnect, workerVars
  <2> QED
    BY <2>2, <2>3 DEF Faith
<1>6. CASE SignalingOpens
  <2>1. casting' = casting /\ recorder' = recorder /\ toSw' = toSw /\ bgPort' = bgPort
        /\ toOff' = toOff /\ stage' = stage
    BY <1>6 DEF SignalingOpens, workerVars, captureVars
  <2> QED
    BY <2>1 DEF Faith, Busy, Linked
<1>7. CASE SignalingCloses \/ ClientStops
  <2>1. casting' = casting /\ bgPort' = bgPort /\ toOff' = toOff
    BY <1>7 DEF SignalingCloses, ClientStops, workerVars
  <2>2. CASE StopCapture
    BY <1>0, <2>1, <2>2, LinkedKept, StopCaptureFaith
  <2>3. CASE ~StopCapture
    <3>1. recorder' = recorder /\ toSw' = toSw /\ stage' = stage
      BY <1>7, <2>3 DEF SignalingCloses, ClientStops, captureVars
    <3> QED
      BY <2>1, <3>1 DEF Faith, Busy, Linked
  <2> QED
    BY <2>2, <2>3
<1>8. CASE DocumentDies
  <2>1. casting' = casting /\ Report("gone")
    BY <1>8 DEF DocumentDies, Report, workerVars
  <2> QED
    BY <1>0, <2>1, FaithEnds DEF Closing
<1>9. CASE UNCHANGED vars
  BY <1>9 DEF vars, workerVars, captureVars, Faith, Busy, Linked
<1> QED
  BY <1>1, <1>2, <1>3, <1>4, <1>5, <1>6, <1>7, <1>8, <1>9, WorkerFaith, DocumentFaith
  DEF Next

LEMMA Beginning == Init => Messages /\ Faith
<1> SUFFICES ASSUME Init PROVE Messages /\ Faith
  OBVIOUS
<1>1. toSw \in Seq(Reports) /\ toSw = Append(<<>>, "connect") /\ toOff = <<>>
  BY DEF Init, Reports
<1>2. Types
  <2>1. stage \in [Gestures -> Stages] /\ faults \in 0 .. MaxFaults
    BY BoundAssumption DEF Init, Stages
  <2>2. toOff \in Seq(Commands)
    BY <1>1
  <2> QED
    BY <1>1, <2>1, <2>2 DEF Init, Types
<1>3. Posted /\ Once
  BY <1>1 DEF Init, Posted, Once, In
<1>4. ~WillBelieve(FALSE, <<>>)
  BY NoReport
<1>5. <<>> \in Seq(Reports) /\ "connect" \in Reports
  BY DEF Reports
<1>6. ~WillBelieve(FALSE, Append(<<>>, "connect"))
  BY <1>4, <1>5, OneMoreReport
<1> QED
  BY <1>1, <1>2, <1>3, <1>6 DEF Init, Messages, Faith

\* The port carries what the code posts, and every start on its way is that of
\* a toggle that waits for it (background.js, offscreen.js).
THEOREM TypesHold == Spec => []TypeOK
<1>1. Messages /\ [Next]_vars => Messages'
  BY MessagesStep
<1>2. Messages => TypeOK
  BY DEF Messages, Types, Posted, In, TypeOK, Reports, Commands
<1> QED
  BY <1>1, <1>2, Beginning, PTL DEF Spec

\* A worker that has heard every report says "casting" only while a recorder
\* runs or is being stopped (offscreen.js: onstop, stopCapture; background.js:
\* the listeners of the port).
THEOREM StopsHaveATarget == Spec => []StopHasATarget
<1>1. Messages /\ Faith /\ [Next]_vars => Messages' /\ Faith'
  BY MessagesStep, FaithStep
<1>2. Faith => StopHasATarget
  BY NoReport DEF Faith, Busy, StopHasATarget
<1> QED
  BY <1>1, <1>2, Beginning, PTL DEF Spec
=============================================================================

------------------------- MODULE ControlPlaneProofs -------------------------
(***************************************************************************)
(* The safety of ControlPlane for any number of callers, packages and      *)
(* Dockerfiles: the list of installed packages, and what a rebuild that    *)
(* reports success has built.                                              *)
(***************************************************************************)
EXTENDS ControlPlane, TLAPS

Places == {"idle", "write", "build", "building", "find", "restart", "restarting",
           "probe", "apt", "killed"} \cup AptPhases

\* Where a call is tells what it is for.
Shape(c) ==
    /\ op[c] = "install" => want[c] \in Packages
    /\ op[c] = "rebuild" => want[c] \in Files \cup {None} /\ c \in Builders
    /\ pc[c] \in {"write", "build", "building"} => op[c] = "rebuild"
    /\ pc[c] \in {"apt"} \cup AptPhases => op[c] = "install"
    /\ pc[c] = "building" => built[c] \in Files

TypeOK ==
    /\ dockerfile \in Files /\ image \in Files
    /\ up \in BOOLEAN
    /\ installed \subseteq Packages /\ list \subseteq Packages
    /\ tmp \subseteq Packages /\ recorded \subseteq Packages
    /\ pc \in [Callers -> Places]
    /\ op \in [Callers -> Ops]
    /\ want \in [Callers -> Files \cup Packages \cup {None}]
    /\ built \in [Callers -> Files \cup {None}]
    /\ spent \in [Callers -> Nat]
    /\ result \in [Callers -> {"rebuilt", "other"}]
    /\ \A c \in Callers : Shape(c)

-----------------------------------------------------------------------------
LEMMA GotoKeepsTypes ==
    ASSUME TypeOK, NEW c \in Callers, NEW place \in Places, Goto(c, place)
    PROVE  /\ pc' \in [Callers -> Places] /\ op' \in [Callers -> Ops]
           /\ want' \in [Callers -> Files \cup Packages \cup {None}]
           /\ spent' \in [Callers -> Nat]
           /\ result' \in [Callers -> {"rebuilt", "other"}]
           /\ pc'[c] = place /\ op' = op /\ want' = want /\ result' = result
           /\ \A d \in Callers \ {c} : pc'[d] = pc[d]
BY DEF TypeOK, Goto

LEMMA EndKeepsTypes ==
    ASSUME TypeOK, NEW c \in Callers, NEW r \in {"rebuilt", "other"}, End(c, r)
    PROVE  /\ pc' \in [Callers -> Places] /\ op' \in [Callers -> Ops]
           /\ want' \in [Callers -> Files \cup Packages \cup {None}]
           /\ spent' \in [Callers -> Nat]
           /\ result' \in [Callers -> {"rebuilt", "other"}]
           /\ pc'[c] = "idle" /\ op'[c] = "health" /\ result'[c] = r
           /\ r = "rebuilt" => want'[c] = want[c]
           /\ \A d \in Callers \ {c} : /\ pc'[d] = pc[d] /\ op'[d] = op[d]
                                       /\ want'[d] = want[d] /\ result'[d] = result[d]
<1>1. pc' \in [Callers -> Places] /\ op' \in [Callers -> Ops]
  BY DEF TypeOK, End, Ops, Places
<1>2. want' \in [Callers -> Files \cup Packages \cup {None}]
  BY DEF TypeOK, End
<1> QED
  BY <1>1, <1>2 DEF TypeOK, End

\* The types again, after a step of c that leaves the container running or
\* stopped as it was: what it does to the shared variables is given.
LEMMA TypesAgain ==
    ASSUME TypeOK, NEW c \in Callers,
           \/ \E place \in Places : /\ Goto(c, place)
                                    /\ place \in {"write", "build", "building"} => op[c] = "rebuild"
                                    /\ place \in {"apt"} \cup AptPhases => op[c] = "install"
                                    /\ place = "building" => built'[c] \in Files
           \/ \E r \in {"rebuilt", "other"} : End(c, r),
           built' \in [Callers -> Files \cup {None}],
           \A d \in Callers \ {c} : built'[d] = built[d],
           dockerfile' \in Files, image' \in Files, up' \in BOOLEAN,
           installed' \subseteq Packages, list' \subseteq Packages,
           tmp' \subseteq Packages, recorded' \subseteq Packages
    PROVE  TypeOK'
<1>1. ASSUME NEW d \in Callers \ {c}, pc'[d] = pc[d], op'[d] = op[d], want'[d] = want[d]
      PROVE  Shape(d)'
  BY <1>1 DEF TypeOK, Shape
<1>2. CASE \E r \in {"rebuilt", "other"} : End(c, r)
  <2>1. Shape(c)'
    BY <1>2, EndKeepsTypes DEF Shape, AptPhases
  <2> QED
    BY <1>1, <1>2, <2>1, EndKeepsTypes DEF TypeOK
<1>3. ASSUME NEW place \in Places, Goto(c, place),
             place \in {"write", "build", "building"} => op[c] = "rebuild",
             place \in {"apt"} \cup AptPhases => op[c] = "install",
             place = "building" => built'[c] \in Files
      PROVE  TypeOK'
  <2>1. Shape(c)'
    BY <1>3, GotoKeepsTypes DEF TypeOK, Shape
  <2> QED
    BY <1>1, <1>3, <2>1, GotoKeepsTypes DEF TypeOK
<1> QED
  BY <1>2, <1>3

LEMMA StepKeepsTypes ==
    ASSUME TypeOK, NEW c \in Callers, Step(c), ~Restart(c)
    PROVE  TypeOK'
<1> DEFINE Apt == /\ installed' \subseteq Packages /\ list' \subseteq Packages
                  /\ tmp' \subseteq Packages /\ recorded' \subseteq Packages
           Docker == dockerfile' \in Files /\ image' \in Files /\ up' \in BOOLEAN
           Built == /\ built' \in [Callers -> Files \cup {None}]
                    /\ \A d \in Callers \ {c} : built'[d] = built[d]
<1>0. /\ Shape(c) /\ dockerfile \in Files /\ image \in Files /\ up \in BOOLEAN
      /\ installed \subseteq Packages /\ list \subseteq Packages
      /\ tmp \subseteq Packages /\ recorded \subseteq Packages
      /\ built \in [Callers -> Files \cup {None}]
  BY DEF TypeOK
<1>1. ASSUME UNCHANGED apt PROVE Apt
  BY <1>0, <1>1 DEF apt
<1>2. ASSUME UNCHANGED docker PROVE Docker
  BY <1>0, <1>2 DEF docker
<1>3. ASSUME built' = built \/ \E b \in Files \cup {None} : built' = [built EXCEPT ![c] = b]
      PROVE  Built
  BY <1>0, <1>3
<1>4. ASSUME Apt, Docker, Built, NEW place \in Places, Goto(c, place),
             place \in {"write", "build", "building"} => op[c] = "rebuild",
             place \in {"apt"} \cup AptPhases => op[c] = "install",
             place = "building" => built'[c] \in Files
      PROVE  TypeOK'
  BY <1>4, TypesAgain, Zenon
<1>5. ASSUME Apt, Docker, Built, NEW r \in {"rebuilt", "other"}, End(c, r)
      PROVE  TypeOK'
  BY <1>5, TypesAgain, Zenon
<1> HIDE DEF Apt, Docker, Built
<1>6. CASE Write(c)
  <2>1. op[c] = "rebuild" /\ Docker
    BY <1>0, <1>6 DEF Write, Shape, Docker
  <2>2. Goto(c, "build") /\ Apt /\ Built
    BY <1>1, <1>3, <1>6 DEF Write
  <2> QED
    BY <1>4, <2>1, <2>2 DEF Places, AptPhases
<1>7. CASE BuildStarts(c)
  <2>1. op[c] = "rebuild" /\ built'[c] \in Files
    BY <1>0, <1>7 DEF BuildStarts, Shape
  <2>2. Goto(c, "building") /\ Apt /\ Docker /\ Built
    BY <1>0, <1>1, <1>2, <1>3, <1>7 DEF BuildStarts
  <2> QED
    BY <1>4, <2>1, <2>2 DEF Places, AptPhases
<1>8. CASE BuildDone(c)
  <2>1. Docker
    BY <1>0, <1>8 DEF BuildDone, Shape, Docker
  <2>2. Goto(c, "find") /\ Apt /\ Built
    BY <1>1, <1>3, <1>8 DEF BuildDone
  <2> QED
    BY <1>4, <2>1, <2>2 DEF Places, AptPhases
<1>9. CASE BuildFails(c)
  <2>1. End(c, "other") /\ Apt /\ Docker /\ Built
    BY <1>1, <1>2, <1>3, <1>9 DEF BuildFails
  <2> QED
    BY <1>5, <2>1
<1>10. CASE Find(c)
  <2>1. Apt /\ Docker /\ Built
    BY <1>1, <1>2, <1>3, <1>10 DEF Find
  <2>2. CASE ~up
    BY <1>5, <1>10, <2>1, <2>2 DEF Find
  <2>3. CASE up /\ op[c] = "install"
    <3>1. Goto(c, "apt")
      BY <1>10, <2>3 DEF Find
    <3> QED
      BY <1>4, <2>1, <2>3, <3>1 DEF Places
  <2>4. CASE up /\ op[c] # "install"
    <3>1. Goto(c, "restart")
      BY <1>10, <2>4 DEF Find
    <3> QED
      BY <1>4, <2>1, <3>1 DEF Places, AptPhases
  <2> QED
    BY <2>2, <2>3, <2>4
<1>11. CASE Restarted(c)
  <2>1. Goto(c, "probe") /\ Apt /\ Docker /\ Built
    BY <1>0, <1>1, <1>3, <1>11 DEF Restarted, Docker
  <2> QED
    BY <1>4, <2>1 DEF Places, AptPhases
<1>12. CASE RestartFails(c) \/ ProbeFails(c) \/ AptEnds(c)
  <2>1. End(c, "other") /\ Apt /\ Docker /\ Built
    BY <1>1, <1>2, <1>3, <1>12 DEF RestartFails, ProbeFails, AptEnds
  <2> QED
    BY <1>5, <2>1
<1>13. CASE ProbeOk(c)
  <2>1. /\ \E r \in {"rebuilt", "other"} : End(c, r)
        /\ Apt /\ Docker /\ Built
    BY <1>1, <1>2, <1>3, <1>13 DEF ProbeOk
  <2> QED
    BY <1>5, <2>1
<1>14. CASE AptRuns(c)
  <2>1. op[c] = "install" /\ want[c] \in Packages
    BY <1>0, <1>14 DEF AptRuns, Shape
  <2>2. Goto(c, "hook") /\ Apt /\ Docker /\ Built
    BY <1>0, <1>2, <1>3, <1>14, <2>1 DEF AptRuns, Apt
  <2> QED
    BY <1>4, <2>1, <2>2 DEF Places, AptPhases
<1>18. CASE HookSkips(c)
  <2>1. End(c, "other") /\ Apt /\ Docker /\ Built
    BY <1>0, <1>2, <1>3, <1>18 DEF HookSkips, Apt
  <2> QED
    BY <1>5, <2>1
<1>15. CASE HookReads(c)
  <2>1. op[c] = "install"
    BY <1>0, <1>15 DEF HookReads, Shape, AptPhases
  <2>2. Goto(c, "truncate") /\ Apt /\ Docker /\ Built
    BY <1>0, <1>2, <1>3, <1>15 DEF HookReads, Apt
  <2> QED
    BY <1>4, <2>1, <2>2 DEF Places, AptPhases
<1>16. CASE HookTruncates(c)
  <2>1. op[c] = "install"
    BY <1>0, <1>16 DEF HookTruncates, Shape, AptPhases
  <2>2. Goto(c, "fill") /\ Apt /\ Docker /\ Built
    BY <1>0, <1>2, <1>3, <1>16 DEF HookTruncates, Apt
  <2> QED
    BY <1>4, <2>1, <2>2 DEF Places, AptPhases
<1>17. CASE HookFills(c)
  <2>1. op[c] = "install" /\ want[c] \in Packages
    BY <1>0, <1>17 DEF HookFills, Shape, AptPhases
  <2>2. End(c, "other") /\ Apt /\ Docker /\ Built
    BY <1>0, <1>2, <1>3, <1>17, <2>1 DEF HookFills, Apt
  <2> QED
    BY <1>5, <2>2
<1> QED
  BY <1>6, <1>7, <1>8, <1>9, <1>10, <1>11, <1>12, <1>13, <1>14, <1>15, <1>16,
     <1>17, <1>18 DEF Step

LEMMA StopsKeepTypes ==
    ASSUME TypeOK, NEW places \in [Callers -> Places], Stops(places),
           \A c \in Callers : places[c] # pc[c] => places[c] = "restarting",
           spent' \in [Callers -> Nat], UNCHANGED installed
    PROVE  TypeOK'
<1>1. pc' \in [Callers -> Places]
  BY DEF Stops, Places
<1>2. \A c \in Callers : Shape(c)'
  BY DEF TypeOK, Stops, Shape, AptPhases
<1>3. recorded' \subseteq Packages /\ tmp' \subseteq Packages
  BY DEF TypeOK, Stops
<1> QED
  BY <1>1, <1>2, <1>3 DEF TypeOK, Stops

LEMMA BeginKeepsTypes ==
    ASSUME TypeOK, NEW c \in Callers, NEW o \in Ops,
           NEW w \in Files \cup Packages \cup {None}, Begin(c, o, w)
    PROVE  TypeOK'
<1>1. /\ pc' = [pc EXCEPT ![c] = CASE o = "rebuild" -> "write"
                                   [] o \in {"restart", "install"} -> "find"
                                   [] o = "health"  -> "probe"]
      /\ op' = [op EXCEPT ![c] = o] /\ want' = [want EXCEPT ![c] = w]
      /\ built' = [built EXCEPT ![c] = None] /\ spent' = [spent EXCEPT ![c] = 0]
      /\ result' = [result EXCEPT ![c] = "other"]
      /\ UNCHANGED <<docker, apt>>
  BY DEF Begin
<1>2. /\ o = "rebuild" => w \in Files \cup {None} /\ c \in Builders
      /\ o = "install" => w \in Packages
  BY DEF Begin
<1>3. pc'[c] = (CASE o = "rebuild" -> "write"
                  [] o \in {"restart", "install"} -> "find"
                  [] o = "health"  -> "probe")
      /\ pc'[c] \in {"write", "find", "probe"} /\ (pc'[c] = "write" <=> o = "rebuild")
  BY <1>1 DEF TypeOK, Ops
<1>4. pc' \in [Callers -> Places]
  BY <1>1, <1>3 DEF TypeOK, Places
<1>5. ASSUME NEW d \in Callers PROVE Shape(d)'
  <2>1. CASE d = c
    BY <1>1, <1>2, <1>3, <2>1 DEF TypeOK, Shape, AptPhases
  <2>2. CASE d # c
    BY <1>1, <2>2 DEF TypeOK, Shape
  <2> QED
    BY <2>1, <2>2
<1>6. /\ op' \in [Callers -> Ops] /\ built' \in [Callers -> Files \cup {None}]
      /\ spent' \in [Callers -> Nat] /\ result' \in [Callers -> {"rebuilt", "other"}]
      /\ want' \in [Callers -> Files \cup Packages \cup {None}]
  BY <1>1 DEF TypeOK
<1> QED
  BY <1>1, <1>4, <1>5, <1>6 DEF TypeOK, docker, apt

LEMMA TypeStep ==
    ASSUME TypeOK, [Next]_vars
    PROVE  TypeOK'
<1>1. ASSUME NEW c \in Callers, Restart(c) PROVE TypeOK'
  <2> DEFINE places == [pc EXCEPT ![c] = "restarting"]
  <2>1. /\ places \in [Callers -> Places]
        /\ \A d \in Callers : places[d] # pc[d] => places[d] = "restarting"
        /\ spent' \in [Callers -> Nat]
    BY <1>1 DEF TypeOK, Restart, Places
  <2>2. Stops(places) /\ UNCHANGED installed
    BY <1>1 DEF Restart
  <2> HIDE DEF places
  <2> QED
    BY <2>1, <2>2, StopsKeepTypes
<1>2. CASE ContainerDies
  <2>1. /\ pc \in [Callers -> Places] /\ spent' \in [Callers -> Nat]
        /\ Stops(pc) /\ UNCHANGED installed
    BY <1>2 DEF ContainerDies, TypeOK
  <2> QED
    BY <2>1, StopsKeepTypes
<1>3. CASE ContainerReturns \/ Recreate \/ UNCHANGED vars
  BY <1>3 DEF ContainerReturns, Recreate, vars, docker, apt, TypeOK, Shape
<1>4. CASE Tick
  BY <1>4 DEF Tick, docker, apt, TypeOK, Shape
<1> QED
  BY <1>1, <1>2, <1>3, <1>4, StepKeepsTypes, BeginKeepsTypes DEF Next

-----------------------------------------------------------------------------
(***************************************************************************)
(* The list of installed packages.                                         *)
(***************************************************************************)

\* dpkg's lock: one apt run at a time, in a running container.
DpkgLock ==
    /\ \A c, d \in Callers : pc[c] \in AptPhases /\ pc[d] \in AptPhases => c = d
    /\ \A c \in Callers : pc[c] \in AptPhases => up

\* The file the list is going to be written from has all that is recorded.
Kept(c) == pc[c] \in {"truncate", "fill"} => recorded \subseteq tmp

Ledger == /\ DpkgLock
          /\ \A c \in Callers : Kept(c)
          /\ NothingRecordedIsLost

\* A step that has no part in an apt run.
NoApt(c) == /\ pc[c] \notin AptPhases /\ pc'[c] \notin AptPhases
            /\ \A d \in Callers \ {c} : pc'[d] = pc[d] /\ want'[d] = want[d]
            /\ up => up'
            /\ UNCHANGED apt

LEMMA NoAptKeepsLedger ==
    ASSUME TypeOK, Ledger, NEW c \in Callers, NoApt(c)
    PROVE  Ledger'
<1>1. DpkgLock'
  BY DEF TypeOK, Ledger, DpkgLock, NoApt
<1>2. ASSUME NEW d \in Callers PROVE Kept(d)'
  BY <1>1 DEF Ledger, Kept, NoApt, AptPhases, apt
<1>3. NothingRecordedIsLost'
  BY DEF Ledger, NothingRecordedIsLost, NoApt, AptPhases, apt
<1> QED
  BY <1>1, <1>2, <1>3 DEF Ledger

LEMMA StopsKeepsLedger ==
    ASSUME TypeOK, Ledger, NEW places \in [Callers -> Places], Stops(places),
           \A c \in Callers : places[c] # pc[c] => places[c] = "restarting"
    PROVE  Ledger'
<1>1. \A c \in Callers : pc'[c] \notin AptPhases
  BY DEF Stops, AptPhases
<1>2. DpkgLock' /\ \A c \in Callers : Kept(c)'
  BY <1>1 DEF DpkgLock, Kept, AptPhases
<1>3. recorded' \subseteq list'
  BY DEF Ledger, NothingRecordedIsLost, Stops
<1> QED
  BY <1>2, <1>3 DEF Ledger, NothingRecordedIsLost

LEMMA AptKeepsLedger ==
    ASSUME TypeOK, Ledger, NEW c \in Callers,
           AptRuns(c) \/ HookReads(c) \/ HookSkips(c) \/ HookTruncates(c) \/ HookFills(c)
    PROVE  Ledger'
<1>1. CASE AptRuns(c)
  <2>1. /\ pc'[c] = "hook" /\ up' = up
        /\ \A d \in Callers : pc[d] \notin AptPhases
        /\ \A d \in Callers \ {c} : pc'[d] = pc[d]
        /\ list' = list /\ recorded' = recorded /\ up
    BY <1>1 DEF AptRuns, Goto, docker, TypeOK
  <2>2. DpkgLock'
    BY <2>1 DEF DpkgLock
  <2>3. \A d \in Callers : Kept(d)'
    BY <2>1 DEF Kept, AptPhases
  <2>4. NothingRecordedIsLost'
    BY <2>1 DEF Ledger, NothingRecordedIsLost, AptPhases
  <2> QED
    BY <2>2, <2>3, <2>4 DEF Ledger
<1>2. CASE HookReads(c)
  <2>1. /\ pc[c] = "hook" /\ pc'[c] = "truncate" /\ up' = up
        /\ \A d \in Callers \ {c} : pc'[d] = pc[d] /\ pc[d] \notin AptPhases
        /\ list' = list /\ up
    BY <1>2 DEF HookReads, Goto, docker, TypeOK, Ledger, DpkgLock, AptPhases
  <2>2. recorded \subseteq list
    BY <2>1 DEF Ledger, NothingRecordedIsLost, AptPhases
  <2>3. recorded' \subseteq tmp' /\ recorded' \subseteq recorded
    BY <1>2, <2>2 DEF HookReads
  <2>4. DpkgLock'
    BY <2>1 DEF DpkgLock
  <2>5. \A d \in Callers : Kept(d)'
    BY <2>3 DEF Kept
  <2> QED
    BY <2>1, <2>2, <2>3, <2>4, <2>5 DEF Ledger, NothingRecordedIsLost
<1>3. CASE HookSkips(c)
  <2>1. /\ pc[c] \in {"hook", "truncate"} /\ pc'[c] = "idle" /\ up' = up
        /\ \A d \in Callers \ {c} : pc'[d] = pc[d] /\ pc[d] \notin AptPhases
        /\ list' = list /\ recorded' = recorded /\ up
    BY <1>3 DEF HookSkips, End, docker, TypeOK, Ledger, DpkgLock, AptPhases
  <2>2. recorded \subseteq list
    BY <2>1 DEF Ledger, NothingRecordedIsLost, AptPhases
  <2>3. DpkgLock' /\ \A d \in Callers : Kept(d)'
    BY <2>1 DEF DpkgLock, Kept, AptPhases
  <2> QED
    BY <2>1, <2>2, <2>3 DEF Ledger, NothingRecordedIsLost
<1>4. CASE HookTruncates(c)
  <2>1. /\ pc[c] = "truncate" /\ pc'[c] = "fill" /\ up' = up
        /\ \A d \in Callers \ {c} : pc'[d] = pc[d] /\ pc[d] \notin AptPhases
        /\ tmp' = tmp /\ recorded' = recorded /\ up
    BY <1>4 DEF HookTruncates, Goto, docker, TypeOK, Ledger, DpkgLock, AptPhases
  <2>2. DpkgLock'
    BY <2>1 DEF DpkgLock
  <2>3. \A d \in Callers : Kept(d)'
    BY <2>1 DEF Ledger, Kept, AptPhases
  <2> QED
    BY <2>1, <2>2, <2>3 DEF Ledger, NothingRecordedIsLost
<1>5. CASE HookFills(c)
  <2>1. /\ pc[c] = "fill" /\ pc'[c] = "idle" /\ up' = up
        /\ \A d \in Callers \ {c} : pc'[d] = pc[d] /\ pc[d] \notin AptPhases
    BY <1>5 DEF HookFills, End, docker, TypeOK, Ledger, DpkgLock, AptPhases
  <2>2. recorded \subseteq tmp
    BY <2>1 DEF Ledger, Kept
  <2>3. recorded' \subseteq list'
    BY <1>5, <2>2 DEF HookFills
  <2>4. DpkgLock' /\ \A d \in Callers : Kept(d)'
    BY <2>1 DEF DpkgLock, Kept, AptPhases
  <2> QED
    BY <2>3, <2>4 DEF Ledger, NothingRecordedIsLost
<1> QED
  BY <1>1, <1>2, <1>3, <1>4, <1>5

LEMMA OtherStepsHaveNoApt ==
    ASSUME TypeOK, NEW c \in Callers,
           \/ Write(c) \/ BuildStarts(c) \/ BuildDone(c) \/ BuildFails(c)
           \/ Find(c) \/ Restarted(c) \/ RestartFails(c)
           \/ ProbeOk(c) \/ ProbeFails(c) \/ AptEnds(c)
           \/ \E o \in Ops, w \in Files \cup Packages \cup {None} : Begin(c, o, w)
    PROVE  NoApt(c)
<1> USE DEF TypeOK, NoApt, AptPhases, docker
<1>1. CASE Write(c) \/ BuildStarts(c) \/ BuildDone(c) \/ BuildFails(c)
  BY <1>1 DEF Write, BuildStarts, BuildDone, BuildFails, Goto, End
<1>2. CASE Find(c)
  <2>1. CASE ~up
    BY <1>2, <2>1 DEF Find, End
  <2>2. CASE up
    BY <1>2, <2>2 DEF Find, Goto
  <2> QED
    BY <2>1, <2>2
<1>3. CASE Restarted(c) \/ RestartFails(c)
  BY <1>3 DEF Restarted, RestartFails, Goto, End
<1>4. CASE ProbeOk(c) \/ ProbeFails(c) \/ AptEnds(c)
  BY <1>4 DEF ProbeOk, ProbeFails, AptEnds, End
<1>5. ASSUME NEW o \in Ops, NEW w \in Files \cup Packages \cup {None}, Begin(c, o, w)
      PROVE  NoApt(c)
  <2>1. pc'[c] = CASE o = "rebuild" -> "write"
                   [] o \in {"restart", "install"} -> "find"
                   [] o = "health"  -> "probe"
    BY <1>5 DEF Begin
  <2>2. pc'[c] \in {"write", "find", "probe"}
    BY <2>1 DEF Ops
  <2> QED
    BY <1>5, <2>2 DEF Begin
<1> QED
  BY <1>1, <1>2, <1>3, <1>4, <1>5

LEMMA LedgerStep ==
    ASSUME TypeOK, Ledger, [Next]_vars
    PROVE  Ledger'
<1>1. ASSUME NEW c \in Callers, Restart(c) PROVE Ledger'
  <2> DEFINE places == [pc EXCEPT ![c] = "restarting"]
  <2>1. /\ places \in [Callers -> Places] /\ Stops(places)
        /\ \A d \in Callers : places[d] # pc[d] => places[d] = "restarting"
    BY <1>1 DEF TypeOK, Restart, Places
  <2> HIDE DEF places
  <2> QED
    BY <2>1, StopsKeepsLedger
<1>2. CASE ContainerDies
  <2>1. pc \in [Callers -> Places] /\ Stops(pc)
    BY <1>2 DEF ContainerDies, TypeOK
  <2> QED
    BY <2>1, StopsKeepsLedger
<1>3. CASE ContainerReturns \/ Tick \/ UNCHANGED vars
  <2>1. UNCHANGED <<apt, pc, want>> /\ (up => up')
    BY <1>3 DEF ContainerReturns, Tick, vars, docker
  <2>2. DpkgLock' /\ (\A c \in Callers : Kept(c)') /\ NothingRecordedIsLost'
    BY <2>1 DEF Ledger, DpkgLock, Kept, NothingRecordedIsLost, apt
  <2> QED
    BY <2>2 DEF Ledger
<1>4. CASE Recreate
  <2>1. /\ ~up /\ UNCHANGED <<up, list, tmp, recorded, pc, want>>
    BY <1>4 DEF Recreate, docker
  <2>2. \A c \in Callers : pc[c] \notin AptPhases
    BY <2>1 DEF Ledger, DpkgLock
  <2>3. DpkgLock' /\ (\A c \in Callers : Kept(c)') /\ NothingRecordedIsLost'
    BY <2>1, <2>2 DEF Ledger, DpkgLock, Kept, NothingRecordedIsLost, AptPhases
  <2> QED
    BY <2>3 DEF Ledger
<1> QED
  BY <1>1, <1>2, <1>3, <1>4, AptKeepsLedger, OtherStepsHaveNoApt, NoAptKeepsLedger
  DEF Next, Step

-----------------------------------------------------------------------------
(***************************************************************************)
(* What a rebuild has built, if one caller rebuilds.                       *)
(***************************************************************************)

\* The Dockerfile a rebuild brought is the one in sandbox/ until docker build
\* has read it, the one that was read while it is built, and the one of the
\* tagged image from then on.
Carried(c) ==
    /\ pc[c] = "build" /\ want[c] # None => dockerfile = want[c]
    /\ pc[c] = "building" /\ want[c] # None => built[c] = want[c]
    /\ \/ op[c] = "rebuild" /\ pc[c] \in {"find", "restart", "restarting", "probe"}
       \/ result[c] = "rebuilt"
       => image = built[c] /\ (want[c] # None => built[c] = want[c])
    /\ result[c] = "rebuilt" => pc[c] = "idle" /\ c \in Builders

Rebuilds == \A c \in Callers : Carried(c)

OneBuilder == \A b, c \in Builders : b = c

\* A step that leaves the Dockerfile, the image and the calls that build alone.
LEMMA OthersCarried ==
    ASSUME TypeOK, Rebuilds, NEW d \in Callers,
           op'[d] = op[d], want'[d] = want[d], built'[d] = built[d],
           result'[d] = result[d],
           pc'[d] = pc[d] \/ (pc[d] \in AptPhases /\ pc'[d] = "killed"),
           d \in Builders => UNCHANGED <<dockerfile, image>>
    PROVE  Carried(d)'
<1>1. Carried(d) /\ Shape(d)
  BY DEF Rebuilds, TypeOK
<1> QED
  BY <1>1 DEF Carried, Shape, AptPhases

LEMMA StepLeavesOthers ==
    ASSUME TypeOK, NEW c \in Callers, Step(c), ~Restart(c), NEW d \in Callers \ {c}
    PROVE  /\ op'[d] = op[d] /\ want'[d] = want[d] /\ built'[d] = built[d]
           /\ result'[d] = result[d] /\ pc'[d] = pc[d]
           /\ c \in Builders \/ UNCHANGED <<dockerfile, image>>
<1> USE DEF TypeOK, docker
<1>1. CASE Write(c) \/ BuildDone(c)
  <2>1. c \in Builders
    BY <1>1 DEF Write, BuildDone, Shape
  <2> QED
    BY <1>1, <2>1 DEF Write, BuildDone, Goto
<1>2. CASE BuildStarts(c) \/ BuildFails(c)
  BY <1>2 DEF BuildStarts, BuildFails, Goto, End
<1>3. CASE Find(c)
  <2>1. CASE ~up
    BY <1>3, <2>1 DEF Find, End
  <2>2. CASE up
    BY <1>3, <2>2 DEF Find, Goto
  <2> QED
    BY <2>1, <2>2
<1>4. CASE Restarted(c) \/ RestartFails(c)
  BY <1>4 DEF Restarted, RestartFails, Goto, End
<1>5. CASE ProbeOk(c) \/ ProbeFails(c) \/ AptEnds(c)
  BY <1>5 DEF ProbeOk, ProbeFails, AptEnds, End
<1>6. CASE AptRuns(c) \/ HookReads(c) \/ HookSkips(c) \/ HookTruncates(c) \/ HookFills(c)
  BY <1>6 DEF AptRuns, HookReads, HookSkips, HookTruncates, HookFills, Goto, End
<1> QED
  BY <1>1, <1>2, <1>3, <1>4, <1>5, <1>6 DEF Step

LEMMA OwnStepCarried ==
    ASSUME TypeOK, Rebuilds, NEW c \in Callers, Step(c), ~Restart(c)
    PROVE  Carried(c)'
<1>0. Carried(c) /\ Shape(c)
  BY DEF Rebuilds, TypeOK
<1>1. ASSUME End(c, "other") PROVE Carried(c)'
  <2>1. pc'[c] = "idle" /\ op'[c] = "health" /\ result'[c] = "other"
    BY <1>1, EndKeepsTypes
  <2> QED
    BY <2>1 DEF Carried
<1>2. ASSUME NEW place \in Places, Goto(c, place), pc[c] # "idle",
             place \notin {"build", "building", "find", "restart", "restarting", "probe"}
      PROVE  Carried(c)'
  <2>1. /\ pc'[c] = place /\ op'[c] = op[c] /\ want'[c] = want[c]
        /\ result'[c] = result[c]
    BY <1>2, GotoKeepsTypes
  <2> QED
    BY <1>0, <1>2, <2>1 DEF Carried
<1>3. ASSUME NEW place \in {"find", "restart", "restarting", "probe"}, Goto(c, place),
             UNCHANGED image, built'[c] = built[c],
             pc[c] \in {"find", "restart", "restarting", "probe"}
      PROVE  Carried(c)'
  <2>1. /\ pc'[c] = place /\ op'[c] = op[c] /\ want'[c] = want[c]
        /\ result'[c] = result[c]
    BY <1>3, GotoKeepsTypes DEF Places
  <2> QED
    BY <1>0, <1>3, <2>1 DEF Carried
<1>4. CASE Write(c)
  <2>1. /\ pc'[c] = "build" /\ want'[c] = want[c] /\ result'[c] = result[c]
        /\ pc[c] = "write"
    BY <1>4, GotoKeepsTypes DEF Write, Places
  <2>2. want'[c] # None => dockerfile' = want'[c]
    BY <1>4, <2>1 DEF Write
  <2> QED
    BY <1>0, <2>1, <2>2 DEF Carried
<1>5. CASE BuildStarts(c)
  <2>1. /\ pc'[c] = "building" /\ want'[c] = want[c] /\ result'[c] = result[c]
        /\ pc[c] = "build" /\ built'[c] = dockerfile
    BY <1>5, GotoKeepsTypes DEF BuildStarts, Places, TypeOK
  <2> QED
    BY <1>0, <2>1 DEF Carried
<1>6. CASE BuildDone(c)
  <2>1. /\ pc'[c] = "find" /\ want'[c] = want[c] /\ result'[c] = result[c]
        /\ pc[c] = "building" /\ built'[c] = built[c] /\ image' = built[c]
    BY <1>6, GotoKeepsTypes DEF BuildDone, Places
  <2> QED
    BY <1>0, <2>1 DEF Carried
<1>7. CASE BuildFails(c) \/ RestartFails(c) \/ ProbeFails(c) \/ AptEnds(c)
            \/ HookSkips(c) \/ HookFills(c)
  BY <1>1, <1>7 DEF BuildFails, RestartFails, ProbeFails, AptEnds, HookSkips, HookFills
<1>8. CASE Find(c)
  <2>1. CASE ~up
    BY <1>1, <1>8, <2>1 DEF Find
  <2>2. CASE up /\ op[c] = "install"
    <3>1. Goto(c, "apt") /\ pc[c] = "find"
      BY <1>8, <2>2 DEF Find
    <3> QED
      BY <1>2, <3>1 DEF Places
  <2>3. CASE up /\ op[c] # "install"
    BY <1>3, <1>8, <2>3 DEF Find, docker
  <2> QED
    BY <2>1, <2>2, <2>3
<1>9. CASE Restarted(c)
  BY <1>3, <1>9 DEF Restarted
<1>10. CASE ProbeOk(c)
  <2>1. CASE op[c] # "rebuild"
    BY <1>1, <1>10, <2>1 DEF ProbeOk
  <2>2. CASE op[c] = "rebuild"
    <3>1. End(c, "rebuilt") /\ pc[c] = "probe" /\ image' = image /\ built' = built
      BY <1>10, <2>2 DEF ProbeOk, docker
    <3>2. pc'[c] = "idle" /\ op'[c] = "health" /\ want'[c] = want[c] /\ c \in Builders
      BY <1>0, <2>2, <3>1, EndKeepsTypes DEF Shape
    <3> QED
      BY <1>0, <2>2, <3>1, <3>2 DEF Carried
  <2> QED
    BY <2>1, <2>2
<1>11. CASE AptRuns(c) \/ HookReads(c) \/ HookTruncates(c)
  BY <1>2, <1>11 DEF AptRuns, HookReads, HookTruncates, Places, AptPhases
<1> QED
  BY <1>4, <1>5, <1>6, <1>7, <1>8, <1>9, <1>10, <1>11 DEF Step

LEMMA RebuildsStep ==
    ASSUME OneBuilder, TypeOK, Rebuilds, [Next]_vars
    PROVE  Rebuilds'
<1> SUFFICES ASSUME NEW d \in Callers PROVE Carried(d)'
  BY DEF Rebuilds
<1>0. Carried(d) /\ Shape(d)
  BY DEF Rebuilds, TypeOK
<1>1. ASSUME NEW c \in Callers, Step(c), ~Restart(c) PROVE Carried(d)'
  <2>1. CASE c = d
    BY <1>1, <2>1, OwnStepCarried
  <2>2. CASE c # d
    <3>1. d \in Builders => UNCHANGED <<dockerfile, image>>
      BY <1>1, <2>2, StepLeavesOthers DEF OneBuilder
    <3> QED
      BY <1>1, <2>2, <3>1, StepLeavesOthers, OthersCarried
  <2> QED
    BY <2>1, <2>2
<1>2. ASSUME NEW c \in Callers, Restart(c) PROVE Carried(d)'
  <2>1. /\ op'[d] = op[d] /\ want'[d] = want[d] /\ built'[d] = built[d]
        /\ result'[d] = result[d] /\ UNCHANGED <<dockerfile, image>>
    BY <1>2 DEF Restart, Stops
  <2>2. CASE c = d
    <3>1. pc[d] = "restart" /\ pc'[d] = "restarting"
      BY <1>2, <2>2 DEF Restart, Stops, TypeOK, AptPhases
    <3> QED
      BY <1>0, <2>1, <3>1 DEF Carried
  <2>3. CASE c # d
    <3>1. pc'[d] = pc[d] \/ (pc[d] \in AptPhases /\ pc'[d] = "killed")
      BY <1>2, <2>3 DEF Restart, Stops, TypeOK
    <3> QED
      BY <2>1, <3>1, OthersCarried
  <2> QED
    BY <2>2, <2>3
<1>3. CASE ContainerDies
  <2>1. /\ op'[d] = op[d] /\ want'[d] = want[d] /\ built'[d] = built[d]
        /\ result'[d] = result[d] /\ UNCHANGED <<dockerfile, image>>
        /\ pc'[d] = pc[d] \/ (pc[d] \in AptPhases /\ pc'[d] = "killed")
    BY <1>3 DEF ContainerDies, Stops
  <2> QED
    BY <2>1, OthersCarried
<1>4. CASE ContainerReturns \/ Recreate \/ Tick \/ UNCHANGED vars
  <2>1. UNCHANGED <<dockerfile, image, pc, op, want, built, result>>
    BY <1>4 DEF ContainerReturns, Recreate, Tick, vars, docker
  <2> QED
    BY <2>1, OthersCarried
<1>5. ASSUME NEW c \in Callers, NEW o \in Ops,
             NEW w \in Files \cup Packages \cup {None}, Begin(c, o, w)
      PROVE  Carried(d)'
  <2>1. CASE c = d
    <3>1. pc'[d] = CASE o = "rebuild" -> "write"
                     [] o \in {"restart", "install"} -> "find"
                     [] o = "health"  -> "probe"
      BY <1>5, <2>1 DEF Begin, TypeOK
    <3>2. /\ pc'[d] \in {"write", "find", "probe"} /\ (pc'[d] = "write" <=> o = "rebuild")
          /\ op'[d] = o /\ result'[d] = "other"
      BY <1>5, <2>1, <3>1 DEF Begin, TypeOK, Ops
    <3> QED
      BY <3>2 DEF Carried
  <2>2. CASE c # d
    <3>1. /\ op'[d] = op[d] /\ want'[d] = want[d] /\ built'[d] = built[d]
          /\ result'[d] = result[d] /\ pc'[d] = pc[d]
          /\ UNCHANGED <<dockerfile, image>>
      BY <1>5, <2>2 DEF Begin, TypeOK, docker
    <3> QED
      BY <3>1, OthersCarried
  <2> QED
    BY <2>1, <2>2
<1> QED
  BY <1>1, <1>2, <1>3, <1>4, <1>5 DEF Next

-----------------------------------------------------------------------------
LEMMA InitHolds == Init => TypeOK /\ Ledger /\ Rebuilds
<1> SUFFICES ASSUME Init PROVE TypeOK /\ Ledger /\ Rebuilds
  OBVIOUS
<1>1. TypeOK
  BY FilesAssumption DEF Init, TypeOK, Shape, Places, Ops, AptPhases
<1>2. Ledger
  BY DEF Init, Ledger, DpkgLock, Kept, NothingRecordedIsLost, AptPhases
<1>3. Rebuilds
  BY DEF Init, Rebuilds, Carried
<1> QED
  BY <1>1, <1>2, <1>3

\* TypeOK: among others, nothing but a Dockerfile is built and nothing but a
\* package is installed.
THEOREM TypesHold == Spec => []TypeOK
<1>1. Init => TypeOK
  BY InitHolds
<1> QED
  BY <1>1, TypeStep, PTL DEF Spec

\* NothingRecordedIsLost (record-apt-packages.sh): whatever fails, restarts or
\* runs side by side, a package the hook has written to the list stays there,
\* but for what a stop of the container, a full disk or a failed tool loses
\* while the list is rewritten.  A package reported installed need not be in it.
THEOREM TheListOnlyGrows == Spec => []NothingRecordedIsLost
<1>1. Init => Ledger
  BY InitHolds
<1>2. TypeOK /\ Ledger /\ [Next]_vars => Ledger'
  BY LedgerStep
<1>3. Ledger => NothingRecordedIsLost
  BY DEF Ledger
<1> QED
  BY <1>1, <1>2, <1>3, TypesHold, PTL DEF Spec

\* RebuiltMeansBuilt (rebuild_sandbox): if one caller rebuilds, success means
\* that the tagged image is built from the Dockerfile it brought.
THEOREM SuccessMeansBuilt ==
    ASSUME OneBuilder
    PROVE  Spec => []RebuiltMeansBuilt
<1>1. Init => Rebuilds
  BY InitHolds
<1>2. TypeOK /\ Rebuilds /\ [Next]_vars => Rebuilds'
  BY RebuildsStep
<1>3. Rebuilds => RebuiltMeansBuilt
  BY DEF Rebuilds, Carried, RebuiltMeansBuilt
<1> QED
  BY <1>1, <1>2, <1>3, TypesHold, PTL DEF Spec
=============================================================================

---------------------------- MODULE ControlPlane ----------------------------
(***************************************************************************)
(* prax_sandbox/control_plane.py: restarting the sandbox container,        *)
(* rebuilding its image, asking whether it is there and installing         *)
(* packages in it, with the list of them that the image's dpkg hook keeps; *)
(* called through the daemon, whose handlers run in threads side by side.  *)
(* A client that gives up is not noticed, so the model leaves it out.      *)
(*                                                                         *)
(* Only the image build and the wait for the container take time that is   *)
(* counted, in ticks of a minute; apt-get takes as long as it likes.       *)
(***************************************************************************)
EXTENDS Naturals

CONSTANTS
    Callers,     \* calls under way at the same time
    Builders,    \* those of them that may rebuild
    Files,       \* what sandbox/Dockerfile can contain
    Shipped,     \* what it contains at first
    Packages,    \* packages to install, none of them in an image
    BuildLimit,  \* the timeout of docker build
    ReadyLimit,  \* what rebuild and restart give the container to come up
    None

ASSUME CallersAssumption == Builders \subseteq Callers
ASSUME FilesAssumption == Shipped \in Files /\ None \notin Files \cup Packages
ASSUME LimitsAssumption == BuildLimit \in Nat /\ ReadyLimit \in Nat

VARIABLES
    dockerfile, \* sandbox/Dockerfile
    image,      \* the file the tagged image was built from
    up,         \* the container runs
    installed,  \* the packages in this container
    list,       \* installed-apt.txt, on the workspace mount
    tmp,        \* what the hook is going to write there
    pc,         \* where each call is
    op,         \* "rebuild", "restart", "health", "install"
    want,       \* dockerfile_content, or the package
    built,      \* the file docker build read, for this call
    spent,      \* ticks in the present wait
    result,     \* what the call returned: "rebuilt", or something "other"
    recorded    \* (history) packages the hook has written to the list, but for what
                \* a stop, a full disk or a failed tool lost while it was rewritten
apt    == <<installed, list, tmp, recorded>>
docker == <<dockerfile, image, up>>
vars == <<docker, apt, pc, op, want, built, spent, result>>

Ops == {"rebuild", "restart", "health", "install"}

Init == /\ dockerfile = Shipped /\ image = Shipped
        /\ up = TRUE
        /\ installed = {} /\ list = {} /\ tmp = {} /\ recorded = {}
        /\ pc = [c \in Callers |-> "idle"]
        /\ op = [c \in Callers |-> "health"]
        /\ want = [c \in Callers |-> None]
        /\ built = [c \in Callers |-> None]
        /\ spent = [c \in Callers |-> 0]
        /\ result = [c \in Callers |-> "other"]

-----------------------------------------------------------------------------
Goto(c, place) == /\ pc' = [pc EXCEPT ![c] = place]
                  /\ spent' = [spent EXCEPT ![c] = 0]
                  /\ UNCHANGED <<op, want, result>>

End(c, r) == /\ pc' = [pc EXCEPT ![c] = "idle"]
             /\ spent' = [spent EXCEPT ![c] = 0]
             /\ result' = [result EXCEPT ![c] = r]
             /\ op' = [op EXCEPT ![c] = "health"]
             /\ want' = [want EXCEPT ![c] = IF r = "rebuilt" THEN @ ELSE None]

\* A call arrives; w is the Dockerfile a rebuild brings, or None, or the package
\* to install.
Begin(c, o, w) ==
    /\ pc[c] = "idle"
    /\ o = "rebuild" => c \in Builders
    /\ IF o = "install" THEN w \in Packages
       ELSE w = None \/ (o = "rebuild" /\ w \in Files)
    /\ op' = [op EXCEPT ![c] = o]
    /\ want' = [want EXCEPT ![c] = w]
    /\ pc' = [pc EXCEPT ![c] = CASE o = "rebuild" -> "write"
                                 [] o \in {"restart", "install"} -> "find"
                                 [] o = "health"  -> "probe"]
    /\ built' = [built EXCEPT ![c] = None]
    /\ spent' = [spent EXCEPT ![c] = 0]
    /\ result' = [result EXCEPT ![c] = "other"]
    /\ UNCHANGED <<docker, apt>>

\* rebuild_sandbox: sandbox/Dockerfile is overwritten if there is a new one.
Write(c) ==
    /\ pc[c] = "write"
    /\ dockerfile' = IF want[c] = None THEN dockerfile ELSE want[c]
    /\ Goto(c, "build")
    /\ UNCHANGED <<image, up, apt, built>>

\* docker build reads the file.
BuildStarts(c) ==
    /\ pc[c] = "build"
    /\ built' = [built EXCEPT ![c] = dockerfile]
    /\ Goto(c, "building")
    /\ UNCHANGED <<docker, apt>>

BuildDone(c) ==
    /\ pc[c] = "building"
    /\ image' = built[c]
    /\ Goto(c, "find")
    /\ UNCHANGED <<dockerfile, up, apt, built>>

\* Mutant: the return code of docker build is not looked at.
BuildFailsUnseen(c) ==
    /\ pc[c] = "building"
    /\ built' = [built EXCEPT ![c] = None]
    /\ Goto(c, "find")
    /\ UNCHANGED <<docker, apt>>

\* The build fails or meets its timeout: an error, and the new Dockerfile stays.
BuildFails(c) ==
    /\ pc[c] = "building"
    /\ built' = [built EXCEPT ![c] = None]
    /\ End(c, "other")
    /\ UNCHANGED <<docker, apt>>

\* find_sandbox_container lists running containers only.
Find(c) ==
    /\ pc[c] = "find"
    /\ IF ~up THEN End(c, "other")
       ELSE Goto(c, IF op[c] = "install" THEN "apt" ELSE "restart")
    /\ UNCHANGED <<docker, apt, built>>

\* An apt run, in the container: apt and dpkg, then the hook.
AptPhases == {"hook", "truncate", "fill"}

\* The container stops, and every process in it.
Stops(places) ==
    /\ up' = FALSE
    /\ pc' = [c \in Callers |-> IF places[c] \in AptPhases THEN "killed" ELSE places[c]]
    /\ tmp' = {}
    /\ recorded' = IF \E c \in Callers : pc[c] = "fill" THEN {} ELSE recorded
    /\ UNCHANGED <<dockerfile, image, list, op, want, built, result>>

\* Docker restarts a container for one caller at a time.
Restart(c) ==
    /\ pc[c] = "restart"
    /\ \A d \in Callers : pc[d] # "restarting"
    /\ Stops([pc EXCEPT ![c] = "restarting"])
    /\ spent' = [spent EXCEPT ![c] = 0]
    /\ UNCHANGED installed

\* container.restart returns: the same container, of the same image.
Restarted(c) ==
    /\ pc[c] = "restarting"
    /\ up' = TRUE
    /\ Goto(c, "probe")
    /\ UNCHANGED <<dockerfile, image, apt, built>>

\* It raises, and the container may be left stopped.
RestartFails(c) ==
    /\ pc[c] \in {"restart", "restarting"}
    /\ End(c, "other")
    /\ UNCHANGED <<docker, apt, built>>

Limit(c) == IF op[c] = "health" THEN 0 ELSE ReadyLimit

-----------------------------------------------------------------------------
\* install_package: apt-get has dpkg, whose lock is free, install the package,
\* which it may fail to do, and dpkg then runs the hook.
AptRuns(c) ==
    /\ pc[c] = "apt" /\ up
    /\ want[c] \notin installed
    /\ \A d \in Callers : pc[d] \notin AptPhases
    /\ installed' \in {installed, installed \cup {want[c]}}
    /\ Goto(c, "hook")
    /\ UNCHANGED <<docker, list, tmp, recorded, built>>

\* apt-get finds the package there: no dpkg and no hook, and it is reported
\* installed; or it fails, or the container goes while apt or its hook runs.
AptEnds(c) ==
    /\ pc[c] \in {"apt", "killed"}
    /\ End(c, "other")
    /\ UNCHANGED <<docker, apt, built>>

\* Mutant: the list is what the container has.
HookForgets(c) ==
    /\ pc[c] = "hook"
    /\ tmp' = installed
    /\ Goto(c, "truncate")
    /\ UNCHANGED <<docker, installed, list, recorded, built>>

\* record-apt-packages: the old list and what the container has, to a file of
\* its own; of which a full disk or a tool that fails may keep some out, unseen.
HookReads(c) ==
    /\ pc[c] = "hook"
    /\ tmp' \in SUBSET (list \cup installed)
    /\ recorded' = IF tmp' = list \cup installed THEN recorded
                   ELSE recorded \cap tmp'
    /\ Goto(c, "truncate")
    /\ UNCHANGED <<docker, installed, list, built>>

\* There is no such file, or the list cannot be opened: the hook ends with 0,
\* and install_package reports the package all the same.
HookSkips(c) ==
    /\ pc[c] \in {"hook", "truncate"}
    /\ tmp' = {}
    /\ End(c, "other")
    /\ UNCHANGED <<docker, installed, list, recorded, built>>

\* The list is written anew, after it was opened empty ...
HookTruncates(c) ==
    /\ pc[c] = "truncate"
    /\ list' = {}
    /\ Goto(c, "fill")
    /\ UNCHANGED <<docker, installed, tmp, recorded, built>>

\* ... with all of that file, or with what a full disk has room for.
HookFills(c) ==
    /\ pc[c] = "fill"
    /\ list' \in SUBSET tmp
    /\ recorded' = IF list' = tmp THEN recorded \cup tmp ELSE recorded \cap list'
    /\ tmp' = {}
    /\ End(c, "other")
    /\ UNCHANGED <<docker, installed, built>>

-----------------------------------------------------------------------------
\* _container_ready: "docker exec true" succeeds.
ProbeOk(c) ==
    /\ pc[c] = "probe" /\ up
    /\ End(c, IF op[c] = "rebuild" THEN "rebuilt" ELSE "other")
    /\ UNCHANGED <<docker, apt, built>>

\* Mutant: the deadline of _container_ready is never met.
ProbeNeverFails(c) ==
    /\ pc[c] = "probe" /\ ~up /\ spent[c] > Limit(c)
    /\ End(c, "other")
    /\ UNCHANGED <<docker, apt, built>>

\* Its deadline passes.
ProbeFails(c) ==
    /\ pc[c] = "probe" /\ ~up /\ spent[c] >= Limit(c)
    /\ End(c, "other")
    /\ UNCHANGED <<docker, apt, built>>

\* The container dies, or the restart policy brings it back.
ContainerDies == up /\ Stops(pc) /\ UNCHANGED <<installed, spent>>
ContainerReturns == /\ ~up /\ up' = TRUE
                    /\ \A c \in Callers : pc[c] # "restarting"
                    /\ UNCHANGED <<dockerfile, image, apt, pc, op, want, built,
                                   spent, result>>

\* "docker compose up" puts a new container of the tagged image in its place.
Recreate == /\ ~up /\ installed # {} /\ installed' = {}
            /\ \A c \in Callers : pc[c] # "restarting"
            /\ UNCHANGED <<docker, list, tmp, recorded, pc, op, want, built,
                           spent, result>>

\* A call whose wait is not over.
Waits(c) == \/ pc[c] = "building" /\ spent[c] < BuildLimit
            \/ pc[c] = "probe" /\ spent[c] < Limit(c)

\* Where a call may stay for any time: nothing gives apt-get a deadline.
Untimed == {"idle", "apt", "killed"} \cup AptPhases

Tick ==
    /\ \E c \in Callers : Waits(c)
    /\ \A c \in Callers : pc[c] \in Untimed \/ Waits(c)
    /\ spent' = [c \in Callers |-> IF Waits(c) THEN spent[c] + 1 ELSE spent[c]]
    /\ UNCHANGED <<docker, apt, pc, op, want, built, result>>

Step(c) == \/ Write(c) \/ BuildStarts(c) \/ BuildDone(c) \/ BuildFails(c)
           \/ Find(c) \/ Restart(c) \/ Restarted(c) \/ RestartFails(c)
           \/ ProbeOk(c) \/ ProbeFails(c)
           \/ AptRuns(c) \/ AptEnds(c)
           \/ HookReads(c) \/ HookSkips(c) \/ HookTruncates(c) \/ HookFills(c)
Next == \/ \E c \in Callers : \/ \E o \in Ops, w \in Files \cup Packages \cup {None} : Begin(c, o, w)
                              \/ Step(c)
        \/ ContainerDies \/ ContainerReturns \/ Recreate \/ Tick
Spec == Init /\ [][Next]_vars

\* Handlers go on with their short steps, which assumes that Docker answers the
\* commands that list, restart and probe; time passes, and at the end of a wait
\* its deadline takes hold, also when the container comes and goes.
Short == {"write", "build", "find", "restart", "restarting"}
Ends(c) == /\ pc[c] \in Short \/ (pc[c] = "building" /\ ~Waits(c))
           /\ Step(c)
FairSpec == Spec /\ SF_vars(Tick)
                 /\ \A c \in Callers :
                       /\ SF_vars(Ends(c))
                       /\ SF_vars(ProbeOk(c) \/ ProbeFails(c))

-----------------------------------------------------------------------------
\* "it overwrites sandbox/Dockerfile before building" (control_plane.py:259):
\* as long as one caller at a time rebuilds, a rebuild that reports success has
\* built the Dockerfile it was given, and that image is the tagged one.
RebuiltMeansBuilt ==
    \A c \in Callers :
        result[c] = "rebuilt" =>
            image = built[c] /\ (want[c] # None => built[c] = want[c])

\* "The list only grows" (record-apt-packages.sh:9): a package the hook has once
\* written to the list stays there, over restarts, new containers and installs
\* side by side; except what is lost when the container stops, the disk is full
\* or a tool fails while the list is being rewritten.  A package reported
\* installed need not be recorded: every error of the hook exits 0.
NothingRecordedIsLost ==
    (\E c \in Callers : pc[c] = "fill") \/ recorded \subseteq list

\* A restart, a rebuild or a health check returns, even if the container never
\* comes up again and whatever apt-get does.
CallsEnd ==
    \A c \in Callers : pc[c] # "idle" /\ op[c] # "install" ~> pc[c] = "idle"
=============================================================================

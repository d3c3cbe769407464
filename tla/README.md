# A TLA+ model of the prax sandbox

The prax sandbox is a container with a shell, a browser and a desktop for an
agent, and the code around it that runs commands in it, drives its browser,
shares its clipboard and tabs, and decides what it may connect to.  This
directory holds TLA+ modules for the parts of that code whose correctness
depends on interleaving, time or failure, the TLC runs that check them on small
instances, and TLAPS proofs of what matters most for every instance.

`PROJECT.json` names, for every definition that models code, the lines it stands
for; for every property a mutated definition that breaks it; and lists the
findings, the hazards and the theorems.

Run a check or a proof in this directory with

    tlc -config EgressGate.cfg MCEgressGate.tla
    tlapm EgressGateProofs.tla

## 1. Inventory

| Component | Source | State | Operations | What is hard |
|---|---|---|---|---|
| Egress gate | `prax_sandbox/egress_gate/gate.py` | slot semaphore; `_pending`, `_by_dest` (questions); `_decisions` (remembered answers); `_tainted_until` | proxy handler: read head, decide, ask, resolve, dial, tunnel; admin API: list, answer, taint, untaint | handlers interleave at each await; several requests share a question; answer, timer and resumption race; taint rises, lapses, is raised again |
| Egress policy | `egress_gate/policy.py` | none | `Policy.decide` | order of rules, rules that lapse under taint, methods a CONNECT hides |
| Tab-cast extension | `sandbox/cast-ext/` | worker: `casting`, `castPort`; document: `recorder`, `stream`, `bgPort`, socket | toggle, start, stop, connect, disconnect, `onstop`, signaling | two event loops and a port; awaits between test and set; the worker is restarted by Chrome at will |
| Clipboard bridge | `sandbox/clipboard-bridge.py` | `last_clipboard`, set of clients, X11 clipboard | poll, set, get, join, leave | xsel runs in threads; polled text may be stale when applied |
| Browser control | `prax_sandbox/cdp_service.py` | `_lock`; in Chrome: tabs, pages, keys held down | press, type, click, insert, read, navigate, screenshot, scroll, evaluate | several threads on one browser; a new target per command; partial failure |
| Command execution | `prax_sandbox/exec.py`, `control_plane.run_shell/run_command` | processes in the container | exec under coreutils `timeout` | three deadlines, exit codes with several meanings, container restarts |
| Sandbox lifecycle | `control_plane.py` | `sandbox/Dockerfile`, image tag, container | restart, rebuild, health | concurrent calls without a lock, long waits |
| Package records | `control_plane.py`, `sandbox/*.sh`, `scripts/ensure-image.sh` | lists under `/workspace/.sandbox`, image label | install, record, rebuild | interrupted rewrites; lists outlive the containers they were taken in |
| Workspace files | `fileops.py`, locks of `daemon/app.py` | files, a lock per spelling of a user id | list, read, write, grep, tar in and out | writers the lock does not exclude, files cut before they are filled, a tar that fails half way |
| Daemon | `daemon/app.py`, `auth.py`, `config.py` | `_Limiter`, file locks | one route per method | capacity, errors on the way out |
| CDP proxy, relays | `daemon/cdp_proxy.py`, `egress_gate/__main__.py` | two pumps per connection | authorise, dial, pump, close | which side ends first, sides that neither read nor close |
| Client | `prax_sandbox_client/` | configuration | `InProcessTransport`, `HttpTransport` | client and daemon deadlines |
| Image, desktop, deployment | `sandbox/`, compose files, Dockerfiles | none of its own | start-up | configuration, third-party programs |

How they interact: the harness calls the client, which calls the control plane
in process or the daemon over HTTP; the daemon runs control-plane functions in
threads; these reach the container through Docker (exec, restart, build) and
Chrome through DevTools.  Inside the container the cast extension talks to a
signaling server, the clipboard bridge to browser clients, and everything that
leaves for the network goes through the egress gate, which a person (admin
token) and the harness (taint token) talk to.

What makes each correct is stated in section 3, component by component.
`PROJECT.json` lists the hazards at their lines, also those no property covers.

## 2. Modules and plan

| Module | Is |
|---|---|
| `EgressPolicy` | rules and first-match decision, as operators |
| `MCEgressPolicy` | all policies of up to three rules, and independent readings of them |
| `EgressGate` (extends `EgressPolicy`) | the gate |
| `QuestionBoard` | what the gate's asking promises, without slots, timers and resolvers |
| `EgressGateBoard` (extends `EgressGate`, instantiates `QuestionBoard`) | the refinement mapping |
| `MCEgressGate` (extends both of the above and `MCEgressPolicy`) | instances for TLC |
| `EgressGateProofs` (extends `MCEgressGate`) | theorems about policy and gate, and the refinement |
| `CastExtension`, `MCCastExtension`, `CastExtensionProofs` | worker, document and the port between them |
| `ClipboardBridge`, `MCClipboardBridge`, `ClipboardBridgeProofs` | poller and clients |
| `KeySpec`, `MCKeySpec` | key specifications and their events, as operators |
| `CdpFrames` | headers of WebSocket frames, as operators |
| `CdpService` (extends `KeySpec`), `MCCdpService` | threads, lock, commands, Chrome |
| `CdpServiceProofs` (extends `MCCdpService`) | theorems about calls, key specifications and frames |
| `RemoteExec`, `MCRemoteExec`, `RemoteExecProofs` | client deadline, limiter, `timeout`, container |
| `ControlPlane`, `MCControlPlane`, `ControlPlaneProofs` | restart, rebuild, readiness, health, apt installs and their list |
| `WorkspaceFiles`, `MCWorkspaceFiles`, `WorkspaceFilesProofs` | tar transfers and writes, thread pool, per-user lock |
| `Pumps`, `PumpsProofs` | the CDP proxy and the relays |

The order is that of consequence: first the gate, where a wrong step lets
something out or blocks a person's decision; then the components with several
actors; then sequential file and package handling.

Abstract specifications still worth stating: a mutual exclusion specification
that `CdpService` refines by its lock; a counting resource that the gate's slots
and `_Limiter` both refine; an atomic tree that `WorkspaceFiles` refines as far as
one lock reaches.

Theorems still worth proving: the refinements of those, once they are stated.

## 3. What is modelled, what the runs show

### Egress policy

A policy is a record of rules and default, as `Policy.from_dict` accepts them.
A host is a sequence of labels, so the suffix test of `matches_host` is one on
sequences.  `Decide` is the least index that applies, where the code returns
from inside its loop.  `MCEgressPolicy` has every policy of up to three rules over
seven kinds of rule, every request over a name and its subdomain, two ports and
two methods.  Run `gate` looks at them in its initial state (there is nothing in
them that changes).  Two of the readings take a rule out of the policy and expect
the same decision: a rule that speaks of methods, for a CONNECT
(`HiddenMethodDecidesNothing`), and, for a name, a wildcard that is not above it or
an exact rule of a shorter name (`WildcardsCoverSubdomainsOnly`).  The third: no
request is freer under taint (`TaintOnlyTightens`, if only allow rules are
`clean_only`).  Three
rules suffice for a rule that is skipped, one that decides and one that must not.

### Egress gate

`pc` is where a connection's handler is; each stretch between awaits is one
action (`Connect`, `AllowByRule`, `DenyByRule`, `RefuseLiteral`,
`UseRemembered`, `OpenQuestion`, `JoinQuestion`, `Wake`, `Timeout`, `Resolve`,
`Dial`, `CopyEnds`, ...), with the release of the slot in `finally` part of
every one that ends the handler (`Exit` lets in the first of the queue, as
`asyncio.Semaphore` does).  `ask` are the `Pending` objects, `pending` and
`byDest` the two indexes, `decisions` the memory.  `Answer`, `AnswerVoid`,
`SetTaint`, `RaiseTaint` and `ClearTaint` are the admin handlers.

Clocks are countdowns that `Tick` moves, so the state space is finite without a
bound on time.  An entry of `_decisions` whose time is over is removed, where the
code leaves it and ignores it; two clock readings in one stretch are one
instant.

| Run | Instance | Shows |
|---|---|---|
| `gate` | 3 connections, 2 slots, 6 destinations (asked, lapsing allow, allow, deny, public and private literal) | `NoCleanAllowWhileTainted`, `SlotsConserved`, `QuestionsAreWorthAsking`, `TaintTokenOnlyTightens`, and the three of the policy |
| `gate_race` | 3 connections, one destination, answers that expire at once, fairness | `TypeOK`, `OneQuestionPerDest`, `HeldIsAnswerable`, `HeldIsReleased`, `QuestionIsWithdrawn`, `OnlyAPersonOpens` |
| `gate_answer_race` | 2 connections | violation: finding 1 |

Three connections are enough for the hard case of one destination: two wait on
one question, the first withdraws it, a third opens the next, and the second
resumes late.  Two slots under three connections give a queue that is served.
Each time constant is one or two ticks: enough for a deadline that has passed,
is due, and is ahead.  `gate` has a policy whose `clean_only` rules are allows,
as in the shipped example; `TaintTokenOnlyTightens` needs that (section 6).

`QuestionBoard` says what all this is for.  Its state is what a person could see:
taint, what the policy says, what is remembered, who waits on which question, who
has been given leave, who is through.  A connection gets through by a rule, by a
remembered allow, or by leave, and only a person's `Allow` of the question it
waits on, knowing of the taint there is, makes the other two.  Of refusals it
promises nothing, since a late timer may turn any answer into one (finding 1).
`EgressGateBoard` maps the gate's variables to it: a handler waits while its
question's future is unset, and has leave while the future holds an allow that it
has not resumed to read.  `OnlyAPersonOpens` is the refinement.

### Tab-cast extension

One FIFO per direction of the port; a message to an end that has died is lost.
A toggle names the asynchronous `startCast` it begins and, if it comes to that,
the capture it starts.  `beginCapture` is split at `getUserMedia`; `onstop` runs
some time after `recorder.stop()`.  Chrome may stop the worker and drop the
document (`MaxFaults`).  `MaxQueue` bounds client stops that wait to be reported.

Run `cast` (three toggles, two faults, fairness): `TypeOK`; `StopHasATarget`, a
worker that has heard everything and says it casts has something to stop;
`StopIsCarriedOut`, a stop on its way to a document in which one toggle's capture runs,
while no other toggle is being carried out, ends that capture and the worker's belief
in it; `PortIsRestored`, the document finds a restarted worker again.  The first says
nothing of a stop that meets a pending `getUserMedia` or two captures, and the second
nothing of what the worker believes after its restart (section 6).  Two faults let a
worker restart and a document crash meet.  `cast_two_captures` is a violation: finding 2.

### Clipboard bridge

Each xsel call is a step of its own, as it runs in a thread; what it read is
applied later.  Messages travel: `sent` and `inbox` are what is on its way between a
client and the bridge, in order in each direction, so a set can pass a broadcast
(`crossed` remembers for whom that was so last).  `shown` is what a client takes the
clipboard to be: what it last set or was told.
Run `clipboard` has a client that sets, one that gets, and a desktop that copies:
`InStep` (with nothing on its way, a client that only sets and the bridge hold the same
text, unless a set and a broadcast have passed each other), `PollerCatchesUp` (a text
that stays gets into `last_clipboard`) and `SetterCatchesUp` (and to the setter, unless
a set of its has passed a broadcast since).  What becomes of a setter after that, and why there is
only one, is in section 6.  `MaxCopies`, `MaxSets` and `MaxGets` bound how often texts
change: one copy, two sets and one get.  With two sets of two texts an old text comes
back, which is what makes a stale poll dangerous; the copy is what a poll has read when
a set overtakes it; a get keeps one handler busy reading while the other sets.

### Keys and browser calls

`KeySpec` parses a specification that `split("+")` has made a sequence of words, each as
it is written but for blanks around it, and lists the events of the press with the
modifier bits they carry.  The tables are looked up as the code does it: modifiers,
aliases and letters in any case (`Lower` stands for `str.lower`), named keys only as they
are listed.  `MCKeySpec` has all sequences of up to four out of twelve words (modifiers
and their aliases in both cases, a word nobody knows, the empty word, a capital and a
small letter, a digit, a named key, one in the wrong case, an alias with a capital).  Run
`cdp` looks at them in its initial state: `BitsTellTheTruth`, every event carries the
modifiers that are down and all keys come up; `WrittenOutIsPressed`, after modifiers a
key of the tables is accepted and any other word refused, and it is pressed under those
modifiers, a letter as a capital if and only if Shift is one of them, with no text if it
is a shortcut.

`CdpFrames` is the header `_ws_send` puts before a payload, and what `_ws_recv` makes
of a header.  `FramesRoundTrip`, in the same run, takes lengths on both sides of
every boundary (125, 126, 65535, 65536, and some larger), masked and not: the length
read is the one sent, and no byte of the payload is taken for the header.  TLC's
integers end at 2^31; the operators take any length that fits in the eight bytes.

`CdpService` makes each public function a list of steps: taking and leaving
`_lock`, and commands.  A command takes two steps, since `_send_cdp` first looks
up the last page target and then connects to it.  What it does to Chrome is kept
as far as the properties tell apart: keys and buttons held down in each tab.  The paste
of `insert_text` is a key event too, of "v" with the bit of Control; it has a type of its
own (`paste`, `pasteUp`), since it puts no Control down and so its bits are not what is
down, whoever holds the lock (section 6).
`Combos` are the key specifications that are pressed and `Inputs` the texts that
are typed.  `CombosAssumption` leaves out specifications that `_parse_key` refuses,
since `press_key` then does nothing, and those that name a modifier twice, which
`MCKeySpec` has.
`readyState` polls leave nothing behind, so one stands for all.

Run `cdp` has two threads with two calls each (the shortcut Control+Shift+A, typing
two characters, a click on an element, an insert, a lookup of the address), two tabs
that open and close, and commands that fail, two such troubles at most
(`MaxTroubles`): one in the middle of a call, another in the call that waits for it.
`TypeOK`: who holds the lock is inside it, on every error path; `CallsReturn`; and,
until the first trouble, `NothingStaysHeld` and `BitsAreTrue`: the key events of
`press_key` and `type_text` name the modifiers that are down, and none is down under a
paste, so no call types under another's modifiers.  After a trouble the last two do not hold: with a popup, a key
goes up in another tab than it went down in (listed as a hazard).  The remaining
calls of `Plan` have the same shape as these and can be put in `Ops`.

### Command execution

`RemoteExec` follows a request from `HttpTransport` through `_Limiter` to
`exec_in_sandbox` and back.  Two ticks make a second, so that `int(timeout)`
matters; grace and margin are one and two seconds instead of 5 and 30, in the
same order.  The way there and back takes no tick: what is shown of margins holds
as long as it takes less than what they leave.  The container may be restarted at
any time.  `run_shell` writes the records of what a pip or npm install brought before it
returns, with further execs inside the limiter that no deadline bounds
(`control_plane.py:177`): a command that went well may go through a stage `recording`,
which need not end.

Run `exec` has two requests on one slot, with deadlines enforced and timeouts of 0
(which is no deadline, so clients give up), a second, and a second and a half:
`SlotsConserved`, `NoAnswerIsLost` (the client is still there when a command with a
deadline is over; it can give up only on the records of one that went well),
`NoteMeansDeadline` (the note on stderr says "timed out" exactly
when it did), `DeadlineIsKept`, and
`SlotsComeBack`: a deadline gives its slot back, or the command went well and its
records are being written.  Commands end on their own with 0
or with 137, as the memory limit makes them; not with 124 (section 6).  `Horizon`
stops ages beyond the last deadline.  `exec_runaway` is a violation: finding 3.

### Sandbox lifecycle and package records

`ControlPlane` has the Dockerfile, what the image tag was made from, and calls that
go through write, build, find, restart and probe.  Time is counted for the build
and the wait only, with limits of two ticks and one.  `install_package` runs
apt-get in the container, for as long as it likes, since `exec_run` has no deadline
(`control_plane.py:107-110`).  If the package is there already, no dpkg and so no hook
runs, and it is reported installed (`AptEnds`).  Otherwise dpkg, under its lock, runs the
hook of `record-apt-packages.sh`: it merges the list with what this container has into a
file of its own (`HookReads`), opens the list empty (`HookTruncates`) and writes it
(`HookFills`).  A full disk or a tool that fails may keep part of either file out, and
where there is no such file or the list cannot be opened the hook skips the rest
(`HookSkips`); every error exits 0 (`record-apt-packages.sh:13`), so the package is
reported in all these cases, recorded or not.  A line that is written half, which names
no package, is left out.
When the container stops, everything that runs in it stops where it is; a stopped
container may be replaced by a new one without the packages (`Recreate`).

Run `plane` has one caller that rebuilds while both may restart, ask for health and
install one of two packages: `RebuiltMeansBuilt` (a rebuild that reports success has
built and tagged the Dockerfile it was given), `NothingRecordedIsLost` (a package
that the hook has once written to the list stays on it over restarts, new containers
and installs side by side, except for what a stop, a full disk or a failing tool costs
while the list is rewritten) and `CallsEnd`
(a restart, a rebuild or a health check returns, even if the container never comes up
again and whatever apt-get does).  `NothingRecordedIsLost` speaks of what was recorded,
not of what was reported, as the hook's errors are not seen.  `CallsEnd` says nothing of
`install_package`, which no deadline ends.  Two packages in
two containers are what a list that were rebuilt from one container alone would get
wrong.  With two rebuilds at once `RebuiltMeansBuilt` does not hold (section 6).

### Workspace files

`WorkspaceFiles` is one user's tree under requests that a pool of threads carries
out.  A transfer waits in its thread for the lock found by the user id as it was
written; `write_file` and everything that comes through `InProcessTransport` take
none.  A file is cut to nothing when it is opened and filled later; a pull takes a
member's size first and copies that many bytes later.  Writes fail, are cut short
by a full disk, and a member in the middle of a tar may be rejected.  Two history
variables: `spoilt` marks a transfer during which somebody wrote whom its lock does
not exclude, and `cut` has the names of a push's own members that a full disk left torn.
`os.write` returns how much it wrote and the code does not look (`fileops.py:199`), so a
push goes on after a member was cut short and is answered as a success.  Left out of a
pull: a file that `tar.add` may not read (`fileops.py:169`), which ends it with an error.

Run `files` has three requests in two threads, on two names, one of which may be
new; with two threads and three requests one always waits in the pool and one may
wait for the lock.  For transfers that are not spoilt: `PullIsOneInstant` (no writer makes a pull
fail, and it brings the tree of one instant) and `PushLandsExactly` (an answered
push has left exactly its members, each whole but for those in `cut`, which the answer
does not tell; a failed one has touched nothing else).  For
all: `RequestsEnd`, the lock is free again after every kind of end, and no request
waits for one that waits for a thread.

### CDP proxy and relays

`Pumps` has both, since they differ in little: the proxy ends both directions with
the first that ends, a relay lets each end by itself and close the side it writes to.
Run `pumps` (two messages from each side, every combination of sides that read and
that do not): `NobodyStaysAlone`, when one side hangs up the other is let go as long
as it reads; `LastWordsArrive`, what the server said before it hung up gets to a
client that has neither left nor gone on talking; through a relay, to one that has
never spoken, since what the client said may reach a server that is gone, whose reset
costs the relay what it had not read (`Breaks`).  Two messages let one be under way
while another is waiting.

## 4. Fairness

Each liveness run assumes only what the code's own scheduling gives.

- Gate: time passes, and the loop runs a handler whose future is set or whose
  timer is due.  Nothing makes a client send its head, a tunnel end or a person
  answer, so nothing is claimed of connections that are not held.
- Cast: messages of the port arrive, timers fire, a stopped recorder runs
  `onstop`.  Nothing is assumed of users, tabs, `getUserMedia` or the network.
- Clipboard: the poller is an endless loop, messages of an open connection are
  delivered, and a handler that has begun a request goes on.  xsel may fail, but not for ever (strong fairness on a read
  that succeeds).
- CDP: each command ends, as the sockets have timeouts; a thread that waits for
  `_lock` gets it if it is free again and again (strong fairness: Python's locks
  are not queues, but do not starve a waiter for ever).
- Exec: time passes however busy the handlers are (strong fairness of `Tick`),
  and `timeout`, handlers and clients act when due.  Neither commands nor records
  need to end.
- Files: some request goes on as long as one can (weak fairness of the whole
  next-state relation: requests are finite, so no request can starve another).
- Pumps: each task runs, and a side that reads takes what waits for it; no side has
  to speak, read or hang up.
- Lifecycle: short steps go on, builds and waits end at their limit; a probe that
  is due again and again is made.  This takes for granted that Docker answers the
  commands that list, restart and probe the container: the deadline of the wait is
  looked at only between probes (`control_plane.py:215-220`), and the probe's own exec
  has one only with `enforce_exec_timeout`.  Nothing is assumed of apt-get and its hook,
  and the container need not come back.

## 5. What is proved

Every invariant and every action property that a run expects to hold is a theorem
about its specification for every value of the constants; so is the one
refinement.  Each state machine's proof has the same plan: an invariant, a lemma for
every action that disturbs a part of it, the theorem.  What the invariants say
beyond the properties, and why the properties cannot do without it, is below.  The
types of the variables are part of all of them.  The properties of pure algorithms
(policies, key specifications, frames) are proved for every input, and the
properties of the runs, which enumerate some inputs, follow as cases.

### Egress policy and gate

`EgressGateProofs` begins with what holds for every policy, of any number of rules,
and every request:

- `TaintTightensPolicy`: raising taint never makes a verdict looser, if only allow
  rules are `clean_only`.  It rests on `DecideSpec`, the rule that decides is the
  first that applies, which needs that a nonempty set of numbers has a least one.
- `IdleRuleDecidesNothing`: a rule that does not apply to a request can be taken out
  of the policy.  `RulesWithout` says which index each of the others has then; the
  first that applies stays the first, moved by at most one.
- `HiddenMethodPolicy` and `WildcardPolicy`: method rules do not apply to a CONNECT
  (`HiddenMethodNeverMatches`), and a wildcard applies to longer names only
  (`SuffixIsShorter`), so these are the rules that can be taken out.

`TaintTightens`, `HiddenMethodRules` and `WildcardRules` are the properties of the
run; `PoliciesAreSmall` shows that its policies are such policies.

Then the gate, for any sets of connections and destinations (finite
connections not even assumed except where slots are counted), any slots, any time
constants:

1. `BookkeepingHolds`.  `Bookkeeping` is `TypeOK` with `QueueOK` (the queue holds
   exactly queued connections, each once) and `IdsOK` (held connections refer to
   questions that exist; who was not judged yet opened none).  None of the
   properties is inductive without it: an action that lets the first of the queue
   in has to know that this connection is in no other stage.  One lemma per kind
   of step; the steps that end a handler share `Shift`.  `TypesHold` is its first
   part.
2. `BoardHolds`: the indexes `_pending` and `_by_dest` agree, each open question
   has a waiter and no answer, and is worth asking.  `OneQuestion`,
   `NobodyWaitsForNothing` and `OnlyOpenMattersAreAsked` follow.
3. `CleanAllowsDoNotOutliveTaint`, from the types alone.  It implies
   `RecallNeverSkips`: the test of `granted_while_tainted` in `Gate.decide` never
   decides anything, because `set_taint` has removed what it would skip.  It is a
   second line of defence.
4. `TaintTokenTightens`, with `OnlyAllowsLapse(Policy)` as its assumption, which is
   needed (section 6).
5. `SlotsAreConserved`, by counting: free slots and active handlers add up.

Last `GateImplementsBoard`, `Spec => OnlyAPersonOpens`, for the same constants:
`InitMaps`, and one lemma for each kind of step, which under `Bookkeeping` and
`Board` is a step of `QuestionBoard` or leaves it as it is.
`PlainStepsMap` covers all steps of connections that are not held; `WaitersOfOpen`
says that waiting on a question on the board and referring to it in the gate are the
same, which is where `Index` (one question per destination) is needed: without it
the board would settle questions that the gate leaves open.  `SettleMaps` serves
both answers and the timeout, `OthersStandStill` both ways of resuming.  The timer
that takes hold although the future is set has a step of its own on the board,
`LateTimer` (`LateTimeoutMaps`).

### Tab-cast extension

`CastExtensionProofs`, for any toggles, faults and length of the port's queues.
`TypesHold` needs `Once`: every start on its way is of another toggle, and that
toggle waits for it; without it nothing bounds what the document may be sent.
`StopsHaveATarget` needs `Faith`: what the worker *will* believe once it has heard
all reports on their way (`WillBelieve`, the last report of the queue, or `casting`
if it is empty) implies that the two are linked, so that the end of the capture
will be reported, and that there is a capture to end.  The property
itself speaks only of an empty queue and says nothing while a report is under way.

### Clipboard bridge

`ClipboardBridgeProofs`, for any clients, texts and bounds: `StaysInStep`.  The property
speaks of a connection with nothing on its way only.  Its invariant (`Agree`) says what
will be once all has arrived: if sets are on their way, the newest is what the client
shows and nothing comes the other way; if broadcasts are, the newest is `last_clipboard`.
A poll that read before a set cannot break it,
since what it read is compared with `last_clipboard` only when it is applied.
`OneSetter` is a hypothesis, as in the run: `last_clipboard` is one for all clients, so a
set by one hides from the bridge what another has, and the property is false
(section 6).  Nothing is said of clients that ask: the reply to one that asked before a
change may reach it later.

### Browser calls

`CdpServiceProofs`, for any number of threads, calls, tabs and troubles, any of the
calls of `Plan`, any key specifications that name no modifier twice and any texts. A
call is a list of steps; `Orderly` says of such a list what `with _lock` and the
events of a key press are meant to give: from every step on, a key that goes down
comes up again, one that comes up was down, nothing is down where the lock changes
hands or the call may end early, a key event names the modifiers that are down, no
modifier is down where a paste names one, and all of that is inside the lock.  `PlansAreCalm` shows it of every call the harness
makes.  The two that matter are a press of any modifiers (`PressOrderly`: after
event `i` exactly the modifiers `m` with `m + 1 < i + 1 <= 2 * n + 4 - m` are down)
and a text of any length (`TypeOrderly`); `PressIsCalm` and `TypeIsCalm` find these
shapes in what `ParseKey`, `KeyEvents` and `TypeText` compute.  `WaysOut` shows it
of what is left of a call after a checked error or a clipboard write.  The invariant
is `Shape`, what every call still has to do is orderly and the lock is held by the
one that is inside, with `Undisturbed`, the keys down in the only tab are exactly
those the calls still have to let up. `NothingStaysHeld` says this of a free lock
alone and is not inductive: the state before has a thread in the middle of a press.
`TypesHold`, `NothingIsLeftHeld` and, for the action property `BitsAreTrue`,
`BitsStayTrue` follow.

### Key specifications

`PressTellsTheTruth` and `WrittenIsPressed`, for specifications of any words and any
length.  `KeyEventsPress` gives what a press consists of: the modifiers down in order,
the key down and up, the modifiers up in the opposite order.  `KeysDown`, which replays
the events, is a recursive function, so TLA+ makes it *some* function that satisfies
its equation.  That there is one is shown by a witness: `HeldAfter`, what is down after
each event, in closed form, satisfies the equation (`HeldReplays`).  That there is only
one takes the place of an induction: two solutions would differ first somewhere
(`FirstExists`, the natural numbers being well-founded), and the equation makes them
agree there (`ReplayOnce`).  Hence `KeysDownAre`.

`WrittenIsPressed` follows the parser: what `FixPlus` makes of modifiers and a word
(`PlainIsFixed`), or of the two empty words of a plus (`PlusIsFixed`), is parsed to exactly
those (`FixedIsParsed`); `KnownKeys` says which words are keys, and `CapitalsAre` which
letters come out as capitals.  `LowerAssumption` is all that is used of `str.lower`.

### Frames

`FrameRoundTrips`, for every length below 2^64 (`Sizes`; `struct.pack` refuses more).
The two recursive functions, shifting and unpacking, have at most nine values:
`ShiftedIs` and `UnpackPack` write out a witness and read the values off the equation.
Unpacking a packed number gives, byte by byte, what shifting had taken away.
`HeaderIs` has the three forms of a length, `HeaderIsRead` what the receiver makes of a
form.

### Command execution

`RemoteExecProofs`, for any finite set of requests, any timeouts, grace period and
slots.  `SlotsAreConserved` counts.  `Clocks` relates the age of a command to its
deadline and the client's to that: from it `DeadlinesAreKept` and, with
`MarginAssumption` (the grace period is shorter than the margin: 5 and 30 seconds in
the code), `AnswersAreAwaited`.  `NotesAreTrue` assumes that 124 is no exit code
commands have of their own; without that it is false (section 6).  Its invariant
relates the exit code on its way back to what happened in the container.  In
`AnswersAreAwaited` a client that gave up did so on a command that went well and whose
records were being written; the same clocks show that it cannot have been earlier.

### Sandbox lifecycle and package records

`ControlPlaneProofs`, for any callers, Dockerfiles, packages and limits.
`TheListOnlyGrows` needs `Ledger`: between reading the list and writing it, what a
hook is about to write has everything that counts as recorded, and it stays so because
dpkg's lock keeps other hooks out (`DpkgLock`).  `SuccessMeansBuilt` assumes
`OneBuilder` (one caller rebuilds), as the run does; its invariant follows a rebuild from the file it writes over the image that is
tagged to its answer.

### Workspace files

`WorkspaceFilesProofs`, for any number of requests and threads, any finite set of
names and any trees to begin with.  `LocksExclude`: who works under a lock holds it,
so no two do.  `PullsAreOneInstant` and `PushesLandExactly` need `AllAlone`: the tree a
transfer that is not spoilt works on is the one it began with but for the names it
has handled itself, which are whole or in `cut`, and what a pull has got so far is part of it.

### CDP proxy and relays

`PumpsProofs`, for any number of messages: `LastWordsAlwaysArrive`.  The invariant
counts what is said, in flight and passed on, and says for each way a direction can
end what it may leave behind; the property is about the last state only.

### Assumptions

Those the modules name, each what the code or the configuration gives: bounds are
numbers (`TimeAssumption`, `LimitsAssumption`, `BoundAssumption`), `None` and its like
are no members of the sets they are told apart from (`NoneAssumption`,
`NamesAssumption`, `BoardAssumption`, `FilesAssumption`), requests and names are
finitely many where they are counted (`ReqsAssumption`, `TreesAssumption`), policies
and operations are well-formed (`PolicyAssumption`, `OpsAssumption`),
`MarginAssumption`, and `LowerAssumption` (what is no letter has no case).  `MethodAssumption` tells the method of a CONNECT, Python's
`None`, from the names of methods.  TLC evaluates them for each instance.  `OneBuilder`,
`OneSetter`, `OnlyAllowsLapse(Policy)` and `TimedOut \notin OwnCodes` are hypotheses of
the one theorem that needs them: there the code does not keep the property without
them.

### Only model-checked

- Liveness (`HeldIsReleased`, `QuestionIsWithdrawn`, `StopIsCarriedOut`,
  `PortIsRestored`, `PollerCatchesUp`, `SetterCatchesUp`, `CallsReturn`,
  `SlotsComeBack`, `RequestsEnd`, `CallsEnd`, `NobodyStaysAlone`): fairness and
  ENABLED are outside the prover's reach.
- The three violations: a counterexample is all there is to show.

## 6. Findings

Three disagreements of the code with its own documents have a run whose
counterexample shows them; `PROJECT.json` quotes the lines.

1. A timer that is due beats an answer already recorded: the person's allow is
   overwritten by a remembered deny (`gate_answer_race`).
2. Two starts close together capture twice, in spite of the test against it
   (`cast_two_captures`).
3. A child that ignores TERM survives, as `timeout` ends with its shell, while
   the result says it was stopped (`exec_runaway`).

Modelling showed more, which no run states as a property; the properties above are
limited to where the code does keep them:

- A `clean_only` deny rule, which the parser accepts, makes raising taint loosen
  the policy (`policy.py:115`).  Hence the condition of `TaintOnlyTightens`.
- A stop while `getUserMedia` is pending is reported and not carried out
  (`offscreen.js:161`); a restarted worker does not learn of a running capture
  (`background.js:40`).
- A set that passes a broadcast on the way leaves the client showing the broadcast text
  while the bridge has the client's: the bridge takes the set for known and says no more
  (`clipboard-bridge.py:52-57` against `:66-72`), so this lasts until the clipboard
  changes again.  And a setter can be told its own text: a poll that read before the set
  and is applied after it makes an older text `last_clipboard` and broadcasts it, and the
  next poll broadcasts the setter's text back to it.
- What one client puts on the clipboard is not told to the others, as
  `last_clipboard` is one for all (`clipboard-bridge.py:71`); `set-ok` is sent although
  xsel failed (`clipboard-bridge.py:77`).
- Named keys must be written in the case they are listed in, although modifiers and
  aliases need not: "enter" and "Control+end" are unknown keys (`cdp_service.py:575-576`).
  A lone "A" is pressed as "a" (`cdp_service.py:584`).
- The paste of `insert_text` names Control in its key events while no Control is down
  (`cdp_service.py:527-531`).
- "Control+" presses a bare "+" and reports success (`cdp_service.py:568`);
  "Pressed ..." is answered when Chrome was not reachable (`cdp_service.py:620`).
- `click_element` leaves the lock between finding and clicking
  (`cdp_service.py:399`), and `get_page_text` reads text and address in separate
  commands (`cdp_service.py:291`): another thread may come between.
- A command that itself exits with 124 is reported as timed out (`exec.py:96`); a
  timeout below one second becomes `timeout 0`, which is none (`exec.py:85`).
- Two rebuilds share one Dockerfile (`control_plane.py:276`); a rebuild restarts the
  container of the old image (`control_plane.py:293`); the client gives up on a
  rebuild before the daemon does (`transport.py:150`); remote `health()` is true
  while the sandbox is down (`transport.py:235`).
- The list of apt packages is lost if the container stops, or the disk is full,
  between the truncation and the write (`record-apt-packages.sh:36`); the temporary
  file beside it is not renamed over it.  A full disk may also cut that file short, which
  nobody notices (`:29`), and an error of the hook leaves a package reported and not
  recorded (`:23-24`).
- `install_package` and the probe of a restart wait on execs without a deadline
  (`control_plane.py:107-110`, `:215-220`), and so does the answer of a pip or npm install
  that went well, which keeps its slot of the limiter meanwhile (`control_plane.py:177`).
- "+1" and "1" are one tree with two locks (`daemon/app.py:151`, `fileops.py:33`), and
  in-process transfers and single writes take none; a rejected push leaves what came
  before the rejected member (`fileops.py:184`); `write_file` and `push_tar` answer a
  write that was cut short as whole (`fileops.py:113`, `:199`).
- A client of a relay that closes only its sending half does not get its answer
  (`egress_gate/__main__.py:38`), unlike in a tunnel of the gate; and the proxy drops
  what Chrome said last if the client speaks just as Chrome closes (`cdp_proxy.py:99`).

## 7. What is not modelled

- What the pip and npm records of `run_shell` contain (`control_plane.py:128-162`): best
  effort, one exec per package; the code gives no promise about them that could be
  checked.  They are written before `run_shell` returns, inside the limiter, and that
  much of them is in `RemoteExec`.  The build-time side of the
  package lists (`entrypoint.sh`, `install-local-packages.sh`, `ensure-image.sh`):
  sequential scripts without a second actor.
- `list_dir`, `read_file` and `grep` of the workspace: they change nothing.
  Confinement of paths is a function of the file system; here it is the member that
  is rejected.
- The handshake of the browser's WebSocket and the payloads of its frames; the
  rewriting of the JSON lists that name its sockets; keep-alive pings of the proxy.
- Routes, authentication, configuration, the client's facade and the process entry
  points: no state, or a single comparison that the tests cover.  `_iter_sse` and
  `RemoteSession` serve routes the daemon no longer has.
- Image, desktop and compose files: configuration of third-party programs.
- Data: request and tunnel bytes, media chunks, page contents, command output,
  the wording of replies and notes, logs.

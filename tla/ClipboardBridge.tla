-------------------------- MODULE ClipboardBridge --------------------------
(***************************************************************************)
(* sandbox/clipboard-bridge.py: a poller that tells browser clients what   *)
(* the X11 clipboard holds, and a handler per client that sets or reads    *)
(* it.  One asyncio loop; the xsel calls run in threads, so each is a step *)
(* of its own, and what it returned is used later.                         *)
(***************************************************************************)
EXTENDS Naturals, Sequences

CONSTANTS
    Clients,     \* browser clients
    Setters,     \* those that send "set" requests
    Getters,     \* those that send "get" requests
    Texts,       \* texts somebody may put on the clipboard
    MaxCopies,   \* bound: how often programs of the desktop copy
    MaxSets,     \* bound: how many "set" requests each client sends
    MaxGets,     \* bound: how many "get" requests each client sends
    Empty,       \* the empty clipboard, and what a failed xsel_get returns
    None

ASSUME TextAssumption == Empty \notin Texts /\ None \notin Texts \cup {Empty}
ASSUME ClientAssumption == Setters \cup Getters \subseteq Clients
ASSUME BoundAssumption == MaxCopies \in Nat /\ MaxSets \in Nat /\ MaxGets \in Nat

VARIABLES
    clip,     \* the X11 clipboard
    last,     \* last_clipboard
    polled,   \* what the poller's thread has read, None between polls
    clients,  \* the connected clients
    sent,     \* each client's requests on their way: a text to set, None for a get
    inbox,    \* the texts on their way to each client
    req,      \* the request each client's handler is busy with
    shown,    \* what each client takes the clipboard to be: the text it last
              \* set or was told
    crossed,  \* history: the clients whose last set, or the last broadcast to
              \* them, passed something on its way the other direction
    copies, sets, gets   \* counted for the bounds
server == <<clip, last, polled>>
links  == <<sent, inbox, shown, crossed>>
vars   == <<server, clients, links, req, copies, sets, gets>>

Idle == [op |-> "idle", text |-> None]
Requests == [op : {"set", "written", "failed"}, text : Texts]
            \cup [op : {"get"}, text : {None}]
            \cup [op : {"read"}, text : Texts \cup {Empty}]
            \cup {Idle}

Init == /\ clip = Empty /\ last = Empty
        /\ polled = None
        /\ clients = {}
        /\ sent = [c \in Clients |-> <<>>] /\ inbox = [c \in Clients |-> <<>>]
        /\ req = [c \in Clients |-> Idle]
        /\ shown = [c \in Clients |-> None]
        /\ crossed = {}
        /\ copies = 0
        /\ sets = [c \in Clients |-> 0] /\ gets = [c \in Clients |-> 0]

-----------------------------------------------------------------------------
\* A program of the desktop takes the clipboard.
Copy(t) ==
    /\ copies < MaxCopies /\ copies' = copies + 1
    /\ clip' = t
    /\ UNCHANGED <<last, polled, clients, links, req, sets, gets>>

\* A client sends a "set", and takes the clipboard to hold that text.
ClientSets(c, t) ==
    /\ c \in clients \cap Setters /\ sets[c] < MaxSets
    /\ sent' = [sent EXCEPT ![c] = Append(@, t)]
    /\ shown' = [shown EXCEPT ![c] = t]
    /\ crossed' = (crossed \ {c}) \cup {d \in {c} : inbox[d] # <<>>}
    /\ sets' = [sets EXCEPT ![c] = @ + 1]
    /\ UNCHANGED <<server, clients, inbox, req, copies, gets>>

\* A client sends a "get".
ClientAsks(c) ==
    /\ c \in clients \cap Getters /\ gets[c] < MaxGets
    /\ sent' = [sent EXCEPT ![c] = Append(@, None)]
    /\ gets' = [gets EXCEPT ![c] = @ + 1]
    /\ UNCHANGED <<server, clients, inbox, shown, crossed, req, copies, sets>>

\* A clipboard message gets to a client.
ClientHears(c) ==
    /\ inbox[c] # <<>>
    /\ shown' = [shown EXCEPT ![c] = Head(inbox[c])]
    /\ inbox' = [inbox EXCEPT ![c] = Tail(@)]
    /\ UNCHANGED <<server, clients, sent, crossed, req, copies, sets, gets>>

-----------------------------------------------------------------------------
\* poll_clipboard: the sleep is over and the thread runs xsel_get, which
\* returns nothing if it fails.
PollRead ==
    /\ polled = None
    /\ polled' \in {clip, Empty}
    /\ UNCHANGED <<clip, last, clients, links, req, copies, sets, gets>>

\* c.send(msg) for every client there is.
Broadcast(t) ==
    /\ inbox' = [c \in Clients |-> IF c \in clients THEN Append(inbox[c], t) ELSE inbox[c]]
    /\ crossed' = (crossed \ clients) \cup {c \in clients \cap Setters : sent[c] # <<>>}
    /\ UNCHANGED <<sent, shown>>

\* Mutant: the text is broadcast but not kept in last_clipboard.
PollApplyForgets ==
    /\ polled # None
    /\ IF polled # Empty /\ polled # last THEN Broadcast(polled) ELSE UNCHANGED links
    /\ polled' = None
    /\ UNCHANGED <<clip, last, clients, req, copies, sets, gets>>

\* Mutant: the text is kept but not broadcast.
PollApplyOnlyKeeps ==
    /\ polled # None
    /\ last' = IF polled # Empty THEN polled ELSE last
    /\ polled' = None
    /\ UNCHANGED <<clip, clients, links, req, copies, sets, gets>>

\* poll_clipboard back on the loop: a text that is new is broadcast.
PollApply ==
    /\ polled # None
    /\ IF polled # Empty /\ polled # last
       THEN last' = polled /\ Broadcast(polled)
       ELSE UNCHANGED <<last, links>>
    /\ polled' = None
    /\ UNCHANGED <<clip, clients, req, copies, sets, gets>>

Connect(c) ==
    /\ c \notin clients
    /\ clients' = clients \cup {c}
    /\ UNCHANGED <<server, links, req, copies, sets, gets>>

\* The connection ends, and what is on its way is lost; a handler that awaits a
\* thread finds out when it sends.
Disconnect(c) ==
    /\ c \in clients /\ req[c] = Idle
    /\ clients' = clients \ {c}
    /\ sent' = [sent EXCEPT ![c] = <<>>] /\ inbox' = [inbox EXCEPT ![c] = <<>>]
    /\ shown' = [shown EXCEPT ![c] = None] /\ crossed' = crossed \ {c}
    /\ UNCHANGED <<server, req, copies, sets, gets>>

\* The next iteration of "async for raw in ws", for a message of the kind w.
Receives(c, w) ==
    /\ req[c] = Idle /\ sent[c] # <<>> /\ Head(sent[c]) = w
    /\ sent' = [sent EXCEPT ![c] = Tail(@)]
    /\ UNCHANGED <<clip, polled, clients, inbox, shown, crossed, copies, sets, gets>>

\* Mutant: last_clipboard is left for the poller to find.
SetStartsQuietly(c, t) ==
    /\ Receives(c, t)
    /\ req' = [req EXCEPT ![c] = [op |-> "set", text |-> t]]
    /\ UNCHANGED last

\* handler, message "set", up to the thread.
SetStarts(c, t) ==
    /\ Receives(c, t)
    /\ last' = t
    /\ req' = [req EXCEPT ![c] = [op |-> "set", text |-> t]]

\* xsel_set in its thread: a failure is logged and swallowed.
SetWrites(c) ==
    /\ req[c].op = "set"
    /\ \/ /\ clip' = req[c].text
          /\ req' = [req EXCEPT ![c].op = "written"]
       \/ /\ req' = [req EXCEPT ![c].op = "failed"]
          /\ UNCHANGED clip
    /\ UNCHANGED <<last, polled, clients, links, copies, sets, gets>>

\* handler resumes and sends set-ok.
SetOk(c) ==
    /\ req[c].op \in {"written", "failed"}
    /\ req' = [req EXCEPT ![c] = Idle]
    /\ UNCHANGED <<server, clients, links, copies, sets, gets>>

\* handler, message "get": xsel_get in a thread, then the reply.
GetStarts(c) ==
    /\ Receives(c, None)
    /\ req' = [req EXCEPT ![c] = [op |-> "get", text |-> None]]
    /\ UNCHANGED last

GetReads(c) ==
    /\ req[c].op = "get"
    /\ \E t \in {clip, Empty} : req' = [req EXCEPT ![c] = [op |-> "read", text |-> t]]
    /\ UNCHANGED <<server, clients, links, copies, sets, gets>>

GetReplies(c) ==
    /\ req[c].op = "read"
    /\ inbox' = [inbox EXCEPT ![c] = Append(@, req[c].text)]
    /\ req' = [req EXCEPT ![c] = Idle]
    /\ UNCHANGED <<server, clients, sent, shown, crossed, copies, sets, gets>>

Set(c) == (\E t \in Texts : SetStarts(c, t)) \/ SetWrites(c) \/ SetOk(c)
Get(c) == GetStarts(c) \/ GetReads(c) \/ GetReplies(c)
Client(c) == (\E t \in Texts : ClientSets(c, t)) \/ ClientAsks(c) \/ ClientHears(c)
Next == \/ \E t \in Texts : Copy(t)
        \/ PollRead \/ PollApply
        \/ \E c \in Clients : Connect(c) \/ Disconnect(c) \/ Client(c) \/ Set(c) \/ Get(c)

Spec == Init /\ [][Next]_vars

\* The poller goes on for ever and xsel does not fail for ever; messages get to
\* where they are going, and handlers go on.
Fairness == /\ SF_vars(PollRead /\ polled' = clip) /\ WF_vars(PollApply)
            /\ \A c \in Clients :
                 WF_vars(ClientHears(c)) /\ WF_vars(Set(c)) /\ WF_vars(Get(c))
FairSpec == Spec /\ Fairness

-----------------------------------------------------------------------------
\* A client that only sets and the bridge never drift apart: with nothing on its
\* way between them, the client knows nothing yet or takes the clipboard to hold
\* what last_clipboard holds, however late polls, failing writes and copies
\* interleave (handler against poll_clipboard).  Only a set and a broadcast that
\* pass each other on the way part them, for last_clipboard is then the client's
\* text and the client shows the broadcast one.
InStep ==
    \A c \in (clients \cap Setters) \ (Getters \cup crossed) :
        sent[c] = <<>> /\ inbox[c] = <<>> => shown[c] \in {None, last}

\* A text that stays on the clipboard gets into last_clipboard, however sets,
\* failed writes and polls interleave.
PollerCatchesUp ==
    \A t \in Texts : <>[](clip = t) => <>[](last = t)

\* "syncs X11 clipboard with browser clients" (clipboard-bridge.py:2), where the
\* code does it: with one client that sets, that client, once it knew some text,
\* if it stays connected and none of its sets has passed a broadcast since, comes
\* to know the text that stays on the clipboard.
SetterCatchesUp ==
    \A c \in Setters \ Getters, t \in Texts :
        <>[](clip = t /\ c \in clients /\ shown[c] # None /\ c \notin crossed)
            => <>[](shown[c] = t)
=============================================================================

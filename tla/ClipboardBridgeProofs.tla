----------------------- MODULE ClipboardBridgeProofs -----------------------
(***************************************************************************)
(* The safety of ClipboardBridge for any clients, texts and numbers of     *)
(* copies and requests.                                                    *)
(***************************************************************************)
EXTENDS ClipboardBridge, TLAPS

\* What is on the clipboard or comes from it.
Contents == Texts \cup {Empty}

\* What a client may ask for.
Wishes(c) == {t \in Texts : c \in Setters} \cup {n \in {None} : c \in Getters}

Typed ==
    /\ clip \in Contents /\ last \in Contents
    /\ polled \in Contents \cup {None}
    /\ clients \subseteq Clients
    /\ DOMAIN sent = Clients /\ \A c \in Clients : sent[c] \in Seq(Wishes(c))
    /\ inbox \in [Clients -> Seq(Contents)]
    /\ req \in [Clients -> Requests]
    /\ shown \in [Clients -> Contents \cup {None}]

\* Who reads has asked to.
AskedFor == \A c \in Clients \ Getters : req[c].op \notin {"get", "read"}

\* Nothing is on its way to or from a client that is not there, nothing is done
\* for it, and it knows nothing.
Gone(c) == /\ sent[c] = <<>> /\ inbox[c] = <<>>
           /\ req[c] = Idle /\ shown[c] = None
GoneAreQuiet == \A c \in Clients \ clients : Gone(c)

Newest(s) == s[Len(s)]

\* A client and the bridge agree, or will when what is on its way has arrived:
\* the client's own sets, or the bridge's broadcasts, but never both.
Agree(c) ==
    IF sent[c] # <<>> THEN inbox[c] = <<>> /\ Newest(sent[c]) = shown[c]
    ELSE IF inbox[c] # <<>> THEN Newest(inbox[c]) = last
    ELSE shown[c] \in {None, last}
Listeners == (clients \cap Setters) \ (Getters \cup crossed)
AllAgree  == \A c \in Listeners : Agree(c)

Inv == Typed /\ AskedFor /\ GoneAreQuiet /\ AllAgree

\* Without this the theorem is false: last_clipboard is one for all clients, so
\* a set by one hides from the bridge what another one has.
OneSetter == \A c, d \in Setters : c = d

-----------------------------------------------------------------------------
LEMMA RequestsAre ==
    /\ Idle \in Requests /\ Idle.op = "idle"
    /\ [op |-> "get", text |-> None] \in Requests
    /\ \A t \in Texts : [op |-> "set", text |-> t] \in Requests
    /\ \A t \in Contents : [op |-> "read", text |-> t] \in Requests
BY DEF Requests, Idle, Contents

LEMMA SetGoesOn ==
    ASSUME NEW r \in Requests, r.op = "set"
    PROVE  /\ r.text \in Texts
           /\ [r EXCEPT !.op = "written"] \in Requests
           /\ [r EXCEPT !.op = "failed"] \in Requests
           /\ [r EXCEPT !.op = "written"].op = "written"
           /\ [r EXCEPT !.op = "failed"].op = "failed"
BY DEF Requests, Idle

LEMMA ReadIsText ==
    ASSUME NEW r \in Requests, r.op = "read"
    PROVE  r.text \in Contents
BY DEF Requests, Idle, Contents

\* What is appended is the newest, and taking the head leaves the newest unless
\* it was the head.
LEMMA Queues ==
    ASSUME NEW S, NEW s \in Seq(S)
    PROVE  /\ \A e \in S : /\ Append(s, e) \in Seq(S)
                           /\ Append(s, e) # <<>>
                           /\ Newest(Append(s, e)) = e
           /\ s # <<>> => /\ Head(s) \in S /\ Tail(s) \in Seq(S)
                          /\ Tail(s) # <<>> => Newest(Tail(s)) = Newest(s)
                          /\ Tail(s) = <<>> => Newest(s) = Head(s)
BY DEF Newest

LEMMA InvBegins == Init => Inv
BY RequestsAre DEF Init, Inv, Typed, AskedFor, GoneAreQuiet, Gone, AllAgree, Listeners,
   Contents, server, links

LEMMA CopyKeeps == ASSUME Inv, NEW t \in Texts, Copy(t) PROVE Inv'
BY DEF Inv, Typed, AskedFor, GoneAreQuiet, Gone, AllAgree, Agree, Newest, Listeners,
   Contents, Wishes, Copy, links

\* What a client sets is the newest it has sent, and what it takes the clipboard
\* to be.
LEMMA ClientSetsKeeps ==
    ASSUME Inv, NEW c \in Clients, NEW t \in Texts, ClientSets(c, t)
    PROVE  Inv'
<1>1. sent[c] \in Seq(Wishes(c)) /\ t \in Wishes(c)
  BY DEF Inv, Typed, ClientSets, Wishes
<1>2. /\ Append(sent[c], t) \in Seq(Wishes(c)) /\ Append(sent[c], t) # <<>>
      /\ Newest(Append(sent[c], t)) = t
  BY <1>1, Queues
<1>3. Typed'
  BY <1>2 DEF Inv, Typed, Contents, ClientSets, server, Wishes
<1>4. AskedFor' /\ GoneAreQuiet'
  BY DEF Inv, Typed, AskedFor, GoneAreQuiet, Gone, ClientSets
<1>5. ASSUME NEW d \in Listeners' PROVE Agree(d)'
  <2>1. CASE d = c
    <3>1. inbox[c] = <<>>
      BY <1>5, <2>1 DEF Listeners, ClientSets
    <3> QED
      BY <1>2, <2>1, <3>1 DEF Inv, Typed, Agree, ClientSets, server, Newest
  <2>2. CASE d # c
    BY <1>5, <2>2 DEF Inv, Typed, AllAgree, Agree, Listeners, ClientSets, server, Newest
  <2> QED
    BY <2>1, <2>2
<1> QED
  BY <1>3, <1>4, <1>5 DEF Inv, AllAgree

LEMMA ClientAsksKeeps == ASSUME Inv, NEW c \in Clients, ClientAsks(c) PROVE Inv'
<1>1. sent[c] \in Seq(Wishes(c)) /\ None \in Wishes(c)
  BY DEF Inv, Typed, ClientAsks, Wishes
<1>2. Append(sent[c], None) \in Seq(Wishes(c))
  BY <1>1, Queues
<1>3. Typed'
  BY <1>2 DEF Inv, Typed, Contents, ClientAsks, server, Wishes
<1>4. AskedFor' /\ GoneAreQuiet'
  BY DEF Inv, Typed, AskedFor, GoneAreQuiet, Gone, ClientAsks
<1>5. AllAgree'
  BY DEF Inv, Typed, AllAgree, Agree, Listeners, ClientAsks, server, Newest
<1> QED
  BY <1>3, <1>4, <1>5 DEF Inv

\* The last message on its way leaves the client with what the bridge has.
LEMMA ClientHearsKeeps == ASSUME Inv, NEW c \in Clients, ClientHears(c) PROVE Inv'
<1>1. inbox[c] \in Seq(Contents) /\ inbox[c] # <<>>
  BY DEF Inv, Typed, ClientHears
<1>2. /\ Head(inbox[c]) \in Contents /\ Tail(inbox[c]) \in Seq(Contents)
      /\ Tail(inbox[c]) # <<>> => Newest(Tail(inbox[c])) = Newest(inbox[c])
      /\ Tail(inbox[c]) = <<>> => Newest(inbox[c]) = Head(inbox[c])
  BY <1>1, Queues
<1>3. Typed'
  BY <1>2 DEF Inv, Typed, ClientHears, server, Wishes
<1>4. AskedFor' /\ GoneAreQuiet'
  BY <1>1 DEF Inv, Typed, AskedFor, GoneAreQuiet, Gone, ClientHears
<1>5. ASSUME NEW d \in Listeners' PROVE Agree(d)'
  <2>1. d \in Listeners /\ Agree(d)
    BY <1>5 DEF Inv, AllAgree, Listeners, ClientHears
  <2>2. CASE d = c
    <3>1. sent[c] = <<>> /\ Newest(inbox[c]) = last
      BY <1>1, <2>1, <2>2 DEF Agree
    <3> QED
      BY <1>2, <2>2, <3>1 DEF Inv, Typed, Agree, ClientHears, server, Newest
  <2>3. CASE d # c
    BY <1>5, <2>1, <2>3 DEF Inv, Typed, Agree, Listeners, ClientHears, server, Newest
  <2> QED
    BY <2>2, <2>3
<1> QED
  BY <1>3, <1>4, <1>5 DEF Inv, AllAgree

LEMMA PollReadKeeps == ASSUME Inv, PollRead PROVE Inv'
BY DEF Inv, Typed, AskedFor, GoneAreQuiet, Gone, AllAgree, Agree, Newest, Listeners,
   Contents, Wishes, PollRead, links

\* A broadcast reaches every client there is, and is the newest on its way to it.
LEMMA PollApplyKeeps == ASSUME Inv, PollApply PROVE Inv'
<1>1. CASE polled # Empty /\ polled # last
  <2>1. polled \in Contents /\ last' = polled /\ Broadcast(polled)
    BY <1>1 DEF Inv, Typed, PollApply
  <2>2. ASSUME NEW d \in Clients
        PROVE  /\ Append(inbox[d], polled) \in Seq(Contents)
               /\ Append(inbox[d], polled) # <<>>
               /\ Newest(Append(inbox[d], polled)) = polled
    BY <2>1, Queues DEF Inv, Typed
  <2>3. Typed'
    BY <2>1, <2>2 DEF Inv, Typed, PollApply, Broadcast, Wishes
  <2>4. AskedFor' /\ GoneAreQuiet'
    BY <2>1 DEF Inv, Typed, AskedFor, GoneAreQuiet, Gone, PollApply, Broadcast
  <2>5. ASSUME NEW d \in Listeners' PROVE Agree(d)'
    <3>1. d \in clients /\ d \in Clients /\ sent[d] = <<>> /\ sent' = sent
      BY <2>1, <2>5 DEF Inv, Typed, Listeners, PollApply, Broadcast
    <3>2. inbox'[d] = Append(inbox[d], polled)
      BY <2>1, <3>1 DEF Broadcast
    <3> QED
      BY <2>1, <2>2, <3>1, <3>2 DEF Agree, Newest
  <2> QED
    BY <2>3, <2>4, <2>5 DEF Inv, AllAgree
<1>2. CASE ~(polled # Empty /\ polled # last)
  BY <1>2 DEF Inv, Typed, AskedFor, GoneAreQuiet, Gone, AllAgree, Agree, Newest,
     Listeners, Contents, Wishes, PollApply, links
<1> QED
  BY <1>1, <1>2

LEMMA ConnectKeeps == ASSUME Inv, NEW c \in Clients, Connect(c) PROVE Inv'
<1>1. Gone(c)
  BY DEF Inv, GoneAreQuiet, Connect
<1> QED
  BY <1>1 DEF Inv, Typed, AskedFor, GoneAreQuiet, Gone, AllAgree, Agree, Newest,
     Listeners, Contents, Wishes, Connect, server, links

LEMMA DisconnectKeeps == ASSUME Inv, NEW c \in Clients, Disconnect(c) PROVE Inv'
<1>1. <<>> \in Seq(Wishes(c)) /\ <<>> \in Seq(Contents)
  OBVIOUS
<1>2. Typed'
  BY <1>1 DEF Inv, Typed, Contents, Wishes, Disconnect, server
<1>3. AskedFor' /\ GoneAreQuiet'
  BY DEF Inv, Typed, AskedFor, GoneAreQuiet, Gone, Disconnect
<1>4. AllAgree'
  BY DEF Inv, Typed, AllAgree, Agree, Newest, Listeners, Disconnect, server
<1> QED
  BY <1>2, <1>3, <1>4 DEF Inv

\* The only listener there is sets the text, so that none is left behind.
LEMMA SetStartsKeeps ==
    ASSUME Inv, OneSetter, NEW c \in Clients, NEW t \in Texts, SetStarts(c, t)
    PROVE  Inv'
<1>1. sent[c] \in Seq(Wishes(c)) /\ sent[c] # <<>> /\ Head(sent[c]) = t
  BY DEF Inv, Typed, SetStarts, Receives
<1>2. /\ t \in Wishes(c) /\ Tail(sent[c]) \in Seq(Wishes(c))
      /\ Tail(sent[c]) # <<>> => Newest(Tail(sent[c])) = Newest(sent[c])
      /\ Tail(sent[c]) = <<>> => Newest(sent[c]) = t
  BY <1>1, Queues
<1>3. c \in Setters
  BY <1>2, TextAssumption DEF Wishes
<1>4. Typed'
  BY <1>2, RequestsAre DEF Inv, Typed, Contents, Wishes, SetStarts, Receives
<1>5. AskedFor' /\ GoneAreQuiet'
  BY <1>1 DEF Inv, Typed, AskedFor, GoneAreQuiet, Gone, SetStarts, Receives
<1>6. ASSUME NEW d \in Listeners' PROVE Agree(d)'
  <2>1. d = c /\ d \in Listeners
    BY <1>3, <1>6 DEF OneSetter, Listeners, SetStarts, Receives
  <2>2. inbox[c] = <<>> /\ Newest(sent[c]) = shown[c]
    BY <1>1, <2>1 DEF Inv, AllAgree, Agree
  <2> QED
    BY <1>2, <2>1, <2>2 DEF Inv, Typed, Agree, SetStarts, Receives, Newest
<1> QED
  BY <1>4, <1>5, <1>6 DEF Inv, AllAgree

LEMMA SetWritesKeeps == ASSUME Inv, NEW c \in Clients, SetWrites(c) PROVE Inv'
<1>1. req[c] \in Requests /\ req[c].op = "set"
  BY DEF Inv, Typed, SetWrites
<1>2. Typed'
  <2>1. clip' \in Contents
    BY <1>1, SetGoesOn DEF Inv, Typed, Contents, SetWrites
  <2>2. /\ [req EXCEPT ![c].op = "written"] \in [Clients -> Requests]
        /\ [req EXCEPT ![c].op = "failed"] \in [Clients -> Requests]
    BY <1>1, SetGoesOn DEF Inv, Typed
  <2>3. req' \in [Clients -> Requests]
    BY <2>2 DEF SetWrites
  <2> QED
    BY <2>1, <2>3 DEF Inv, Typed, Wishes, SetWrites, links
<1>3. AskedFor'
  BY <1>1, SetGoesOn DEF Inv, Typed, AskedFor, SetWrites
<1>4. GoneAreQuiet'
  BY <1>1, RequestsAre DEF Inv, Typed, GoneAreQuiet, Gone, SetWrites, links
<1> QED
  BY <1>2, <1>3, <1>4 DEF Inv, AllAgree, Agree, Newest, Listeners, SetWrites, links

LEMMA SetOkKeeps == ASSUME Inv, NEW c \in Clients, SetOk(c) PROVE Inv'
BY RequestsAre DEF Inv, Typed, AskedFor, GoneAreQuiet, Gone, AllAgree, Agree, Newest,
   Listeners, Contents, Wishes, SetOk, server, links

\* A get is taken from the way of one who gets, and those are no listeners.
LEMMA GetStartsKeeps == ASSUME Inv, NEW c \in Clients, GetStarts(c) PROVE Inv'
<1>1. sent[c] \in Seq(Wishes(c)) /\ sent[c] # <<>> /\ Head(sent[c]) = None
  BY DEF Inv, Typed, GetStarts, Receives
<1>2. None \in Wishes(c) /\ Tail(sent[c]) \in Seq(Wishes(c))
  BY <1>1, Queues
<1>3. c \in Getters
  BY <1>2, TextAssumption DEF Wishes
<1>4. Typed'
  BY <1>2, RequestsAre DEF Inv, Typed, Contents, Wishes, GetStarts, Receives
<1>5. AskedFor' /\ GoneAreQuiet'
  BY <1>1, <1>3 DEF Inv, Typed, AskedFor, GoneAreQuiet, Gone, GetStarts, Receives
<1>6. AllAgree'
  BY <1>3 DEF Inv, Typed, AllAgree, Agree, Newest, Listeners, GetStarts, Receives
<1> QED
  BY <1>4, <1>5, <1>6 DEF Inv

LEMMA GetReadsKeeps == ASSUME Inv, NEW c \in Clients, GetReads(c) PROVE Inv'
<1>1. PICK t \in {clip, Empty} : req' = [req EXCEPT ![c] = [op |-> "read", text |-> t]]
  BY DEF GetReads
<1>2. t \in Contents /\ c \in Getters
  BY <1>1 DEF Inv, Typed, AskedFor, Contents, GetReads
<1> QED
  BY <1>1, <1>2, RequestsAre DEF Inv, Typed, AskedFor, GoneAreQuiet, Gone, AllAgree,
     Agree, Newest, Listeners, Contents, Wishes, GetReads, server, links

\* A reply is for those who get, and they are no listeners.
LEMMA GetRepliesKeeps == ASSUME Inv, NEW c \in Clients, GetReplies(c) PROVE Inv'
<1>1. c \in Getters /\ c \in clients
  BY RequestsAre DEF Inv, AskedFor, GoneAreQuiet, Gone, GetReplies
<1>2. req[c].text \in Contents
  BY ReadIsText DEF Inv, Typed, GetReplies
<1>3. Append(inbox[c], req[c].text) \in Seq(Contents)
  BY <1>2, Queues DEF Inv, Typed
<1>4. Typed'
  BY <1>3, RequestsAre DEF Inv, Typed, Contents, Wishes, GetReplies, server
<1>5. AskedFor' /\ GoneAreQuiet'
  BY <1>1, RequestsAre DEF Inv, Typed, AskedFor, GoneAreQuiet, Gone, GetReplies
<1>6. AllAgree'
  BY <1>1 DEF Inv, Typed, AllAgree, Agree, Newest, Listeners, GetReplies, server
<1> QED
  BY <1>4, <1>5, <1>6 DEF Inv

LEMMA InvStays == Inv /\ OneSetter /\ [Next]_vars => Inv'
<1> SUFFICES ASSUME Inv, OneSetter, [Next]_vars PROVE Inv'
  OBVIOUS
<1>1. CASE UNCHANGED vars
  BY <1>1 DEF vars, server, links, Inv, Typed, AskedFor, GoneAreQuiet, Gone, AllAgree,
     Agree, Newest, Listeners, Contents, Wishes
<1>2. CASE Next
  BY <1>2, CopyKeeps, ClientSetsKeeps, ClientAsksKeeps, ClientHearsKeeps, PollReadKeeps,
     PollApplyKeeps, ConnectKeeps, DisconnectKeeps, SetStartsKeeps, SetWritesKeeps,
     SetOkKeeps, GetStartsKeeps, GetReadsKeeps, GetRepliesKeeps
     DEF Next, Client, Set, Get
<1> QED
  BY <1>1, <1>2

\* If one client at most sets, a client that only sets never drifts apart from the
\* bridge: when nothing is on its way and its last set and the last broadcast to
\* it did not pass each other, it knows nothing yet or takes the clipboard to
\* hold what last_clipboard holds (poll_clipboard against handler).
THEOREM StaysInStep ==
    ASSUME OneSetter
    PROVE  Spec => []InStep
<1>1. Init => Inv
  BY InvBegins
<1>2. Inv /\ [Next]_vars => Inv'
  BY InvStays
<1>3. Inv => InStep
  BY DEF Inv, AllAgree, Agree, Listeners, InStep
<1> QED
  BY <1>1, <1>2, <1>3, PTL DEF Spec
=============================================================================

----------------------------- MODULE CdpService -----------------------------
(***************************************************************************)
(* prax_sandbox/cdp_service.py: threads of the harness drive one Chrome    *)
(* over the DevTools protocol while popups come and go and commands fail.  *)
(*                                                                         *)
(* A call is a list of steps: taking and leaving _lock, and commands.      *)
(* Each command (_send_cdp) looks up the last page target anew and then    *)
(* connects to it, so it takes two steps, and what it finds may be gone.   *)
(***************************************************************************)
EXTENDS KeySpec, FiniteSets, SequencesExt

CONSTANTS
    Callers,     \* threads
    Ops,         \* the calls they make: see Plan
    Combos,      \* key specifications they press
    Chars,       \* characters
    Inputs,      \* texts they type, as sequences of characters
    MaxCalls,    \* bound: calls per thread
    Tabs,        \* page targets; MainTab is open from the start
    MainTab,
    MaxTroubles, \* bound: commands that fail, tabs that open or close
    None

ASSUME NoneAssumption == None \notin Callers /\ None \notin Tabs
ASSUME BrowserAssumption == MainTab \in Tabs
\* press_key returns at once if the specification means nothing.  One that names
\* a modifier twice is looked at in MCKeySpec, not here.
ASSUME CombosAssumption ==
    \A parts \in Combos :
        /\ parts \in Seq(STRING) /\ Len(parts) >= 1 /\ ParseKey(parts).ok
        /\ LET mods == ParseKey(parts).mods
           IN  \A i, j \in 1 .. Len(mods) : mods[i] = mods[j] => i = j
ASSUME InputsAssumption == Inputs \subseteq Seq(Chars) /\ Chars \cap Modifiers = {}
ASSUME BoundAssumption == MaxCalls \in Nat /\ MaxTroubles \in Nat

VARIABLES
    tabs,     \* Chrome: page targets in the order they opened
    held,     \* Chrome: keys and buttons each tab has seen go down, not up
    lock,     \* _lock: who holds it
    todo,     \* steps each caller's call still has to do
    aim,      \* the target a command is about to connect to
    calls,    \* calls begun, for the bound
    troubles  \* troubles so far, for the bound and the properties
vars == <<tabs, held, lock, todo, aim, calls, troubles>>
chrome == <<tabs, held>>

-----------------------------------------------------------------------------
(***************************************************************************)
(* The calls as lists of steps.                                            *)
(***************************************************************************)
Do(type) == Event(type, None, {}, "")
Locked(steps) == <<Do("lock")>> \o steps \o <<Do("unlock")>>

\* Mutant: press_key without _lock.
PressUnlocked(parts) == KeyEvents(ParseKey(parts))

Press(parts) == Locked(KeyEvents(ParseKey(parts)))

\* type_text: three events for each character.
TypeText(text) ==
    Locked([i \in 1 .. 3 * Len(text) |->
              LET char == text[(i + 2) \div 3]
              IN CASE i % 3 = 1 -> Event("keyDown", char, {}, "")
                   [] i % 3 = 2 -> Event("char", char, {}, char)
                   [] i % 3 = 0 -> Event("keyUp", char, {}, "")])

ClickAt == Locked(<<Do("press"), Do("release")>>)

\* click_element and click_text: the position under the lock, the click under
\* the lock again.
ClickElement == Locked(<<Do("locate")>>) \o ClickAt

\* insert_text: whether the clipboard takes the text decides how it goes on.  A
\* paste is a rawKeyDown and a keyUp of "v" that name Control, which no event of
\* its own has put down.
InsertText == Locked(<<Do("write")>>)
Paste      == <<Event("paste", "v", {"Control"}, ""),
                Event("pasteUp", "v", {"Control"}, ""), Do("unlock")>>
InsertRaw  == <<Do("insert"), Do("unlock")>>

\* get_page_text: the text under the lock, address and title without it.
GetPageText == Locked(<<Do("text")>>) \o <<Do("url"), Do("title")>>

\* navigate: readyState is polled without the lock; the polls leave nothing
\* behind, so one stands for all.
Navigate == Locked(<<Do("navigate")>>) \o <<Do("ready")>> \o GetPageText

\* get_page_url: one command without the lock, whose error is returned.
GetPageUrl == <<Do("where")>>

\* screenshot
Screenshot == Locked(<<Do("look")>>)

\* scroll_page, evaluate_js: one command that may change the page.
Change == Locked(<<Do("change")>>)

\* The calls the harness makes.
Plan == [press    |-> {Press(parts) : parts \in Combos},
         type     |-> {TypeText(text) : text \in Inputs},
         click_at |-> {ClickAt},    click    |-> {ClickElement},
         insert   |-> {InsertText}, navigate |-> {Navigate},
         page     |-> {GetPageText}, url     |-> {GetPageUrl},
         change   |-> {Change},     look     |-> {Screenshot}]

ASSUME OpsAssumption == Ops \subseteq DOMAIN Plan

\* Commands whose error ends the call; the others' results are not looked at.
Checked == {"locate", "navigate", "text", "where", "change", "look", "insert"}

Init == /\ tabs = <<MainTab>>
        /\ held = [t \in Tabs |-> {}]
        /\ lock = None
        /\ todo = [c \in Callers |-> <<>>]
        /\ aim = [c \in Callers |-> None]
        /\ calls = [c \in Callers |-> 0]
        /\ troubles = 0

-----------------------------------------------------------------------------
Busy(c)  == todo[c] # <<>>
Now(c)   == Head(todo[c])
Rest(c)  == todo' = [todo EXCEPT ![c] = Tail(@)]
Commands(c) == Busy(c) /\ Now(c).type \notin {"lock", "unlock"}
Trouble  == troubles < MaxTroubles /\ troubles' = troubles + 1

Begin(c, o) ==
    /\ ~Busy(c) /\ calls[c] < MaxCalls
    /\ \E call \in Plan[o] : todo' = [todo EXCEPT ![c] = call]
    /\ calls' = [calls EXCEPT ![c] = @ + 1]
    /\ UNCHANGED <<chrome, lock, aim, troubles>>

Lock(c) ==
    /\ Busy(c) /\ Now(c).type = "lock" /\ lock = None
    /\ lock' = c
    /\ Rest(c)
    /\ UNCHANGED <<chrome, aim, calls, troubles>>

Unlock(c) ==
    /\ Busy(c) /\ Now(c).type = "unlock"
    /\ lock' = None
    /\ Rest(c)
    /\ UNCHANGED <<chrome, aim, calls, troubles>>

\* _discover_ws_url: the last page target, popups included.
Discover(c) ==
    /\ Commands(c) /\ aim[c] = None
    /\ tabs # <<>>
    /\ aim' = [aim EXCEPT ![c] = tabs[Len(tabs)]]
    /\ UNCHANGED <<chrome, lock, todo, calls, troubles>>

\* What a command does to the tab it reaches.
Reaches(t, e) ==
    /\ held' = [held EXCEPT ![t] =
          CASE e.type \in {"rawKeyDown", "keyDown", "paste"} -> @ \cup {e.key}
            [] e.type \in {"keyUp", "pasteUp"} -> @ \ {e.key}
            [] e.type = "press"   -> @ \cup {"button"}
            [] e.type = "release" -> @ \ {"button"}
            [] OTHER -> @]
    /\ UNCHANGED tabs

\* The call goes on with what the command answered.
Answered(c) ==
    /\ IF Now(c).type = "write"
       THEN \E next \in {Paste, InsertRaw} : todo' = [todo EXCEPT ![c] = next]
       ELSE Rest(c)
    /\ UNCHANGED lock

\* Mutant: an error returns from the call with the lock still held.
FailedInside(c) ==
    /\ todo' = [todo EXCEPT ![c] =
          CASE Now(c).type \in Checked -> <<>>
            [] Now(c).type = "write" -> InsertRaw
            [] OTHER -> Tail(@)]
    /\ UNCHANGED lock

\* An error returns from the call, out of the with-block if it is in one.
WayOut(c) == IF lock = c THEN <<Do("unlock")>> ELSE <<>>

\* A command that failed: a checked one ends the call, which leaves the lock;
\* a refused clipboard write falls back to insertText; others pass unnoticed.
Failed(c) ==
    /\ todo' = [todo EXCEPT ![c] =
          CASE Now(c).type \in Checked -> WayOut(c)
            [] Now(c).type = "write" -> InsertRaw
            [] OTHER -> Tail(@)]
    /\ UNCHANGED lock

IsOpen(t) == \E i \in 1 .. Len(tabs) : tabs[i] = t

\* _send_cdp: the command reaches its target and is answered.
Succeeds(c) ==
    /\ Commands(c) /\ aim[c] # None /\ IsOpen(aim[c])
    /\ Reaches(aim[c], Now(c))
    /\ Answered(c)
    /\ aim' = [aim EXCEPT ![c] = None]
    /\ UNCHANGED <<calls, troubles>>

\* The connection or the wait for the answer fails, before or after the
\* command took effect; always so if the target is gone.  An element that is
\* not found ends the call in the same way.
Fails(c) ==
    /\ Commands(c) /\ aim[c] # None
    /\ \/ Trouble
       \/ (~IsOpen(aim[c]) \/ Now(c).type = "locate") /\ UNCHANGED troubles
    /\ \/ UNCHANGED chrome
       \/ IsOpen(aim[c]) /\ Reaches(aim[c], Now(c))
    /\ Failed(c)
    /\ aim' = [aim EXCEPT ![c] = None]
    /\ UNCHANGED calls

\* Chrome is not reachable, or shows no page.
NoTarget(c) ==
    /\ Commands(c) /\ aim[c] = None
    /\ Trouble \/ (tabs = <<>> /\ UNCHANGED troubles)
    /\ Failed(c)
    /\ UNCHANGED <<chrome, aim, calls>>

\* Pages and the user: a popup opens or a tab closes.
TabOpens(t) ==
    /\ ~IsOpen(t) /\ Trouble
    /\ tabs' = Append(tabs, t)
    /\ held' = [held EXCEPT ![t] = {}]
    /\ UNCHANGED <<lock, todo, aim, calls>>

TabCloses(t) ==
    /\ Trouble
    /\ \E i \in 1 .. Len(tabs) : tabs[i] = t /\ tabs' = RemoveAt(tabs, i)
    /\ UNCHANGED <<held, lock, todo, aim, calls>>

Step(c) == \/ Lock(c) \/ Unlock(c) \/ Discover(c)
           \/ Succeeds(c) \/ Fails(c) \/ NoTarget(c)
Browser == \E t \in Tabs : TabOpens(t) \/ TabCloses(t)
Next == \/ \E c \in Callers : (\E o \in Ops : Begin(c, o)) \/ Step(c)
        \/ Browser
Spec == Init /\ [][Next]_vars

\* Every command ends, answered or by its timeout; a thread that waits for
\* the lock gets it some time when it keeps being free.
FairSpec == Spec /\ \A c \in Callers : WF_vars(Step(c)) /\ SF_vars(Lock(c))

-----------------------------------------------------------------------------
Keyboard == {"rawKeyDown", "keyDown", "char", "keyUp"}
Pasting  == {"paste", "pasteUp"}

\* What c still has to do leads out of the lock before it leads into it.
Inside(c) == \E i \in 1 .. Len(todo[c]) :
                 /\ todo[c][i].type = "unlock"
                 /\ \A j \in 1 .. i : todo[c][j].type # "lock"

\* The state has the shape the code gives it: among others, who holds the lock
\* is inside the with-block and nobody else is.
TypeOK ==
    /\ tabs \in Seq(Tabs)
    /\ lock \in Callers \cup {None}
    /\ aim \in [Callers -> Tabs \cup {None}]
    /\ calls \in [Callers -> 0 .. MaxCalls] /\ troubles \in 0 .. MaxTroubles
    /\ \A c \in Callers : (lock = c) <=> Inside(c)

\* "real modifier state" (cdp_service.py:597): when a key event of press_key or
\* type_text reaches a page, the modifiers down in that page are those the event
\* names; and when one of insert_text's paste does, which names Control of its
\* own accord (:527), none is down.  So no call's events fall under a modifier
\* another call holds (_lock), as long as no command failed and no tab came or
\* went.
BitsAreTrue ==
    [][troubles = 0 =>
         \A c \in Callers :
             Succeeds(c) =>
                 LET down == held'[aim[c]] \cap Modifiers
                 IN  /\ Now(c).type \in Keyboard => Now(c).bits = down
                     /\ Now(c).type \in Pasting => down = {}]_vars

\* Between calls no key and no button is down, as long as no command failed and
\* no tab came or went.
NothingStaysHeld ==
    lock = None /\ troubles = 0 => \A t \in Tabs : held[t] = {}

\* Every call returns, whatever fails inside it and however often: no error
\* path keeps _lock, so nobody waits for it for ever.
CallsReturn == \A c \in Callers : Busy(c) ~> ~Busy(c)
=============================================================================

------------------------------ MODULE KeySpec ------------------------------
(***************************************************************************)
(* Key specifications of prax_sandbox/cdp_service.py: what _parse_key      *)
(* makes of "Control+Shift+End", and the key events press_key sends for    *)
(* it.  A specification is given as spec.split("+"), each of its words as  *)
(* it is written but for blanks around it; the bit mask of modifiers is    *)
(* the set of its modifiers.                                               *)
(***************************************************************************)
EXTENDS Naturals, Sequences

CONSTANT Lower(_)    \* str.lower

\* _MODIFIERS and _KEY_ALIASES, which are looked up in lower case, _NAMED_KEYS,
\* which are looked up as they are written, and letters, with one key or two of
\* each kind: keys that type something and keys that do not.
Modifier == [alt |-> "Alt", option |-> "Alt", control |-> "Control",
             ctrl |-> "Control", meta |-> "Meta", cmd |-> "Meta",
             command |-> "Meta", shift |-> "Shift"]
Modifiers == {"Alt", "Control", "Meta", "Shift"}
Alias     == [return |-> "Enter", space |-> "Space", up |-> "ArrowUp"]
NamedKeys == {"Enter", "Space", " ", "End", "ArrowUp"}
Upper     == [a |-> "A", b |-> "B"]
Others    == {"1", "+"}    \* characters that are no letters

IsModifier(w) == Lower(w) \in DOMAIN Modifier
IsAlias(w)    == Lower(w) \in DOMAIN Alias
IsLetter(w)   == Lower(w) \in DOMAIN Upper

\* What is no letter has no case, and no named key is called like a letter.
ASSUME LowerAssumption ==
    /\ \A w \in DOMAIN Upper \cup Others \cup {""} : Lower(w) = w
    /\ \A w \in NamedKeys : ~IsLetter(w)

Error == [ok |-> FALSE, mods |-> <<>>, key |-> "", text |-> ""]

\* Mutant: a trailing "+" is not taken for the key "+".
FixPlusNever(parts) == parts

\* "Control++" splits into "Control", "", "" and presses "+".
FixPlus(parts) ==
    IF Len(parts) > 1 /\ parts[Len(parts)] = ""
    THEN SubSeq(parts, 1, Len(parts) - 2) \o <<"+">>
    ELSE parts

\* What a page calls a named key, and what it types.
NameOf(key) == IF key = "Space" THEN " " ELSE key
TextOf(key) == CASE key = "Enter" -> "\r"
                 [] key \in {"Space", " "} -> " "
                 [] OTHER -> ""

\* Mutant: the case of a letter is the one it is written in.
CharAsWritten(key, shifted) == key

\* Shift alone makes a letter a capital, however it is written.
Char(key, shifted) ==
    IF ~IsLetter(key) THEN key
    ELSE IF shifted THEN Upper[Lower(key)] ELSE Lower(key)

ParseKey(parts) ==
    LET fixed == FixPlus(parts)
        n     == Len(fixed)
        mods  == [i \in 1 .. n - 1 |-> Modifier[Lower(fixed[i])]]
        key   == IF IsAlias(fixed[n]) THEN Alias[Lower(fixed[n])] ELSE fixed[n]
        char  == Char(key, \E i \in 1 .. n - 1 : mods[i] = "Shift")
    IN IF \E i \in 1 .. n - 1 : ~IsModifier(fixed[i]) THEN Error
       ELSE IF key \in NamedKeys
            THEN [ok |-> TRUE, mods |-> mods, key |-> NameOf(key), text |-> TextOf(key)]
       ELSE IF IsLetter(key) \/ key \in Others
            THEN [ok |-> TRUE, mods |-> mods, key |-> char, text |-> char]
       ELSE Error

-----------------------------------------------------------------------------
Event(type, key, bits, text) ==
    [type |-> type, key |-> key, bits |-> bits, text |-> text]

\* A shortcut (any modifier but Shift) must not also type its character.
Types(p) == p.text # "" /\ \A i \in 1 .. Len(p.mods) : p.mods[i] = "Shift"

\* Mutant: an up event still carries the modifier that goes up.
KeyEventsLate(p) ==
    LET n        == Len(p.mods)
        Down(i)  == {p.mods[j] : j \in 1 .. i}
        Going(i) == Down(n) \ {p.mods[j] : j \in i + 1 .. n}
    IN [i \in 1 .. n |-> Event("rawKeyDown", p.mods[i], Down(i), "")]
       \o << Event(IF Types(p) THEN "keyDown" ELSE "rawKeyDown", p.key, Down(n),
                   IF Types(p) THEN p.text ELSE ""),
             Event("keyUp", p.key, Down(n), "") >>
       \o [k \in 1 .. n |-> Event("keyUp", p.mods[n + 1 - k], Going(n + 1 - k), "")]

\* The events of press_key: modifiers down in order, the key down and up, the
\* modifiers up in reverse; `bits' is updated before each event.
KeyEvents(p) ==
    LET n        == Len(p.mods)
        Down(i)  == {p.mods[j] : j \in 1 .. i}
        Going(i) == Down(n) \ {p.mods[j] : j \in i .. n}
    IN [i \in 1 .. n |-> Event("rawKeyDown", p.mods[i], Down(i), "")]
       \o << Event(IF Types(p) THEN "keyDown" ELSE "rawKeyDown", p.key, Down(n),
                   IF Types(p) THEN p.text ELSE ""),
             Event("keyUp", p.key, Down(n), "") >>
       \o [k \in 1 .. n |-> Event("keyUp", p.mods[n + 1 - k], Going(n + 1 - k), "")]

-----------------------------------------------------------------------------
\* What a page makes of the events: the keys that are down after the first k.
KeysDown(events) ==
    LET down[k \in 0 .. Len(events)] ==
          IF k = 0 THEN {}
          ELSE IF events[k].type = "keyUp" THEN down[k - 1] \ {events[k].key}
          ELSE down[k - 1] \cup {events[k].key}
    IN down
=============================================================================

----------------------------- MODULE MCKeySpec -----------------------------
(***************************************************************************)
(* Every key specification of up to MaxWords words, and what ought to come *)
(* of one.                                                                 *)
(***************************************************************************)
EXTENDS KeySpec, FiniteSets

Words == {"Control", "ctrl", "Shift", "cmd", "hyper", "", "A", "b", "1", "Enter", "end", "Up"}
LowerCase(w) == CASE w = "Control" -> "control" [] w = "Shift" -> "shift"
                  [] w = "A" -> "a" [] w = "Enter" -> "enter" [] w = "Up" -> "up"
                  [] OTHER -> w
MaxWords == 4
Specs == UNION {[1 .. n -> Words] : n \in 1 .. MaxWords}

\* No key is left down, and every event carries exactly the modifiers that are
\* down once it has been handled.
TellsTheTruth(spec) ==
    LET parsed == ParseKey(spec)
        events == KeyEvents(parsed)
        down   == KeysDown(events)
    IN  parsed.ok =>
          /\ down[Len(events)] = {}
          /\ \A k \in 1 .. Len(events) : events[k].bits = down[k] \cap Modifiers

\* A word that names a key: an alias or a letter in any case, a named key in
\* the one case it is listed in, a digit.
IsKnown(w) == IsAlias(w) \/ IsLetter(w) \/ w \in NamedKeys \/ w = "1"

\* After modifiers a known key, or the two empty words that split("+") makes of
\* the key "+", is accepted, and any other word is not.  The key goes down under
\* exactly those modifiers, a letter as a capital if and only if Shift is one of
\* them, and with its text only if they make it no shortcut.
IsPressed(spec) ==
    \A k \in 0 .. Len(spec) - 1 :
        (\A i \in 1 .. k : IsModifier(spec[i])) =>
        LET parsed == ParseKey(spec)
            down   == KeyEvents(parsed)[k + 1]
            key    == spec[k + 1]
            plus   == Len(spec) = k + 2 /\ key = "" /\ spec[k + 2] = ""
            known  == Len(spec) = k + 1 /\ IsKnown(key)
        IN  /\ plus \/ known =>
                  /\ parsed.ok
                  /\ down.bits = {Modifier[Lower(spec[i])] : i \in 1 .. k}
                  /\ plus => down.key = "+"
                  /\ IsLetter(key) => (down.key \in {Upper[w] : w \in DOMAIN Upper}
                                           <=> "Shift" \in down.bits)
                  /\ down.text # "" => down.bits \subseteq {"Shift"}
            /\ Len(spec) = k + 1 /\ key # "" /\ ~known /\ key # "+" => ~parsed.ok
=============================================================================

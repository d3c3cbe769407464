-------------------------- MODULE CdpServiceProofs --------------------------
(***************************************************************************)
(* The safety of CdpService for any number of threads, calls, tabs and     *)
(* troubles, any choice of the calls of Plan, whatever keys they press and *)
(* whatever they type: who holds the lock is inside it, and until the      *)
(* first trouble no call leaves a key down or types under another's        *)
(* modifiers.  Then what the calls are made of: key specifications of any  *)
(* length, and frames of any length that fits in eight bytes.              *)
(***************************************************************************)
EXTENDS MCCdpService, SequenceTheorems, WellFoundedInduction, TLAPS

\* The steps calls are made of.
Kinds == Keyboard \cup Checked
         \cup {"lock", "unlock", "press", "release", "write", "paste", "pasteUp",
               "url", "title", "ready"}
\* The provers lose their way over an empty literal.
NoText == ""
Keys  == Modifiers \cup Chars \cup {None, "v"} \cup {ParseKey(parts).key : parts \in Combos}
Texts == {NoText} \cup Chars \cup {ParseKey(parts).text : parts \in Combos}
Steps == [type : Kinds, key : Keys, bits : SUBSET Modifiers, text : Texts]

KeyDown(e, k) == \/ e.type \in {"rawKeyDown", "keyDown", "paste"} /\ e.key = k
                 \/ e.type = "press" /\ k = "button"
KeyUp(e, k)   == \/ e.type \in {"keyUp", "pasteUp"} /\ e.key = k
                 \/ e.type = "release" /\ k = "button"

\* From step i on, s lets k up before it presses k again: k is down.
Owed(s, i, k) == \E j \in i .. Len(s) : /\ KeyUp(s[j], k)
                                        /\ \A m \in i .. j - 1 : ~KeyDown(s[m], k)

\* From step i on, s leaves the lock before it takes it: s is inside.
Within(s, i) == \E j \in i .. Len(s) : /\ s[j].type = "unlock"
                                       /\ \A m \in i .. j : s[m].type # "lock"

\* Steps at which nothing may be down.
Quiet == {"lock", "unlock", "locate", "write"}
\* Steps that are for the holder of the lock only.
Guarded == Keyboard \cup {"press", "release", "write", "paste", "pasteUp"}

(***************************************************************************)
(* What makes the steps of a call harmless, at step i: a key that goes     *)
(* down comes up again, one that comes up was down, nothing is down where  *)
(* the lock changes hands or the call may end, the modifiers named are     *)
(* those that are down, none is where a paste names one, and all of it     *)
(* happens inside the lock.                                                *)
(***************************************************************************)
Harmless(s, i) ==
    /\ \A k : KeyDown(s[i], k) => Owed(s, i + 1, k)
    /\ \A k : KeyUp(s[i], k) => ~Owed(s, i + 1, k)
    /\ s[i].type \in Quiet => \A k : ~Owed(s, i + 1, k)
    /\ s[i].type \in Keyboard =>
           \A k : k \in s[i].bits <=> k \in Modifiers /\ Owed(s, i + 1, k)
    /\ s[i].type \in {"paste", "pasteUp"} => \A k \in Modifiers : ~Owed(s, i + 1, k)
    /\ s[i].type = "lock" => Within(s, i + 1)
    /\ s[i].type = "unlock" => ~Within(s, i + 1)
    /\ s[i].type \in Guarded => Within(s, i + 1)
Orderly(s) == s \in Seq(Steps) /\ \A i \in 1 .. Len(s) : Harmless(s, i)
\* A call that begins outside the lock.
Calm(s) == Orderly(s) /\ ~Within(s, 1)

-----------------------------------------------------------------------------
(***************************************************************************)
(* Owed and Within, one step at a time.                                    *)
(***************************************************************************)
LEMMA OwedBack ==
    ASSUME NEW s \in Seq(Steps), NEW i \in 1 .. Len(s), NEW k
    PROVE  Owed(s, i, k) <=> KeyUp(s[i], k) \/ (~KeyDown(s[i], k) /\ Owed(s, i + 1, k))
<1>0. Len(s) \in Nat
  OBVIOUS
<1>1. ASSUME NEW j \in i .. Len(s), KeyUp(s[j], k), \A m \in i .. j - 1 : ~KeyDown(s[m], k),
             ~KeyUp(s[i], k)
      PROVE  ~KeyDown(s[i], k) /\ Owed(s, i + 1, k)
  <2>1. j # i
    BY <1>1
  <2>2. i \in i .. j - 1 /\ j \in i + 1 .. Len(s) /\ i + 1 .. j - 1 \subseteq i .. j - 1
    BY <1>0, <2>1
  <2> QED
    BY <1>1, <2>2 DEF Owed
<1>2. ASSUME KeyUp(s[i], k) PROVE Owed(s, i, k)
  <2>1. i \in i .. Len(s) /\ i .. i - 1 = {}
    BY <1>0
  <2> QED
    BY <1>2, <2>1 DEF Owed
<1>3. ASSUME ~KeyDown(s[i], k), NEW j \in i + 1 .. Len(s), KeyUp(s[j], k),
             \A m \in i + 1 .. j - 1 : ~KeyDown(s[m], k)
      PROVE  Owed(s, i, k)
  <2>1. j \in i .. Len(s) /\ \A m \in i .. j - 1 : m = i \/ m \in i + 1 .. j - 1
    BY <1>0
  <2> QED
    BY <1>3, <2>1 DEF Owed
<1> QED
  BY <1>1, <1>2, <1>3 DEF Owed

LEMMA WithinBack ==
    ASSUME NEW s \in Seq(Steps), NEW i \in 1 .. Len(s)
    PROVE  Within(s, i) <=>
               s[i].type # "lock" /\ (s[i].type = "unlock" \/ Within(s, i + 1))
<1>0. Len(s) \in Nat
  OBVIOUS
<1>1. ASSUME NEW j \in i .. Len(s), s[j].type = "unlock",
             \A m \in i .. j : s[m].type # "lock", s[i].type # "unlock"
      PROVE  s[i].type # "lock" /\ Within(s, i + 1)
  <2>1. j # i
    BY <1>1
  <2>2. i \in i .. j /\ j \in i + 1 .. Len(s) /\ i + 1 .. j \subseteq i .. j
    BY <1>0, <2>1
  <2> QED
    BY <1>1, <2>2 DEF Within
<1>2. ASSUME s[i].type = "unlock" PROVE Within(s, i)
  <2>1. i \in i .. Len(s) /\ i .. i = {i}
    BY <1>0
  <2> QED
    BY <1>2, <2>1 DEF Within
<1>3. ASSUME s[i].type # "lock", NEW j \in i + 1 .. Len(s), s[j].type = "unlock",
             \A m \in i + 1 .. j : s[m].type # "lock"
      PROVE  Within(s, i)
  <2>1. j \in i .. Len(s) /\ \A m \in i .. j : m = i \/ m \in i + 1 .. j
    BY <1>0
  <2> QED
    BY <1>3, <2>1 DEF Within
<1>4. s[i].type = "lock" => ~Within(s, i)
  <2>1. \A j \in i .. Len(s) : i \in i .. j
    BY <1>0
  <2> QED
    BY <2>1 DEF Within
<1> QED
  BY <1>1, <1>2, <1>3, <1>4 DEF Within

LEMMA AtTheEnd ==
    ASSUME NEW s \in Seq(Steps)
    PROVE  ~Within(s, Len(s) + 1) /\ \A k : ~Owed(s, Len(s) + 1, k)
<1>1. Len(s) + 1 .. Len(s) = {}
  OBVIOUS
<1> QED
  BY <1>1 DEF Within, Owed

LEMMA TailSame ==
    ASSUME NEW s \in Seq(Steps), s # <<>>, NEW i \in 1 .. Len(s)
    PROVE  /\ Within(Tail(s), i) <=> Within(s, i + 1)
           /\ \A k : Owed(Tail(s), i, k) <=> Owed(s, i + 1, k)
<1> DEFINE t == Tail(s)
<1>1. /\ Len(s) \in Nat /\ Len(s) >= 1 /\ Len(t) = Len(s) - 1
      /\ \A j \in 1 .. Len(s) - 1 : t[j] = s[j + 1]
  OBVIOUS
<1> HIDE DEF t
<1>2. \A j \in i .. Len(t) : /\ j + 1 \in i + 1 .. Len(s) /\ t[j] = s[j + 1]
                             /\ \A m \in i .. j : t[m] = s[m + 1]
  BY <1>1
<1>3. \A j \in i + 1 .. Len(s) : j - 1 \in i .. Len(t) /\ (j - 1) + 1 = j
  BY <1>1
<1>4. Within(t, i) <=> Within(s, i + 1)
  <2>1. ASSUME NEW j \in i .. Len(t), t[j].type = "unlock", \A m \in i .. j : t[m].type # "lock"
        PROVE  Within(s, i + 1)
    <3>1. \A m \in i + 1 .. j + 1 : m - 1 \in i .. j /\ (m - 1) + 1 = m
      BY <1>1
    <3>2. \A m \in i + 1 .. j + 1 : s[m] = t[m - 1]
      BY <1>2, <3>1
    <3> QED
      BY <1>2, <2>1, <3>1, <3>2 DEF Within
  <2>2. ASSUME NEW j \in i + 1 .. Len(s), s[j].type = "unlock",
               \A m \in i + 1 .. j : s[m].type # "lock"
        PROVE  Within(t, i)
    <3>1. \A m \in i .. j - 1 : m + 1 \in i + 1 .. j
      BY <1>1
    <3>2. t[j - 1] = s[j] /\ \A m \in i .. j - 1 : t[m] = s[m + 1]
      BY <1>2, <1>3
    <3> QED
      BY <1>3, <2>2, <3>1, <3>2 DEF Within
  <2> QED
    BY <2>1, <2>2 DEF Within
<1>5. ASSUME NEW k PROVE Owed(t, i, k) <=> Owed(s, i + 1, k)
  <2>1. ASSUME NEW j \in i .. Len(t), KeyUp(t[j], k), \A m \in i .. j - 1 : ~KeyDown(t[m], k)
        PROVE  Owed(s, i + 1, k)
    <3>1. \A m \in i + 1 .. (j + 1) - 1 : m - 1 \in i .. j - 1 /\ m - 1 \in i .. j /\ (m - 1) + 1 = m
      BY <1>1
    <3>2. \A m \in i + 1 .. (j + 1) - 1 : s[m] = t[m - 1]
      BY <1>2, <3>1
    <3> QED
      BY <1>2, <2>1, <3>1, <3>2 DEF Owed
  <2>2. ASSUME NEW j \in i + 1 .. Len(s), KeyUp(s[j], k),
               \A m \in i + 1 .. j - 1 : ~KeyDown(s[m], k)
        PROVE  Owed(t, i, k)
    <3>1. \A m \in i .. (j - 1) - 1 : m + 1 \in i + 1 .. j - 1 /\ m \in i .. j - 1
      BY <1>1
    <3>2. t[j - 1] = s[j] /\ \A m \in i .. j - 1 : t[m] = s[m + 1]
      BY <1>2, <1>3
    <3> QED
      BY <1>3, <2>2, <3>1, <3>2 DEF Owed
  <2> QED
    BY <2>1, <2>2 DEF Owed
<1> QED
  BY <1>4, <1>5 DEF t

LEMMA TailOrderly ==
    ASSUME NEW s, Orderly(s), s # <<>>
    PROVE  Orderly(Tail(s))
<1>1. /\ s \in Seq(Steps) /\ Tail(s) \in Seq(Steps)
      /\ Len(s) \in Nat /\ Len(Tail(s)) = Len(s) - 1
      /\ \A j \in 1 .. Len(s) - 1 : Tail(s)[j] = s[j + 1]
  BY DEF Orderly
<1>2. ASSUME NEW i \in 1 .. Len(Tail(s)) PROVE Harmless(Tail(s), i)
  <2>1. i + 1 \in 1 .. Len(s) /\ i \in 1 .. Len(s) /\ Tail(s)[i] = s[i + 1]
    BY <1>1
  <2>2. Harmless(s, i + 1)
    BY <2>1 DEF Orderly
  <2>3. /\ Within(Tail(s), i + 1) <=> Within(s, (i + 1) + 1)
        /\ \A k : Owed(Tail(s), i + 1, k) <=> Owed(s, (i + 1) + 1, k)
    BY <1>1, <2>1, TailSame
  <2> QED
    BY <2>1, <2>2, <2>3 DEF Harmless
<1> QED
  BY <1>1, <1>2 DEF Orderly

\* Outside the lock nothing is owed.
LEMMA OutsideOwesNothing ==
    ASSUME NEW s, Orderly(s), NEW i \in 1 .. Len(s) + 1, ~Within(s, i), NEW k
    PROVE  ~Owed(s, i, k)
<1> SUFFICES ASSUME NEW j \in i .. Len(s), KeyUp(s[j], k),
                    \A m \in i .. j - 1 : ~KeyDown(s[m], k)
             PROVE  FALSE
  BY DEF Owed
<1>0. s \in Seq(Steps) /\ Len(s) \in Nat
  BY DEF Orderly
<1>1. s[j].type \in {"keyUp", "pasteUp", "release"} /\ j \in 1 .. Len(s)
  BY <1>0 DEF KeyUp
<1>2. Within(s, j + 1)
  BY <1>1 DEF Orderly, Harmless, Guarded, Keyboard
<1>3. PICK u \in j + 1 .. Len(s) : /\ s[u].type = "unlock"
                                   /\ \A m \in j + 1 .. u : s[m].type # "lock"
  BY <1>2 DEF Within
<1>4. u \in i .. Len(s)
  BY <1>0
<1>5. PICK m \in i .. u : s[m].type = "lock"
  BY <1>3, <1>4 DEF Within
<1>6. m \in 1 .. Len(s) /\ m < j
  BY <1>0, <1>1, <1>3, <1>5
<1>7. ~Owed(s, m + 1, k)
  BY <1>5, <1>6 DEF Orderly, Harmless, Quiet
<1>8. j \in m + 1 .. Len(s) /\ m + 1 .. j - 1 \subseteq i .. j - 1
  BY <1>0, <1>6
<1> QED
  BY <1>7, <1>8 DEF Owed

-----------------------------------------------------------------------------
(***************************************************************************)
(* The calls of Plan, put together from their ends.                        *)
(***************************************************************************)
\* From step i on, s does no harm; it begins inside or not, and with the keys
\* of down pressed.
Begins(s, i, inside, down) == /\ \A j \in i .. Len(s) : Harmless(s, j)
                              /\ Within(s, i) <=> inside
                              /\ \A k : Owed(s, i, k) <=> k \in down

LEMMA Nothing ==
    ASSUME NEW s \in Seq(Steps), NEW n, n = Len(s) + 1
    PROVE  Begins(s, n, FALSE, {})
<1>1. Len(s) + 1 .. Len(s) = {}
  OBVIOUS
<1> QED
  BY <1>1, AtTheEnd DEF Begins

\* e does no harm before steps that begin inside and with the keys of down.
Fits(e, inside, down) ==
    /\ \A k : KeyDown(e, k) => k \in down
    /\ \A k : KeyUp(e, k) => k \notin down
    /\ e.type \in Quiet => \A k : k \notin down
    /\ e.type \in Keyboard => \A k : k \in e.bits <=> k \in Modifiers /\ k \in down
    /\ e.type \in {"paste", "pasteUp"} => \A k \in Modifiers : k \notin down
    /\ e.type = "lock" => inside
    /\ e.type = "unlock" => ~inside
    /\ e.type \in Guarded => inside

LEMMA OneMore ==
    ASSUME NEW s \in Seq(Steps), NEW i \in 1 .. Len(s), NEW n, n = i + 1,
           NEW inside, NEW down, NEW insideBefore, NEW downBefore,
           Begins(s, n, inside, down), Fits(s[i], inside, down),
           insideBefore <=> s[i].type # "lock" /\ (s[i].type = "unlock" \/ inside),
           \A k : k \in downBefore <=>
                      KeyUp(s[i], k) \/ (~KeyDown(s[i], k) /\ k \in down)
    PROVE  Begins(s, i, insideBefore, downBefore)
<1>0. Len(s) \in Nat /\ \A j \in i .. Len(s) : j = i \/ j \in n .. Len(s)
  OBVIOUS
<1>1. Within(s, i + 1) <=> inside
  BY DEF Begins
<1>2. \A k : Owed(s, i + 1, k) <=> k \in down
  BY DEF Begins
<1>3. Harmless(s, i)
  BY <1>1, <1>2 DEF Harmless, Fits
<1>4. \A j \in i .. Len(s) : Harmless(s, j)
  BY <1>0, <1>3 DEF Begins
<1>5. Within(s, i) <=> insideBefore
  BY <1>1, WithinBack
<1>6. \A k : Owed(s, i, k) <=> k \in downBefore
  BY <1>2, OwedBack
<1> QED
  BY <1>4, <1>5, <1>6 DEF Begins

\* A command that is not about keys.
Plain(e) == e.type \notin Guarded \cup {"lock", "unlock"}

LEMMA OneMoreLock ==
    ASSUME NEW s \in Seq(Steps), NEW i \in 1 .. Len(s), NEW n, n = i + 1,
           Begins(s, n, TRUE, {}), s[i].type = "lock"
    PROVE  Begins(s, i, FALSE, {})
<1>1. \A k : ~KeyDown(s[i], k) /\ ~KeyUp(s[i], k)
  BY DEF KeyDown, KeyUp
<1>2. s[i].type \notin Guarded /\ s[i].type \notin Keyboard
  BY DEF Guarded, Keyboard
<1>3. PICK inside \in BOOLEAN : inside = TRUE
  OBVIOUS
<1>4. PICK before \in BOOLEAN : before = FALSE
  OBVIOUS
<1>5. Begins(s, n, inside, {}) /\ Fits(s[i], inside, {})
  BY <1>1, <1>2, <1>3 DEF Fits
<1>6. Begins(s, i, before, {})
  BY <1>1, <1>4, <1>5, OneMore
<1> QED
  BY <1>4, <1>6

LEMMA OneMoreUnlock ==
    ASSUME NEW s \in Seq(Steps), NEW i \in 1 .. Len(s), NEW n, n = i + 1,
           Begins(s, n, FALSE, {}), s[i].type = "unlock"
    PROVE  Begins(s, i, TRUE, {})
<1>1. \A k : ~KeyDown(s[i], k) /\ ~KeyUp(s[i], k)
  BY DEF KeyDown, KeyUp
<1>2. s[i].type \notin Guarded /\ s[i].type \notin Keyboard
  BY DEF Guarded, Keyboard
<1>3. PICK inside \in BOOLEAN : inside = FALSE
  OBVIOUS
<1>4. PICK before \in BOOLEAN : before = TRUE
  OBVIOUS
<1>5. Begins(s, n, inside, {}) /\ Fits(s[i], inside, {})
  BY <1>1, <1>2, <1>3 DEF Fits
<1>6. Begins(s, i, before, {})
  BY <1>1, <1>4, <1>5, OneMore
<1> QED
  BY <1>4, <1>6

\* A command inside the lock that moves keys: what is down before it follows
\* from what is down after it.
LEMMA OneMoreKey ==
    ASSUME NEW s \in Seq(Steps), NEW i \in 1 .. Len(s), NEW n, n = i + 1,
           NEW down, NEW before, Begins(s, n, TRUE, down),
           s[i].type \in Guarded \ {"write"},
           s[i].type \in Keyboard => s[i].bits = down \cap Modifiers,
           s[i].type \in {"paste", "pasteUp"} => \A k \in Modifiers : k \notin down,
           \A k : KeyDown(s[i], k) => k \in down,
           \A k : KeyUp(s[i], k) => k \notin down,
           \A k : k \in before <=> KeyUp(s[i], k) \/ (~KeyDown(s[i], k) /\ k \in down)
    PROVE  Begins(s, i, TRUE, before)
<1>1. s[i].type \notin Quiet /\ s[i].type # "lock" /\ s[i].type # "unlock"
  BY DEF Quiet, Guarded, Keyboard
<1>2. s[i].type \in Keyboard => \A k : k \in s[i].bits <=> k \in Modifiers /\ k \in down
  OBVIOUS
<1>3. PICK inside \in BOOLEAN : inside = TRUE
  OBVIOUS
<1>4. Begins(s, n, inside, down) /\ Fits(s[i], inside, down)
  BY <1>1, <1>2, <1>3 DEF Fits
<1>5. Begins(s, i, inside, before)
  BY <1>1, <1>3, <1>4, OneMore
<1> QED
  BY <1>3, <1>5

LEMMA EventIsAStep ==
    \A type \in Kinds, key \in Keys, bits \in SUBSET Modifiers, text \in Texts :
        Event(type, key, bits, text) \in Steps
BY DEF Event, Steps

LEMMA DoIs == ASSUME NEW type PROVE Do(type).type = type
<1>1. Do(type) = Event(type, None, {}, NoText)
  BY DEF Do, NoText
<1> QED
  BY <1>1 DEF Event

LEMMA DoIsAStep == ASSUME NEW type \in Kinds PROVE Do(type) \in Steps
<1>1. {} \in SUBSET Modifiers /\ NoText \in Texts /\ None \in Keys
  BY DEF Texts, Keys
<1>2. Event(type, None, {}, NoText) \in Steps
  BY <1>1, EventIsAStep
<1> QED
  BY <1>2 DEF Do, NoText

\* The steps of a call inside its lock.
LEMMA LockedSteps ==
    ASSUME NEW steps \in Seq(Steps)
    PROVE  LET s == Locked(steps)
           IN  /\ s \in Seq(Steps) /\ Len(s) = Len(steps) + 2
               /\ s[1].type = "lock" /\ s[Len(steps) + 2].type = "unlock"
               /\ \A i \in 1 .. Len(steps) : s[i + 1] = steps[i]
<1>1. Do("lock") \in Steps /\ Do("unlock") \in Steps
  <2>1. "lock" \in Kinds /\ "unlock" \in Kinds
    BY DEF Kinds
  <2> QED
    BY <2>1, DoIsAStep
<1>2. Do("lock").type = "lock" /\ Do("unlock").type = "unlock"
  BY DoIs
<1> QED
  BY <1>1, <1>2 DEF Locked

FirstOf(mods, i)   == {mods[j] : j \in 1 .. i}
LastOf(mods, i, n) == {mods[j] : j \in i .. n}

\* A press: modifiers mods down in order, the key down and up, the modifiers up
\* again in reverse, all inside the lock.
PressShape(s, n, mods, key) ==
    /\ n \in Nat /\ mods \in [1 .. n -> Modifiers] /\ key \notin Modifiers
    /\ \A i, j \in 1 .. n : mods[i] = mods[j] => i = j
    /\ s \in Seq(Steps) /\ Len(s) = 2 * n + 4
    /\ s[1].type = "lock" /\ s[2 * n + 4].type = "unlock"
    /\ \A i \in 2 .. n + 1 : /\ s[i].type = "rawKeyDown" /\ s[i].key = mods[i - 1]
                             /\ s[i].bits = FirstOf(mods, i - 1)
    /\ s[n + 2].type \in {"keyDown", "rawKeyDown"} /\ s[n + 2].key = key
    /\ s[n + 2].bits = FirstOf(mods, n)
    /\ s[n + 3].type = "keyUp" /\ s[n + 3].key = key
    /\ s[n + 3].bits = FirstOf(mods, n)
    /\ \A i \in n + 4 .. 2 * n + 3 :
           /\ s[i].type = "keyUp" /\ s[i].key = mods[2 * n + 4 - i]
           /\ s[i].bits = FirstOf(mods, n) \ LastOf(mods, 2 * n + 4 - i, n)

LEMMA PressOrderly ==
    ASSUME NEW n, NEW mods, NEW key, NEW s, PressShape(s, n, mods, key)
    PROVE  Calm(s)
<1> USE DEF PressShape, FirstOf, LastOf
<1>0. \A m \in 1 .. n : mods[m] \in Modifiers
  OBVIOUS
<1> DEFINE Opens(i, k)  == (i \in 2 .. n + 1 /\ k = mods[i - 1]) \/ (i = n + 2 /\ k = key)
           Closes(i, k) == (i \in n + 4 .. 2 * n + 3 /\ k = mods[2 * n + 4 - i])
                           \/ (i = n + 3 /\ k = key)
           Down(i, k) == (\E m \in 1 .. n : k = mods[m] /\ m + 1 < i /\ i <= 2 * n + 4 - m)
                         \/ (k = key /\ i = n + 3)
<1>1. \A i \in 1 .. 2 * n + 4 :
          \/ i = 1 \/ i = 2 * n + 4 \/ i = n + 2 \/ i = n + 3
          \/ i \in 2 .. n + 1 \/ i \in n + 4 .. 2 * n + 3
  OBVIOUS
<1>2. ASSUME NEW i \in 1 .. Len(s), NEW k
      PROVE  (KeyDown(s[i], k) <=> Opens(i, k)) /\ (KeyUp(s[i], k) <=> Closes(i, k))
  <2>1. CASE i = 1 \/ i = 2 * n + 4
    BY <2>1 DEF KeyDown, KeyUp
  <2>2. CASE i = n + 2
    BY <2>2 DEF KeyDown, KeyUp
  <2>3. CASE i = n + 3
    BY <2>3 DEF KeyDown, KeyUp
  <2>4. CASE i \in 2 .. n + 1
    BY <2>4 DEF KeyDown, KeyUp
  <2>5. CASE i \in n + 4 .. 2 * n + 3
    BY <2>5 DEF KeyDown, KeyUp
  <2> QED
    BY <1>1, <1>2, <2>1, <2>2, <2>3, <2>4, <2>5
<1>4. ASSUME NEW i \in 1 .. Len(s) + 1, NEW k PROVE Owed(s, i, k) <=> Down(i, k)
  <2>1. \A j \in i .. Len(s) : j \in 1 .. Len(s) /\ \A m \in i .. j - 1 : m \in 1 .. Len(s)
    BY <1>4
  <2>2. Owed(s, i, k) <=> \E j \in i .. Len(s) : Closes(j, k) /\ \A m \in i .. j - 1 : ~Opens(m, k)
    <3> HIDE DEF Opens, Closes
    <3> QED
      BY <1>2, <2>1 DEF Owed
  <2>3. ASSUME NEW j \in i .. Len(s), Closes(j, k), \A m \in i .. j - 1 : ~Opens(m, k)
        PROVE  Down(i, k)
    <3>1. CASE j = n + 3 /\ k = key
      <4>1. Opens(n + 2, k)
        BY <3>1
      <4>2. n + 2 \notin i .. j - 1
        BY <2>3, <4>1
      <4> QED
        BY <1>4, <2>3, <3>1, <4>2
    <3>2. CASE j \in n + 4 .. 2 * n + 3 /\ k = mods[2 * n + 4 - j]
      <4> DEFINE m == 2 * n + 4 - j
      <4>1. m \in 1 .. n /\ Opens(m + 1, k)
        BY <3>2
      <4>2. m + 1 \notin i .. j - 1
        BY <2>3, <4>1
      <4>3. m + 1 < i /\ i <= 2 * n + 4 - m
        BY <1>4, <2>3, <3>2, <4>2
      <4> QED
        BY <3>2, <4>1, <4>3
    <3> QED
      BY <2>3, <3>1, <3>2
  <2>4. ASSUME NEW m \in 1 .. n, k = mods[m], m + 1 < i, i <= 2 * n + 4 - m
        PROVE  \E j \in i .. Len(s) : Closes(j, k) /\ \A h \in i .. j - 1 : ~Opens(h, k)
    <3> DEFINE j == 2 * n + 4 - m
    <3>1. j \in i .. Len(s) /\ Closes(j, k)
      BY <1>4, <2>4
    <3>2. ASSUME NEW h \in i .. j - 1, Opens(h, k) PROVE FALSE
      <4>1. k # key /\ h \in 2 .. n + 1 /\ k = mods[h - 1] /\ h - 1 \in 1 .. n
        BY <2>4, <3>2
      <4>2. h - 1 = m
        BY <2>4, <4>1
      <4> QED
        BY <1>4, <2>4, <3>2, <4>1, <4>2
    <3> HIDE DEF j, Opens, Closes
    <3> QED
      BY <3>1, <3>2
  <2>5. CASE k = key /\ i = n + 3
    <3>1. i \in i .. Len(s) /\ Closes(i, k) /\ i .. i - 1 = {}
      BY <2>5
    <3> HIDE DEF Opens, Closes
    <3> QED
      BY <2>2, <2>5, <3>1
  <2> HIDE DEF Opens, Closes
  <2> QED
    BY <2>2, <2>3, <2>4, <2>5
<1>5. ASSUME NEW i \in 1 .. Len(s) + 1 PROVE Within(s, i) <=> i \in 2 .. 2 * n + 4
  <2>1. ASSUME NEW j \in 2 .. 2 * n + 4 PROVE s[j].type # "lock"
    <3>1. j = 2 * n + 4 \/ j = n + 2 \/ j = n + 3 \/ j \in 2 .. n + 1 \/ j \in n + 4 .. 2 * n + 3
      BY <2>1
    <3>2. CASE j = 2 * n + 4 \/ j = n + 2 \/ j = n + 3
      BY <3>2
    <3>3. CASE j \in 2 .. n + 1
      BY <3>3
    <3>4. CASE j \in n + 4 .. 2 * n + 3
      BY <3>4
    <3> QED
      BY <3>1, <3>2, <3>3, <3>4
  <2>2. \A j \in 2 .. 2 * n + 4 : (\A m \in j .. 2 * n + 4 : m \in 2 .. 2 * n + 4)
                                  /\ 2 * n + 4 \in j .. 2 * n + 4
    OBVIOUS
  <2>3. CASE i \in 2 .. 2 * n + 4
    BY <2>1, <2>2, <2>3 DEF Within
  <2>4. CASE i = 1
    <3>1. \A j \in i .. Len(s) : 1 \in i .. j
      BY <2>4
    <3> QED
      BY <2>4, <3>1 DEF Within
  <2>5. CASE i = 2 * n + 5
    BY <2>5 DEF Within
  <2> QED
    BY <1>5, <2>3, <2>4, <2>5
<1>6. ASSUME NEW i \in 1 .. Len(s) PROVE Harmless(s, i)
  <2>1. i + 1 \in 1 .. Len(s) + 1 /\ i \in Nat
    BY <1>6
  <2>2. \A k : Owed(s, i + 1, k) <=> Down(i + 1, k)
    <3> HIDE DEF Down
    <3> QED
      BY <1>4, <2>1
  <2>3. Within(s, i + 1) <=> i + 1 \in 2 .. 2 * n + 4
    BY <1>5, <2>1
  <2>4. \A k : (KeyDown(s[i], k) <=> Opens(i, k)) /\ (KeyUp(s[i], k) <=> Closes(i, k))
    <3> HIDE DEF Opens, Closes
    <3> QED
      BY <1>2, <1>6
  <2>5. ASSUME NEW k, Opens(i, k) PROVE Down(i + 1, k)
    <3>1. CASE i = n + 2 /\ k = key
      BY <3>1
    <3>2. CASE i \in 2 .. n + 1 /\ k = mods[i - 1]
      <4>1. i - 1 \in 1 .. n /\ (i - 1) + 1 < i + 1 /\ i + 1 <= 2 * n + 4 - (i - 1)
        BY <3>2
      <4> QED
        BY <3>2, <4>1
    <3> QED
      BY <2>5, <3>1, <3>2
  <2>6. ASSUME NEW k, Closes(i, k), Down(i + 1, k) PROVE FALSE
    <3>1. CASE i = n + 3 /\ k = key
      BY <2>6, <3>1
    <3>2. CASE i \in n + 4 .. 2 * n + 3 /\ k = mods[2 * n + 4 - i]
      <4>1. 2 * n + 4 - i \in 1 .. n /\ k # key /\ i + 1 # n + 3
        BY <3>2
      <4>2. PICK m \in 1 .. n : k = mods[m] /\ i + 1 <= 2 * n + 4 - m
        BY <2>6, <4>1
      <4>3. m = 2 * n + 4 - i
        BY <3>2, <4>1, <4>2
      <4> QED
        BY <2>1, <4>2, <4>3
    <3> QED
      BY <2>6, <3>1, <3>2
  <2>7. s[i].type \in Quiet => \A k : ~Down(i + 1, k)
    <3>1. s[i].type \in Quiet => i = 1 \/ i = 2 * n + 4
      BY <1>1, <1>6 DEF Quiet
    <3>2. CASE i = 1
      BY <3>2
    <3>3. CASE i = 2 * n + 4
      BY <3>3
    <3> QED
      BY <3>1, <3>2, <3>3
  <2>8. s[i].type \in Keyboard =>
            \A k : k \in s[i].bits <=> k \in Modifiers /\ Down(i + 1, k)
    <3>1. CASE i = 1 \/ i = 2 * n + 4
      BY <3>1 DEF Keyboard
    <3>2. CASE i = n + 2 \/ i = n + 3
      <4>1. \A m \in 1 .. n : m + 1 < i + 1 /\ i + 1 <= 2 * n + 4 - m
        BY <3>2
      <4>2. \A k : k \in s[i].bits <=> \E m \in 1 .. n : k = mods[m]
        BY <3>2
      <4>3. \A k : (\E m \in 1 .. n : k = mods[m]) => k \in Modifiers /\ Down(i + 1, k)
        BY <1>0, <4>1
      <4>4. \A k : k \in Modifiers /\ Down(i + 1, k) => \E m \in 1 .. n : k = mods[m]
        OBVIOUS
      <4> HIDE DEF Down
      <4> QED
        BY <4>2, <4>3, <4>4
    <3>3. CASE i \in 2 .. n + 1
      <4>1. s[i].bits = {mods[j] : j \in 1 .. i - 1}
        BY <3>3
      <4>2. \A m \in 1 .. n : m + 1 < i + 1 /\ i + 1 <= 2 * n + 4 - m <=> m \in 1 .. i - 1
        BY <3>3
      <4>3. 1 .. i - 1 \subseteq 1 .. n /\ i + 1 # n + 3
        BY <3>3
      <4>4. \A k : k \in s[i].bits <=> \E m \in 1 .. n : k = mods[m] /\ m \in 1 .. i - 1
        BY <4>1, <4>3
      <4>5. \A k : Down(i + 1, k) <=> \E m \in 1 .. n : k = mods[m] /\ m \in 1 .. i - 1
        BY <4>2, <4>3
      <4>6. \A k : k \in s[i].bits => k \in Modifiers
        BY ONLY <1>0, <4>4
      <4> HIDE DEF Down
      <4> QED
        BY <4>4, <4>5, <4>6
    <3>4. CASE i \in n + 4 .. 2 * n + 3
      <4>1. s[i].bits = {mods[j] : j \in 1 .. n} \ {mods[j] : j \in 2 * n + 4 - i .. n}
        BY <3>4
      <4>2. \A m \in 1 .. n : m + 1 < i + 1 /\ i + 1 <= 2 * n + 4 - m
                              <=> m \notin 2 * n + 4 - i .. n
        BY <3>4
      <4>3. 2 * n + 4 - i .. n \subseteq 1 .. n /\ i + 1 # n + 3
        BY <3>4
      <4>4. \A k : k \in s[i].bits <=> \E m \in 1 .. n : k = mods[m] /\ m \notin 2 * n + 4 - i .. n
        BY <4>1, <4>3
      <4>5. \A k : Down(i + 1, k) <=> \E m \in 1 .. n : k = mods[m] /\ m \notin 2 * n + 4 - i .. n
        BY <4>2, <4>3
      <4>6. \A k : k \in s[i].bits => k \in Modifiers
        BY ONLY <1>0, <4>4
      <4> HIDE DEF Down
      <4> QED
        BY <4>4, <4>5, <4>6
    <3> QED
      BY <1>1, <1>6, <3>1, <3>2, <3>3, <3>4
  <2>9. /\ s[i].type = "lock" => i + 1 \in 2 .. 2 * n + 4
        /\ s[i].type = "unlock" => i + 1 \notin 2 .. 2 * n + 4
        /\ s[i].type \in Guarded => i + 1 \in 2 .. 2 * n + 4
        /\ s[i].type \notin {"paste", "pasteUp"}
    <3>0. CASE i = 1
      BY <3>0 DEF Guarded, Keyboard
    <3>1. CASE i = 2 * n + 4
      BY <3>1 DEF Guarded, Keyboard
    <3>2. CASE i = n + 2 \/ i = n + 3
      BY <3>2
    <3>3. CASE i \in 2 .. n + 1
      BY <3>3
    <3>4. CASE i \in n + 4 .. 2 * n + 3
      BY <3>4
    <3> QED
      BY <1>1, <1>6, <3>0, <3>1, <3>2, <3>3, <3>4
  <2> HIDE DEF Opens, Closes, Down
  <2> QED
    BY <2>2, <2>3, <2>4, <2>5, <2>6, <2>7, <2>8, <2>9 DEF Harmless
<1> QED
  BY <1>5, <1>6 DEF Calm, Orderly

\* Typing: for each character a key that goes down, the character, and the key
\* that goes up, all inside the lock.
LEMMA TypeOrderly ==
    ASSUME NEW n \in Nat, NEW s \in Seq(Steps), Len(s) = n + 2,
           s[1].type = "lock", s[n + 2].type = "unlock",
           \A i \in 2 .. n + 1 : /\ s[i].type \in {"keyDown", "char", "keyUp"}
                                 /\ s[i].bits = {} /\ s[i].key \notin Modifiers,
           \A i \in 2 .. n + 1 : s[i].type = "keyDown" =>
               /\ i + 2 <= n + 1 /\ s[i + 1].type = "char" /\ s[i + 2].type = "keyUp"
               /\ s[i + 1].key = s[i].key /\ s[i + 2].key = s[i].key,
           \A i \in 2 .. n + 1 : s[i].type = "char" =>
               i + 1 <= n + 1 /\ s[i + 1].type = "keyUp" /\ s[i + 1].key = s[i].key,
           \A i \in 2 .. n + 1 : s[i].type = "keyUp" =>
               /\ 2 <= i - 2 /\ s[i - 1].type = "char" /\ s[i - 2].type = "keyDown"
               /\ s[i - 1].key = s[i].key /\ s[i - 2].key = s[i].key,
           \A i \in 2 .. n : s[i].type = "keyUp" => s[i + 1].type = "keyDown"
    PROVE  Calm(s)
<1> DEFINE Opens(i, k)  == i \in 2 .. n + 1 /\ s[i].type = "keyDown" /\ s[i].key = k
           Closes(i, k) == i \in 2 .. n + 1 /\ s[i].type = "keyUp" /\ s[i].key = k
           Down(i, k)   == /\ i \in 2 .. n + 1 /\ s[i].type \in {"char", "keyUp"}
                           /\ s[i].key = k
<1>1. \A i \in 1 .. n + 2 : i = 1 \/ i = n + 2 \/ i \in 2 .. n + 1
  OBVIOUS
<1>2. ASSUME NEW i \in 1 .. Len(s), NEW k
      PROVE  (KeyDown(s[i], k) <=> Opens(i, k)) /\ (KeyUp(s[i], k) <=> Closes(i, k))
  BY <1>1, <1>2 DEF KeyDown, KeyUp
<1>4. ASSUME NEW i \in 1 .. Len(s) + 1, NEW k PROVE Owed(s, i, k) <=> Down(i, k)
  <2>1. \A j \in i .. Len(s) : j \in 1 .. Len(s) /\ \A m \in i .. j - 1 : m \in 1 .. Len(s)
    BY <1>4
  <2>2. Owed(s, i, k) <=> \E j \in i .. Len(s) : Closes(j, k) /\ \A m \in i .. j - 1 : ~Opens(m, k)
    <3> HIDE DEF Opens, Closes
    <3> QED
      BY <1>2, <2>1 DEF Owed
  <2>3. ASSUME NEW j \in i .. Len(s), Closes(j, k), \A m \in i .. j - 1 : ~Opens(m, k)
        PROVE  Down(i, k)
    <3>1. Opens(j - 2, k) /\ s[j - 1].type = "char" /\ s[j - 1].key = k
      BY <2>3
    <3>2. j - 2 \notin i .. j - 1
      BY <2>3, <3>1
    <3>3. i = j \/ i = j - 1
      BY <1>4, <2>3, <3>2
    <3> QED
      BY <2>3, <3>1, <3>3
  <2>4. ASSUME Down(i, k)
        PROVE  \E j \in i .. Len(s) : Closes(j, k) /\ \A h \in i .. j - 1 : ~Opens(h, k)
    <3>1. CASE s[i].type = "keyUp"
      <4>1. i \in i .. Len(s) /\ Closes(i, k) /\ i .. i - 1 = {}
        BY <2>4, <3>1
      <4> HIDE DEF Opens, Closes
      <4> QED
        BY <4>1
    <3>2. CASE s[i].type = "char"
      <4>1. i + 1 \in i .. Len(s) /\ Closes(i + 1, k) /\ i .. (i + 1) - 1 = {i} /\ ~Opens(i, k)
        BY <2>4, <3>2
      <4> HIDE DEF Opens, Closes
      <4> QED
        BY <4>1
    <3> QED
      BY <2>4, <3>1, <3>2
  <2> HIDE DEF Opens, Closes, Down
  <2> QED
    BY <2>2, <2>3, <2>4
<1>5. ASSUME NEW i \in 1 .. Len(s) + 1 PROVE Within(s, i) <=> i \in 2 .. n + 2
  <2>1. \A j \in 2 .. n + 2 : s[j].type # "lock"
    BY <1>1
  <2>2. \A j \in 2 .. n + 2 : (\A m \in j .. n + 2 : m \in 2 .. n + 2) /\ n + 2 \in j .. n + 2
    OBVIOUS
  <2>3. CASE i \in 2 .. n + 2
    BY <2>1, <2>2, <2>3 DEF Within
  <2>4. CASE i = 1
    <3>1. \A j \in i .. Len(s) : 1 \in i .. j
      BY <2>4
    <3> QED
      BY <2>4, <3>1 DEF Within
  <2>5. CASE i = n + 3
    BY <2>5 DEF Within
  <2> QED
    BY <1>5, <2>3, <2>4, <2>5
<1>6. ASSUME NEW i \in 1 .. Len(s) PROVE Harmless(s, i)
  <2>1. i + 1 \in 1 .. Len(s) + 1 /\ i \in Nat
    BY <1>6
  <2>2. \A k : Owed(s, i + 1, k) <=> Down(i + 1, k)
    <3> HIDE DEF Down
    <3> QED
      BY <1>4, <2>1
  <2>3. Within(s, i + 1) <=> i + 1 \in 2 .. n + 2
    BY <1>5, <2>1
  <2>4. \A k : (KeyDown(s[i], k) <=> Opens(i, k)) /\ (KeyUp(s[i], k) <=> Closes(i, k))
    <3> HIDE DEF Opens, Closes
    <3> QED
      BY <1>2, <1>6
  <2>5. ASSUME NEW k, Opens(i, k) PROVE Down(i + 1, k)
    BY <2>1, <2>5
  <2>6. ASSUME NEW k, Closes(i, k), Down(i + 1, k) PROVE FALSE
    BY <2>1, <2>6
  <2>7. s[i].type \in Quiet => \A k : ~Down(i + 1, k)
    <3>1. s[i].type \in Quiet => i = 1 \/ i = n + 2
      BY <1>1, <1>6 DEF Quiet
    <3>2. CASE i = 1
      <4>1. 2 \in 2 .. n + 1 => s[2].type = "keyDown"
        OBVIOUS
      <4> QED
        BY <3>2, <4>1
    <3>3. CASE i = n + 2
      BY <3>3
    <3> QED
      BY <3>1, <3>2, <3>3
  <2>8. s[i].type \in Keyboard =>
            \A k : k \in s[i].bits <=> k \in Modifiers /\ Down(i + 1, k)
    <3>1. \A k : Down(i + 1, k) => k \notin Modifiers
      OBVIOUS
    <3>2. s[i].type \in Keyboard => s[i].bits = {}
      BY <1>1, <1>6 DEF Keyboard
    <3> QED
      BY <3>1, <3>2
  <2>9. /\ s[i].type = "lock" => i + 1 \in 2 .. n + 2
        /\ s[i].type = "unlock" => i + 1 \notin 2 .. n + 2
        /\ s[i].type \in Guarded => i + 1 \in 2 .. n + 2
        /\ s[i].type \notin {"paste", "pasteUp"}
    BY <1>1, <1>6 DEF Guarded, Keyboard
  <2> HIDE DEF Opens, Closes, Down
  <2> QED
    BY <2>2, <2>3, <2>4, <2>5, <2>6, <2>7, <2>8, <2>9 DEF Harmless
<1> QED
  BY <1>5, <1>6 DEF Calm, Orderly

-----------------------------------------------------------------------------
(***************************************************************************)
(* Presses and typed texts are of that form.                               *)
(***************************************************************************)
LEMMA FixedIsNotEmpty ==
    ASSUME NEW T, NEW parts \in Seq(T), Len(parts) >= 1
    PROVE  Len(FixPlus(parts)) \in Nat \ {0}
<1> DEFINE S == T \cup {"+"}
           front == SubSeq(parts, 1, Len(parts) - 2)
<1>1. parts \in Seq(S) /\ <<"+">> \in Seq(S) /\ Len(<<"+">>) = 1
  OBVIOUS
<1>2. CASE Len(parts) > 1 /\ parts[Len(parts)] = NoText
  <2>1. FixPlus(parts) = front \o <<"+">>
    BY <1>2 DEF FixPlus, NoText
  <2>2. front \in Seq(S)
    BY <1>1, <1>2
  <2> HIDE DEF front, S
  <2>3. Len(front \o <<"+">>) = Len(front) + 1 /\ Len(front) \in Nat
    BY <1>1, <2>2
  <2> QED
    BY <2>1, <2>3
<1>3. CASE ~(Len(parts) > 1 /\ parts[Len(parts)] = NoText)
  <2>1. FixPlus(parts) = parts
    BY <1>3 DEF FixPlus, NoText
  <2>2. Len(parts) \in Nat
    OBVIOUS
  <2> QED
    BY <2>1, <2>2
<1> QED
  BY <1>2, <1>3

\* No key is a modifier, whatever it is called.
LEMMA NamesAreNoModifiers == \A key \in NamedKeys : NameOf(key) \notin Modifiers
BY DEF NamedKeys, NameOf, Modifiers

LEMMA CharsAreNoModifiers ==
    ASSUME NEW key, NEW shifted, IsLetter(key) \/ key \in Others
    PROVE  Char(key, shifted) \notin Modifiers
<1>1. CASE IsLetter(key)
  <2> DEFINE low == Lower(key)
  <2>1. low \in {"a", "b"} /\ Upper["a"] = "A" /\ Upper["b"] = "B"
    BY <1>1 DEF IsLetter, Upper
  <2> HIDE DEF low
  <2>2. Upper[low] \in {"A", "B"}
    BY <2>1
  <2>3. Char(key, shifted) \in {"a", "b", "A", "B"}
    BY <1>1, <2>1, <2>2 DEF Char, low
  <2> QED
    BY <2>3 DEF Modifiers
<1>2. CASE ~IsLetter(key) /\ key \in Others
  BY <1>2 DEF Char, Others, Modifiers
<1> QED
  BY <1>1, <1>2

LEMMA ModifiersAre == \A w : IsModifier(w) => Modifier[Lower(w)] \in Modifiers
<1>1. \A v \in DOMAIN Modifier : Modifier[v] \in Modifiers
  BY DEF Modifier, Modifiers
<1> QED
  BY <1>1 DEF IsModifier

\* What _parse_key accepts: modifiers and a key that is none.
LEMMA ParsedKey ==
    ASSUME NEW T, NEW parts \in Seq(T), Len(parts) >= 1, ParseKey(parts).ok
    PROVE  LET p == ParseKey(parts)
           IN  /\ Len(p.mods) \in Nat /\ p.mods \in [1 .. Len(p.mods) -> Modifiers]
               /\ p.key \notin Modifiers
<1> DEFINE fixed == FixPlus(parts)
           n     == Len(fixed)
           mods  == [i \in 1 .. n - 1 |-> Modifier[Lower(fixed[i])]]
           key   == IF IsAlias(fixed[n]) THEN Alias[Lower(fixed[n])] ELSE fixed[n]
           char  == Char(key, \E i \in 1 .. n - 1 : mods[i] = "Shift")
           Unknown == \E i \in 1 .. n - 1 : ~IsModifier(fixed[i])
           named == [ok |-> TRUE, mods |-> mods, key |-> NameOf(key), text |-> TextOf(key)]
           plain == [ok |-> TRUE, mods |-> mods, key |-> char, text |-> char]
<1>1. n \in Nat \ {0}
  BY FixedIsNotEmpty
<1>2. ParseKey(parts) = IF Unknown THEN Error
                        ELSE IF key \in NamedKeys THEN named
                        ELSE IF IsLetter(key) \/ key \in Others THEN plain
                        ELSE Error
  BY DEF ParseKey
<1>3. key \in NamedKeys => NameOf(key) \notin Modifiers
  BY NamesAreNoModifiers
<1>4. IsLetter(key) \/ key \in Others => char \notin Modifiers
  BY CharsAreNoModifiers
<1>5. ~Unknown => mods \in [1 .. n - 1 -> Modifiers] /\ Len(mods) = n - 1
  <2> SUFFICES ASSUME ~Unknown PROVE mods \in [1 .. n - 1 -> Modifiers] /\ Len(mods) = n - 1
    OBVIOUS
  <2> HIDE DEF n
  <2>1. mods \in [1 .. n - 1 -> Modifiers]
    BY ModifiersAre
  <2>2. mods \in Seq(Modifiers) /\ Len(mods) = n - 1
    BY <1>1, <2>1
  <2> QED
    BY <2>1, <2>2
<1> HIDE DEF n, mods, key, char, Unknown
<1>6. ~Error.ok
  BY DEF Error
<1>7. CASE ~Unknown /\ ParseKey(parts) = named /\ key \in NamedKeys
  BY <1>1, <1>3, <1>5, <1>7
<1>8. CASE ~Unknown /\ ParseKey(parts) = plain /\ (IsLetter(key) \/ key \in Others)
  BY <1>1, <1>4, <1>5, <1>8
<1> QED
  BY <1>2, <1>6, <1>7, <1>8

IsJoined(s, a, b, c) ==
    /\ s \in Seq(Steps) /\ Len(s) = Len(a) + Len(b) + Len(c)
    /\ \A i \in 1 .. Len(a) : s[i] = a[i]
    /\ \A i \in 1 .. Len(b) : s[Len(a) + i] = b[i]
    /\ \A i \in 1 .. Len(c) : s[Len(a) + Len(b) + i] = c[i]

LEMMA ThreeParts ==
    \A a, b, c \in Seq(Steps) : IsJoined(a \o b \o c, a, b, c)
BY DEF IsJoined

LEMMA EventHas ==
    ASSUME NEW type, NEW key, NEW bits, NEW text
    PROVE  /\ Event(type, key, bits, text).type = type
           /\ Event(type, key, bits, text).key = key
           /\ Event(type, key, bits, text).bits = bits
           /\ Event(type, key, bits, text).text = text
BY DEF Event

LEMMA PressIsCalm ==
    ASSUME NEW parts \in Combos
    PROVE  Calm(Press(parts))
<1> DEFINE p     == ParseKey(parts)
           mods  == p.mods
           n     == Len(mods)
           all   == FirstOf(mods, n)
           Going(i) == all \ LastOf(mods, i, n)
           kind  == IF Types(p) THEN "keyDown" ELSE "rawKeyDown"
           shown == IF Types(p) THEN p.text ELSE NoText
           before == [i \in 1 .. n |-> Event("rawKeyDown", mods[i], FirstOf(mods, i), NoText)]
           during == <<Event(kind, p.key, all, shown), Event("keyUp", p.key, all, NoText)>>
           after  == [k \in 1 .. n |->
                        Event("keyUp", mods[n + 1 - k], Going(n + 1 - k), NoText)]
           steps  == before \o during \o after
           s      == Locked(steps)
<1>1. /\ parts \in Seq(STRING) /\ Len(parts) >= 1 /\ p.ok
      /\ \A i, j \in 1 .. n : mods[i] = mods[j] => i = j
  BY CombosAssumption
<1>2. n \in Nat /\ mods \in [1 .. n -> Modifiers] /\ p.key \notin Modifiers
  BY <1>1, ParsedKey
<1>3. Press(parts) = s
  BY DEF Press, KeyEvents, NoText, FirstOf, LastOf
<1>4. /\ p.key \in Keys /\ Modifiers \subseteq Keys /\ shown \in Texts /\ NoText \in Texts
      /\ kind \in {"keyDown", "rawKeyDown"}
  BY DEF Keys, Texts
<1>5. {"keyDown", "rawKeyDown", "keyUp"} \subseteq Kinds
  BY DEF Kinds, Keyboard
<1> HIDE DEF p, mods, kind, shown
<1>6. /\ all \in SUBSET Modifiers
      /\ \A i \in 1 .. n : FirstOf(mods, i) \in SUBSET Modifiers /\ Going(i) \in SUBSET Modifiers
  BY <1>2 DEF FirstOf, LastOf
<1> HIDE DEF all, Going
<1>7. before \in Seq(Steps) /\ Len(before) = n
  <2>1. \A i \in 1 .. n : mods[i] \in Keys
    BY <1>2, <1>4
  <2>2. \A i \in 1 .. n : Event("rawKeyDown", mods[i], FirstOf(mods, i), NoText) \in Steps
    BY <1>4, <1>5, <1>6, <2>1, EventIsAStep
  <2> QED
    BY <1>2, <2>2
<1>8. during \in Seq(Steps) /\ Len(during) = 2
  <2>1. Event(kind, p.key, all, shown) \in Steps /\ Event("keyUp", p.key, all, NoText) \in Steps
    BY <1>4, <1>5, <1>6, EventIsAStep
  <2> QED
    BY <2>1
<1>9. after \in Seq(Steps) /\ Len(after) = n
  <2>1. \A k \in 1 .. n : n + 1 - k \in 1 .. n
    BY <1>2
  <2>2. \A k \in 1 .. n : mods[n + 1 - k] \in Keys
    BY <1>2, <1>4, <2>1
  <2>3. \A k \in 1 .. n : Event("keyUp", mods[n + 1 - k], Going(n + 1 - k), NoText) \in Steps
    BY <1>4, <1>5, <1>6, <2>1, <2>2, EventIsAStep
  <2> QED
    BY <1>2, <2>3
<1>10. /\ \A i \in 1 .. n : before[i] = Event("rawKeyDown", mods[i], FirstOf(mods, i), NoText)
       /\ during[1] = Event(kind, p.key, all, shown)
       /\ during[2] = Event("keyUp", p.key, all, NoText)
       /\ \A k \in 1 .. n :
              after[k] = Event("keyUp", mods[n + 1 - k], Going(n + 1 - k), NoText)
  OBVIOUS
<1> HIDE DEF before, during, after
<1>11. /\ steps \in Seq(Steps) /\ Len(steps) = 2 * n + 2
       /\ \A i \in 1 .. n : steps[i] = before[i]
       /\ steps[n + 1] = during[1] /\ steps[n + 2] = during[2]
       /\ \A i \in 1 .. n : steps[n + 2 + i] = after[i]
  <2>1. /\ steps \in Seq(Steps) /\ Len(steps) = n + 2 + n
        /\ \A i \in 1 .. n : steps[i] = before[i]
        /\ \A i \in 1 .. 2 : steps[n + i] = during[i]
        /\ \A i \in 1 .. n : steps[n + 2 + i] = after[i]
    <3>1. /\ steps \in Seq(Steps) /\ Len(steps) = Len(before) + Len(during) + Len(after)
          /\ \A i \in 1 .. Len(before) : steps[i] = before[i]
          /\ \A i \in 1 .. Len(during) : steps[Len(before) + i] = during[i]
          /\ \A i \in 1 .. Len(after) : steps[Len(before) + Len(during) + i] = after[i]
      <4>1. IsJoined(steps, before, during, after)
        BY <1>7, <1>8, <1>9, ThreeParts
      <4> HIDE DEF steps
      <4> QED
        BY <4>1 DEF IsJoined
    <3> HIDE DEF steps, n
    <3> QED
      BY <1>7, <1>8, <1>9, <3>1
  <2> HIDE DEF steps, n
  <2> QED
    BY <1>2, <2>1
<1> HIDE DEF steps, n
<1>12. /\ s \in Seq(Steps) /\ Len(s) = 2 * n + 4
       /\ s[1].type = "lock" /\ s[2 * n + 4].type = "unlock"
       /\ \A i \in 1 .. 2 * n + 2 : s[i + 1] = steps[i]
  <2>1. /\ s \in Seq(Steps) /\ Len(s) = Len(steps) + 2
        /\ s[1].type = "lock" /\ s[Len(steps) + 2].type = "unlock"
        /\ \A i \in 1 .. Len(steps) : s[i + 1] = steps[i]
    BY <1>11, LockedSteps
  <2> HIDE DEF s
  <2>2. Len(steps) + 2 = 2 * n + 4
    BY <1>2, <1>11
  <2> QED
    BY <1>11, <2>1, <2>2
<1> HIDE DEF s
<1>13. \A i \in 2 .. n + 1 : /\ s[i].type = "rawKeyDown" /\ s[i].key = mods[i - 1]
                             /\ s[i].bits = FirstOf(mods, i - 1)
  <2> SUFFICES ASSUME NEW i \in 2 .. n + 1
               PROVE  /\ s[i].type = "rawKeyDown" /\ s[i].key = mods[i - 1]
                      /\ s[i].bits = FirstOf(mods, i - 1)
    OBVIOUS
  <2>1. i - 1 \in 1 .. n /\ i - 1 \in 1 .. 2 * n + 2 /\ (i - 1) + 1 = i
    BY <1>2
  <2>2. s[i] = steps[i - 1]
    BY <1>12, <2>1
  <2>3. s[i] = Event("rawKeyDown", mods[i - 1], FirstOf(mods, i - 1), NoText)
    BY <1>10, <1>11, <2>1, <2>2
  <2> QED
    BY <2>3, EventHas
<1>14. /\ s[n + 2].type \in {"keyDown", "rawKeyDown"} /\ s[n + 2].key = p.key
       /\ s[n + 2].bits = FirstOf(mods, n)
  <2>1. n + 1 \in 1 .. 2 * n + 2 /\ (n + 1) + 1 = n + 2
    BY <1>2
  <2>2. s[n + 2] = Event(kind, p.key, all, shown)
    BY <1>10, <1>11, <1>12, <2>1
  <2> QED
    BY <1>4, <2>2, EventHas DEF all, n
<1>15. /\ s[n + 3].type = "keyUp" /\ s[n + 3].key = p.key
       /\ s[n + 3].bits = FirstOf(mods, n)
  <2>1. n + 2 \in 1 .. 2 * n + 2 /\ (n + 2) + 1 = n + 3
    BY <1>2
  <2>2. s[n + 3] = Event("keyUp", p.key, all, NoText)
    BY <1>10, <1>11, <1>12, <2>1
  <2> QED
    BY <2>2, EventHas DEF all, n
<1>16. \A i \in n + 4 .. 2 * n + 3 :
           /\ s[i].type = "keyUp" /\ s[i].key = mods[2 * n + 4 - i]
           /\ s[i].bits = FirstOf(mods, n) \ LastOf(mods, 2 * n + 4 - i, n)
  <2> SUFFICES ASSUME NEW i \in n + 4 .. 2 * n + 3
               PROVE  /\ s[i].type = "keyUp" /\ s[i].key = mods[2 * n + 4 - i]
                      /\ s[i].bits = FirstOf(mods, n)
                                       \ LastOf(mods, 2 * n + 4 - i, n)
    OBVIOUS
  <2> DEFINE k == i - n - 3
  <2>1. /\ k \in 1 .. n /\ n + 1 - k = 2 * n + 4 - i
        /\ i - 1 \in 1 .. 2 * n + 2 /\ (i - 1) + 1 = i /\ i - 1 = n + 2 + k
    BY <1>2
  <2> HIDE DEF k
  <2>2. s[i] = steps[i - 1]
    BY <1>12, <2>1
  <2>3. s[i] = after[k]
    BY <1>11, <2>1, <2>2
  <2>4. s[i] = Event("keyUp", mods[2 * n + 4 - i], Going(2 * n + 4 - i), NoText)
    BY <1>10, <2>1, <2>3
  <2> QED
    BY <2>4, EventHas DEF Going, all, n
<1>17. PressShape(s, n, mods, p.key)
  BY <1>1, <1>2, <1>12, <1>13, <1>14, <1>15, <1>16 DEF PressShape
<1> QED
  BY <1>3, <1>17, PressOrderly

LEMMA TypeIsCalm ==
    ASSUME NEW text \in Inputs
    PROVE  Calm(TypeText(text))
<1> DEFINE Sent(i) == LET char == text[(i + 2) \div 3]
                      IN CASE i % 3 = 1 -> Event("keyDown", char, {}, NoText)
                           [] i % 3 = 2 -> Event("char", char, {}, char)
                           [] i % 3 = 0 -> Event("keyUp", char, {}, NoText)
           n     == 3 * Len(text)
           steps == [i \in 1 .. n |-> Sent(i)]
           s     == Locked(steps)
<1>1. Len(text) \in Nat /\ text \in [1 .. Len(text) -> Chars] /\ Chars \cap Modifiers = {}
  BY InputsAssumption
<1>2. n \in Nat /\ n % 3 = 0
  BY <1>1
<1>3. TypeText(text) = s
  BY DEF TypeText, NoText
<1>4. ASSUME NEW i \in 1 .. n
      PROVE  LET char == text[(i + 2) \div 3]
             IN  /\ char \in Chars /\ Sent(i) \in Steps
                 /\ Sent(i).key = char /\ Sent(i).bits = {}
                 /\ i % 3 = 1 <=> Sent(i).type = "keyDown"
                 /\ i % 3 = 2 <=> Sent(i).type = "char"
                 /\ i % 3 = 0 <=> Sent(i).type = "keyUp"
                 /\ Sent(i).type \in {"keyDown", "char", "keyUp"}
  <2> DEFINE char == text[(i + 2) \div 3]
  <2>1. (i + 2) \div 3 \in 1 .. Len(text)
    BY <1>1
  <2>2. char \in Chars
    BY <1>1, <2>1
  <2>3. char \in Keys /\ char \in Texts /\ NoText \in Texts /\ {} \in SUBSET Modifiers
    BY <2>2 DEF Keys, Texts
  <2>4. {"keyDown", "char", "keyUp"} \subseteq Kinds
    BY DEF Kinds, Keyboard
  <2>5. /\ Event("keyDown", char, {}, NoText) \in Steps
        /\ Event("char", char, {}, char) \in Steps
        /\ Event("keyUp", char, {}, NoText) \in Steps
    BY <2>3, <2>4, EventIsAStep
  <2> HIDE DEF char
  <2>6. i % 3 = 1 \/ i % 3 = 2 \/ i % 3 = 0
    OBVIOUS
  <2>7. /\ i % 3 = 1 => Sent(i) = Event("keyDown", char, {}, NoText)
        /\ i % 3 = 2 => Sent(i) = Event("char", char, {}, char)
        /\ i % 3 = 0 => Sent(i) = Event("keyUp", char, {}, NoText)
    BY DEF char
  <2> HIDE DEF Sent
  <2>8. CASE i % 3 = 1
    BY <2>2, <2>5, <2>7, <2>8, EventHas DEF char
  <2>9. CASE i % 3 = 2
    BY <2>2, <2>5, <2>7, <2>9, EventHas DEF char
  <2>10. CASE i % 3 = 0
    BY <2>2, <2>5, <2>7, <2>10, EventHas DEF char
  <2> QED
    BY <2>6, <2>8, <2>9, <2>10 DEF char
<1> HIDE DEF Sent
<1>5. steps \in Seq(Steps) /\ Len(steps) = n /\ \A i \in 1 .. n : steps[i] = Sent(i)
  BY <1>2, <1>4
<1> HIDE DEF steps
<1>6. /\ s \in Seq(Steps) /\ Len(s) = n + 2
      /\ s[1].type = "lock" /\ s[n + 2].type = "unlock"
      /\ \A i \in 1 .. n : s[i + 1] = steps[i]
  <2>1. /\ s \in Seq(Steps) /\ Len(s) = Len(steps) + 2
        /\ s[1].type = "lock" /\ s[Len(steps) + 2].type = "unlock"
        /\ \A i \in 1 .. Len(steps) : s[i + 1] = steps[i]
    BY <1>5, LockedSteps
  <2> HIDE DEF s, n
  <2> QED
    BY <1>5, <2>1
<1> HIDE DEF s, n
<1>7. ASSUME NEW i \in 2 .. n + 1
      PROVE  /\ s[i].key = text[(i + 1) \div 3] /\ s[i].key \in Chars /\ s[i].bits = {}
             /\ i % 3 = 2 <=> s[i].type = "keyDown"
             /\ i % 3 = 0 <=> s[i].type = "char"
             /\ i % 3 = 1 <=> s[i].type = "keyUp"
             /\ s[i].type \in {"keyDown", "char", "keyUp"}
  <2>1. i - 1 \in 1 .. n /\ (i - 1) + 1 = i /\ (i - 1) + 2 = i + 1
    BY <1>2
  <2>2. s[i] = Sent(i - 1)
    BY <1>5, <1>6, <2>1
  <2>3. /\ i % 3 = 2 <=> (i - 1) % 3 = 1
        /\ i % 3 = 0 <=> (i - 1) % 3 = 2
        /\ i % 3 = 1 <=> (i - 1) % 3 = 0
    OBVIOUS
  <2> QED
    BY <1>4, <2>1, <2>2, <2>3
<1>8. \A i \in 2 .. n + 1 : /\ s[i].type \in {"keyDown", "char", "keyUp"}
                            /\ s[i].bits = {} /\ s[i].key \notin Modifiers
  BY <1>1, <1>7
<1>9. \A i \in 2 .. n + 1 : s[i].type = "keyDown" =>
          /\ i + 2 <= n + 1 /\ s[i + 1].type = "char" /\ s[i + 2].type = "keyUp"
          /\ s[i + 1].key = s[i].key /\ s[i + 2].key = s[i].key
  <2> SUFFICES ASSUME NEW i \in 2 .. n + 1, s[i].type = "keyDown"
               PROVE  /\ i + 2 <= n + 1 /\ s[i + 1].type = "char" /\ s[i + 2].type = "keyUp"
                      /\ s[i + 1].key = s[i].key /\ s[i + 2].key = s[i].key
    OBVIOUS
  <2>1. i % 3 = 2
    BY <1>7
  <2>2. /\ i + 2 <= n + 1 /\ (i + 1) % 3 = 0 /\ (i + 2) % 3 = 1
        /\ ((i + 1) + 1) \div 3 = (i + 1) \div 3 /\ ((i + 2) + 1) \div 3 = (i + 1) \div 3
        /\ i + 1 \in 2 .. n + 1 /\ i + 2 \in 2 .. n + 1
    BY <1>2, <2>1
  <2> QED
    BY <1>7, <2>2
<1>10. \A i \in 2 .. n + 1 : s[i].type = "char" =>
           i + 1 <= n + 1 /\ s[i + 1].type = "keyUp" /\ s[i + 1].key = s[i].key
  <2> SUFFICES ASSUME NEW i \in 2 .. n + 1, s[i].type = "char"
               PROVE  i + 1 <= n + 1 /\ s[i + 1].type = "keyUp" /\ s[i + 1].key = s[i].key
    OBVIOUS
  <2>1. i % 3 = 0
    BY <1>7
  <2>2. /\ i + 1 <= n + 1 /\ (i + 1) % 3 = 1
        /\ ((i + 1) + 1) \div 3 = (i + 1) \div 3 /\ i + 1 \in 2 .. n + 1
    BY <1>2, <2>1
  <2> QED
    BY <1>7, <2>2
<1>11. \A i \in 2 .. n + 1 : s[i].type = "keyUp" =>
           /\ 2 <= i - 2 /\ s[i - 1].type = "char" /\ s[i - 2].type = "keyDown"
           /\ s[i - 1].key = s[i].key /\ s[i - 2].key = s[i].key
  <2> SUFFICES ASSUME NEW i \in 2 .. n + 1, s[i].type = "keyUp"
               PROVE  /\ 2 <= i - 2 /\ s[i - 1].type = "char" /\ s[i - 2].type = "keyDown"
                      /\ s[i - 1].key = s[i].key /\ s[i - 2].key = s[i].key
    OBVIOUS
  <2>1. i % 3 = 1
    BY <1>7
  <2>2. /\ 2 <= i - 2 /\ (i - 1) % 3 = 0 /\ (i - 2) % 3 = 2
        /\ ((i - 1) + 1) \div 3 = (i + 1) \div 3 /\ ((i - 2) + 1) \div 3 = (i + 1) \div 3
        /\ i - 1 \in 2 .. n + 1 /\ i - 2 \in 2 .. n + 1
    BY <1>2, <2>1
  <2> QED
    BY <1>7, <2>2
<1>12. \A i \in 2 .. n : s[i].type = "keyUp" => s[i + 1].type = "keyDown"
  <2> SUFFICES ASSUME NEW i \in 2 .. n, s[i].type = "keyUp" PROVE s[i + 1].type = "keyDown"
    OBVIOUS
  <2>1. i \in 2 .. n + 1 /\ i + 1 \in 2 .. n + 1
    BY <1>2
  <2>2. i % 3 = 1
    BY <1>7, <2>1
  <2>3. (i + 1) % 3 = 2
    BY <2>2
  <2> QED
    BY <1>7, <2>1, <2>3
<1>13. Calm(s)
  BY <1>2, <1>6, <1>8, <1>9, <1>10, <1>11, <1>12, TypeOrderly
<1> QED
  BY <1>3, <1>13

\* Commands that are not about keys.
LEMMA PlainMeans ==
    ASSUME NEW e, Plain(e)
    PROVE  /\ \A k : ~KeyDown(e, k) /\ ~KeyUp(e, k)
           /\ e.type \notin Guarded /\ e.type \notin Keyboard
           /\ e.type # "lock" /\ e.type # "unlock"
BY DEF Plain, Guarded, Keyboard, KeyDown, KeyUp

LEMMA NoKeysOwed ==
    ASSUME NEW s \in Seq(Steps), \A i \in 1 .. Len(s) : \A k : ~KeyUp(s[i], k)
    PROVE  \A i \in 1 .. Len(s) + 1 : \A k : ~Owed(s, i, k)
<1>1. \A i \in 1 .. Len(s) + 1 : \A j \in i .. Len(s) : j \in 1 .. Len(s)
  OBVIOUS
<1> QED
  BY <1>1 DEF Owed

LEMMA AllPlain ==
    ASSUME NEW s \in Seq(Steps), \A i \in 1 .. Len(s) : Plain(s[i])
    PROVE  Orderly(s) /\ ~Within(s, 1)
<1>1. \A i \in 1 .. Len(s) : Harmless(s, i)
  <2> SUFFICES ASSUME NEW i \in 1 .. Len(s) PROVE Harmless(s, i)
    OBVIOUS
  <2>1. \A k : ~Owed(s, i + 1, k)
    BY PlainMeans, NoKeysOwed
  <2> QED
    BY <2>1, PlainMeans DEF Harmless
<1>2. ~Within(s, 1)
  BY PlainMeans DEF Within
<1> QED
  BY <1>1, <1>2 DEF Orderly

\* The way out of the lock.
LEMMA PlainOut ==
    ASSUME NEW s \in Seq(Steps), s # <<>>, s[Len(s)].type = "unlock",
           \A i \in 1 .. Len(s) - 1 : Plain(s[i])
    PROVE  Orderly(s) /\ Within(s, 1) /\ \A k : ~Owed(s, 1, k)
<1>0. Len(s) \in Nat /\ Len(s) >= 1
  OBVIOUS
<1>1. \A i \in 1 .. Len(s) : i = Len(s) \/ i \in 1 .. Len(s) - 1
  BY <1>0
<1>2. \A k : ~KeyDown(s[Len(s)], k) /\ ~KeyUp(s[Len(s)], k)
  BY DEF KeyDown, KeyUp
<1>3. \A i \in 1 .. Len(s) : \A k : ~KeyUp(s[i], k) /\ ~KeyDown(s[i], k)
  BY <1>1, <1>2, PlainMeans
<1>4. \A i \in 1 .. Len(s) + 1 : \A k : ~Owed(s, i, k)
  BY <1>3, NoKeysOwed
<1>5. s[Len(s)].type \notin Guarded /\ s[Len(s)].type \notin Keyboard
  BY DEF Guarded, Keyboard
<1>6. ASSUME NEW i \in 1 .. Len(s) PROVE Harmless(s, i)
  <2>1. i + 1 \in 1 .. Len(s) + 1
    BY <1>0
  <2>2. \A k : ~Owed(s, i + 1, k)
    BY <1>4, <2>1
  <2>3. CASE i = Len(s)
    BY <1>3, <1>5, <2>2, <2>3, AtTheEnd DEF Harmless
  <2>4. CASE i # Len(s)
    <3>1. Plain(s[i])
      BY <1>1, <2>4
    <3> QED
      BY <2>2, <3>1, PlainMeans DEF Harmless
  <2> QED
    BY <2>3, <2>4
<1>7. Within(s, 1)
  <2>1. Len(s) \in 1 .. Len(s)
    BY <1>0
  <2>2. \A m \in 1 .. Len(s) : s[m].type # "lock"
    BY <1>1, PlainMeans
  <2> QED
    BY <2>1, <2>2 DEF Within
<1>8. 1 \in 1 .. Len(s) + 1
  BY <1>0
<1> QED
  BY <1>4, <1>6, <1>7, <1>8 DEF Orderly

\* A command or two under the lock.
LEMMA LockedPlain ==
    ASSUME NEW steps \in Seq(Steps), \A i \in 1 .. Len(steps) : Plain(steps[i])
    PROVE  Orderly(Locked(steps)) /\ ~Within(Locked(steps), 1)
<1> DEFINE s == Locked(steps)
           t == Tail(s)
<1>1. /\ s \in Seq(Steps) /\ Len(s) = Len(steps) + 2 /\ Len(steps) \in Nat
      /\ s[1].type = "lock" /\ s[Len(steps) + 2].type = "unlock"
      /\ \A i \in 1 .. Len(steps) : s[i + 1] = steps[i]
  BY LockedSteps
<1> HIDE DEF s
<1>2. /\ s # <<>> /\ t \in Seq(Steps) /\ Len(t) = Len(steps) + 1
      /\ \A i \in 1 .. Len(steps) + 1 : t[i] = s[i + 1]
  BY <1>1
<1>3. t # <<>> /\ t[Len(t)].type = "unlock" /\ \A i \in 1 .. Len(t) - 1 : Plain(t[i])
  <2>1. Len(steps) + 1 \in 1 .. Len(steps) + 1 /\ (Len(steps) + 1) + 1 = Len(steps) + 2
    BY <1>1
  <2>2. t[Len(steps) + 1].type = "unlock"
    BY <1>1, <1>2, <2>1
  <2>3. \A i \in 1 .. Len(steps) : t[i] = steps[i]
    BY <1>1, <1>2
  <2> HIDE DEF t
  <2>4. t # <<>> /\ Len(t) - 1 = Len(steps)
    BY <1>1, <1>2
  <2> QED
    BY <1>2, <2>2, <2>3, <2>4
<1> HIDE DEF t
<1>4. Orderly(t) /\ Within(t, 1) /\ \A k : ~Owed(t, 1, k)
  BY <1>2, <1>3, PlainOut
<1>5. 1 \in 1 .. Len(s) /\ 2 = 1 + 1 /\ 2 \in 1 .. Len(s)
  BY <1>1
<1>6. Within(s, 2) /\ \A k : ~Owed(s, 2, k)
  BY <1>1, <1>2, <1>4, <1>5, TailSame DEF t
<1>7. ASSUME NEW i \in 2 .. Len(s) PROVE Harmless(s, i)
  <2>1. i - 1 \in 1 .. Len(t) /\ (i - 1) + 1 = i /\ i - 1 \in 1 .. Len(s) /\ i \in 1 .. Len(s)
    BY <1>1, <1>2
  <2>2. Harmless(t, i - 1) /\ t[i - 1] = s[i]
    BY <1>2, <1>4, <2>1 DEF Orderly
  <2>3. /\ Within(t, i) <=> Within(s, i + 1)
        /\ \A k : Owed(t, i, k) <=> Owed(s, i + 1, k)
    BY <1>1, <1>2, <2>1, TailSame DEF t
  <2> QED
    BY <2>1, <2>2, <2>3 DEF Harmless
<1>8. Begins(s, 2, TRUE, {})
  BY <1>6, <1>7 DEF Begins
<1>9. Begins(s, 1, FALSE, {})
  BY <1>1, <1>5, <1>8, OneMoreLock
<1> QED
  BY <1>1, <1>9 DEF Begins, Orderly, s

\* insert_text up to the answer of the clipboard.
LEMMA OneMoreWrite ==
    ASSUME NEW s \in Seq(Steps), NEW i \in 1 .. Len(s), NEW n, n = i + 1,
           Begins(s, n, TRUE, {}), s[i].type = "write"
    PROVE  Begins(s, i, TRUE, {})
<1>1. \A k : ~KeyDown(s[i], k) /\ ~KeyUp(s[i], k)
  BY DEF KeyDown, KeyUp
<1>2. PICK inside \in BOOLEAN : inside = TRUE
  OBVIOUS
<1>3. Begins(s, n, inside, {}) /\ Fits(s[i], inside, {})
  BY <1>1, <1>2 DEF Fits, Keyboard
<1>4. Begins(s, i, inside, {})
  BY <1>1, <1>2, <1>3, OneMore
<1> QED
  BY <1>2, <1>4

LEMMA InsertHarmless == Orderly(InsertText) /\ ~Within(InsertText, 1)
<1> DEFINE steps == <<Do("write")>>
           s == Locked(steps)
<1>1. "write" \in Kinds
  BY DEF Kinds
<1>2. steps \in Seq(Steps) /\ Len(steps) = 1 /\ steps[1].type = "write"
  BY <1>1, DoIsAStep, DoIs
<1> HIDE DEF steps
<1>3. /\ s \in Seq(Steps) /\ Len(s) = 3
      /\ s[1].type = "lock" /\ s[2] = steps[1] /\ s[3].type = "unlock"
  <2>1. 1 \in 1 .. Len(steps)
    BY <1>2
  <2> HIDE DEF s
  <2>2. /\ s \in Seq(Steps) /\ Len(s) = Len(steps) + 2
        /\ s[1].type = "lock" /\ s[Len(steps) + 2].type = "unlock"
        /\ \A i \in 1 .. Len(steps) : s[i + 1] = steps[i]
    BY <1>2, LockedSteps DEF s
  <2> QED
    BY <1>2, <2>1, <2>2
<1> HIDE DEF s
<1>4. /\ 1 \in 1 .. Len(s) /\ 2 \in 1 .. Len(s) /\ 3 \in 1 .. Len(s)
      /\ 4 = 3 + 1 /\ 3 = 2 + 1 /\ 2 = 1 + 1
  BY <1>3
<1>5. Begins(s, 3, TRUE, {})
  BY <1>3, <1>4, Nothing, OneMoreUnlock
<1>6. Begins(s, 2, TRUE, {})
  BY <1>2, <1>3, <1>4, <1>5, OneMoreWrite
<1>7. Begins(s, 1, FALSE, {})
  BY <1>3, <1>4, <1>6, OneMoreLock
<1> QED
  BY <1>3, <1>7 DEF Begins, Orderly, InsertText, s, steps

\* click_at: the button goes down and up.
LEMMA ClickHarmless == Orderly(ClickAt) /\ ~Within(ClickAt, 1)
<1> DEFINE steps == <<Do("press"), Do("release")>>
           s == Locked(steps)
<1>1. "press" \in Kinds /\ "release" \in Kinds
  BY DEF Kinds
<1>2. steps \in Seq(Steps) /\ Len(steps) = 2
      /\ steps[1].type = "press" /\ steps[2].type = "release"
  BY <1>1, DoIsAStep, DoIs
<1> HIDE DEF steps
<1>3. /\ s \in Seq(Steps) /\ Len(s) = 4
      /\ s[1].type = "lock" /\ s[2] = steps[1] /\ s[3] = steps[2] /\ s[4].type = "unlock"
  <2>1. 1 \in 1 .. Len(steps) /\ 2 \in 1 .. Len(steps)
    BY <1>2
  <2> HIDE DEF s
  <2>2. /\ s \in Seq(Steps) /\ Len(s) = Len(steps) + 2
        /\ s[1].type = "lock" /\ s[Len(steps) + 2].type = "unlock"
        /\ \A i \in 1 .. Len(steps) : s[i + 1] = steps[i]
    BY <1>2, LockedSteps DEF s
  <2> QED
    BY <1>2, <2>1, <2>2
<1> HIDE DEF s
<1>4. /\ 1 \in 1 .. Len(s) /\ 2 \in 1 .. Len(s) /\ 3 \in 1 .. Len(s) /\ 4 \in 1 .. Len(s)
      /\ 5 = 4 + 1 /\ 4 = 3 + 1 /\ 3 = 2 + 1 /\ 2 = 1 + 1
  BY <1>3
<1>5. Begins(s, 4, TRUE, {})
  BY <1>3, <1>4, Nothing, OneMoreUnlock
<1>6. /\ s[2].type \in Guarded \ {"write"} /\ s[2].type \notin Keyboard \cup {"paste", "pasteUp"}
      /\ s[3].type \in Guarded \ {"write"} /\ s[3].type \notin Keyboard \cup {"paste", "pasteUp"}
  BY <1>2, <1>3 DEF Guarded, Keyboard
<1>7. /\ \A k : ~KeyDown(s[3], k) /\ (KeyUp(s[3], k) <=> k = "button")
      /\ \A k : ~KeyUp(s[2], k) /\ (KeyDown(s[2], k) <=> k = "button")
  BY <1>2, <1>3 DEF KeyDown, KeyUp
<1>8. Begins(s, 3, TRUE, {"button"})
  <2>1. \A k : k \in {"button"} <=> KeyUp(s[3], k) \/ (~KeyDown(s[3], k) /\ k \in {})
    BY <1>7
  <2> QED
    BY <1>3, <1>4, <1>5, <1>6, <1>7, <2>1, OneMoreKey
<1>9. Begins(s, 2, TRUE, {})
  <2>1. \A k : k \in {} <=> KeyUp(s[2], k) \/ (~KeyDown(s[2], k) /\ k \in {"button"})
    BY <1>7
  <2>2. \A k : KeyDown(s[2], k) => k \in {"button"}
    BY <1>7
  <2> QED
    BY <1>3, <1>4, <1>6, <1>7, <1>8, <2>1, <2>2, OneMoreKey
<1>10. Begins(s, 1, FALSE, {})
  BY <1>3, <1>4, <1>9, OneMoreLock
<1> QED
  BY <1>3, <1>10 DEF Begins, Orderly, ClickAt, s, steps

\* One call's steps after another's.
LEMMA Joined ==
    ASSUME NEW s, Orderly(s), ~Within(s, 1), NEW t, Orderly(t), ~Within(t, 1)
    PROVE  Orderly(s \o t) /\ ~Within(s \o t, 1)
<1> DEFINE st == s \o t
<1>1. /\ s \in Seq(Steps) /\ t \in Seq(Steps) /\ st \in Seq(Steps)
      /\ Len(s) \in Nat /\ Len(t) \in Nat /\ Len(st) = Len(s) + Len(t)
      /\ \A i \in 1 .. Len(s) : st[i] = s[i]
      /\ \A i \in 1 .. Len(t) : st[Len(s) + i] = t[i]
  BY DEF Orderly
<1> HIDE DEF st
<1>2. ASSUME NEW i \in 1 .. Len(t) + 1
      PROVE  /\ Within(st, Len(s) + i) <=> Within(t, i)
             /\ \A k : Owed(st, Len(s) + i, k) <=> Owed(t, i, k)
  <2>1. ASSUME NEW j \in i .. Len(t)
        PROVE  /\ Len(s) + j \in Len(s) + i .. Len(st) /\ st[Len(s) + j] = t[j]
               /\ \A m \in Len(s) + i .. Len(s) + j :
                    m - Len(s) \in i .. j /\ st[m] = t[m - Len(s)]
    <3>1. \A m \in Len(s) + i .. Len(s) + j :
             m - Len(s) \in i .. j /\ m - Len(s) \in 1 .. Len(t) /\ Len(s) + (m - Len(s)) = m
      BY <1>1
    <3>2. \A m \in Len(s) + i .. Len(s) + j : st[m] = t[m - Len(s)]
      BY <1>1, <3>1
    <3> QED
      BY <1>1, <3>1, <3>2
  <2>2. ASSUME NEW j \in Len(s) + i .. Len(st)
        PROVE  /\ j - Len(s) \in i .. Len(t) /\ st[j] = t[j - Len(s)]
               /\ \A m \in i .. j - Len(s) : Len(s) + m \in Len(s) + i .. j /\ st[Len(s) + m] = t[m]
    <3>1. j - Len(s) \in i .. Len(t) /\ j - Len(s) \in 1 .. Len(t) /\ Len(s) + (j - Len(s)) = j
      BY <1>1
    <3>2. \A m \in i .. j - Len(s) : m \in 1 .. Len(t) /\ Len(s) + m \in Len(s) + i .. j
      BY <1>1
    <3>3. st[j] = t[j - Len(s)]
      BY <1>1, <3>1
    <3> QED
      BY <1>1, <3>1, <3>2, <3>3
  <2>3. ASSUME Within(st, Len(s) + i) PROVE Within(t, i)
    <3>1. PICK j \in Len(s) + i .. Len(st) :
             st[j].type = "unlock" /\ \A m \in Len(s) + i .. j : st[m].type # "lock"
      BY <2>3 DEF Within
    <3>2. t[j - Len(s)].type = "unlock" /\ j - Len(s) \in i .. Len(t)
      BY <2>2, <3>1
    <3>3. \A m \in i .. j - Len(s) : t[m].type # "lock"
      BY <2>2, <3>1
    <3> QED
      BY <3>2, <3>3 DEF Within
  <2>4. ASSUME Within(t, i) PROVE Within(st, Len(s) + i)
    <3>1. PICK j \in i .. Len(t) :
             t[j].type = "unlock" /\ \A m \in i .. j : t[m].type # "lock"
      BY <2>4 DEF Within
    <3>2. st[Len(s) + j].type = "unlock" /\ Len(s) + j \in Len(s) + i .. Len(st)
      BY <2>1, <3>1
    <3>3. \A m \in Len(s) + i .. Len(s) + j : st[m].type # "lock"
      BY <2>1, <3>1
    <3> QED
      BY <3>2, <3>3 DEF Within
  <2>5. ASSUME NEW k, Owed(st, Len(s) + i, k) PROVE Owed(t, i, k)
    <3>1. PICK j \in Len(s) + i .. Len(st) :
             KeyUp(st[j], k) /\ \A m \in Len(s) + i .. j - 1 : ~KeyDown(st[m], k)
      BY <2>5 DEF Owed
    <3>2. \A m \in i .. (j - Len(s)) - 1 :
             m \in i .. j - Len(s) /\ Len(s) + m \in Len(s) + i .. j - 1
      BY <1>1
    <3> QED
      BY <2>2, <3>1, <3>2 DEF Owed
  <2>6. ASSUME NEW k, Owed(t, i, k) PROVE Owed(st, Len(s) + i, k)
    <3>1. PICK j \in i .. Len(t) : KeyUp(t[j], k) /\ \A m \in i .. j - 1 : ~KeyDown(t[m], k)
      BY <2>6 DEF Owed
    <3>2. \A m \in Len(s) + i .. (Len(s) + j) - 1 :
             m \in Len(s) + i .. Len(s) + j /\ m - Len(s) \in i .. j - 1
      BY <1>1
    <3> QED
      BY <2>1, <3>1, <3>2 DEF Owed
  <2> QED
    BY <2>3, <2>4, <2>5, <2>6
<1>3. ~Within(st, Len(s) + 1) /\ \A k : ~Owed(st, Len(s) + 1, k)
  <2>1. 1 \in 1 .. Len(t) + 1
    BY <1>1
  <2> QED
    BY <1>2, <2>1, OutsideOwesNothing
<1>4. ASSUME NEW i \in 1 .. Len(s) + 1
      PROVE  /\ Within(st, i) <=> Within(s, i)
             /\ \A k : Owed(st, i, k) <=> Owed(s, i, k)
  <2>1. \A j \in i .. Len(s) : /\ j \in i .. Len(st) /\ st[j] = s[j]
                                /\ \A m \in i .. j : st[m] = s[m]
    <3>1. \A j \in i .. Len(s) : /\ j \in i .. Len(st) /\ j \in 1 .. Len(s)
                                  /\ \A m \in i .. j : m \in 1 .. Len(s)
      BY <1>1
    <3> QED
      BY <1>1, <3>1
  <2>2. \A j \in i .. Len(st) : \/ j \in i .. Len(s)
                                 \/ /\ j \in Len(s) + 1 .. Len(st)
                                    /\ Len(s) + 1 .. j \subseteq i .. j
                                    /\ Len(s) + 1 .. j - 1 \subseteq i .. j - 1
    BY <1>1
  <2>3. ASSUME Within(s, i) PROVE Within(st, i)
    <3>1. PICK j \in i .. Len(s) :
             s[j].type = "unlock" /\ \A m \in i .. j : s[m].type # "lock"
      BY <2>3 DEF Within
    <3>2. j \in i .. Len(st) /\ st[j].type = "unlock"
      BY <2>1, <3>1
    <3>3. \A m \in i .. j : st[m].type # "lock"
      BY <2>1, <3>1
    <3> QED
      BY <3>2, <3>3 DEF Within
  <2>4. ASSUME Within(st, i) PROVE Within(s, i)
    <3>1. PICK j \in i .. Len(st) :
             st[j].type = "unlock" /\ \A m \in i .. j : st[m].type # "lock"
      BY <2>4 DEF Within
    <3>2. j \in i .. Len(s)
      BY <1>3, <2>2, <3>1 DEF Within
    <3>3. s[j].type = "unlock" /\ \A m \in i .. j : s[m].type # "lock"
      BY <2>1, <3>1, <3>2
    <3> QED
      BY <3>2, <3>3 DEF Within
  <2>5. ASSUME NEW k, Owed(s, i, k) PROVE Owed(st, i, k)
    <3>1. PICK j \in i .. Len(s) : KeyUp(s[j], k) /\ \A m \in i .. j - 1 : ~KeyDown(s[m], k)
      BY <2>5 DEF Owed
    <3>2. \A m \in i .. j - 1 : m \in i .. j
      BY <1>1
    <3>3. j \in i .. Len(st) /\ KeyUp(st[j], k) /\ \A m \in i .. j - 1 : ~KeyDown(st[m], k)
      BY <2>1, <3>1, <3>2
    <3> QED
      BY <3>3 DEF Owed
  <2>6. ASSUME NEW k, Owed(st, i, k) PROVE Owed(s, i, k)
    <3>1. PICK j \in i .. Len(st) :
             KeyUp(st[j], k) /\ \A m \in i .. j - 1 : ~KeyDown(st[m], k)
      BY <2>6 DEF Owed
    <3>2. j \in i .. Len(s)
      BY <1>3, <2>2, <3>1 DEF Owed
    <3>3. \A m \in i .. j - 1 : m \in i .. j
      BY <1>1
    <3>4. KeyUp(s[j], k) /\ \A m \in i .. j - 1 : ~KeyDown(s[m], k)
      BY <2>1, <3>1, <3>2, <3>3
    <3> QED
      BY <3>2, <3>4 DEF Owed
  <2> QED
    BY <2>3, <2>4, <2>5, <2>6
<1>5. ASSUME NEW i \in 1 .. Len(st) PROVE Harmless(st, i)
  <2>1. CASE i \in 1 .. Len(s)
    <3>1. i + 1 \in 1 .. Len(s) + 1
      BY <1>1, <2>1
    <3>2. Harmless(s, i) /\ st[i] = s[i]
      BY <1>1, <2>1 DEF Orderly
    <3>3. /\ Within(st, i + 1) <=> Within(s, i + 1)
          /\ \A k : Owed(st, i + 1, k) <=> Owed(s, i + 1, k)
      BY <1>4, <3>1
    <3> QED
      BY <3>2, <3>3 DEF Harmless
  <2>2. CASE i \notin 1 .. Len(s)
    <3> DEFINE j == i - Len(s)
    <3>1. /\ j \in 1 .. Len(t) /\ Len(s) + j = i
          /\ j + 1 \in 1 .. Len(t) + 1 /\ Len(s) + (j + 1) = i + 1
      BY <1>1, <2>2
    <3> HIDE DEF j
    <3>2. Harmless(t, j) /\ st[i] = t[j]
      BY <1>1, <3>1 DEF Orderly
    <3>3. /\ Within(st, i + 1) <=> Within(t, j + 1)
          /\ \A k : Owed(st, i + 1, k) <=> Owed(t, j + 1, k)
      BY <1>2, <3>1
    <3> QED
      BY <3>2, <3>3 DEF Harmless
  <2> QED
    BY <2>1, <2>2
<1>6. ~Within(st, 1)
  <2>1. 1 \in 1 .. Len(s) + 1
    BY <1>1
  <2> QED
    BY <1>4, <2>1
<1> QED
  BY <1>1, <1>5, <1>6 DEF Orderly, st

-----------------------------------------------------------------------------
\* Whatever a thread is about to do, it is in order.
LEMMA OneCommand ==
    ASSUME NEW type \in Kinds \ (Guarded \cup {"lock", "unlock"})
    PROVE  Calm(Locked(<<Do(type)>>)) /\ Calm(<<Do(type)>>)
<1>1. Do(type) \in Steps /\ Plain(Do(type))
  BY DoIsAStep, DoIs DEF Plain
<1>2. <<Do(type)>> \in Seq(Steps) /\ \A i \in 1 .. Len(<<Do(type)>>) : Plain(<<Do(type)>>[i])
  BY <1>1
<1> QED
  BY <1>2, LockedPlain, AllPlain DEF Calm

LEMMA PlansAreCalm == \A o \in DOMAIN Plan : \A call \in Plan[o] : Calm(call)
<1>1. /\ {"locate", "text", "url", "title", "navigate", "ready", "where", "look", "change"}
             \subseteq Kinds \ (Guarded \cup {"lock", "unlock"})
  BY DEF Kinds, Checked, Guarded, Keyboard
<1>2. Calm(ClickElement)
  BY <1>1, OneCommand, ClickHarmless, Joined DEF ClickElement, Calm
<1>3. Calm(<<Do("url"), Do("title")>>)
  <2>1. /\ Do("url") \in Steps /\ Plain(Do("url"))
        /\ Do("title") \in Steps /\ Plain(Do("title"))
    BY <1>1, DoIsAStep, DoIs DEF Plain
  <2> DEFINE s == <<Do("url"), Do("title")>>
  <2>2. s \in Seq(Steps) /\ \A i \in 1 .. Len(s) : Plain(s[i])
    BY <2>1
  <2> HIDE DEF s
  <2>3. Calm(s)
    BY <2>2, AllPlain DEF Calm
  <2> QED
    BY <2>3 DEF s
<1>4. Calm(GetPageText)
  BY <1>1, <1>3, OneCommand, Joined DEF GetPageText, Calm
<1>5. Calm(Locked(<<Do("navigate")>>) \o <<Do("ready")>>)
  BY <1>1, OneCommand, Joined DEF Calm
<1>6. Calm(Navigate)
  BY <1>4, <1>5, Joined DEF Navigate, Calm
<1>7. Calm(GetPageUrl) /\ Calm(Screenshot) /\ Calm(Change)
  BY <1>1, OneCommand DEF GetPageUrl, Screenshot, Change
<1>8. Calm(ClickAt) /\ Calm(InsertText)
      /\ \A parts \in Combos : Calm(Press(parts))
      /\ \A text \in Inputs : Calm(TypeText(text))
  BY ClickHarmless, InsertHarmless, PressIsCalm, TypeIsCalm DEF Calm
<1>9. DOMAIN Plan = {"press", "type", "click_at", "click", "insert", "navigate", "page",
                     "url", "change", "look"}
  BY DEF Plan
<1>10. /\ Plan["press"] = {Press(parts) : parts \in Combos}
       /\ Plan["type"] = {TypeText(text) : text \in Inputs}
       /\ Plan["click_at"] = {ClickAt} /\ Plan["click"] = {ClickElement}
       /\ Plan["insert"] = {InsertText} /\ Plan["navigate"] = {Navigate}
       /\ Plan["page"] = {GetPageText} /\ Plan["url"] = {GetPageUrl}
       /\ Plan["change"] = {Change} /\ Plan["look"] = {Screenshot}
  BY DEF Plan
<1> SUFFICES ASSUME NEW o \in DOMAIN Plan, NEW call \in Plan[o] PROVE Calm(call)
  OBVIOUS
<1>11. CASE o = "press"
  <2>1. PICK parts \in Combos : call = Press(parts)
    BY <1>10, <1>11
  <2> QED
    BY <1>8, <2>1
<1>12. CASE o = "type"
  <2>1. PICK text \in Inputs : call = TypeText(text)
    BY <1>10, <1>12
  <2> QED
    BY TypeIsCalm, <2>1
<1>13. CASE o \notin {"press", "type"}
  <2>1. \/ o = "click_at" \/ o = "click" \/ o = "insert" \/ o = "navigate"
        \/ o = "page" \/ o = "url" \/ o = "change" \/ o = "look"
    BY <1>9, <1>13
  <2>2. CASE o \in {"click_at", "click", "insert", "navigate"}
    BY <1>2, <1>6, <1>8, <1>10, <2>2
  <2>3. CASE o \in {"page", "url", "change", "look"}
    BY <1>4, <1>7, <1>10, <2>3
  <2> QED
    BY <2>1, <2>2, <2>3
<1> QED
  BY <1>11, <1>12, <1>13

\* The paste of insert_text: "v" goes down and up, with no modifier down.
LEMMA PasteOut ==
    Paste # <<>> /\ Orderly(Paste) /\ Within(Paste, 1) /\ \A k : ~Owed(Paste, 1, k)
<1> DEFINE s == Paste
<1>1. /\ {"Control"} \in SUBSET Modifiers /\ "v" \in Keys /\ "v" \notin Modifiers
      /\ NoText \in Texts /\ {"paste", "pasteUp", "unlock"} \subseteq Kinds
  BY DEF Modifiers, Keys, Texts, Kinds
<1>2. /\ Event("paste", "v", {"Control"}, NoText) \in Steps
      /\ Event("pasteUp", "v", {"Control"}, NoText) \in Steps
      /\ Do("unlock") \in Steps /\ Do("unlock").type = "unlock"
  BY <1>1, EventIsAStep, DoIsAStep, DoIs
<1>3. s = <<Event("paste", "v", {"Control"}, NoText),
            Event("pasteUp", "v", {"Control"}, NoText), Do("unlock")>>
  BY DEF Paste, NoText
<1> HIDE DEF s
<1>4. /\ s \in Seq(Steps) /\ Len(s) = 3
      /\ s[1] = Event("paste", "v", {"Control"}, NoText)
      /\ s[2] = Event("pasteUp", "v", {"Control"}, NoText) /\ s[3].type = "unlock"
  BY <1>2, <1>3
<1>5. /\ s[1].type = "paste" /\ s[1].key = "v"
      /\ s[2].type = "pasteUp" /\ s[2].key = "v"
  BY <1>4 DEF Event
<1>6. /\ 1 \in 1 .. Len(s) /\ 2 \in 1 .. Len(s) /\ 3 \in 1 .. Len(s)
      /\ 4 = 3 + 1 /\ 3 = 2 + 1 /\ 2 = 1 + 1 /\ Len(s) + 1 = 4
  BY <1>4
<1>7. Begins(s, 3, TRUE, {})
  BY <1>4, <1>6, Nothing, OneMoreUnlock
<1>8. /\ s[1].type \in Guarded \ {"write"} /\ s[1].type \notin Keyboard
      /\ s[2].type \in Guarded \ {"write"} /\ s[2].type \notin Keyboard
  BY <1>5 DEF Guarded, Keyboard
<1>9. /\ \A k : ~KeyDown(s[2], k) /\ (KeyUp(s[2], k) <=> k = "v")
      /\ \A k : ~KeyUp(s[1], k) /\ (KeyDown(s[1], k) <=> k = "v")
  BY <1>5 DEF KeyDown, KeyUp
<1>10. Begins(s, 2, TRUE, {"v"})
  <2>1. \A k : k \in {"v"} <=> KeyUp(s[2], k) \/ (~KeyDown(s[2], k) /\ k \in {})
    BY <1>9
  <2> QED
    BY <1>4, <1>6, <1>7, <1>8, <1>9, <2>1, OneMoreKey
<1>11. Begins(s, 1, TRUE, {})
  <2>1. \A k : k \in {} <=> KeyUp(s[1], k) \/ (~KeyDown(s[1], k) /\ k \in {"v"})
    BY <1>9
  <2>2. /\ \A k : KeyDown(s[1], k) => k \in {"v"}
        /\ \A k \in Modifiers : k \notin {"v"}
    BY <1>1, <1>9
  <2> QED
    BY <1>4, <1>6, <1>8, <1>9, <1>10, <2>1, <2>2, OneMoreKey
<1>12. Orderly(s) /\ Within(s, 1) /\ \A k : ~Owed(s, 1, k)
  BY <1>4, <1>11 DEF Begins, Orderly
<1>13. s # <<>>
  BY <1>4
<1> QED
  BY <1>12, <1>13 DEF s

\* What a call goes on with after an answer or an error.
LEMMA WaysOut ==
    \A s \in {Paste, InsertRaw, <<Do("unlock")>>} :
        s # <<>> /\ Orderly(s) /\ Within(s, 1) /\ \A k : ~Owed(s, 1, k)
<1>1. /\ "insert" \in Kinds \ (Guarded \cup {"lock", "unlock"})
      /\ "unlock" \in Kinds
  BY DEF Kinds, Checked, Guarded, Keyboard
<1>2. /\ Do("insert") \in Steps /\ Do("unlock") \in Steps
      /\ Plain(Do("insert")) /\ Do("unlock").type = "unlock"
  BY <1>1, DoIsAStep, DoIs DEF Plain
<1>3. ASSUME NEW s \in {InsertRaw, <<Do("unlock")>>}
      PROVE  /\ s \in Seq(Steps) /\ s # <<>> /\ s[Len(s)].type = "unlock"
             /\ \A i \in 1 .. Len(s) - 1 : Plain(s[i])
  <2>1. CASE s = InsertRaw
    BY <1>2, <2>1 DEF InsertRaw
  <2>2. CASE s = <<Do("unlock")>>
    BY <1>2, <2>2
  <2> QED
    BY <1>3, <2>1, <2>2
<1> QED
  BY <1>3, PlainOut, PasteOut

LEMMA NothingIsCalm == Calm(<<>>) /\ \A k : ~Owed(<<>>, 1, k)
<1>1. <<>> \in Seq(Steps) /\ Len(<<>>) = 0 /\ 1 .. 0 = {}
  OBVIOUS
<1> QED
  BY <1>1 DEF Calm, Orderly, Within, Owed

-----------------------------------------------------------------------------
(***************************************************************************)
(* The invariant.                                                          *)
(***************************************************************************)
Typed ==
    /\ tabs \in Seq(Tabs)
    /\ lock \in Callers \cup {None}
    /\ aim \in [Callers -> Tabs \cup {None}]
    /\ calls \in [Callers -> 0 .. MaxCalls] /\ troubles \in 0 .. MaxTroubles
    /\ held = [t \in Tabs |-> held[t]]

\* What is left of every call is orderly, and the lock is held by the one that
\* is inside.
Calling ==
    /\ todo \in [Callers -> Seq(Steps)]
    /\ \A c \in Callers : Orderly(todo[c]) /\ ((lock = c) <=> Within(todo[c], 1))

Shape == Typed /\ Calling

\* Until the first trouble there is one tab, and the keys down in it are those
\* the calls still have to let up.
Undisturbed ==
    troubles = 0 =>
        /\ tabs = <<MainTab>>
        /\ \A c \in Callers : aim[c] \in {None, MainTab}
        /\ \A t \in Tabs : \A k :
             k \in held[t] <=> t = MainTab /\ \E c \in Callers : Owed(todo[c], 1, k)

LEMMA HolderOwes ==
    ASSUME Shape, NEW c \in Callers, NEW k, Owed(todo[c], 1, k)
    PROVE  lock = c
<1>1. todo[c] \in Seq(Steps) /\ 1 \in 1 .. Len(todo[c]) + 1
  <2>1. todo[c] \in Seq(Steps)
    BY DEF Shape, Calling
  <2>2. Len(todo[c]) \in Nat
    BY <2>1
  <2> QED
    BY <2>1, <2>2
<1>2. Orderly(todo[c]) /\ (lock # c => ~Within(todo[c], 1))
  BY DEF Shape, Calling
<1> QED
  BY <1>1, <1>2, OutsideOwesNothing

\* The first step of a call, and what is left after it.
LEMMA AtTheHead ==
    ASSUME Shape, NEW c \in Callers, Busy(c)
    PROVE  LET s == todo[c]
               e == Now(c)
           IN  /\ Orderly(Tail(s)) /\ Tail(s) \in Seq(Steps) /\ e \in Steps
               /\ (lock = c) <=> Within(s, 1)
               /\ Within(s, 1) <=>
                      e.type # "lock" /\ (e.type = "unlock" \/ Within(Tail(s), 1))
               /\ \A k : Owed(s, 1, k) <=>
                             KeyUp(e, k) \/ (~KeyDown(e, k) /\ Owed(Tail(s), 1, k))
               /\ \A k : KeyDown(e, k) => Owed(Tail(s), 1, k)
               /\ \A k : KeyUp(e, k) => ~Owed(Tail(s), 1, k)
               /\ e.type \in Quiet => \A k : ~Owed(Tail(s), 1, k)
               /\ e.type \in Keyboard =>
                      \A k : k \in e.bits <=> k \in Modifiers /\ Owed(Tail(s), 1, k)
               /\ e.type \in {"paste", "pasteUp"} =>
                      \A k \in Modifiers : ~Owed(Tail(s), 1, k)
               /\ e.type = "lock" => Within(Tail(s), 1)
               /\ e.type = "unlock" => ~Within(Tail(s), 1)
               /\ e.type \in Guarded => Within(Tail(s), 1)
<1> DEFINE s == todo[c]
<1>1. s \in Seq(Steps) /\ s # <<>> /\ Orderly(s) /\ ((lock = c) <=> Within(s, 1))
  BY DEF Shape, Calling, Busy
<1>2. Now(c) = Head(s)
  BY DEF Now
<1> HIDE DEF s
<1>3. 1 \in 1 .. Len(s) /\ Head(s) = s[1] /\ s[1] \in Steps /\ Tail(s) \in Seq(Steps)
  BY <1>1
<1>4. Orderly(Tail(s))
  BY <1>1, TailOrderly
<1>5. /\ Within(Tail(s), 1) <=> Within(s, 1 + 1)
      /\ \A k : Owed(Tail(s), 1, k) <=> Owed(s, 1 + 1, k)
  BY <1>1, <1>3, TailSame
<1>6. Harmless(s, 1)
  BY <1>1, <1>3 DEF Orderly
<1>7. /\ Within(s, 1) <=> s[1].type # "lock" /\ (s[1].type = "unlock" \/ Within(s, 1 + 1))
      /\ \A k : Owed(s, 1, k) <=> KeyUp(s[1], k) \/ (~KeyDown(s[1], k) /\ Owed(s, 1 + 1, k))
  BY <1>1, <1>3, WithinBack, OwedBack
<1>8. Now(c) = s[1]
  BY <1>2, <1>3
<1> HIDE DEF Owed, Within
<1>9. /\ \A k : KeyDown(s[1], k) => Owed(Tail(s), 1, k)
      /\ \A k : KeyUp(s[1], k) => ~Owed(Tail(s), 1, k)
      /\ s[1].type \in Quiet => \A k : ~Owed(Tail(s), 1, k)
      /\ s[1].type \in Keyboard =>
             \A k : k \in s[1].bits <=> k \in Modifiers /\ Owed(Tail(s), 1, k)
      /\ s[1].type \in {"paste", "pasteUp"} => \A k \in Modifiers : ~Owed(Tail(s), 1, k)
      /\ s[1].type = "lock" => Within(Tail(s), 1)
      /\ s[1].type = "unlock" => ~Within(Tail(s), 1)
      /\ s[1].type \in Guarded => Within(Tail(s), 1)
  BY <1>5, <1>6 DEF Harmless
<1> QED
  BY <1>1, <1>3, <1>4, <1>5, <1>7, <1>8, <1>9 DEF s

-----------------------------------------------------------------------------
(***************************************************************************)
(* What is left of a call after a step of it.                              *)
(***************************************************************************)
Ways == {Paste, InsertRaw, <<Do("unlock")>>}

LEMMA GoesOn ==
    ASSUME Calling, NEW c \in Callers, NEW s, Orderly(s),
           todo' = [todo EXCEPT ![c] = s], (lock' = c) <=> Within(s, 1),
           \A d \in Callers \ {c} : (lock' = d) <=> (lock = d)
    PROVE  Calling'
<1>1. s \in Seq(Steps)
  BY DEF Orderly
<1>2. todo' \in [Callers -> Seq(Steps)]
  BY <1>1 DEF Calling
<1>3. ASSUME NEW d \in Callers
      PROVE  Orderly(todo'[d]) /\ ((lock' = d) <=> Within(todo'[d], 1))
  <2> HIDE DEF Orderly, Within
  <2>1. CASE d = c
    <3>1. todo'[d] = s
      BY <2>1 DEF Calling
    <3> QED
      BY <2>1, <3>1
  <2>2. CASE d # c
    <3>1. todo'[d] = todo[d]
      BY <2>2 DEF Calling
    <3> QED
      BY <2>2, <3>1 DEF Calling
  <2> QED
    BY <2>1, <2>2
<1> QED
  BY <1>2, <1>3 DEF Calling

\* A command goes on with the rest of its call, or with what is left of it in
\* the lock, or ends it outside.
Onward(c, s) == \/ s = Tail(todo[c])
                \/ lock = c /\ s \in Ways
                \/ lock # c /\ s = <<>>

LEMMA CommandGoesOn ==
    ASSUME Shape, NEW c \in Callers, Commands(c), UNCHANGED lock, NEW s, Onward(c, s),
           todo' = [todo EXCEPT ![c] = s]
    PROVE  Calling'
<1>1. Busy(c) /\ Now(c).type # "lock" /\ Now(c).type # "unlock"
  BY DEF Commands
<1>2. /\ Orderly(Tail(todo[c])) /\ ((lock = c) <=> Within(todo[c], 1))
      /\ Within(todo[c], 1) <=> Now(c).type # "lock"
                                /\ (Now(c).type = "unlock" \/ Within(Tail(todo[c]), 1))
  BY <1>1, AtTheHead
<1> HIDE DEF Orderly, Within
<1>3. Orderly(s) /\ ((lock = c) <=> Within(s, 1))
  <2>1. CASE s = Tail(todo[c])
    BY <1>1, <1>2, <2>1
  <2>2. CASE lock = c /\ s \in Ways
    BY <2>2, WaysOut DEF Ways
  <2>3. CASE lock # c /\ s = <<>>
    BY <2>3, NothingIsCalm DEF Calm
  <2> QED
    BY <2>1, <2>2, <2>3 DEF Onward
<1> QED
  BY <1>3, GoesOn DEF Shape

LEMMA AnsweredMeans ==
    ASSUME Shape, NEW c \in Callers, Commands(c), Answered(c)
    PROVE  \E s : /\ Onward(c, s) /\ todo' = [todo EXCEPT ![c] = s]
                  /\ Now(c).type # "write" => s = Tail(todo[c])
<1>1. Busy(c)
  BY DEF Commands
<1>2. CASE Now(c).type = "write"
  <2>1. lock = c
    <3>1. "write" \in Guarded
      BY DEF Guarded
    <3>2. Within(Tail(todo[c]), 1)
      BY <1>1, <1>2, <3>1, AtTheHead
    <3>3. (lock = c) <=> Now(c).type # "lock"
                         /\ (Now(c).type = "unlock" \/ Within(Tail(todo[c]), 1))
      BY <1>1, AtTheHead
    <3> QED
      BY <1>2, <3>2, <3>3
  <2>2. PICK s \in {Paste, InsertRaw} : todo' = [todo EXCEPT ![c] = s]
    BY <1>2 DEF Answered
  <2> QED
    BY <1>2, <2>1, <2>2 DEF Onward, Ways
<1>3. CASE Now(c).type # "write"
  BY <1>3 DEF Answered, Rest, Onward, Calling, Shape
<1> QED
  BY <1>2, <1>3

LEMMA FailedMeans ==
    ASSUME Shape, NEW c \in Callers, Commands(c), Failed(c)
    PROVE  \E s : /\ Onward(c, s) /\ todo' = [todo EXCEPT ![c] = s]
                  /\ Now(c).type \in Checked => s \in {<<Do("unlock")>>, <<>>}
<1>1. Busy(c)
  BY DEF Commands
<1>2. CASE Now(c).type \in Checked
  <2>0. todo' = [todo EXCEPT ![c] = WayOut(c)]
    BY <1>2 DEF Failed, Checked
  <2>1. CASE lock = c
    <3>1. WayOut(c) = <<Do("unlock")>>
      BY <2>1, Zenon DEF WayOut
    <3> QED
      BY <2>0, <2>1, <3>1 DEF Onward, Ways
  <2>2. CASE lock # c
    <3>1. WayOut(c) = <<>>
      BY <2>2, Zenon DEF WayOut
    <3> QED
      BY <2>0, <2>2, <3>1 DEF Onward
  <2> QED
    BY <2>1, <2>2
<1>3. CASE Now(c).type = "write" /\ Now(c).type \notin Checked
  <2>1. lock = c
    <3>1. "write" \in Guarded
      BY DEF Guarded
    <3>2. Within(Tail(todo[c]), 1)
      BY <1>1, <1>3, <3>1, AtTheHead
    <3>3. (lock = c) <=> Now(c).type # "lock"
                         /\ (Now(c).type = "unlock" \/ Within(Tail(todo[c]), 1))
      BY <1>1, AtTheHead
    <3> QED
      BY <1>3, <3>2, <3>3
  <2>2. todo' = [todo EXCEPT ![c] = InsertRaw]
    BY <1>3 DEF Failed
  <2> QED
    BY <1>3, <2>1, <2>2 DEF Onward, Ways
<1>4. CASE Now(c).type # "write" /\ Now(c).type \notin Checked
  <2>1. todo' = [todo EXCEPT ![c] = Tail(todo[c])]
    BY <1>4 DEF Failed, Shape, Calling
  <2> QED
    BY <1>4, <2>1 DEF Onward
<1> QED
  BY <1>2, <1>3, <1>4

-----------------------------------------------------------------------------
(***************************************************************************)
(* What is down after a step.                                              *)
(***************************************************************************)
LEMMA ReachesMeans ==
    ASSUME held = [u \in Tabs |-> held[u]], NEW t \in Tabs, NEW e, Reaches(t, e)
    PROVE  /\ held' = [u \in Tabs |-> held'[u]] /\ tabs' = tabs
           /\ \A u \in Tabs \ {t} : held'[u] = held[u]
           /\ \A k : k \in held'[t] <=> KeyDown(e, k) \/ (k \in held[t] /\ ~KeyUp(e, k))
<1> DEFINE after == CASE e.type \in {"rawKeyDown", "keyDown", "paste"} -> held[t] \cup {e.key}
                      [] e.type \in {"keyUp", "pasteUp"} -> held[t] \ {e.key}
                      [] e.type = "press"   -> held[t] \cup {"button"}
                      [] e.type = "release" -> held[t] \ {"button"}
                      [] OTHER -> held[t]
<1>1. held' = [held EXCEPT ![t] = after] /\ tabs' = tabs
  BY DEF Reaches
<1>2. \A k : k \in after <=> KeyDown(e, k) \/ (k \in held[t] /\ ~KeyUp(e, k))
  BY DEF KeyDown, KeyUp
<1> HIDE DEF after
<1>3. held' = [u \in Tabs |-> IF u = t THEN after ELSE held[u]]
  BY <1>1
<1> QED
  BY <1>1, <1>2, <1>3

\* The keys all calls together still have to let up.
Due(k) == \E d \in Callers : Owed(todo[d], 1, k)

\* A step makes due what it presses, and settles what it lets up: nobody but
\* the holder of the lock presses anything or has anything to let up.
LEMMA StepDue ==
    ASSUME Shape, NEW c \in Callers, Busy(c), NEW s,
           \/ s = Tail(todo[c])
           \/ Now(c).type \in Quiet /\ s \in Ways \cup {<<>>},
           todo' = [todo EXCEPT ![c] = s], NEW k
    PROVE  Due(k)' <=> KeyDown(Now(c), k) \/ (Due(k) /\ ~KeyUp(Now(c), k))
<1> DEFINE e == Now(c)
<1>1. /\ Owed(todo[c], 1, k) <=>
             KeyUp(e, k) \/ (~KeyDown(e, k) /\ Owed(Tail(todo[c]), 1, k))
      /\ KeyDown(e, k) => Owed(Tail(todo[c]), 1, k)
      /\ KeyUp(e, k) => ~Owed(Tail(todo[c]), 1, k)
      /\ e.type \in Quiet => ~Owed(Tail(todo[c]), 1, k)
      /\ (lock = c) <=> Within(todo[c], 1)
      /\ Within(todo[c], 1) <=>
             e.type # "lock" /\ (e.type = "unlock" \/ Within(Tail(todo[c]), 1))
      /\ e.type \in Guarded => Within(Tail(todo[c]), 1)
  BY AtTheHead
<1>2. KeyDown(e, k) \/ KeyUp(e, k) => e.type \in Guarded /\ e.type \notin Quiet /\ e.type # "lock"
  BY DEF KeyDown, KeyUp, Guarded, Keyboard, Quiet
<1>3. Owed(s, 1, k) <=> KeyDown(e, k) \/ (Owed(todo[c], 1, k) /\ ~KeyUp(e, k))
  <2>1. CASE s = Tail(todo[c])
    BY <1>1, <2>1
  <2>2. CASE e.type \in Quiet /\ s \in Ways \cup {<<>>}
    <3>1. ~Owed(s, 1, k)
      BY <2>2, WaysOut, NothingIsCalm DEF Ways
    <3> QED
      BY <1>1, <1>2, <2>2, <3>1
  <2> QED
    BY <2>1, <2>2
<1>4. ASSUME NEW d \in Callers \ {c}, Owed(todo[d], 1, k)
      PROVE  ~KeyDown(e, k) /\ ~KeyUp(e, k)
  <2>1. lock = d
    BY <1>4, HolderOwes
  <2> QED
    BY <1>1, <1>2, <1>4, <2>1
<1>5. todo'[c] = s /\ \A d \in Callers \ {c} : todo'[d] = todo[d]
  BY DEF Shape, Calling
<1>6. Due(k)' <=> \E d \in Callers : Owed(todo'[d], 1, k)
  BY DEF Due, Owed
<1>7. /\ Owed(todo'[c], 1, k) <=> KeyDown(e, k) \/ (Owed(todo[c], 1, k) /\ ~KeyUp(e, k))
      /\ \A d \in Callers \ {c} : Owed(todo'[d], 1, k) <=> Owed(todo[d], 1, k)
  BY <1>3, <1>5
<1> QED
  BY <1>4, <1>6, <1>7 DEF Due

\* The keys a command leaves down, until the first trouble.
LEMMA CommandUndisturbed ==
    ASSUME Shape, Undisturbed, NEW c \in Callers, Commands(c), aim[c] # None, NEW s,
           \/ s = Tail(todo[c])
           \/ Now(c).type \in Quiet /\ s \in Ways \cup {<<>>},
           todo' = [todo EXCEPT ![c] = s],
           \/ Reaches(aim[c], Now(c))
           \/ UNCHANGED chrome /\ Now(c).type \in Quiet,
           aim' = [aim EXCEPT ![c] = None], UNCHANGED troubles
    PROVE  Undisturbed'
<1> SUFFICES ASSUME troubles = 0 PROVE Undisturbed'
  BY DEF Undisturbed
<1>1. /\ tabs = <<MainTab>> /\ aim[c] = MainTab /\ aim[c] \in Tabs
      /\ \A d \in Callers : aim[d] \in {None, MainTab}
      /\ \A t \in Tabs : \A k : k \in held[t] <=> t = MainTab /\ Due(k)
  BY BrowserAssumption DEF Undisturbed, Due
<1>2. Busy(c) /\ held = [t \in Tabs |-> held[t]] /\ aim \in [Callers -> Tabs \cup {None}]
  BY DEF Commands, Shape, Typed
<1>3. \A k : Due(k)' <=> KeyDown(Now(c), k) \/ (Due(k) /\ ~KeyUp(Now(c), k))
  BY <1>2, StepDue
<1>4. \A d \in Callers : aim'[d] \in {None, MainTab}
  BY <1>1, <1>2
<1>5. /\ tabs' = tabs
      /\ \A t \in Tabs \ {MainTab} : held'[t] = held[t]
      /\ \A k : k \in held'[MainTab] <=>
                    KeyDown(Now(c), k) \/ (k \in held[MainTab] /\ ~KeyUp(Now(c), k))
  <2>1. CASE Reaches(aim[c], Now(c))
    BY <1>1, <1>2, <2>1, ReachesMeans
  <2>2. CASE UNCHANGED chrome /\ Now(c).type \in Quiet
    BY <2>2 DEF chrome, KeyDown, KeyUp, Quiet
  <2> QED
    BY <2>1, <2>2
<1>6. \A t \in Tabs : \A k : k \in held'[t] <=> t = MainTab /\ Due(k)'
  BY <1>1, <1>3, <1>5, BrowserAssumption
<1> QED
  BY <1>1, <1>4, <1>5, <1>6 DEF Undisturbed, Due

\* A step that leaves Chrome alone leaves down what was down.
LEMMA StillUndisturbed ==
    ASSUME Undisturbed, UNCHANGED <<chrome, aim, troubles>>, \A k : Due(k)' <=> Due(k)
    PROVE  Undisturbed'
BY DEF Undisturbed, Due, chrome

-----------------------------------------------------------------------------
(***************************************************************************)
(* Every step keeps the invariant.                                         *)
(***************************************************************************)
Inv == Shape /\ Undisturbed

LEMMA TroubleMeans ==
    ASSUME Typed, Trouble
    PROVE  troubles' \in 0 .. MaxTroubles /\ Undisturbed'
<1>1. troubles' # 0 /\ troubles' \in 0 .. MaxTroubles
  BY BoundAssumption DEF Typed, Trouble
<1> QED
  BY <1>1 DEF Undisturbed

LEMMA BeginKeeps ==
    ASSUME Inv, NEW c \in Callers, NEW o \in Ops, Begin(c, o)
    PROVE  Inv'
<1>1. Shape /\ Undisturbed /\ Typed /\ Calling
  BY DEF Inv, Shape
<1>0. PICK call \in Plan[o] : todo' = [todo EXCEPT ![c] = call]
  BY DEF Begin
<1>2. /\ todo[c] = <<>> /\ calls[c] < MaxCalls
      /\ todo' = [todo EXCEPT ![c] = call] /\ calls' = [calls EXCEPT ![c] = @ + 1]
      /\ tabs' = tabs /\ held' = held /\ lock' = lock /\ aim' = aim /\ troubles' = troubles
  BY <1>0 DEF Begin, Busy, chrome
<1>3. Orderly(call) /\ ~Within(call, 1) /\ \A k : ~Owed(call, 1, k)
  <2>1. o \in DOMAIN Plan /\ call \in Plan[o]
    BY <1>0, OpsAssumption
  <2>2. Orderly(call) /\ ~Within(call, 1)
    BY <2>1, PlansAreCalm DEF Calm
  <2>3. 1 \in 1 .. Len(call) + 1
    <3>1. call \in Seq(Steps)
      BY <2>2 DEF Orderly
    <3>2. Len(call) \in Nat
      BY <3>1
    <3> QED
      BY <3>2
  <2> QED
    BY <2>2, <2>3, OutsideOwesNothing
<1>4. lock # c /\ \A k : ~Owed(todo[c], 1, k)
  <2> HIDE DEF Within, Owed
  <2>1. ~Within(<<>>, 1) /\ \A k : ~Owed(<<>>, 1, k)
    BY NothingIsCalm DEF Calm
  <2> QED
    BY <1>1, <1>2, <2>1 DEF Calling
<1>5. Typed'
  <2>1. calls' \in [Callers -> 0 .. MaxCalls]
    BY <1>1, <1>2, BoundAssumption DEF Typed
  <2> QED
    BY <1>1, <1>2, <2>1 DEF Typed
<1>6. Calling'
  <2>1. (lock' = c) <=> Within(call, 1)
    BY <1>2, <1>3, <1>4
  <2>2. \A d \in Callers \ {c} : (lock' = d) <=> (lock = d)
    BY <1>2
  <2> QED
    BY <1>1, <1>2, <1>3, <2>1, <2>2, GoesOn
<1>7. \A k : Due(k)' <=> Due(k)
  <2> TAKE k
  <2>1. todo'[c] = call /\ \A d \in Callers \ {c} : todo'[d] = todo[d]
    BY <1>1, <1>2 DEF Calling
  <2>2. Due(k)' <=> \E d \in Callers : Owed(todo'[d], 1, k)
    BY DEF Due, Owed
  <2> HIDE DEF Owed
  <2>3. ~Owed(todo'[c], 1, k) /\ ~Owed(todo[c], 1, k)
        /\ \A d \in Callers \ {c} : Owed(todo'[d], 1, k) <=> Owed(todo[d], 1, k)
    BY <1>3, <1>4, <2>1
  <2> QED
    BY <2>2, <2>3 DEF Due
<1> QED
  BY <1>1, <1>2, <1>5, <1>6, <1>7, StillUndisturbed DEF Inv, Shape, chrome

LEMMA QuietTail ==
    ASSUME Shape, NEW c \in Callers, Busy(c), Now(c).type \in {"lock", "unlock"}, Rest(c)
    PROVE  \A k : Due(k)' <=> Due(k)
<1>1. todo' = [todo EXCEPT ![c] = Tail(todo[c])]
  BY DEF Rest, Shape, Calling
<1>2. \A k : Due(k)' <=> KeyDown(Now(c), k) \/ (Due(k) /\ ~KeyUp(Now(c), k))
  BY <1>1, StepDue
<1> QED
  BY <1>2 DEF KeyDown, KeyUp

LEMMA LockKeeps ==
    ASSUME Inv, NEW c \in Callers, Lock(c)
    PROVE  Inv'
<1>1. Shape /\ Undisturbed /\ Typed /\ Calling
  BY DEF Inv, Shape
<1>2. /\ Busy(c) /\ Now(c).type = "lock" /\ lock = None /\ lock' = c /\ Rest(c)
      /\ todo' = [todo EXCEPT ![c] = Tail(todo[c])]
      /\ tabs' = tabs /\ held' = held /\ calls' = calls /\ aim' = aim /\ troubles' = troubles
  BY <1>1 DEF Lock, Rest, chrome
<1>3. Orderly(Tail(todo[c])) /\ Within(Tail(todo[c]), 1)
  BY <1>1, <1>2, AtTheHead
<1>4. Typed'
  BY <1>1, <1>2 DEF Typed
<1>5. Calling'
  <2>1. \A d \in Callers \ {c} : (lock' = d) <=> (lock = d)
    BY <1>2, NoneAssumption
  <2>2. (lock' = c) <=> Within(Tail(todo[c]), 1)
    BY <1>2, <1>3
  <2> QED
    BY <1>1, <1>2, <1>3, <2>1, <2>2, GoesOn
<1>6. \A k : Due(k)' <=> Due(k)
  BY <1>1, <1>2, QuietTail
<1> QED
  BY <1>1, <1>2, <1>4, <1>5, <1>6, StillUndisturbed DEF Inv, Shape, chrome

LEMMA UnlockKeeps ==
    ASSUME Inv, NEW c \in Callers, Unlock(c)
    PROVE  Inv'
<1>1. Shape /\ Undisturbed /\ Typed /\ Calling
  BY DEF Inv, Shape
<1>2. /\ Busy(c) /\ Now(c).type = "unlock" /\ lock' = None /\ Rest(c)
      /\ todo' = [todo EXCEPT ![c] = Tail(todo[c])]
      /\ tabs' = tabs /\ held' = held /\ calls' = calls /\ aim' = aim /\ troubles' = troubles
  BY <1>1 DEF Unlock, Rest, chrome
<1>3. Orderly(Tail(todo[c])) /\ ~Within(Tail(todo[c]), 1) /\ lock = c
  <2>1. /\ Orderly(Tail(todo[c])) /\ ((lock = c) <=> Within(todo[c], 1))
        /\ Within(todo[c], 1) <=> Now(c).type # "lock"
                                  /\ (Now(c).type = "unlock" \/ Within(Tail(todo[c]), 1))
        /\ Now(c).type = "unlock" => ~Within(Tail(todo[c]), 1)
    BY <1>1, <1>2, AtTheHead
  <2> QED
    BY <1>2, <2>1
<1>4. Typed'
  BY <1>1, <1>2 DEF Typed
<1>5. Calling'
  <2>1. \A d \in Callers \ {c} : (lock' = d) <=> (lock = d)
    BY <1>2, <1>3, NoneAssumption
  <2>2. (lock' = c) <=> Within(Tail(todo[c]), 1)
    BY <1>2, <1>3, NoneAssumption
  <2> QED
    BY <1>1, <1>2, <1>3, <2>1, <2>2, GoesOn
<1>6. \A k : Due(k)' <=> Due(k)
  BY <1>1, <1>2, QuietTail
<1> QED
  BY <1>1, <1>2, <1>4, <1>5, <1>6, StillUndisturbed DEF Inv, Shape, chrome

LEMMA DiscoverKeeps ==
    ASSUME Inv, NEW c \in Callers, Discover(c)
    PROVE  Inv'
<1>1. Shape /\ Undisturbed /\ Typed /\ Calling
  BY DEF Inv, Shape
<1>2. /\ tabs # <<>> /\ aim' = [aim EXCEPT ![c] = tabs[Len(tabs)]]
      /\ tabs' = tabs /\ held' = held /\ lock' = lock /\ todo' = todo
      /\ calls' = calls /\ troubles' = troubles
  BY DEF Discover, chrome
<1>3. tabs[Len(tabs)] \in Tabs
  <2>1. tabs \in Seq(Tabs)
    BY <1>1 DEF Typed
  <2> QED
    BY <1>2, <2>1
<1>4. Typed'
  <2>1. aim' \in [Callers -> Tabs \cup {None}]
    BY <1>1, <1>2, <1>3 DEF Typed
  <2> QED
    BY <1>1, <1>2, <2>1 DEF Typed
<1>5. Calling'
  BY <1>1, <1>2 DEF Calling, Orderly, Harmless, Within, Owed
<1>6. Undisturbed'
  <2>1. ASSUME troubles = 0 PROVE \A d \in Callers : aim'[d] \in {None, MainTab}
    <3>1. tabs = <<MainTab>>
      BY <1>1, <2>1 DEF Undisturbed
    <3>2. tabs[Len(tabs)] = MainTab
      BY <3>1
    <3> QED
      BY <1>1, <1>2, <2>1, <3>2 DEF Undisturbed, Typed
  <2> QED
    BY <1>1, <1>2, <2>1 DEF Undisturbed, Owed
<1> QED
  BY <1>4, <1>5, <1>6 DEF Inv, Shape

LEMMA SucceedsKeeps ==
    ASSUME Inv, NEW c \in Callers, Succeeds(c)
    PROVE  Inv'
<1>1. Shape /\ Undisturbed /\ Typed /\ Calling
  BY DEF Inv, Shape
<1>2. /\ Commands(c) /\ aim[c] # None /\ aim[c] \in Tabs
      /\ Reaches(aim[c], Now(c)) /\ Answered(c) /\ aim' = [aim EXCEPT ![c] = None]
      /\ lock' = lock /\ calls' = calls /\ troubles' = troubles
  BY <1>1 DEF Succeeds, Answered, Typed
<1>3. PICK s : /\ Onward(c, s) /\ todo' = [todo EXCEPT ![c] = s]
               /\ Now(c).type # "write" => s = Tail(todo[c])
  BY <1>1, <1>2, AnsweredMeans
<1>4. s = Tail(todo[c]) \/ (Now(c).type \in Quiet /\ s \in Ways \cup {<<>>})
  BY <1>3 DEF Onward, Quiet
<1>5. Typed'
  <2>1. tabs' = tabs /\ held' = [u \in Tabs |-> held'[u]]
    <3>1. held = [u \in Tabs |-> held[u]]
      BY <1>1 DEF Typed
    <3> QED
      BY <1>2, <3>1, ReachesMeans
  <2>2. aim' \in [Callers -> Tabs \cup {None}]
    BY <1>1, <1>2 DEF Typed
  <2> QED
    BY <1>1, <1>2, <2>1, <2>2 DEF Typed
<1>6. Calling'
  BY <1>1, <1>2, <1>3, CommandGoesOn
<1>7. Undisturbed'
  BY <1>1, <1>2, <1>3, <1>4, CommandUndisturbed
<1> QED
  BY <1>5, <1>6, <1>7 DEF Inv, Shape

LEMMA FailsKeeps ==
    ASSUME Inv, NEW c \in Callers, Fails(c)
    PROVE  Inv'
<1>1. Shape /\ Undisturbed /\ Typed /\ Calling
  BY DEF Inv, Shape
<1>2. /\ Commands(c) /\ aim[c] # None /\ aim[c] \in Tabs
      /\ UNCHANGED chrome \/ Reaches(aim[c], Now(c))
      /\ Failed(c) /\ aim' = [aim EXCEPT ![c] = None]
      /\ lock' = lock /\ calls' = calls
      /\ Trouble \/ ((~IsOpen(aim[c]) \/ Now(c).type = "locate") /\ troubles' = troubles)
  BY <1>1 DEF Fails, Failed, Typed
<1>3. PICK s : /\ Onward(c, s) /\ todo' = [todo EXCEPT ![c] = s]
               /\ Now(c).type \in Checked => s \in {<<Do("unlock")>>, <<>>}
  BY <1>1, <1>2, FailedMeans
<1>4. Typed'
  <2>1. tabs' = tabs /\ held' = [u \in Tabs |-> held'[u]]
    <3>1. held = [u \in Tabs |-> held[u]]
      BY <1>1 DEF Typed
    <3>2. CASE Reaches(aim[c], Now(c))
      BY <1>2, <3>1, <3>2, ReachesMeans
    <3>3. CASE UNCHANGED chrome
      BY <3>1, <3>3 DEF chrome
    <3> QED
      BY <1>2, <3>2, <3>3
  <2>2. aim' \in [Callers -> Tabs \cup {None}]
    BY <1>1, <1>2 DEF Typed
  <2>3. troubles' \in 0 .. MaxTroubles
    BY <1>1, <1>2, TroubleMeans DEF Typed
  <2> QED
    BY <1>1, <1>2, <2>1, <2>2, <2>3 DEF Typed
<1>5. Calling'
  BY <1>1, <1>2, <1>3, CommandGoesOn
<1>6. Undisturbed'
  <2>1. CASE Trouble
    BY <1>1, <2>1, TroubleMeans
  <2>2. CASE troubles' = troubles /\ troubles # 0
    BY <2>2 DEF Undisturbed
  <2>3. CASE troubles' = troubles /\ troubles = 0 /\ ~Trouble
    <3>1. Now(c).type = "locate"
      <4>1. tabs = <<MainTab>> /\ aim[c] = MainTab
        BY <1>1, <1>2, <2>3 DEF Undisturbed
      <4>2. IsOpen(aim[c])
        BY <4>1 DEF IsOpen
      <4> QED
        BY <1>2, <2>3, <4>2
    <3>2. Now(c).type \in Quiet /\ s \in Ways \cup {<<>>}
      BY <1>3, <3>1 DEF Quiet, Checked, Ways
    <3>3. Reaches(aim[c], Now(c)) \/ (UNCHANGED chrome /\ Now(c).type \in Quiet)
      BY <1>2, <3>2
    <3> QED
      BY <1>1, <1>2, <1>3, <2>3, <3>2, <3>3, CommandUndisturbed
  <2> QED
    BY <1>2, <2>1, <2>2, <2>3
<1> QED
  BY <1>4, <1>5, <1>6 DEF Inv, Shape

LEMMA NoTargetKeeps ==
    ASSUME Inv, NEW c \in Callers, NoTarget(c)
    PROVE  Inv'
<1>1. Shape /\ Undisturbed /\ Typed /\ Calling
  BY DEF Inv, Shape
<1>2. /\ Commands(c) /\ Failed(c) /\ lock' = lock
      /\ tabs' = tabs /\ held' = held /\ aim' = aim /\ calls' = calls
      /\ Trouble \/ (tabs = <<>> /\ troubles' = troubles)
  BY DEF NoTarget, Failed, chrome
<1>3. PICK s : Onward(c, s) /\ todo' = [todo EXCEPT ![c] = s]
  BY <1>1, <1>2, FailedMeans
<1>4. Typed'
  BY <1>1, <1>2, TroubleMeans DEF Typed
<1>5. Calling'
  BY <1>1, <1>2, <1>3, CommandGoesOn
<1>6. Undisturbed'
  <2>1. CASE Trouble
    BY <1>1, <2>1, TroubleMeans
  <2>2. CASE tabs = <<>> /\ troubles' = troubles
    <3>1. tabs # <<MainTab>>
      BY <2>2
    <3> QED
      BY <1>1, <2>2, <3>1 DEF Undisturbed
  <2> QED
    BY <1>2, <2>1, <2>2
<1> QED
  BY <1>4, <1>5, <1>6 DEF Inv, Shape

LEMMA BrowserKeeps ==
    ASSUME Inv, NEW t \in Tabs, TabOpens(t) \/ TabCloses(t)
    PROVE  Inv'
<1>1. Shape /\ Typed /\ Calling
  BY DEF Inv, Shape
<1>2. /\ Trouble /\ lock' = lock /\ todo' = todo /\ aim' = aim /\ calls' = calls
      /\ \/ tabs' = Append(tabs, t) /\ held' = [held EXCEPT ![t] = {}]
         \/ held' = held /\ \E i \in 1 .. Len(tabs) : tabs' = RemoveAt(tabs, i)
  BY DEF TabOpens, TabCloses
<1>3. tabs' \in Seq(Tabs)
  <2>1. tabs \in Seq(Tabs)
    BY <1>1 DEF Typed
  <2>2. ASSUME NEW i \in 1 .. Len(tabs) PROVE RemoveAt(tabs, i) \in Seq(Tabs)
    <3>1. SubSeq(tabs, 1, i - 1) \in Seq(Tabs)
      BY <2>1
    <3>2. SubSeq(tabs, i + 1, Len(tabs)) \in Seq(Tabs)
      BY <2>1
    <3> QED
      BY <3>1, <3>2 DEF RemoveAt
  <2>3. Append(tabs, t) \in Seq(Tabs)
    BY <2>1
  <2> QED
    BY <1>2, <2>2, <2>3
<1>4. held' = [u \in Tabs |-> held'[u]]
  <2>1. held = [u \in Tabs |-> held[u]]
    BY <1>1 DEF Typed
  <2> QED
    BY <1>2, <2>1
<1>5. Typed' /\ Undisturbed'
  BY <1>1, <1>2, <1>3, <1>4, TroubleMeans DEF Typed
<1>6. Calling'
  BY <1>1, <1>2 DEF Calling, Orderly, Harmless, Within, Owed
<1> QED
  BY <1>5, <1>6 DEF Inv, Shape

LEMMA InitHolds == Init => Inv
<1> SUFFICES ASSUME Init PROVE Inv
  OBVIOUS
<1>1. /\ Typed /\ tabs = <<MainTab>> /\ troubles = 0 /\ lock = None
      /\ \A t \in Tabs : held[t] = {}
      /\ \A c \in Callers : todo[c] = <<>> /\ aim[c] = None
      /\ todo \in [Callers -> Seq(Steps)]
  <2>1. tabs \in Seq(Tabs)
    BY BrowserAssumption DEF Init
  <2> QED
    BY <2>1, BoundAssumption DEF Init, Typed
<1>2. Orderly(<<>>) /\ ~Within(<<>>, 1) /\ \A k : ~Owed(<<>>, 1, k)
  BY NothingIsCalm DEF Calm
<1>3. Calling
  <2> HIDE DEF Orderly, Within
  <2> QED
    BY <1>1, <1>2, NoneAssumption DEF Calling
<1>4. Undisturbed
  <2> HIDE DEF Owed
  <2> QED
    BY <1>1, <1>2 DEF Undisturbed
<1> QED
  BY <1>1, <1>3, <1>4 DEF Inv, Shape

LEMMA Keeps == Inv /\ [Next]_vars => Inv'
<1> SUFFICES ASSUME Inv, [Next]_vars PROVE Inv'
  OBVIOUS
<1>1. ASSUME NEW c \in Callers, NEW o \in Ops, Begin(c, o) PROVE Inv'
  BY <1>1, BeginKeeps
<1>2. ASSUME NEW c \in Callers, Lock(c) PROVE Inv'
  BY <1>2, LockKeeps
<1>3. ASSUME NEW c \in Callers, Unlock(c) PROVE Inv'
  BY <1>3, UnlockKeeps
<1>4. ASSUME NEW c \in Callers, Discover(c) PROVE Inv'
  BY <1>4, DiscoverKeeps
<1>5. ASSUME NEW c \in Callers, Succeeds(c) PROVE Inv'
  BY <1>5, SucceedsKeeps
<1>6. ASSUME NEW c \in Callers, Fails(c) PROVE Inv'
  BY <1>6, FailsKeeps
<1>7. ASSUME NEW c \in Callers, NoTarget(c) PROVE Inv'
  BY <1>7, NoTargetKeeps
<1>8. ASSUME NEW t \in Tabs, TabOpens(t) \/ TabCloses(t) PROVE Inv'
  BY <1>8, BrowserKeeps
<1>9. CASE UNCHANGED vars
  BY <1>9 DEF vars, Inv, Shape, Typed, Calling, Undisturbed, Orderly, Harmless, Within, Owed
<1> QED
  BY <1>1, <1>2, <1>3, <1>4, <1>5, <1>6, <1>7, <1>8, <1>9 DEF Next, Step, Browser

\* Every state has the shape the code gives it; who holds the lock is inside
\* the with-block, and nobody else is.
THEOREM TypesHold == Spec => []TypeOK
<1>1. Inv => TypeOK
  BY DEF Inv, Shape, Typed, Calling, TypeOK, Inside, Within
<1> QED
  BY <1>1, InitHolds, Keeps, PTL DEF Spec

\* With the lock free, no key or button is down in any tab, until the first
\* trouble: no call leaves the lock with something still down.
THEOREM NothingIsLeftHeld == Spec => []NothingStaysHeld
<1>1. Inv => NothingStaysHeld
  <2> SUFFICES ASSUME Inv, lock = None, troubles = 0, NEW t \in Tabs, NEW k, k \in held[t]
               PROVE  FALSE
    BY DEF NothingStaysHeld
  <2>1. PICK c \in Callers : Owed(todo[c], 1, k)
    BY DEF Inv, Undisturbed
  <2>2. lock = c
    BY <2>1, HolderOwes DEF Inv
  <2> QED
    BY <2>2, NoneAssumption
<1> QED
  BY <1>1, InitHolds, Keeps, PTL DEF Spec

\* A key event of press_key or type_text names the modifiers that are down in
\* the page it reaches, and insert_text's paste, which names Control by itself,
\* meets none, until the first trouble, whatever the other calls do meanwhile
\* (all three under _lock).
THEOREM BitsStayTrue == Spec => BitsAreTrue
<1> DEFINE Truth == troubles = 0 =>
                      \A c \in Callers :
                          Succeeds(c) =>
                              LET down == held'[aim[c]] \cap Modifiers
                              IN  /\ Now(c).type \in Keyboard => Now(c).bits = down
                                  /\ Now(c).type \in Pasting => down = {}
<1>1. Inv /\ Inv' /\ [Next]_vars => [Truth]_vars
  <2> SUFFICES ASSUME Inv, Inv', troubles = 0, NEW c \in Callers,
                      Succeeds(c), Now(c).type \in Keyboard \cup Pasting
               PROVE  /\ Now(c).type \in Keyboard =>
                             Now(c).bits = held'[aim[c]] \cap Modifiers
                      /\ Now(c).type \in Pasting => held'[aim[c]] \cap Modifiers = {}
    OBVIOUS
  <2>1. /\ Shape /\ Calling /\ Busy(c) /\ aim[c] = MainTab /\ MainTab \in Tabs /\ Answered(c)
        /\ troubles' = 0 /\ Commands(c)
    BY BrowserAssumption DEF Inv, Shape, Undisturbed, Succeeds, Commands
  <2>2. todo' = [todo EXCEPT ![c] = Tail(todo[c])]
    <3>1. Now(c).type # "write"
      BY DEF Keyboard, Pasting
    <3> QED
      BY <2>1, <3>1, AnsweredMeans
  <2>3. todo'[c] = Tail(todo[c])
    BY <2>1, <2>2 DEF Calling
  <2>4. \A k : k \in held'[MainTab] <=> \E d \in Callers : Owed(todo'[d], 1, k)
    BY <2>1 DEF Inv, Undisturbed, Owed
  <2>5. /\ Now(c) \in Steps /\ ((lock = c) <=> Within(todo[c], 1))
        /\ Within(todo[c], 1) <=> Now(c).type # "lock"
                                  /\ (Now(c).type = "unlock" \/ Within(Tail(todo[c]), 1))
        /\ Now(c).type \in Guarded => Within(Tail(todo[c]), 1)
        /\ Now(c).type \in Keyboard =>
               \A k : k \in Now(c).bits <=> k \in Modifiers /\ Owed(Tail(todo[c]), 1, k)
        /\ Now(c).type \in Pasting => \A k \in Modifiers : ~Owed(Tail(todo[c]), 1, k)
    BY <2>1, AtTheHead DEF Pasting
  <2>6. lock = c
    BY <2>5 DEF Guarded, Keyboard, Pasting
  <2>7. ASSUME NEW d \in Callers \ {c}, NEW k, Owed(todo'[d], 1, k) PROVE FALSE
    <3>1. todo'[d] = todo[d]
      BY <2>1, <2>2 DEF Calling
    <3>2. lock = d
      BY <2>1, <2>7, <3>1, HolderOwes
    <3> QED
      BY <2>6, <3>2
  <2>8. \A k : k \in held'[MainTab] <=> Owed(Tail(todo[c]), 1, k)
    BY <2>3, <2>4, <2>7
  <2>9. Now(c).type \in Keyboard =>
            \A k : k \in Now(c).bits <=> k \in held'[MainTab] \cap Modifiers
    BY <2>5, <2>8
  <2>10. Now(c).type \in Pasting => held'[MainTab] \cap Modifiers = {}
    BY <2>5, <2>8
  <2> QED
    BY <2>1, <2>9, <2>10
<1> QED
  BY <1>1, InitHolds, Keeps, PTL DEF Spec, BitsAreTrue

-----------------------------------------------------------------------------
(***************************************************************************)
(* Key specifications, whatever their words and however many: what a page  *)
(* makes of the events, and what _parse_key makes of what is written.      *)
(***************************************************************************)
\* The events of a press: n modifiers down, the key down and up, the modifiers
\* up the other way round.
Pressing(e, n, mods, key) ==
    /\ Len(e) = 2 * n + 2
    /\ \A k \in 1 .. n : /\ e[k].type = "rawKeyDown" /\ e[k].key = mods[k]
                        /\ e[k].bits = FirstOf(mods, k)
    /\ e[n + 1].type \in {"keyDown", "rawKeyDown"} /\ e[n + 1].key = key
    /\ e[n + 1].bits = FirstOf(mods, n)
    /\ e[n + 2].type = "keyUp" /\ e[n + 2].key = key
    /\ e[n + 2].bits = FirstOf(mods, n)
    /\ \A k \in n + 3 .. 2 * n + 2 :
           /\ e[k].type = "keyUp" /\ e[k].key = mods[2 * n + 3 - k]
           /\ e[k].bits = FirstOf(mods, n) \ LastOf(mods, 2 * n + 3 - k, n)

Parts(s, a, b, c) ==
    /\ Len(s) = Len(a) + Len(b) + Len(c)
    /\ \A i \in 1 .. Len(a) : s[i] = a[i]
    /\ \A i \in 1 .. Len(b) : s[Len(a) + i] = b[i]
    /\ \A i \in 1 .. Len(c) : s[Len(a) + Len(b) + i] = c[i]

LEMMA JoinThree ==
    ASSUME NEW S, NEW a \in Seq(S), NEW b \in Seq(S), NEW c \in Seq(S)
    PROVE  Parts(a \o b \o c, a, b, c)
  BY DEF Parts

LEMMA KeyEventsPress ==
    ASSUME NEW p, NEW n \in Nat, Len(p.mods) = n
    PROVE  /\ Pressing(KeyEvents(p), n, p.mods, p.key)
           /\ KeyEvents(p)[n + 1].text = IF Types(p) THEN p.text ELSE NoText
<1> DEFINE mods == p.mods
           all  == FirstOf(mods, n)
           Going(i) == all \ LastOf(mods, i, n)
           kind  == IF Types(p) THEN "keyDown" ELSE "rawKeyDown"
           shown == IF Types(p) THEN p.text ELSE NoText
           Before(i) == Event("rawKeyDown", mods[i], FirstOf(mods, i), NoText)
           After(i) == Event("keyUp", mods[n + 1 - i], Going(n + 1 - i), NoText)
           press == Event(kind, p.key, all, shown)
           up    == Event("keyUp", p.key, all, NoText)
           before == [i \in 1 .. n |-> Before(i)]
           during == <<press, up>>
           after  == [i \in 1 .. n |-> After(i)]
           S == {Before(i) : i \in 1 .. n} \cup {press, up} \cup {After(i) : i \in 1 .. n}
           e == before \o during \o after
<1>1. KeyEvents(p) = e
  BY DEF KeyEvents, NoText, FirstOf, LastOf
<1>2. kind \in {"keyDown", "rawKeyDown"}
  OBVIOUS
<1> HIDE DEF Before, After, press, up
<1>3. /\ before \in Seq(S) /\ Len(before) = n
      /\ during \in Seq(S) /\ Len(during) = 2
      /\ after \in Seq(S) /\ Len(after) = n
  <2>1. /\ \A i \in 1 .. n : Before(i) \in S /\ After(i) \in S
        /\ press \in S /\ up \in S
    OBVIOUS
  <2> HIDE DEF S
  <2> QED
    BY <2>1
<1>4. /\ \A i \in 1 .. n : before[i] = Before(i) /\ after[i] = After(i)
      /\ during[1] = press /\ during[2] = up
  OBVIOUS
<1> HIDE DEF before, during, after, S
<1>5. /\ Len(e) = n + 2 + n
      /\ \A i \in 1 .. n : e[i] = before[i]
      /\ \A i \in 1 .. 2 : e[n + i] = during[i]
      /\ \A i \in 1 .. n : e[n + 2 + i] = after[i]
  <2>1. /\ Len(e) = Len(before) + Len(during) + Len(after)
        /\ \A i \in 1 .. Len(before) : e[i] = before[i]
        /\ \A i \in 1 .. Len(during) : e[Len(before) + i] = during[i]
        /\ \A i \in 1 .. Len(after) : e[Len(before) + Len(during) + i] = after[i]
    <3>1. Parts(e, before, during, after)
      BY <1>3, JoinThree
    <3> HIDE DEF e
    <3> QED
      BY <3>1 DEF Parts
  <2> HIDE DEF e
  <2> QED
    BY <1>3, <2>1
<1> HIDE DEF e
<1>6. \A k \in 1 .. n : /\ e[k].type = "rawKeyDown" /\ e[k].key = mods[k]
                       /\ e[k].bits = FirstOf(mods, k)
  BY <1>4, <1>5, EventHas DEF Before
<1>7. e[n + 1] = press /\ e[n + 2] = up /\ Len(e) = 2 * n + 2
  BY <1>4, <1>5
<1>8. /\ e[n + 1].type \in {"keyDown", "rawKeyDown"} /\ e[n + 1].key = p.key
      /\ e[n + 1].bits = FirstOf(mods, n) /\ e[n + 1].text = shown
  <2> HIDE DEF kind, shown, all
  <2>1. /\ press.type = kind /\ press.key = p.key /\ press.bits = all
        /\ press.text = shown
    BY EventHas DEF press
  <2> QED
    BY <1>2, <1>7, <2>1 DEF all
<1>9. /\ e[n + 2].type = "keyUp" /\ e[n + 2].key = p.key
      /\ e[n + 2].bits = FirstOf(mods, n)
  BY <1>7, EventHas DEF up
<1>10. ASSUME NEW k \in n + 3 .. 2 * n + 2
       PROVE  /\ e[k].type = "keyUp" /\ e[k].key = mods[2 * n + 3 - k]
              /\ e[k].bits = FirstOf(mods, n) \ LastOf(mods, 2 * n + 3 - k, n)
  <2> DEFINE i == k - n - 2
  <2>1. i \in 1 .. n /\ n + 2 + i = k /\ n + 1 - i = 2 * n + 3 - k
    OBVIOUS
  <2> HIDE DEF i
  <2>2. e[k] = After(i)
    BY <1>4, <1>5, <2>1
  <2>3. e[k] = Event("keyUp", mods[2 * n + 3 - k], Going(2 * n + 3 - k), NoText)
    BY <2>1, <2>2 DEF After
  <2> QED
    BY <2>3, EventHas
<1> HIDE DEF mods, all, Going, kind
<1>11. Pressing(e, n, mods, p.key)
  BY <1>6, <1>7, <1>8, <1>9, <1>10 DEF Pressing
<1> QED
  BY <1>1, <1>8, <1>11 DEF mods, shown

\* What a page holds down after the first k events of a press.
HeldAfter(n, mods, key) ==
    [k \in 0 .. 2 * n + 2 |->
        IF k <= n THEN FirstOf(mods, k)
        ELSE IF k = n + 1 THEN FirstOf(mods, n) \cup {key}
        ELSE FirstOf(mods, n) \ LastOf(mods, 2 * n + 3 - k, n)]

\* One event after the other.
Replay(events, down) ==
    [k \in 0 .. Len(events) |->
        IF k = 0 THEN {}
        ELSE IF events[k].type = "keyUp" THEN down[k - 1] \ {events[k].key}
        ELSE down[k - 1] \cup {events[k].key}]

LEMMA HeldReplays ==
    ASSUME NEW e, NEW n \in Nat, NEW mods \in [1 .. n -> Modifiers], NEW key,
           key \notin Modifiers, Pressing(e, n, mods, key)
    PROVE  HeldAfter(n, mods, key) = Replay(e, HeldAfter(n, mods, key))
<1> DEFINE h == HeldAfter(n, mods, key)
           r == Replay(e, h)
<1>1. /\ Len(e) = 2 * n + 2 /\ DOMAIN h = 0 .. 2 * n + 2 /\ DOMAIN r = DOMAIN h
      /\ h = [k \in 0 .. 2 * n + 2 |-> h[k]] /\ r = [k \in 0 .. 2 * n + 2 |-> r[k]]
  BY DEF Pressing, HeldAfter, Replay
<1>2. /\ \A k \in 0 .. n : h[k] = FirstOf(mods, k)
      /\ h[n + 1] = FirstOf(mods, n) \cup {key}
      /\ \A k \in n + 2 .. 2 * n + 2 :
            h[k] = FirstOf(mods, n) \ LastOf(mods, 2 * n + 3 - k, n)
  BY DEF HeldAfter
<1>3. \A k \in 0 .. 2 * n + 2 :
         r[k] = IF k = 0 THEN {}
                ELSE IF e[k].type = "keyUp" THEN h[k - 1] \ {e[k].key}
                ELSE h[k - 1] \cup {e[k].key}
  BY <1>1 DEF Replay
<1> HIDE DEF h, r
<1>events. /\ \A k \in 1 .. n : e[k].type = "rawKeyDown" /\ e[k].key = mods[k]
      /\ e[n + 1].type # "keyUp" /\ e[n + 1].key = key
      /\ e[n + 2].type = "keyUp" /\ e[n + 2].key = key
      /\ \A k \in n + 3 .. 2 * n + 2 : e[k].type = "keyUp" /\ e[k].key = mods[2 * n + 3 - k]
  BY DEF Pressing
<1>step. ASSUME NEW k \in 1 .. 2 * n + 2
      PROVE  /\ e[k].type = "keyUp" => r[k] = h[k - 1] \ {e[k].key}
             /\ e[k].type # "keyUp" => r[k] = h[k - 1] \cup {e[k].key}
  <2>1. k \in 0 .. 2 * n + 2 /\ k # 0
    OBVIOUS
  <2> QED
    BY <1>3, <2>1
<1>4. r[0] = h[0]
  <2>1. 0 \in 0 .. 2 * n + 2 /\ 0 \in 0 .. n
    OBVIOUS
  <2>2. r[0] = {} /\ h[0] = FirstOf(mods, 0)
    BY <1>2, <1>3, <2>1
  <2> QED
    BY <2>2 DEF FirstOf
<1>5. ASSUME NEW k \in 1 .. n PROVE r[k] = h[k]
  <2>1. r[k] = FirstOf(mods, k - 1) \cup {mods[k]}
    <3>1. k \in 1 .. 2 * n + 2 /\ k - 1 \in 0 .. n
      OBVIOUS
    <3>2. r[k] = h[k - 1] \cup {mods[k]}
      BY <1>events, <1>step, <3>1
    <3> QED
      BY <1>2, <3>1, <3>2
  <2>2. h[k] = FirstOf(mods, k)
    BY <1>2
  <2>3. \A j \in 1 .. k : j = k \/ j \in 1 .. k - 1
    OBVIOUS
  <2> QED
    BY <2>1, <2>2, <2>3 DEF FirstOf
<1>6. r[n + 1] = h[n + 1]
  <2>1. n + 1 \in 1 .. 2 * n + 2 /\ (n + 1) - 1 = n /\ n \in 0 .. n
    OBVIOUS
  <2>2. r[n + 1] = h[n] \cup {key}
    BY <1>events, <1>step, <2>1
  <2> QED
    BY <1>2, <2>1, <2>2
<1>7. r[n + 2] = h[n + 2]
  <2>1. r[n + 2] = (FirstOf(mods, n) \cup {key}) \ {key}
    <3>1. n + 2 \in 1 .. 2 * n + 2 /\ (n + 2) - 1 = n + 1
      OBVIOUS
    <3>2. r[n + 2] = h[n + 1] \ {key}
      BY <1>events, <1>step, <3>1
    <3> QED
      BY <1>2, <3>2
  <2>2. h[n + 2] = FirstOf(mods, n) \ LastOf(mods, n + 1, n)
    BY <1>2
  <2>3. LastOf(mods, n + 1, n) = {} /\ FirstOf(mods, n) \subseteq Modifiers
    BY DEF LastOf, FirstOf
  <2> QED
    BY <2>1, <2>2, <2>3
<1>8. ASSUME NEW k \in n + 3 .. 2 * n + 2 PROVE r[k] = h[k]
  <2> DEFINE i == 2 * n + 3 - k
  <2>1. i \in 1 .. n /\ 2 * n + 3 - (k - 1) = i + 1 /\ k - 1 \in n + 2 .. 2 * n + 2
    OBVIOUS
  <2>2. r[k] = h[k - 1] \ {mods[i]}
    <3>1. k \in 1 .. 2 * n + 2
      OBVIOUS
    <3> QED
      BY <1>events, <1>step, <3>1
  <2>3. h[k - 1] = FirstOf(mods, n) \ LastOf(mods, i + 1, n)
    BY <1>2, <2>1
  <2>4. h[k] = FirstOf(mods, n) \ LastOf(mods, i, n)
    BY <1>2
  <2> HIDE DEF i
  <2>5. LastOf(mods, i, n) = LastOf(mods, i + 1, n) \cup {mods[i]}
    <3>1. \A j \in i .. n : j = i \/ j \in i + 1 .. n
      BY <2>1
    <3>2. i \in i .. n /\ i + 1 .. n \subseteq i .. n
      BY <2>1
    <3> QED
      BY <3>1, <3>2 DEF LastOf
  <2> QED
    BY <2>2, <2>3, <2>4, <2>5
<1>9. \A k \in 0 .. 2 * n + 2 : k = 0 \/ k \in 1 .. n \/ k = n + 1 \/ k = n + 2
                                \/ k \in n + 3 .. 2 * n + 2
  OBVIOUS
<1>10. \A k \in 0 .. 2 * n + 2 : r[k] = h[k]
  BY <1>4, <1>5, <1>6, <1>7, <1>8, <1>9
<1>11. h = r
  BY <1>1, <1>10
<1> QED
  BY <1>11 DEF h, r

\* A set of naturals that is not empty has a first element.
LEMMA FirstExists ==
    ASSUME NEW T \in SUBSET Nat, T # {}
    PROVE  \E i \in T : \A j \in T : i <= j
<1>1. PICK i \in T : \A j \in T : ~(<<j, i>> \in OpToRel(<, Nat))
  BY NatLessThanWellFounded, WFMin
<1>2. \A i1, j \in Nat : <<j, i1>> \in OpToRel(<, Nat) <=> j < i1
  BY DEF OpToRel
<1>3. \A j \in T : ~(j < i)
  BY <1>1, <1>2
<1> QED
  BY <1>3

\* There is one way to replay events: two would part at a first event.
LEMMA ReplayOnce ==
    ASSUME NEW e, Len(e) \in Nat, NEW g, NEW h, g = Replay(e, g), h = Replay(e, h)
    PROVE  g = h
<1> DEFINE T == {k \in 0 .. Len(e) : g[k] # h[k]}
<1>1. /\ DOMAIN g = 0 .. Len(e) /\ DOMAIN h = 0 .. Len(e)
      /\ g = [k \in 0 .. Len(e) |-> g[k]] /\ h = [k \in 0 .. Len(e) |-> h[k]]
  BY DEF Replay
<1>2. CASE T = {}
  BY <1>1, <1>2
<1>3. CASE T # {}
  <2>1. T \in SUBSET Nat
    OBVIOUS
  <2>2. PICK k \in T : \A j \in T : k <= j
    BY <1>3, <2>1, FirstExists
  <2>3. k \in 0 .. Len(e) /\ g[k] # h[k]
    OBVIOUS
  <2>4. /\ g[k] = IF k = 0 THEN {}
                  ELSE IF e[k].type = "keyUp" THEN g[k - 1] \ {e[k].key}
                  ELSE g[k - 1] \cup {e[k].key}
        /\ h[k] = IF k = 0 THEN {}
                  ELSE IF e[k].type = "keyUp" THEN h[k - 1] \ {e[k].key}
                  ELSE h[k - 1] \cup {e[k].key}
    BY <2>3 DEF Replay
  <2>5. k # 0
    BY <2>3, <2>4
  <2>6. k - 1 \in 0 .. Len(e) /\ k - 1 < k /\ k - 1 \in Nat
    BY <2>3, <2>5
  <2>7. g[k - 1] = h[k - 1]
    <3>1. k - 1 \notin T
      BY <2>1, <2>2, <2>6
    <3> QED
      BY <2>6, <3>1
  <2> QED
    BY <2>3, <2>4, <2>7
<1> QED
  BY <1>2, <1>3

\* The keys that are down after the first k events of a press.
LEMMA KeysDownAre ==
    ASSUME NEW e, NEW n \in Nat, NEW mods \in [1 .. n -> Modifiers], NEW key,
           key \notin Modifiers, Pressing(e, n, mods, key)
    PROVE  KeysDown(e) = HeldAfter(n, mods, key)
<1> DEFINE down == KeysDown(e)
           h == HeldAfter(n, mods, key)
<1>1. down = CHOOSE d : d = Replay(e, d)
  BY DEF KeysDown, Replay
<1>2. h = Replay(e, h)
  BY HeldReplays
<1> HIDE DEF down, h
<1>3. down = Replay(e, down)
  BY <1>1, <1>2
<1>4. Len(e) \in Nat
  BY DEF Pressing
<1>5. down = h
  BY <1>2, <1>3, <1>4, ReplayOnce
<1> QED
  BY <1>5 DEF down, h

\* Whatever is pressed, no key stays down, and every event names the modifiers
\* that are down once it has been handled.
THEOREM PressTellsTheTruth ==
    ASSUME NEW S, NEW spec \in Seq(S), Len(spec) >= 1
    PROVE  TellsTheTruth(spec)
<1> DEFINE p == ParseKey(spec)
           e == KeyEvents(p)
           mods == p.mods
           n == Len(mods)
           h == HeldAfter(n, mods, p.key)
<1> SUFFICES ASSUME p.ok
             PROVE  /\ KeysDown(e)[Len(e)] = {}
                    /\ \A k \in 1 .. Len(e) : e[k].bits = KeysDown(e)[k] \cap Modifiers
  BY DEF TellsTheTruth
<1>1. n \in Nat /\ mods \in [1 .. n -> Modifiers] /\ p.key \notin Modifiers
  BY ParsedKey
<1>2. Pressing(e, n, mods, p.key)
  BY <1>1, KeyEventsPress
<1>3. KeysDown(e) = h
  BY <1>1, <1>2, KeysDownAre
<1> DEFINE key == p.key
<1> HIDE DEF n, mods, key, e, p
<1>4. /\ \A k \in 0 .. n : h[k] = FirstOf(mods, k)
      /\ h[n + 1] = FirstOf(mods, n) \cup {key}
      /\ \A k \in n + 2 .. 2 * n + 2 :
            h[k] = FirstOf(mods, n) \ LastOf(mods, 2 * n + 3 - k, n)
  BY <1>1 DEF HeldAfter, key
<1> HIDE DEF h
<1>5. \A k \in 0 .. n : FirstOf(mods, k) \subseteq Modifiers
  BY <1>1 DEF FirstOf
<1>6. key \notin Modifiers
  BY <1>1 DEF key
<1>7. /\ Len(e) = 2 * n + 2
      /\ \A k \in 1 .. n : e[k].bits = FirstOf(mods, k)
      /\ e[n + 1].bits = FirstOf(mods, n)
      /\ e[n + 2].bits = FirstOf(mods, n)
      /\ \A k \in n + 3 .. 2 * n + 2 :
            e[k].bits = FirstOf(mods, n) \ LastOf(mods, 2 * n + 3 - k, n)
  BY <1>2 DEF Pressing
<1>8. h[Len(e)] = {}
  <2>1. 2 * n + 2 \in n + 2 .. 2 * n + 2 /\ 2 * n + 3 - (2 * n + 2) = 1
    BY <1>1
  <2>2. h[2 * n + 2] = FirstOf(mods, n) \ LastOf(mods, 1, n)
    BY <1>4, <2>1
  <2> QED
    BY <1>7, <2>2 DEF FirstOf, LastOf
<1>9. ASSUME NEW k \in 1 .. Len(e)
      PROVE  e[k].bits = h[k] \cap Modifiers
  <2>1. CASE k \in 1 .. n
    BY <1>1, <1>4, <1>5, <1>7, <2>1
  <2>2. CASE k = n + 1
    BY <1>1, <1>4, <1>5, <1>6, <1>7, <2>2
  <2>3. CASE k = n + 2
    <3>1. k \in n + 2 .. 2 * n + 2 /\ 2 * n + 3 - k = n + 1
      BY <1>1, <2>3
    <3>2. h[k] = FirstOf(mods, n) \ LastOf(mods, n + 1, n)
      BY <1>4, <3>1
    <3>3. LastOf(mods, n + 1, n) = {}
      BY <1>1 DEF LastOf
    <3> QED
      BY <1>1, <1>5, <1>7, <2>3, <3>2, <3>3
  <2>4. CASE k \in n + 3 .. 2 * n + 2
    <3>1. k \in n + 2 .. 2 * n + 2
      BY <1>1, <2>4
    <3> QED
      BY <1>1, <1>4, <1>5, <1>7, <2>4, <3>1
  <2> QED
    BY <1>1, <1>7, <2>1, <2>2, <2>3, <2>4
<1> QED
  BY <1>3, <1>8, <1>9

\* The words of the run are among those.
LEMMA SpecsAreWritten ==
    ASSUME NEW spec \in Specs
    PROVE  spec \in Seq(Words) /\ Len(spec) >= 1
<1>1. PICK n \in 1 .. MaxWords : spec \in [1 .. n -> Words]
  BY DEF Specs
<1>2. n \in Nat /\ n >= 1
  BY DEF MaxWords
<1> QED
  BY <1>1, <1>2

\* press_key leaves no key down and its events tell the real modifier state
\* (cdp_service.py:597).
THEOREM PressesTellTheTruth == Spec => []BitsTellTheTruth
<1>1. BitsTellTheTruth
  BY SpecsAreWritten, PressTellsTheTruth DEF BitsTellTheTruth
<1> QED
  BY <1>1, PTL

\* What is left of words once a trailing "+" is put right: k modifiers and a key.
Fixed(spec, k, key) ==
    /\ Len(FixPlus(spec)) = k + 1
    /\ \A i \in 1 .. k : FixPlus(spec)[i] = spec[i]
    /\ FixPlus(spec)[k + 1] = key

\* Words that do not end in an empty one are left alone.
LEMMA PlainIsFixed ==
    ASSUME NEW T, NEW spec \in Seq(T), NEW k \in Nat, Len(spec) = k + 1,
           spec[k + 1] # NoText
    PROVE  Fixed(spec, k, spec[k + 1])
BY DEF Fixed, FixPlus, NoText

\* Two empty words at the end are the key "+".
LEMMA PlusIsFixed ==
    ASSUME NEW T, NEW spec \in Seq(T), NEW k \in Nat, Len(spec) = k + 2,
           spec[k + 2] = NoText
    PROVE  Fixed(spec, k, "+")
<1> DEFINE front == SubSeq(spec, 1, k)
           S == T \cup {"+"}
<1>1. (k + 2) - 2 = k /\ k + 2 > 1
  OBVIOUS
<1>2. FixPlus(spec) = front \o <<"+">>
  BY <1>1 DEF FixPlus, NoText
<1>3. spec \in Seq(S) /\ <<"+">> \in Seq(S)
  OBVIOUS
<1>4. front \in Seq(S) /\ Len(front) = k /\ \A i \in 1 .. k : front[i] = spec[i]
  BY <1>3
<1> HIDE DEF front, S
<1>5. /\ Len(front \o <<"+">>) = k + 1
      /\ \A i \in 1 .. k : (front \o <<"+">>)[i] = front[i]
      /\ (front \o <<"+">>)[k + 1] = "+"
  BY <1>3, <1>4
<1> QED
  BY <1>2, <1>4, <1>5 DEF Fixed

\* What comes of k modifiers and a word.
LEMMA FixedIsParsed ==
    ASSUME NEW spec, NEW k \in Nat, NEW word, Fixed(spec, k, word),
           \A i \in 1 .. k : IsModifier(spec[i])
    PROVE  LET mods == [i \in 1 .. k |-> Modifier[Lower(spec[i])]]
               key  == IF IsAlias(word) THEN Alias[Lower(word)] ELSE word
               char == Char(key, \E i \in 1 .. k : mods[i] = "Shift")
           IN  ParseKey(spec) =
                   IF key \in NamedKeys
                   THEN [ok |-> TRUE, mods |-> mods, key |-> NameOf(key), text |-> TextOf(key)]
                   ELSE IF IsLetter(key) \/ key \in Others
                   THEN [ok |-> TRUE, mods |-> mods, key |-> char, text |-> char]
                   ELSE Error
<1> DEFINE fixed == FixPlus(spec)
           n     == Len(fixed)
           was   == [i \in 1 .. n - 1 |-> Modifier[Lower(fixed[i])]]
           mods  == [i \in 1 .. k |-> Modifier[Lower(spec[i])]]
           key   == IF IsAlias(word) THEN Alias[Lower(word)] ELSE word
<1>1. n = k + 1 /\ n - 1 = k /\ fixed[n] = word /\ \A i \in 1 .. k : fixed[i] = spec[i]
  BY DEF Fixed
<1>2. ~\E i \in 1 .. n - 1 : ~IsModifier(fixed[i])
  BY <1>1
<1>3. was = mods /\ (IF IsAlias(fixed[n]) THEN Alias[Lower(fixed[n])] ELSE fixed[n]) = key
  BY <1>1
<1>4. (\E i \in 1 .. n - 1 : was[i] = "Shift") <=> \E i \in 1 .. k : mods[i] = "Shift"
  BY <1>1, <1>3
<1>5. ParseKey(spec) =
          LET parsed == IF IsAlias(fixed[n]) THEN Alias[Lower(fixed[n])] ELSE fixed[n]
              char   == Char(parsed, \E i \in 1 .. n - 1 : was[i] = "Shift")
          IN  IF \E i \in 1 .. n - 1 : ~IsModifier(fixed[i]) THEN Error
              ELSE IF parsed \in NamedKeys
              THEN [ok |-> TRUE, mods |-> was, key |-> NameOf(parsed), text |-> TextOf(parsed)]
              ELSE IF IsLetter(parsed) \/ parsed \in Others
              THEN [ok |-> TRUE, mods |-> was, key |-> char, text |-> char]
              ELSE Error
  BY DEF ParseKey
<1>6. (\E i \in 1 .. n - 1 : was[i] = "Shift") = (\E i \in 1 .. k : mods[i] = "Shift")
  BY <1>4
<1> HIDE DEF fixed, was, mods, key, n
<1> QED
  BY <1>2, <1>3, <1>5, <1>6 DEF mods, key

\* Every word a specification may end in, and what the key is then called.
LEMMA KnownKeys ==
    ASSUME NEW word, IsKnown(word) \/ word = "+"
    PROVE  LET key == IF IsAlias(word) THEN Alias[Lower(word)] ELSE word
           IN  /\ key \in NamedKeys \/ IsLetter(key) \/ key \in Others
               /\ word = "+" => key = "+" /\ key \notin NamedKeys /\ ~IsLetter(key)
               /\ IsLetter(word) => key = word /\ key \notin NamedKeys
<1> DEFINE key == IF IsAlias(word) THEN Alias[Lower(word)] ELSE word
<1>1. \A v \in DOMAIN Alias : Alias[v] \in NamedKeys
  <2>1. /\ DOMAIN Alias = {"return", "space", "up"}
        /\ Alias["return"] = "Enter" /\ Alias["space"] = "Space" /\ Alias["up"] = "ArrowUp"
    BY DEF Alias
  <2> QED
    BY <2>1 DEF NamedKeys
<1>2. {"1", "+"} \subseteq Others
  BY DEF Others
<1>3. "+" \notin NamedKeys /\ "+" \notin DOMAIN Alias /\ "+" \notin DOMAIN Upper
  BY DEF NamedKeys, Alias, Upper
<1>4. Lower("+") = "+"
  BY <1>2, LowerAssumption
<1>5. word = "+" => key = "+" /\ key \notin NamedKeys /\ ~IsLetter(key)
  BY <1>3, <1>4 DEF IsAlias, IsLetter
<1>6. DOMAIN Alias \cap DOMAIN Upper = {}
  BY DEF Alias, Upper
<1>7. IsLetter(word) => key = word /\ key \notin NamedKeys
  BY <1>6, LowerAssumption DEF IsAlias, IsLetter
<1>8. CASE IsAlias(word)
  BY <1>1, <1>5, <1>7, <1>8 DEF IsAlias
<1>9. CASE ~IsAlias(word)
  BY <1>2, <1>5, <1>7, <1>9 DEF IsKnown
<1> QED
  BY <1>8, <1>9

\* Shift alone makes a capital.
LEMMA CapitalsAre ==
    ASSUME NEW key, NEW shifted \in BOOLEAN, IsLetter(key)
    PROVE  Char(key, shifted) \in {Upper[w] : w \in DOMAIN Upper} <=> shifted
<1> DEFINE low == Lower(key)
<1>1. Char(key, shifted) = IF shifted THEN Upper[low] ELSE low
  BY DEF Char
<1>2. low \in DOMAIN Upper
  BY DEF IsLetter
<1> HIDE DEF low
<1>3. DOMAIN Upper = {"a", "b"} /\ Upper["a"] = "A" /\ Upper["b"] = "B"
  BY DEF Upper
<1>4. \A w \in DOMAIN Upper : Upper[w] \notin DOMAIN Upper
  BY <1>3
<1> QED
  BY <1>1, <1>2, <1>4

\* Modifiers and a key of the tables are pressed, the key under exactly those
\* modifiers and a letter as a capital only with Shift (cdp_service.py:564-589);
\* a shortcut types nothing (:607), and modifiers with any other word, a named
\* key in another case included, are refused (:590).
THEOREM WrittenIsPressed ==
    ASSUME NEW S, NEW spec \in Seq(S)
    PROVE  IsPressed(spec)
<1> DEFINE p == ParseKey(spec)
           down(k) == KeyEvents(p)[k + 1]
           Plus(k) == Len(spec) = k + 2 /\ spec[k + 1] = NoText /\ spec[k + 2] = NoText
           Known(k) == Len(spec) = k + 1 /\ IsKnown(spec[k + 1])
<1> SUFFICES ASSUME NEW k \in 0 .. Len(spec) - 1,
                    \A i \in 1 .. k : IsModifier(spec[i])
             PROVE  /\ Plus(k) \/ Known(k) =>
                         /\ p.ok
                         /\ down(k).bits = {Modifier[Lower(spec[i])] : i \in 1 .. k}
                         /\ Plus(k) => down(k).key = "+"
                         /\ IsLetter(spec[k + 1]) =>
                               (down(k).key \in {Upper[w] : w \in DOMAIN Upper}
                                   <=> "Shift" \in down(k).bits)
                         /\ down(k).text # NoText => down(k).bits \subseteq {"Shift"}
                    /\ Len(spec) = k + 1 /\ spec[k + 1] # NoText /\ ~Known(k)
                           /\ spec[k + 1] # "+" => ~p.ok
  BY DEF IsPressed, NoText
<1> DEFINE word == IF Plus(k) THEN "+" ELSE spec[k + 1]
           mods == [i \in 1 .. k |-> Modifier[Lower(spec[i])]]
           key  == IF IsAlias(word) THEN Alias[Lower(word)] ELSE word
           shifted == \E i \in 1 .. k : mods[i] = "Shift"
           char == Char(key, shifted)
<1>1. k \in Nat
  OBVIOUS
<1>2. Lower(NoText) = NoText
  BY LowerAssumption DEF NoText
<1>3. ~IsKnown(NoText) /\ ~IsLetter(NoText)
  <2>1. NoText \notin DOMAIN Alias \cup DOMAIN Upper \cup NamedKeys \cup {"1"}
    BY DEF NoText, Alias, Upper, NamedKeys
  <2> QED
    BY <1>2, <2>1 DEF IsKnown, IsAlias, IsLetter
<1>4. Plus(k) \/ (Len(spec) = k + 1 /\ spec[k + 1] # NoText) => Fixed(spec, k, word)
  <2>1. CASE Plus(k)
    BY <1>1, <2>1, PlusIsFixed
  <2>2. CASE ~Plus(k) /\ Len(spec) = k + 1 /\ spec[k + 1] # NoText
    BY <1>1, <2>2, PlainIsFixed
  <2> QED
    BY <2>1, <2>2
<1>5. Known(k) => spec[k + 1] # NoText /\ ~Plus(k)
  BY <1>1, <1>3
<1> DEFINE named == [ok |-> TRUE, mods |-> mods, key |-> NameOf(key), text |-> TextOf(key)]
           plain == [ok |-> TRUE, mods |-> mods, key |-> char, text |-> char]
<1>6. Fixed(spec, k, word) =>
          p = IF key \in NamedKeys THEN named
              ELSE IF IsLetter(key) \/ key \in Others THEN plain
              ELSE Error
  <2> SUFFICES ASSUME Fixed(spec, k, word)
               PROVE  p = IF key \in NamedKeys THEN named
                          ELSE IF IsLetter(key) \/ key \in Others THEN plain
                          ELSE Error
    OBVIOUS
  <2> HIDE DEF word
  <2> QED
    BY <1>1, FixedIsParsed, Zenon
<1>7. Len(mods) = k /\ \A i \in 1 .. k : mods[i] = Modifier[Lower(spec[i])]
  BY <1>1
<1>8. IsKnown(word) \/ word = "+" =>
          /\ key \in NamedKeys \/ IsLetter(key) \/ key \in Others
          /\ word = "+" => key = "+" /\ key \notin NamedKeys /\ ~IsLetter(key)
          /\ IsLetter(word) => key = word /\ key \notin NamedKeys
  BY KnownKeys
<1>9. "+" \in Others
  BY DEF Others
<1>10. ASSUME Plus(k) \/ Known(k)
       PROVE  /\ p.ok /\ p.mods = mods
              /\ Plus(k) => p.key = "+"
              /\ IsLetter(spec[k + 1]) => p.key = char /\ IsLetter(key)
  <2>1. Fixed(spec, k, word) /\ (IsKnown(word) \/ word = "+")
    BY <1>4, <1>5, <1>10
  <2>2. p = named \/ p = plain
    BY <1>6, <1>8, <2>1
  <2>3. p.ok /\ p.mods = mods
    <3> HIDE DEF p, mods, key, char
    <3> QED
      BY <2>2
  <2>4. Plus(k) => p = plain /\ char = "+"
    <3>1. Plus(k) => word = "+"
      OBVIOUS
    <3> HIDE DEF word, p, mods, key, char, Plus, named, plain
    <3>2. Plus(k) => key = "+" /\ key \notin NamedKeys /\ ~IsLetter(key) /\ key \in Others
      BY <1>8, <1>9, <3>1
    <3>3. Plus(k) => char = "+"
      BY <3>2 DEF char, Char
    <3> QED
      BY <1>6, <2>1, <3>2, <3>3
  <2>5. IsLetter(spec[k + 1]) => p = plain /\ IsLetter(key)
    <3>1. IsLetter(spec[k + 1]) => word = spec[k + 1]
      BY <1>3
    <3> HIDE DEF word, p, mods, key, char, named, plain
    <3> QED
      BY <1>6, <1>8, <2>1, <3>1
  <2> HIDE DEF p, mods, key, char, Plus
  <2> QED
    BY <2>3, <2>4, <2>5
<1>11. ASSUME Plus(k) \/ Known(k)
       PROVE  /\ down(k).bits = FirstOf(mods, k) /\ down(k).key = p.key
              /\ down(k).text # NoText => \A i \in 1 .. k : mods[i] = "Shift"
  <2>1. Len(p.mods) = k /\ p.mods = mods
    BY <1>7, <1>10, <1>11
  <2> HIDE DEF p, mods
  <2>2. /\ Pressing(KeyEvents(p), k, p.mods, p.key)
        /\ KeyEvents(p)[k + 1].text = IF Types(p) THEN p.text ELSE NoText
    BY <1>1, <2>1, KeyEventsPress
  <2>3. KeyEvents(p)[k + 1].bits = FirstOf(p.mods, k) /\ KeyEvents(p)[k + 1].key = p.key
    BY <2>2 DEF Pressing
  <2>4. Types(p) => \A i \in 1 .. k : mods[i] = "Shift"
    BY <2>1 DEF Types
  <2> QED
    BY <2>1, <2>2, <2>3, <2>4
<1>12. FirstOf(mods, k) = {Modifier[Lower(spec[i])] : i \in 1 .. k}
  BY DEF FirstOf
<1>13. shifted <=> "Shift" \in FirstOf(mods, k)
  BY DEF FirstOf
<1>14. ASSUME Plus(k) \/ Known(k), IsLetter(spec[k + 1])
       PROVE  down(k).key \in {Upper[w] : w \in DOMAIN Upper} <=> "Shift" \in down(k).bits
  <2>1. p.key = char /\ IsLetter(key)
    BY <1>10, <1>14
  <2>2. down(k).key = p.key /\ down(k).bits = FirstOf(mods, k)
    BY <1>11, <1>14
  <2> HIDE DEF p, down, mods, key, shifted
  <2>3. shifted \in BOOLEAN
    BY DEF shifted
  <2>4. char \in {Upper[w] : w \in DOMAIN Upper} <=> shifted
    BY <2>1, <2>3, CapitalsAre
  <2> QED
    BY <1>13, <2>1, <2>2, <2>4
<1>15. ASSUME Len(spec) = k + 1, spec[k + 1] # NoText, ~Known(k), spec[k + 1] # "+"
       PROVE  ~p.ok
  <2>1. word = spec[k + 1] /\ Fixed(spec, k, word)
    BY <1>1, <1>4, <1>15
  <2>2. ~IsKnown(word) /\ word # "+"
    BY <1>15, <2>1
  <2>3. key = word /\ key \notin NamedKeys /\ ~IsLetter(key) /\ key \notin Others
    <3> HIDE DEF word
    <3> QED
      BY <2>2 DEF IsKnown, Others
  <2>4. p = Error
    BY <1>6, <2>1, <2>3
  <2> HIDE DEF p
  <2> QED
    BY <2>4 DEF Error
<1>16. Plus(k) \/ Known(k) =>
           /\ p.ok
           /\ down(k).bits = {Modifier[Lower(spec[i])] : i \in 1 .. k}
           /\ Plus(k) => down(k).key = "+"
           /\ down(k).text # NoText => down(k).bits \subseteq {"Shift"}
  <2> SUFFICES ASSUME Plus(k) \/ Known(k)
               PROVE  /\ p.ok
                      /\ down(k).bits = {Modifier[Lower(spec[i])] : i \in 1 .. k}
                      /\ Plus(k) => down(k).key = "+"
                      /\ down(k).text # NoText => down(k).bits \subseteq {"Shift"}
    OBVIOUS
  <2>1. (\A i \in 1 .. k : mods[i] = "Shift") => FirstOf(mods, k) \subseteq {"Shift"}
    BY DEF FirstOf
  <2> HIDE DEF p, down, mods, Plus, Known
  <2> QED
    BY <1>10, <1>11, <1>12, <2>1
<1> HIDE DEF p, down, Plus, Known
<1> QED
  BY <1>14, <1>15, <1>16

\* The specifications of the run are among those.
THEOREM WrittenStaysPressed == Spec => []WrittenOutIsPressed
<1>1. WrittenOutIsPressed
  BY SpecsAreWritten, WrittenIsPressed DEF WrittenOutIsPressed
<1> QED
  BY <1>1, PTL

-----------------------------------------------------------------------------
(***************************************************************************)
(* Frames: what struct.pack writes struct.unpack reads, and the receiver   *)
(* finds the payload where the sender put it.                              *)
(***************************************************************************)
\* The lengths eight bytes can hold.
Sizes == {n \in Nat : n < 18446744073709551616}
\* Those two bytes can hold, and how many values a byte has.
Short(n) == n < 65536
Byte == 256

\* Nothing is left after eight bytes, or after two of a short length.
LEMMA ShiftedIs ==
    ASSUME NEW n \in Sizes
    PROVE  /\ \A k \in 0 .. 8 : Shifted(n)[k] \in Nat
           /\ Shifted(n)[0] = n
           /\ \A k \in 0 .. 7 : Shifted(n)[k + 1] = Shifted(n)[k] \div 256
           /\ Shifted(n)[8] = 0
           /\ n < 65536 => Shifted(n)[2] = 0
<1> DEFINE Shift(s) == [k \in 0 .. 8 |-> IF k = 0 THEN n ELSE s[k - 1] \div 256]
           d == Shifted(n)
           n1 == n \div 256
           n2 == n1 \div 256
           n3 == n2 \div 256
           n4 == n3 \div 256
           n5 == n4 \div 256
           n6 == n5 \div 256
           n7 == n6 \div 256
           n8 == n7 \div 256
           w == [k \in 0 .. 8 |-> IF k = 0 THEN n ELSE
                                  <<n1, n2, n3, n4, n5, n6, n7, n8>>[k]]
<1>1. d = CHOOSE s : s = Shift(s)
  BY DEF Shifted
<1>2. w = Shift(w)
  <2> HIDE DEF n8, n7, n6, n5, n4, n3, n2, n1
  <2>1. /\ w[0] = n /\ w[1] = n1 /\ w[2] = n2 /\ w[3] = n3 /\ w[4] = n4
        /\ w[5] = n5 /\ w[6] = n6 /\ w[7] = n7 /\ w[8] = n8
    OBVIOUS
  <2>2. DOMAIN w = 0 .. 8 /\ w = [k \in 0 .. 8 |-> w[k]]
    OBVIOUS
  <2> HIDE DEF w
  <2>3. /\ w[1] = w[0] \div 256 /\ w[2] = w[1] \div 256 /\ w[3] = w[2] \div 256
        /\ w[4] = w[3] \div 256 /\ w[5] = w[4] \div 256 /\ w[6] = w[5] \div 256
        /\ w[7] = w[6] \div 256 /\ w[8] = w[7] \div 256
    BY <2>1 DEF n1, n2, n3, n4, n5, n6, n7, n8
  <2>4. ASSUME NEW k \in 0 .. 8
        PROVE  w[k] = IF k = 0 THEN n ELSE w[k - 1] \div 256
    <3>1. k \in {0, 1, 2, 3, 4, 5, 6, 7, 8}
      OBVIOUS
    <3>2. k # 0 => w[k] = w[k - 1] \div 256
      <4>1. ASSUME k = 1 PROVE w[k] = w[k - 1] \div 256
        <5>1. k - 1 = 0
          BY <4>1
        <5> QED
          BY <2>3, <4>1, <5>1, Zenon
      <4>2. ASSUME k = 2 PROVE w[k] = w[k - 1] \div 256
        <5>1. k - 1 = 1
          BY <4>2
        <5> QED
          BY <2>3, <4>2, <5>1, Zenon
      <4>3. ASSUME k = 3 PROVE w[k] = w[k - 1] \div 256
        <5>1. k - 1 = 2
          BY <4>3
        <5> QED
          BY <2>3, <4>3, <5>1, Zenon
      <4>4. ASSUME k = 4 PROVE w[k] = w[k - 1] \div 256
        <5>1. k - 1 = 3
          BY <4>4
        <5> QED
          BY <2>3, <4>4, <5>1, Zenon
      <4>5. ASSUME k = 5 PROVE w[k] = w[k - 1] \div 256
        <5>1. k - 1 = 4
          BY <4>5
        <5> QED
          BY <2>3, <4>5, <5>1, Zenon
      <4>6. ASSUME k = 6 PROVE w[k] = w[k - 1] \div 256
        <5>1. k - 1 = 5
          BY <4>6
        <5> QED
          BY <2>3, <4>6, <5>1, Zenon
      <4>7. ASSUME k = 7 PROVE w[k] = w[k - 1] \div 256
        <5>1. k - 1 = 6
          BY <4>7
        <5> QED
          BY <2>3, <4>7, <5>1, Zenon
      <4>8. ASSUME k = 8 PROVE w[k] = w[k - 1] \div 256
        <5>1. k - 1 = 7
          BY <4>8
        <5> QED
          BY <2>3, <4>8, <5>1, Zenon
      <4> QED
        BY <3>1, <4>1, <4>2, <4>3, <4>4, <4>5, <4>6, <4>7, <4>8
    <3> QED
      BY <2>1, <3>2
  <2> QED
    BY <2>2, <2>4
<1> HIDE DEF w, d
<1>3. d = Shift(d)
  <2> HIDE DEF Shift
  <2> QED
    BY <1>1, <1>2
<1>4. d[0] = n /\ \A k \in 0 .. 7 : d[k + 1] = d[k] \div 256
  <2>1. \A k \in 0 .. 8 : d[k] = IF k = 0 THEN n ELSE d[k - 1] \div 256
    BY <1>3
  <2>2. \A k \in 0 .. 7 : k + 1 \in 0 .. 8 /\ k + 1 # 0 /\ (k + 1) - 1 = k
    OBVIOUS
  <2> QED
    BY <2>1, <2>2
<1>5. n \in Nat /\ n < 18446744073709551616
  BY DEF Sizes
<1>6. d[0] \in Nat /\ d[0] < 18446744073709551616
  BY <1>4, <1>5
<1>7. /\ d[1] \in Nat /\ d[1] < 72057594037927936
      /\ d[2] \in Nat /\ d[2] < 281474976710656
      /\ d[3] \in Nat /\ d[3] < 1099511627776
      /\ d[4] \in Nat /\ d[4] < 4294967296
      /\ d[5] \in Nat /\ d[5] < 16777216
      /\ d[6] \in Nat /\ d[6] < 65536
      /\ d[7] \in Nat /\ d[7] < 256
      /\ d[8] = 0
  <2>1. d[1] \in Nat /\ d[1] < 72057594037927936
    <3>1. d[1] = d[0] \div 256
      BY <1>4
    <3> QED
      BY <1>6, <3>1
  <2>2. d[2] \in Nat /\ d[2] < 281474976710656
    <3>1. d[2] = d[1] \div 256
      BY <1>4
    <3> QED
      BY <2>1, <3>1
  <2>3. d[3] \in Nat /\ d[3] < 1099511627776
    <3>1. d[3] = d[2] \div 256
      BY <1>4
    <3> QED
      BY <2>2, <3>1
  <2>4. d[4] \in Nat /\ d[4] < 4294967296
    <3>1. d[4] = d[3] \div 256
      BY <1>4
    <3> QED
      BY <2>3, <3>1
  <2>5. d[5] \in Nat /\ d[5] < 16777216
    <3>1. d[5] = d[4] \div 256
      BY <1>4
    <3> QED
      BY <2>4, <3>1
  <2>6. d[6] \in Nat /\ d[6] < 65536
    <3>1. d[6] = d[5] \div 256
      BY <1>4
    <3> QED
      BY <2>5, <3>1
  <2>7. d[7] \in Nat /\ d[7] < 256
    <3>1. d[7] = d[6] \div 256
      BY <1>4
    <3> QED
      BY <2>6, <3>1
  <2>8. d[8] = 0
    <3>1. d[8] = d[7] \div 256
      BY <1>4
    <3> QED
      BY <2>7, <3>1
  <2> QED
    BY <2>1, <2>2, <2>3, <2>4, <2>5, <2>6, <2>7, <2>8
<1>8. n < 65536 => d[2] = 0
  <2> SUFFICES ASSUME n < 65536 PROVE d[2] = 0
    OBVIOUS
  <2>1. d[1] = d[0] \div 256 /\ d[2] = d[1] \div 256
    <3>1. \A k \in {0, 1} : d[k + 1] = d[k] \div 256
      BY <1>4
    <3> QED
      BY <3>1
  <2>2. d[0] \in Nat /\ d[0] < 65536
    BY <1>4, <1>5
  <2> QED
    BY <2>1, <2>2
<1>9. \A k \in 0 .. 8 : d[k] \in Nat
  <2>1. \A k \in 0 .. 8 : k \in {0, 1, 2, 3, 4, 5, 6, 7, 8}
    OBVIOUS
  <2>2. \A k \in {0, 1, 2, 3, 4, 5, 6, 7, 8} : d[k] \in Nat
    BY <1>6, <1>7
  <2> QED
    BY <2>1, <2>2
<1> QED
  BY <1>4, <1>7, <1>8, <1>9 DEF d

\* The bytes of a number that fits are those it is read from again.
LEMMA UnpackPack ==
    ASSUME NEW n \in Sizes, NEW w \in {2, 8}, w = 2 => Short(n)
    PROVE  /\ Len(Pack(n, w)) = w /\ Pack(n, w) \in Seq(Nat)
           /\ Unpack(Pack(n, w)) = n
<1> DEFINE d == Shifted(n)
           b == Pack(n, w)
           Value(v) == [k \in 0 .. Len(b) |-> IF k = 0 THEN 0 ELSE Byte * v[k - 1] + b[k]]
           h == [k \in 0 .. w |-> d[w - k]]
           value == CHOOSE v : v = Value(v)
<1>1. /\ \A k \in 0 .. 8 : d[k] \in Nat
      /\ d[0] = n /\ d[w] = 0
      /\ \A k \in 0 .. 7 : d[k + 1] = d[k] \div Byte
  BY ShiftedIs DEF Byte, Short
<1> HIDE DEF d
<1>2. /\ w \in Nat /\ w <= 8 /\ w # 0
      /\ \A k \in 0 .. w : w - k \in 0 .. 8
      /\ \A k \in 1 .. w : w - k \in 0 .. 7 /\ (w - k) + 1 = w - (k - 1) /\ k - 1 \in 0 .. w
  OBVIOUS
<1>3. b = [k \in 1 .. w |-> d[w - k] % Byte]
  BY DEF Pack, d, Byte
<1>4. b \in Seq(Nat) /\ Len(b) = w /\ \A k \in 1 .. w : b[k] = d[w - k] % Byte
  <2>1. \A k \in 1 .. w : d[w - k] % Byte \in Nat
    BY <1>1, <1>2 DEF Byte
  <2> HIDE DEF b
  <2> QED
    BY <1>2, <1>3, <2>1
<1>5. Unpack(b) = value[w]
  BY <1>4 DEF Unpack, Byte
<1> HIDE DEF b
<1>6. h[0] = 0 /\ h[w] = n /\ \A k \in 0 .. w : h[k] = d[w - k]
  <2>1. w - 0 = w /\ w - w = 0 /\ 0 \in 0 .. w /\ w \in 0 .. w
    BY <1>2
  <2> QED
    BY <1>1, <2>1
<1>7. ASSUME NEW k \in 1 .. w
      PROVE  h[k] = Byte * h[k - 1] + b[k]
  <2> DEFINE m == d[w - k]
             q == m \div Byte
             r == m % Byte
  <2>1. w - k \in 0 .. 7 /\ w - k \in 0 .. 8 /\ (w - k) + 1 = w - (k - 1)
    BY <1>2
  <2>2. d[w - (k - 1)] = q /\ m \in Nat
    <3>1. d[(w - k) + 1] = d[w - k] \div Byte
      BY <1>1, <2>1, Zenon
    <3> QED
      BY <1>1, <2>1, <3>1, Zenon
  <2>3. h[k] = m /\ h[k - 1] = q /\ b[k] = r
    <3>1. k \in 0 .. w /\ k - 1 \in 0 .. w
      BY <1>2
    <3> HIDE DEF q, r, h
    <3>2. h[k] = m /\ h[k - 1] = q
      BY <1>6, <2>2, <3>1, Zenon
    <3> QED
      BY <1>4, <3>2, Zenon DEF r
  <2> HIDE DEF m
  <2>4. m = Byte * q + r
    BY <2>2 DEF Byte
  <2> HIDE DEF q, r, h
  <2> QED
    BY <2>3, <2>4, Zenon
<1>8. h = Value(h)
  <2> DEFINE r == Value(h)
  <2>1. h = [k \in 0 .. w |-> h[k]]
    OBVIOUS
  <2> HIDE DEF h
  <2>2. /\ r = [k \in 0 .. w |-> r[k]]
        /\ \A k \in 0 .. w : r[k] = IF k = 0 THEN 0 ELSE Byte * h[k - 1] + b[k]
    BY <1>4
  <2> HIDE DEF r
  <2>3. \A k \in 0 .. w : k # 0 => k \in 1 .. w
    BY <1>2
  <2>4. \A k \in 0 .. w : r[k] = h[k]
    BY <1>6, <1>7, <2>2, <2>3, Zenon
  <2>5. h = r
    BY <2>1, <2>2, <2>4, Zenon
  <2> QED
    BY <2>5 DEF r
<1>9. value = Value(value)
  <2> HIDE DEF Value, h
  <2> QED
    BY <1>8
<1> HIDE DEF value, h
<1>10. /\ value[0] = 0
       /\ \A k \in 1 .. w : value[k] = Byte * value[k - 1] + b[k]
  <2>1. \A k \in 0 .. w :
           Value(value)[k] = IF k = 0 THEN 0 ELSE Byte * value[k - 1] + b[k]
    BY <1>4
  <2> HIDE DEF Value
  <2>2. \A k \in 0 .. w : value[k] = IF k = 0 THEN 0 ELSE Byte * value[k - 1] + b[k]
    BY <1>9, <2>1, Zenon
  <2>3. 0 \in 0 .. w /\ \A k \in 1 .. w : k \in 0 .. w /\ k # 0
    BY <1>2
  <2> QED
    BY <2>2, <2>3
<1>11. value[w] = h[w]
  <2> DEFINE T == {k \in 0 .. w : value[k] # h[k]}
  <2>1. CASE T = {}
    BY <1>2, <2>1
  <2>2. CASE T # {}
    <3>1. T \in SUBSET Nat
      OBVIOUS
    <3>2. PICK k \in T : \A j \in T : k <= j
      BY <2>2, <3>1, FirstExists
    <3>3. k \in 1 .. w
      BY <1>6, <1>10
    <3>4. k - 1 \in 0 .. w /\ k - 1 \notin T
      BY <1>2, <3>2, <3>3
    <3>5. value[k - 1] = h[k - 1]
      BY <3>4
    <3>6. value[k] = h[k]
      BY <1>7, <1>10, <3>3, <3>5
    <3> QED
      BY <3>6
  <2> QED
    BY <2>1, <2>2
<1> QED
  BY <1>4, <1>5, <1>6, <1>11 DEF b

\* The bytes that follow a length byte s.
Wide(s) == IF s = 126 THEN 2 ELSE IF s = 127 THEN 8 ELSE 0

\* A header of a length byte s and the bytes ext, with a mask or without.
FrameParts(bytes, s, second, skip, ext, rest) ==
    /\ s \in 0 .. 127
    /\ (second = Masked + s /\ skip = 4) \/ (second = s /\ skip = 0)
    /\ ext \in Seq(Nat) /\ Len(ext) = Wide(s) /\ rest \in Seq(Nat)
    /\ bytes = <<129, second>> \o ext \o rest

LEMMA HeaderIsRead ==
    ASSUME NEW bytes, NEW s, NEW second, NEW skip, NEW ext, NEW rest,
           FrameParts(bytes, s, second, skip, ext, rest)
    PROVE  ReadHeader(bytes) =
               [length |-> IF Wide(s) = 0 THEN s ELSE Unpack(ext),
                used   |-> 2 + Wide(s) + skip]
<1> DEFINE front == <<129, second>>
           wide == Wide(s)
           short == bytes[2] % 128
           mask  == IF bytes[2] \div Masked % 2 = 1 THEN 4 ELSE 0
<1>0. /\ s \in 0 .. 127
      /\ (second = Masked + s /\ skip = 4) \/ (second = s /\ skip = 0)
      /\ ext \in Seq(Nat) /\ Len(ext) = Wide(s) /\ rest \in Seq(Nat)
      /\ bytes = front \o ext \o rest
  BY DEF FrameParts
<1>1. wide \in {0, 2, 8}
  BY DEF Wide
<1>2. front \in Seq(Nat) /\ Len(front) = 2 /\ front[2] = second
  <2>1. second \in Nat
    <3>1. s \in 0 .. 127
      BY <1>0
    <3>2. s \in Nat /\ Masked + s \in Nat
      BY <3>1 DEF Masked
    <3>3. second = Masked + s \/ second = s
      BY <1>0
    <3> QED
      BY <3>2, <3>3
  <2> QED
    BY <2>1
<1> HIDE DEF front
<1>3. Parts(bytes, front, ext, rest) /\ bytes \in Seq(Nat)
  <2>1. Parts(front \o ext \o rest, front, ext, rest)
    BY <1>0, <1>2, JoinThree
  <2> QED
    BY <1>0, <1>2, <2>1
<1>4. /\ bytes[2] = second /\ Len(bytes) \in Nat /\ Len(bytes) >= 2 + wide
      /\ \A i \in 1 .. wide : bytes[2 + i] = ext[i]
  <2>1. Len(rest) \in Nat /\ Len(ext) = wide /\ Len(front) = 2
    BY <1>0, <1>2
  <2> HIDE DEF wide
  <2>2. /\ Len(bytes) = 2 + wide + Len(rest)
        /\ \A i \in 1 .. 2 : bytes[i] = front[i]
        /\ \A i \in 1 .. wide : bytes[2 + i] = ext[i]
    BY <1>3, <2>1 DEF Parts
  <2> QED
    BY <1>1, <1>2, <2>1, <2>2
<1>5. short = s /\ mask = skip
  <2>1. /\ (128 + s) % 128 = s /\ s % 128 = s
        /\ ((128 + s) \div 128) % 2 = 1 /\ (s \div 128) % 2 = 0
    <3>0. s \in 0 .. 127
      BY <1>0
    <3>1. (128 + s) % 128 = s /\ s % 128 = s
      BY <3>0
    <3>2. (128 + s) \div 128 = 1 /\ s \div 128 = 0
      BY <3>0
    <3>3. 1 % 2 = 1 /\ 0 % 2 = 0
      OBVIOUS
    <3> QED
      BY <3>1, <3>2, <3>3, Zenon
  <2>2. CASE second = Masked + s /\ skip = 4
    <3>1. bytes[2] = 128 + s
      BY <1>4, <2>2 DEF Masked
    <3> QED
      BY <2>1, <2>2, <3>1 DEF Masked
  <2>3. CASE second = s /\ skip = 0
    <3>1. bytes[2] = s
      BY <1>4, <2>3
    <3> QED
      BY <2>1, <2>3, <3>1 DEF Masked
  <2> QED
    BY <1>0, <2>2, <2>3
<1>6. SubSeq(bytes, 3, 2 + wide) = ext
  <2> DEFINE sub == SubSeq(bytes, 3, 2 + wide)
  <2>1. sub \in Seq(Nat) /\ Len(sub) = wide /\ \A i \in 1 .. wide : sub[i] = bytes[2 + i]
    <3>1. wide \in Nat /\ 3 \in Int /\ 2 + wide \in Int /\ \A i \in 3 .. 2 + wide : bytes[i] \in Nat
      <4>1. wide \in Nat /\ 3 \in Int /\ 2 + wide \in Int
        BY <1>1
      <4> HIDE DEF wide
      <4>2. \A i \in 3 .. 2 + wide : i \in 1 .. Len(bytes)
        BY <1>4, <4>1
      <4>3. \A i \in 1 .. Len(bytes) : bytes[i] \in Nat
        BY <1>3
      <4> QED
        BY <4>1, <4>2, <4>3
    <3>2. /\ sub \in Seq(Nat)
          /\ Len(sub) = IF 3 <= 2 + wide THEN 2 + wide - 3 + 1 ELSE 0
          /\ \A i \in 1 .. 2 + wide - 3 + 1 : sub[i] = bytes[3 + i - 1]
      BY <3>1, SubSeqProperties
    <3>3. /\ (IF 3 <= 2 + wide THEN 2 + wide - 3 + 1 ELSE 0) = wide
          /\ 2 + wide - 3 + 1 = wide /\ \A i \in 1 .. wide : 3 + i - 1 = 2 + i
      BY <3>1
    <3> HIDE DEF sub, wide
    <3> QED
      BY <3>2, <3>3
  <2> HIDE DEF sub
  <2>2. \A i \in 1 .. wide : sub[i] = ext[i]
    BY <1>4, <2>1
  <2>3. sub = ext
    BY <1>0, <2>1, <2>2, SeqEqual
  <2> QED
    BY <2>3 DEF sub
<1> DEFINE w == CASE short = 126 -> 2 [] short = 127 -> 8 [] OTHER -> 0
<1>7. w = wide
  <2> HIDE DEF short
  <2> QED
    BY <1>5 DEF Wide
<1>8. ReadHeader(bytes) = [length |-> IF w = 0 THEN short ELSE Unpack(SubSeq(bytes, 3, 2 + w)),
                           used   |-> 2 + w + mask]
  BY DEF ReadHeader
<1> HIDE DEF w, short, mask, wide
<1> QED
  BY <1>5, <1>6, <1>7, <1>8 DEF wide

\* What _ws_send puts before the payload.
LEMMA HeaderIs ==
    ASSUME NEW n \in Sizes
    PROVE  \E s \in 0 .. 127, ext \in Seq(Nat) :
              /\ Len(ext) = Wide(s)
              /\ (IF Wide(s) = 0 THEN s ELSE Unpack(ext)) = n
              /\ Header(n) = <<129, Masked + s>> \o ext
<1> DEFINE Is(s, ext) == LengthBytes(n) = <<s>> \o ext
<1>1. ASSUME NEW s \in 0 .. 127, NEW ext \in Seq(Nat), Is(s, ext)
      PROVE  Header(n) = <<129, Masked + s>> \o ext
  <2>1. Head(<<s>> \o ext) = s /\ Tail(<<s>> \o ext) = ext
    OBVIOUS
  <2> QED
    BY <1>1, <2>1 DEF Header
<1>2. n \in Nat
  BY DEF Sizes
<1>3. CASE n < 126
  <2>1. n \in 0 .. 127 /\ Wide(n) = 0 /\ <<>> \in Seq(Nat) /\ Len(<<>>) = 0
    BY <1>2, <1>3 DEF Wide
  <2>2. Is(n, <<>>)
    BY <1>3 DEF LengthBytes
  <2> HIDE DEF Is
  <2> QED
    BY <1>1, <2>1, <2>2, Zenon
<1>4. CASE ~(n < 126) /\ Short(n)
  <2> DEFINE ext == Pack(n, 2)
  <2>1. 126 \in 0 .. 127 /\ Wide(126) = 2 /\ Wide(126) # 0
    BY DEF Wide
  <2>2. Is(126, ext)
    BY <1>4 DEF LengthBytes, Short
  <2>3. Len(ext) = 2 /\ ext \in Seq(Nat) /\ Unpack(ext) = n
    BY <1>4, UnpackPack
  <2> HIDE DEF Is, ext
  <2>4. Header(n) = <<129, Masked + 126>> \o ext
    BY <1>1, <2>1, <2>2, <2>3, Zenon
  <2> QED
    BY <2>1, <2>3, <2>4, Zenon
<1>5. CASE ~(n < 126) /\ ~Short(n)
  <2> DEFINE ext == Pack(n, 8)
  <2>1. 127 \in 0 .. 127 /\ Wide(127) = 8 /\ Wide(127) # 0
    BY DEF Wide
  <2>2. Is(127, ext)
    BY <1>5 DEF LengthBytes, Short
  <2>3. Len(ext) = 8 /\ ext \in Seq(Nat) /\ Unpack(ext) = n
    BY UnpackPack
  <2> HIDE DEF Is, ext
  <2>4. Header(n) = <<129, Masked + 127>> \o ext
    BY <1>1, <2>1, <2>2, <2>3, Zenon
  <2> QED
    BY <2>1, <2>3, <2>4, Zenon
<1> QED
  BY <1>3, <1>4, <1>5, Zenon

\* The receiver reads of a header, masked or not, the length the sender wrote,
\* and no byte more or less than the sender put before the payload.
THEOREM FrameRoundTrips ==
    ASSUME NEW n \in Sizes
    PROVE  RoundTrips(n)
<1>1. PICK s \in 0 .. 127, ext \in Seq(Nat) :
          /\ Len(ext) = Wide(s)
          /\ (IF Wide(s) = 0 THEN s ELSE Unpack(ext)) = n
          /\ Header(n) = <<129, Masked + s>> \o ext
  BY HeaderIs, Zenon
<1>2. Wide(s) \in {0, 2, 8}
  BY DEF Wide
<1>3. Masked + s \in Nat
  BY DEF Masked
<1>4. /\ Header(n) \in Seq(Nat) /\ Len(Header(n)) = 2 + Wide(s) /\ Header(n)[1] = 129
      /\ Header(n)[2] = Masked + s
      /\ \A i \in 3 .. 2 + Wide(s) : Header(n)[i] = ext[i - 2]
  BY <1>1, <1>2, <1>3
<1>5. ReadHeader(Header(n) \o Mask) = [length |-> n, used |-> Len(Header(n)) + 4]
  <2>1. Mask \in Seq(Nat)
    BY DEF Mask
  <2>2. ReadHeader(Header(n) \o Mask) = [length |-> n, used |-> 2 + Wide(s) + 4]
    <3> DEFINE second == Masked + s
               bytes  == <<129, second>> \o ext \o Mask
    <3>1. FrameParts(bytes, s, second, 4, ext, Mask)
      BY <1>1, <2>1 DEF FrameParts
    <3> HIDE DEF second, bytes
    <3>2. ReadHeader(bytes) = [length |-> IF Wide(s) = 0 THEN s ELSE Unpack(ext),
                               used   |-> 2 + Wide(s) + 4]
      BY <3>1, HeaderIsRead
    <3> QED
      BY <1>1, <3>2 DEF second, bytes
  <2> QED
    BY <1>4, <2>2
<1>6. ServerHeader(n) = <<129, s>> \o ext \o <<>> /\ Len(ServerHeader(n)) = 2 + Wide(s)
  <2> DEFINE h == Header(n)
             v == ServerHeader(n)
             r == <<129, s>> \o ext \o <<>>
  <2>1. v = [h EXCEPT ![2] = s]
    BY <1>2, <1>4 DEF ServerHeader, Masked
  <2>2. v \in Seq(Nat) /\ Len(v) = 2 + Wide(s) /\ v[1] = 129 /\ v[2] = s
        /\ \A i \in 3 .. 2 + Wide(s) : v[i] = ext[i - 2]
    BY <1>2, <1>4, <2>1
  <2>3. r \in Seq(Nat) /\ Len(r) = 2 + Wide(s) /\ r[1] = 129 /\ r[2] = s
        /\ \A i \in 3 .. 2 + Wide(s) : r[i] = ext[i - 2]
    BY <1>1, <1>2
  <2> HIDE DEF v, r
  <2>4. \A i \in 1 .. 2 + Wide(s) : i = 1 \/ i = 2 \/ i \in 3 .. 2 + Wide(s)
    BY <1>2
  <2>5. \A i \in 1 .. 2 + Wide(s) : v[i] = r[i]
    BY <2>2, <2>3, <2>4
  <2>6. v = r
    BY <2>2, <2>3, <2>5, SeqEqual
  <2> QED
    BY <2>2, <2>6 DEF v, r
<1>7. ReadHeader(ServerHeader(n)) = [length |-> n, used |-> Len(ServerHeader(n))]
  <2>1. <<>> \in Seq(Nat)
    OBVIOUS
  <2>2. ReadHeader(ServerHeader(n)) = [length |-> n, used |-> 2 + Wide(s) + 0]
    <3> DEFINE bytes == <<129, s>> \o ext \o <<>>
    <3>1. FrameParts(bytes, s, s, 0, ext, <<>>)
      BY <1>1, <2>1 DEF FrameParts
    <3> HIDE DEF bytes
    <3>2. ReadHeader(bytes) = [length |-> IF Wide(s) = 0 THEN s ELSE Unpack(ext),
                               used   |-> 2 + Wide(s) + 0]
      BY <3>1, HeaderIsRead
    <3> QED
      BY <1>1, <1>6, <3>2 DEF bytes
  <2> QED
    BY <1>2, <1>6, <2>2
<1> QED
  BY <1>5, <1>7 DEF RoundTrips

\* The lengths of the run are among those.
THEOREM FramesStayReadable == Spec => []FramesRoundTrip
<1>1. Lengths \subseteq Sizes
  BY DEF Lengths, Sizes
<1>2. FramesRoundTrip
  BY <1>1, FrameRoundTrips DEF FramesRoundTrip
<1> QED
  BY <1>2, PTL

=============================================================================

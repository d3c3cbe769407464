---------------------------- MODULE MCCdpService ----------------------------
(***************************************************************************)
(* CdpService for TLC, with the key specifications and frames its calls    *)
(* are made of.                                                            *)
(***************************************************************************)
EXTENDS CdpService, MCKeySpec, CdpFrames

Shortcuts == {<<"ctrl", "shift", "a">>}
Typing    == {<<"a", "b">>}

-----------------------------------------------------------------------------
\* What the calls are made of has no variables; it is looked at in the initial
\* state only.

\* press_key leaves no key down, and its events tell the "real modifier state"
\* (cdp_service.py:597).
BitsTellTheTruth == Init => \A spec \in Specs : TellsTheTruth(spec)

\* Modifiers and a key of the tables are pressed, the key under exactly those
\* modifiers and a letter as a capital only with Shift (cdp_service.py:564-589);
\* a shortcut types nothing (:607), and modifiers with any other word, a named
\* key in another case included, are refused (:590).
WrittenOutIsPressed == Init => \A spec \in Specs : IsPressed(spec)

Lengths == 0 .. 300 \cup 65000 .. 66000 \cup {16777215, 16777216, 1073741824}
Mask    == <<1, 2, 3, 4>>
\* A frame of a server has the same header with no mask.
ServerHeader(n) == [Header(n) EXCEPT ![2] = @ - Masked]

RoundTrips(n) ==
    /\ ReadHeader(Header(n) \o Mask) = [length |-> n, used |-> Len(Header(n)) + 4]
    /\ ReadHeader(ServerHeader(n)) = [length |-> n, used |-> Len(ServerHeader(n))]

\* On both sides of every boundary the receiver reads exactly the bytes the
\* sender put before the payload, and then as many as the payload has: the
\* next frame on the connection begins where it looks for it.
FramesRoundTrip == Init => \A n \in Lengths : RoundTrips(n)
=============================================================================

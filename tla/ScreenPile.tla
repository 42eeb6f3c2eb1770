----------------------------- MODULE ScreenPile -----------------------------
(***************************************************************************)
(* What the screen manager promises to a screen, without its queue of one  *)
(* request, its locks and its handlers.  The open screens are a pile and   *)
(* the top one is in front.  The pile changes in three ways only: a screen *)
(* is opened on top, the top one is closed, or the pile gives way to one   *)
(* screen.  It never changes while the front screen is being painted, and  *)
(* no paint begins once the device is falling asleep.                      *)
(***************************************************************************)
EXTENDS Sequences, Naturals

CONSTANT AnyScreen    \* the screens

VARIABLES
    pile,          \* the open screens, the one in front last
    painting,      \* the front screen is being painted
    asleep         \* the device is falling asleep: the panel keeps its image

vars == <<pile, painting, asleep>>

TypeOK == pile \in Seq(AnyScreen) /\ painting \in BOOLEAN /\ asleep \in BOOLEAN

Init == pile = <<>> /\ ~painting /\ ~asleep

Open(s) ==
    /\ ~painting /\ pile' = Append(pile, s)
    /\ UNCHANGED <<painting, asleep>>

Close ==
    /\ ~painting /\ pile # <<>> /\ pile' = SubSeq(pile, 1, Len(pile) - 1)
    /\ UNCHANGED <<painting, asleep>>

StartOver(s) ==
    /\ ~painting /\ pile' = <<s>>
    /\ UNCHANGED <<painting, asleep>>

StartPaint ==
    /\ ~painting /\ pile # <<>> /\ ~asleep /\ painting' = TRUE
    /\ UNCHANGED <<pile, asleep>>

EndPaint == painting /\ painting' = FALSE /\ UNCHANGED <<pile, asleep>>

FallAsleep == ~painting /\ asleep' = TRUE /\ UNCHANGED <<pile, painting>>

\* Sleep was given up.
StayAwake == asleep /\ asleep' = FALSE /\ UNCHANGED <<pile, painting>>

\* A reset forgets every screen, whatever was going on.
Reset == pile' = <<>> /\ painting' = FALSE /\ asleep' = FALSE

Next ==
    \/ \E s \in AnyScreen : Open(s) \/ StartOver(s)
    \/ Close \/ StartPaint \/ EndPaint \/ FallAsleep \/ StayAwake \/ Reset

Spec == Init /\ [][Next]_vars
=============================================================================

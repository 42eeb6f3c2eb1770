---------------------------- MODULE ScreenRadio ----------------------------
(***************************************************************************)
(* What the screen manager and the page-turner radio promise each other,   *)
(* without the radio's tasks and the manager's locks.  The radio comes on  *)
(* for a screen that uses it, never while a transition is pending, so that *)
(* the manager that has asked it to go waits for one start at most; and    *)
(* one screen gives way to another only while the radio is off, so that    *)
(* the next one is made with the memory it needs.                          *)
(***************************************************************************)
CONSTANTS
    Users,         \* the screens that use the radio
    MayGiveUp      \* a transition may be dropped

VARIABLES
    front,         \* the screen in front
    leaving,       \* a transition is pending
    on             \* the radio is up, coming up or going down

vars == <<front, leaving, on>>

Init == ~leaving /\ ~on

Start ==
    /\ ~on /\ ~leaving /\ front \in Users
    /\ on' = TRUE
    /\ UNCHANGED <<front, leaving>>

Stop == on /\ on' = FALSE /\ UNCHANGED <<front, leaving>>

Ask == leaving' = TRUE /\ UNCHANGED <<front, on>>

GiveUp == MayGiveUp /\ leaving' = FALSE /\ UNCHANGED <<front, on>>

\* The next screen is in front, or, after a restart or a wake, the first one.
Change == ~on /\ ~leaving' /\ UNCHANGED on

Next == Start \/ Stop \/ Ask \/ GiveUp \/ Change

Spec == Init /\ [][Next]_vars
=============================================================================

------------------------------ MODULE Promises ------------------------------
(***************************************************************************)
(* What the code's rendezvous promise, whatever they are made of: a caller *)
(* waits for something that is kept at most once, sleeps only while it is  *)
(* not kept, and is released by the very step that keeps it.  It may give  *)
(* up first.  Nothing that was kept is taken back.                         *)
(***************************************************************************)
CONSTANTS Caller, None

VARIABLES
    kept,   \* the promises that have been kept
    waits   \* what each caller waits for, None for nothing

Init == kept = {} /\ waits = [c \in Caller |-> None]

\* A caller goes to sleep on a promise that has not been kept.
Wait(c) ==
    /\ waits[c] = None /\ waits'[c] # None /\ waits'[c] \notin kept
    /\ waits' = [waits EXCEPT ![c] = waits'[c]]
    /\ UNCHANGED kept

\* Promises are kept, and whoever waits for one of them goes on.
Keep ==
    /\ kept \subseteq kept'
    /\ waits' = [c \in Caller |-> IF waits[c] \in kept' THEN None ELSE waits[c]]

\* A caller's context ends.
Leave(c) ==
    /\ waits[c] # None
    /\ waits' = [waits EXCEPT ![c] = None]
    /\ UNCHANGED kept

Next == Keep \/ \E c \in Caller : Wait(c) \/ Leave(c)

Spec == Init /\ [][Next]_<<kept, waits>>
=============================================================================

--------------------------- MODULE SpeedDetection ---------------------------
(***************************************************************************)
(* What the automatic detection of a speed promises to the operator, with  *)
(* no candidates, no descriptors and no threads: a press of the button is  *)
(* answered once, and the button is there again when the answer was shown; *)
(* the answer is "none" or the speed of the device, or, if somebody used   *)
(* the same terminal meanwhile, any speed the detection tries.             *)
(***************************************************************************)
EXTENDS Integers

CONSTANTS
    Speeds,        \* the speeds it tries
    DeviceSpeeds,
    NoAnswer

VARIABLES
    device,   \* speed of the device
    button,   \* the button can be pressed
    answer,   \* found and not yet shown: a speed, or 0 for none
    shared    \* the terminal was used by another since the button was pressed

vars == <<device, button, answer, shared>>

Init ==
    /\ device \in DeviceSpeeds
    /\ button = TRUE /\ answer = NoAnswer /\ shared = FALSE

Press ==
    /\ button /\ answer = NoAnswer
    /\ button' = FALSE /\ shared' = FALSE
    /\ UNCHANGED <<device, answer>>

Searching == ~button /\ answer = NoAnswer

Share ==
    /\ Searching
    /\ shared' = TRUE
    /\ UNCHANGED <<device, button, answer>>

Answer ==
    /\ Searching
    /\ answer' \in {0} \cup {speed \in Speeds : shared \/ speed = device}
    /\ UNCHANGED <<device, button, shared>>

Show ==
    /\ answer # NoAnswer
    /\ answer' = NoAnswer /\ button' = TRUE
    /\ UNCHANGED <<device, shared>>

Next == Press \/ Share \/ Answer \/ Show

Spec == Init /\ [][Next]_vars
=============================================================================

--------------------------- MODULE AdLoadProtocol ---------------------------
(***************************************************************************)
(* What the mediation layer promises an app about loading an ad, whatever  *)
(* the format: a load request is answered exactly once, with "didLoad" or  *)
(* "didFailToLoad", and nobody is told the outcome of a load that is not   *)
(* under way.  An ad that is already there is reported as loaded within    *)
(* the call that asks for it; asking again during a load adds nothing.     *)
(*                                                                         *)
(* The detailed specifications of the ad formats (manager, adapter, GDT    *)
(* custom event and GDT SDK) are shown to implement this one.              *)
(***************************************************************************)

VARIABLES
    pending,  \* a load was requested and has not been answered yet
    io        \* the calls and callbacks between app and SDK in the last step

vars == <<pending, io>>

Answers == {"didLoad", "didFailToLoad"}

Init == pending = FALSE /\ io = {}

\* The app asks for an ad.
Ask ==
    /\ ~pending
    /\ pending' = TRUE
    /\ io' = {"load"}

\* The app asks while a load is under way: that load's answer will do.
AskAgain ==
    /\ pending
    /\ io' = {"load"}
    /\ UNCHANGED pending

\* The app asks for an ad that is already there.
AskForCached ==
    /\ io' = {"load", "didLoad"}
    /\ UNCHANGED pending

\* The outcome of the load under way: one answer, which settles it.
Answer ==
    /\ pending
    /\ pending' = FALSE
    /\ \E a \in Answers : io' = {a}

\* Whatever else happens is neither a request nor the outcome of one.
Other ==
    /\ io' \cap (Answers \cup {"load"}) = {}
    /\ UNCHANGED pending

Next == Ask \/ AskAgain \/ AskForCached \/ Answer \/ Other

\* Safety alone, and with the promise that a request does get its answer.
SafeSpec == Init /\ [][Next]_vars
Spec == SafeSpec /\ WF_vars(Answer)
=============================================================================

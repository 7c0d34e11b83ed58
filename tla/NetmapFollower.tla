--------------------------- MODULE NetmapFollower ---------------------------
(***************************************************************************)
(* What the trigger channel and the watcher of the collector promise       *)
(* together: the network map changes, and whoever follows it looks again   *)
(* after every change, however many changes one look covers and whatever   *)
(* the connection it learns of them by goes through.                       *)
(***************************************************************************)
EXTENDS Naturals

VARIABLES world,    \* number of the present netmap
          seen      \* number of the netmap last looked at, 0 before the first

vars == <<world, seen>>

Init == world = 1 /\ seen = 0

Change == world' = world + 1 /\ UNCHANGED seen

Look == seen < world /\ seen' = world /\ UNCHANGED world

Next == Change \/ Look

\* While a change has not been looked at, a look will come.
Spec == Init /\ [][Next]_vars /\ WF_vars(Look)
=============================================================================

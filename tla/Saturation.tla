------------------------------ MODULE Saturation ------------------------------
(***************************************************************************)
(* What a pass that iterates over bit sets promises to whoever calls it:   *)
(* in any order and in steps of any size it collects what belongs to the   *)
(* goal, gives nothing back, takes in nothing else, and returns when it    *)
(* has it all.  Nothing is said of how the graph is walked.  Where it is   *)
(* called again it starts with nothing, for another goal.                  *)
(***************************************************************************)
VARIABLES
  goal,   (* what is to be found; no call changes it          *)
  got,    (* what has been found so far                       *)
  done    (* the pass has returned                            *)

vars == <<goal, got, done>>

Init == got = {} /\ done = FALSE

Collect ==
  /\ ~done
  /\ got \subseteq got' /\ got' \subseteq goal
  /\ UNCHANGED <<goal, done>>

Finish ==
  /\ ~done
  /\ got = goal
  /\ done' = TRUE
  /\ UNCHANGED <<goal, got>>

Next == Collect \/ Finish

(* One call. *)
Spec == Init /\ [][Next]_vars

Again == done /\ ~done' /\ got' = {}

(* Any number of calls. *)
Calls == Init /\ [][Next \/ Again]_vars
=============================================================================

---------------------------- MODULE CanonicalReads ----------------------------
(***************************************************************************)
(* What the canonical block index promises its callers, with no index in   *)
(* sight.  A planner request asks for the canonical blocks of a window of  *)
(* slots; it is answered with exactly the blocks the ERA archive holds in  *)
(* that window, or it fails because a read of the archive failed.  An      *)
(* answer never depends on what other requests do.                         *)
(***************************************************************************)
EXTENDS Integers

CONSTANTS Requests,  \* the concurrent planner requests (HTTP handler goroutines)
          Blocks,    \* the slots at which the archive holds a canonical block
          Windows    \* the slot windows a request may ask for

VARIABLES status,    \* status[r]: "idle", "asked", "done" or "failed"
          window,    \* window[r]: the window r asked for
          answer     \* answer[r]: the blocks r was given

vars == <<status, window, answer>>

Init ==
  /\ status = [r \in Requests |-> "idle"]
  /\ window \in [Requests -> Windows]
  /\ answer = [r \in Requests |-> {}]

Ask(r, w) ==
  /\ status[r] # "asked"
  /\ status' = [status EXCEPT ![r] = "asked"]
  /\ window' = [window EXCEPT ![r] = w]
  /\ answer' = [answer EXCEPT ![r] = {}]

Answer(r) ==
  /\ status[r] = "asked"
  /\ status' = [status EXCEPT ![r] = "done"]
  /\ answer' = [answer EXCEPT ![r] = Blocks \cap (window[r].from .. window[r].to)]
  /\ UNCHANGED window

Fail(r) ==
  /\ status[r] = "asked"
  /\ status' = [status EXCEPT ![r] = "failed"]
  /\ UNCHANGED <<window, answer>>

Next == \E r \in Requests :
          \/ \E w \in Windows : Ask(r, w)
          \/ Answer(r)
          \/ Fail(r)

SafeSpec == Init /\ [][Next]_vars

(* Every request is answered or fails: nobody waits for ever. *)
Spec == SafeSpec /\ \A r \in Requests : WF_vars(Answer(r) \/ Fail(r))

=============================================================================

---------------------------- MODULE ControlService ----------------------------
(***************************************************************************)
(* What the control path promises to the sources that use it, without      *)
(* threads, locks or time: requests are refused or accepted; accepted ones *)
(* are served one at a time, in the order of their acceptance; each gets   *)
(* one report, and is let go only after the source has seen it; once the   *)
(* service closes, waiting requests may be reported Cancelled without      *)
(* being served; and it is stopped only when nothing accepted is left.     *)
(***************************************************************************)
EXTENDS Naturals, Sequences

CONSTANTS Request, Capacity, Status, Nobody

VARIABLES
  phase,     \* "new", "open", "closed" or "stopped"
  waiting,   \* accepted requests that are not being served, oldest first
  serving,   \* the request being served, or Nobody
  report     \* the status each request got, "refused", or "none"

vars == <<phase, waiting, serving, report>>

Init ==
  /\ phase = "new"
  /\ waiting = <<>>
  /\ serving = Nobody
  /\ report = [r \in Request |-> "none"]

Refuse(r) ==
  /\ report[r] = "none"
  /\ r # serving
  /\ \A i \in 1..Len(waiting) : waiting[i] # r
  /\ report' = [report EXCEPT ![r] = "refused"]
  /\ UNCHANGED <<phase, waiting, serving>>

Accept(r) ==
  /\ phase = "open"
  /\ report[r] = "none"
  /\ r # serving
  /\ \A i \in 1..Len(waiting) : waiting[i] # r
  /\ Len(waiting) < Capacity
  /\ waiting' = Append(waiting, r)
  /\ UNCHANGED <<phase, serving, report>>

(* The oldest waiting request, unless it already has its Cancelled report *)
Serve ==
  /\ phase \in {"open", "closed"}
  /\ serving = Nobody
  /\ waiting # <<>>
  /\ report[Head(waiting)] = "none"
  /\ serving' = Head(waiting)
  /\ waiting' = Tail(waiting)
  /\ UNCHANGED <<phase, report>>

(* The report of the served request.  Its source is done with it at once   *)
(* when it gave no callback, otherwise later, in LetGo.                    *)
Report(status) ==
  /\ serving # Nobody
  /\ report[serving] = "none"
  /\ report' = [report EXCEPT ![serving] = status]
  /\ serving' \in {serving, Nobody}
  /\ UNCHANGED <<phase, waiting>>

LetGo ==
  /\ serving # Nobody
  /\ report[serving] # "none"
  /\ serving' = Nobody
  /\ UNCHANGED <<phase, waiting, report>>

Cancel ==
  /\ phase = "closed"
  /\ waiting # <<>>
  /\ report[Head(waiting)] = "none"
  /\ report' = [report EXCEPT ![Head(waiting)] = "Cancelled"]
  /\ waiting' \in {waiting, Tail(waiting)}
  /\ UNCHANGED <<phase, serving>>

LetGoCancelled ==
  /\ waiting # <<>>
  /\ report[Head(waiting)] = "Cancelled"
  /\ waiting' = Tail(waiting)
  /\ UNCHANGED <<phase, serving, report>>

Open ==
  /\ phase = "new"
  /\ phase' = "open"
  /\ UNCHANGED <<waiting, serving, report>>

Close ==
  /\ phase \in {"new", "open"}
  /\ phase' = "closed"
  /\ UNCHANGED <<waiting, serving, report>>

Stop ==
  /\ phase = "closed"
  /\ waiting = <<>>
  /\ serving = Nobody
  /\ phase' = "stopped"
  /\ UNCHANGED <<waiting, serving, report>>

Next ==
  \/ \E r \in Request : Refuse(r) \/ Accept(r)
  \/ Serve \/ (\E status \in Status : Report(status)) \/ LetGo
  \/ Cancel \/ LetGoCancelled
  \/ Open \/ Close \/ Stop

Spec == Init /\ [][Next]_vars
=============================================================================

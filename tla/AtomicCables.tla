---------------------------- MODULE AtomicCables ----------------------------
(***************************************************************************)
(* What create_cable promises: cables are created one at a time.  A        *)
(* request is granted in one step that finds its identifier and both its   *)
(* ports free, and which adds its event.  log is in the order of these     *)
(* steps; the timestamps of overlapping requests may be in another.        *)
(***************************************************************************)
EXTENDS Sequences

CONSTANT Asks       \* what can be asked for: its ports fit, its route exists

VARIABLES
    granted,  \* what has been granted
    log       \* the identifiers of the cables, as they were created

vars == <<granted, log>>

Init == granted = {} /\ log = <<>>

Free(w) == \A v \in granted : v.cable # w.cable /\ {v.a, v.b} \cap {w.a, w.b} = {}

Grant(w) ==
    /\ Free(w)
    /\ granted' = granted \cup {w}
    /\ log' = Append(log, w.cable)

Next == \E w \in Asks : Grant(w)

Spec == Init /\ [][Next]_vars
=============================================================================

------------------------------ MODULE MCReads ------------------------------
(* A small instance of Connectivity with its readers, Trace and Reports: a *)
(* port of a switch, a port for fiber and two lanes of a patch panel.  Two *)
(* requests ask for cables that cross each other, share a port, have the   *)
(* wrong medium or a lost segment.  The cables make lines of up to five    *)
(* ports, more than MaxTraceNodes, and loops of two and of four ports.     *)
EXTENDS Trace, Reports, TLC

CONSTANTS q1, q2, p1, f1, r1, f2, r2, g1, c1, c2, s1, lost, room, mdf, building

MCRequests == {q1, q2}
MCPorts == {p1, f1, r1, f2, r2, g1}
MCPortMedia == [p \in MCPorts |-> IF p = g1 THEN "LC" ELSE "RJ45"]
MCMedia == {"Cat6A", "RJ45", "LC"}
MCCopper == {"Cat6A", "RJ45"}
MCFiber == {"LC"}
Lanes == { <<f1, r1>>, <<f2, r2>> }
MCCables == {c1, c2}
ByIdentifier == <<c1, c2>>
MCRoutes == { <<>>, <<s1>>, <<s1, lost>> }

MCLocations == {room, mdf, building}
MCParent == room :> building @@ mdf :> building @@ building :> None
MCPortLocation == [p \in MCPorts |-> IF p \in {f2, r2} THEN mdf ELSE room]

Ask(c, a, b, route) == [cable |-> c, media |-> "Cat6A", a |-> a, b |-> b, route |-> route]
MCWanted ==
    { Ask(c1, p1, f1, <<s1>>), Ask(c2, f1, p1, <<>>), Ask(c1, f1, f2, <<>>),
      Ask(c2, r1, r2, <<s1>>), Ask(c2, f1, r1, <<>>), Ask(c1, p1, g1, <<>>),
      Ask(c2, r1, r2, <<s1, lost>>) }

----------------------------------------------------------------------------
(* One reader runs at a time: none changes what another one reads.  Traces *)
(* see nothing of labels and work and run before there is any, beside both *)
(* requests; reports run beside one, and only c1 gets labels.              *)

ReadsInit == TraceInit /\ ReportsInit

ReadsNext ==
    \/ /\ ReportsNext
       /\ UNCHANGED trace /\ trace.at = "idle"
       /\ req[q2] = Idle /\ req'[q2] = Idle /\ labels' \subseteq {c1}
    \/ TraceNext /\ UNCHANGED reportVars /\ ReportsInit

allReads == <<allVars, reportVars>>

Continue(r) == Progress(r) /\ UNCHANGED <<trace, status, labels, report>> /\ Remember

ReadsSpec ==
    /\ ReadsInit /\ [][ReadsNext]_allReads
    /\ WF_allReads((Expand \/ Answer) /\ UNCHANGED reportVars)
    /\ \A r \in Requests : SF_allReads(Continue(r))
=============================================================================

-------------------------- MODULE MCRackPlacement --------------------------
(* Small instances of RackPlacement: racks of a few units, and blueprints  *)
(* like those of the seed data beside the ones that can go wrong.          *)
EXTENDS RackPlacement, TLC

CONSTANTS p, q, channel

MCPrefixes == {p, q}
MCKeys == {channel}

Entry(count, prefix, start, face, key) ==
    [count |-> count, prefix |-> prefix, start |-> start, face |-> face, key |-> key]

(* The patch panel of seed.py: front and rear ports on one key.            *)
Panel == << Entry(2, p, 1, "front", channel), Entry(2, q, 1, "rear", channel) >>
(* The switch of seed.py: front ports, no key.                             *)
Switch == << Entry(2, p, 1, "front", None) >>
(* Rows out of order, fewer rear ports than front ports, a face that takes *)
(* no part in a mapping.                                                   *)
Uneven == << Entry(1, p, 3, "front", channel), Entry(2, p, 0, "front", channel),
             Entry(2, q, 5, "rear", channel), Entry(1, q, 1, "side", channel) >>
(* Two rows of equal numbers on one face: the sort has ties.               *)
Ties == << Entry(2, q, 1, "rear", channel), Entry(1, p, 1, "front", channel),
           Entry(1, q, 3, "front", channel), Entry(1, p, 3, "front", channel) >>
(* Two rows that both name port p2.                                        *)
Clash == << Entry(2, p, 1, "front", None), Entry(1, p, 2, "rear", None) >>

OneBlueprint == {Switch}
AllBlueprints == {<<>>, Panel, Switch, Uneven, Ties, Clash}

(* Any blueprint has a template of its own, and only switches come in two  *)
(* sizes at once.                                                          *)
OneOfAKind ==
    \A s, t \in Templates :
        s # t /\ Designed(s) /\ Designed(t) => templates[s].blueprint = Switch
MCSpec == Init /\ [][Next /\ OneOfAKind']_vars

MCSymmetry == Permutations(Requests) \cup Permutations(Identifiers)
                 \cup Permutations(Templates)

=============================================================================

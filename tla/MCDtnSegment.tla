---------------------------- MODULE MCDtnSegment ----------------------------
(* Small instances of DtnSegment.                                          *)
EXTENDS DtnProperties

Contact(s, e) == [start |-> s, end |-> e]
(* Compressed by 2, halves to even: contacts 0-1, 2-3 and 4-5, with gaps   *)
(* of a second, and contacts 0-1 and 4-6, with a gap as long as the longer *)
(* lifetime.                                                               *)
MCPlans == {<<Contact(7, 9), Contact(12, 13), Contact(15, 17)>>,
            <<Contact(0, 2), Contact(9, 11)>>}
MCLifetimes == <<1, 3>>
MCPlanLifetimes == <<1, 5>>
=============================================================================

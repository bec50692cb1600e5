----------------------------- MODULE MCEtwJoin -----------------------------
(* Small games for EtwJoin, each with a bound of its own on what happens.  *)
EXTENDS EtwJoin

CONSTANTS addr1, addr2

MCAddrs == {addr1, addr2}
Quiet(kinds, addrs) == [kinds |-> kinds, addrs |-> addrs, reports |-> 0,
                        moves |-> 0, lost |-> 0, exits |-> 0]

HeapMoves == [Quiet(<<"heap", "placed">>, {addr1, addr2}) EXCEPT !.moves = 2]
Exits     == [Quiet(<<"committed">>, {addr1}) EXCEPT !.moves = 2, !.exits = 1]
Rundown   == [Quiet(<<"committed", "committed">>, {addr1}) EXCEPT !.reports = 1, !.moves = 1]
Lingers   == [Quiet(<<"pso", "pso">>, {addr1}) EXCEPT !.reports = 1]
Internal  == Quiet(<<"internal", "committed", "heap">>, {addr1})
Loses     == [Quiet(<<"heap", "committed">>, {addr1}) EXCEPT !.lost = 1, !.reports = 1]

MCPlans == {HeapMoves, Exits, Rundown, Lingers, Internal, Loses}
ReusePlan == {Quiet(<<"committed", "committed">>, {addr1})}
=============================================================================

------------------------------ MODULE MCBracket ------------------------------
(* Small tournaments of each format; see Engine.cfg. *)
EXTENDS BracketPlay

SE(seeds)      == [format |-> "single_elimination", seeds |-> seeds, rounds |-> 0,
                   outcomes |-> {"A", "B", "Draw", "Void"}]
RR(seeds, os)  == [format |-> "round_robin", seeds |-> seeds, rounds |-> 0, outcomes |-> os]
SW(seeds, r, os) == [format |-> "swiss", seeds |-> seeds, rounds |-> r, outcomes |-> os]

MCDraws ==
    { SE(<<1, 2>>), SE(<<2, 1, 3>>), SE(<<1, 2, 3, 4>>), SE(<<4, 2, 2, 1>>),
      SE(<<3, 1, 4, 2, 5>>), SE(<<1, 2, 3, 4, 5, 6>>),
      RR(<<1, 2>>, Outcomes), RR(<<1, 2, 3>>, Outcomes), RR(<<1, 2, 3, 4>>, {"A", "B", "Draw"}),
      SW(<<1, 2>>, 3, Outcomes), SW(<<1, 2, 3>>, 3, Outcomes),
      SW(<<2, 1, 3, 4>>, 3, {"A", "B", "Draw"}), SW(<<1, 2, 3, 4, 5>>, 2, Outcomes),
      SW(<<1, 2, 3, 4, 5, 6>>, 2, {"A", "B"}) }
=============================================================================

------------------------------ MODULE MCArena ------------------------------
EXTENDS Arena

\* Two players, one of them on two devices.
MCPages == {"a1", "a2", "b1"}
MCWallets == {"a", "b"}
MCWalletOf == [p \in MCPages |-> IF p = "b1" THEN "b" ELSE "a"]

Plan(open, start, moves, failures, losses, detours) ==
  [open |-> open, start |-> start,
   budget |-> [moves |-> moves, failures |-> failures, losses |-> losses,
               detours |-> detours]]
MCScenarios == {Plan({"a1", "b1"}, "idle", 3, 0, 0, 0),
                Plan({"a1", "b1"}, "paired", 2, 0, 0, 0),
                Plan({"a1", "b1"}, "queued", 0, 1, 0, 0),
                Plan({"a1"}, "idle", 2, 1, 0, 0),
                Plan({"a1"}, "queued", 2, 1, 0, 0),
                Plan({"a1"}, "idle", 2, 0, 1, 0),
                Plan({"a1"}, "idle", 3, 0, 0, 1),
                Plan({"a1", "a2"}, "idle", 2, 0, 0, 0),
                Plan({"a1", "a2"}, "queued", 1, 1, 0, 0)}
=============================================================================

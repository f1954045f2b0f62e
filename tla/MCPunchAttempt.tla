--------------------------- MODULE MCPunchAttempt ---------------------------
(* The instance of PunchAttempt that TLC checks. *)
EXTENDS PunchAttempt

At(portA, portB) == <<Endpoint("public", portA), Endpoint("public", portB)>>

\* Every behaviour; steps up and down, and predictions on both sides of the
\* first and of the last port.
MCMappings ==
    {At(40000, 40000), At(2000, 1), At(5, 3), At(65530, 65532), At(65531, 65534),
     <<Endpoint("public", 40000), Endpoint("other", 40000)>>,
     <<Endpoint("public", 40000), Endpoint(NoIpv4, 40000)>>}

\* The balanced profile, with waves and a budget that are short.
MCPolicy ==
    [n \in 1 .. 2 |->
        [BalancedPolicy(n) EXCEPT !.maximumRangeSpan = 2, !.minimumWaveInterval = 2,
                                  !.datagramBudget = 7, !.randomReceiverSockets = 2,
                                  !.randomTargets = 6, !.randomPortInterval = 1,
                                  !.batchSize = 2, !.batchInterval = 1]]

MCDraws == {[start |-> 1, step |-> 0], [start |-> 3, step |-> 2]}
=============================================================================

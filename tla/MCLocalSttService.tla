------------------------- MODULE MCLocalSttService -------------------------
(* LocalSttService on small instances: scenarios, that is configurations     *)
(* with what may happen under each.                                          *)
EXTENDS LocalSttService

Scenario(policy, reconnect, maxQueue, aggregation, preRoll,
         frames, breaks, chatter, cancels, shutdown) ==
    [config |-> [policy |-> policy, reconnect |-> reconnect, maxQueue |-> maxQueue,
                 aggregation |-> aggregation, preRoll |-> preRoll],
     allows |-> [frames |-> frames, breaks |-> breaks, chatter |-> chatter,
                 cancels |-> cancels, shutdown |-> shutdown]]

\* A full queue drops its oldest chunk; a cancel at any moment.
Drop == Scenario("drop_oldest", FALSE, 1, 1, 1, 2, 1, 1, 1, {})
\* The end of the stream and the end of the pipeline at the same time.
ShutDown == Scenario("drop_oldest", FALSE, 1, 2, 1, 1, 1, 0, 0, {"stop", "cleanup"})
\* A full queue is an error; room for several chunks.
Raise3 == Scenario("raise", FALSE, 2, 1, 2, 3, 1, 1, 0, {})
\* A full queue holds the pipeline up; the pre-roll alone is larger than it.
Block == Scenario("block", FALSE, 1, 1, 2, 3, 1, 0, 0, {})
\* Any task may reconnect.
Reconnects == Scenario("drop_oldest", TRUE, 1, 1, 1, 1, 1, 0, 0, {})

AllScenarios == {Drop, ShutDown, Raise3, Block, Reconnects}
\* A cancel while the connection breaks; the end of the pipeline at any moment.
LiveScenarios == {Scenario("drop_oldest", FALSE, 1, 2, 1, 2, 1, 0, 1, {}),
                  Scenario("drop_oldest", FALSE, 1, 1, 0, 1, 0, 0, 0, {"cleanup"})}
\* A finalize whose own last chunk has to wait for room in the queue.
BlockedFlush == {Scenario("block", FALSE, 2, 2, 0, 3, 1, 0, 0, {})}
\* A server that may send a ping, over a connection that then breaks.
PingedReconnect == {Scenario("drop_oldest", TRUE, 1, 1, 1, 1, 1, 1, 0, {})}
=============================================================================

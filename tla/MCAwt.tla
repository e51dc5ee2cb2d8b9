-------------------------------- MODULE MCAwt ---------------------------------
(* A small desktop.  Scenarios: input until the outbox sheds; a JVM that    *)
(* paints at a size of its own while a button is down; a resize under       *)
(* frames; a resize under input.                                            *)
EXTENDS AwtHost

MCReleaseOrder == <<"left", "shift">>

Scenario(d, v, i, f, r) == [desktop |-> d, view |-> v, inputs |-> i, frames |-> f, resizes |-> r]

MCScenarios == {Scenario(2, 2, 3, 0, 0), Scenario(2, 3, 1, 1, 0), Scenario(3, 3, 0, 2, 1),
                Scenario(2, 2, 2, 0, 1)}
===============================================================================

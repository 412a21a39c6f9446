----------------------------- MODULE MCProfiler -----------------------------
(***************************************************************************)
(* Two functions at 12 and 14 of a program loaded at 10: relative to it    *)
(* they are 2 and 4, which share a chain of the two chains of the table.   *)
(***************************************************************************)
EXTENDS Profiler

Line(addr_, name) == [addr |-> addr_, name |-> name]

MCNmFiles == {
    <<Line(4, "g"), Line(-1, "undefined"), Line(2, "f"), Line(6, "h")>>,
    <<Line(2, "f"), Line(2, "f_alias"), Line(-1, "undefined"), Line(3, "k")>>,
    <<Line(2, "f"), Line(100, "far")>> }

\* The enclave's log, cut inside the fifth record, and the application's.
MCTargets == {[recs |-> 4, cut |-> TRUE], [recs |-> 7, cut |-> FALSE]}

=============================================================================

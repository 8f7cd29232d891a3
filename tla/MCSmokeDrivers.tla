--------------------------- MODULE MCSmokeDrivers ---------------------------
(* The lists of MCFoldDriver; the other drivers follow on those of one file. *)
EXTENDS SmokeDrivers

MCWtnsLists ==
    {<<a>> : a \in Good \cup Faults} \cup {<<a, b>> : a, b \in Good \cup Faults}
      \cup {<<"w0", "w1", "w0">>}
MCStepCounts == {0, 1, 3}
MCRLens == {None, 26}
MCBoundaryOffset(probe) == probe.limbs + 7 * probe.accumulator.child_count
=============================================================================

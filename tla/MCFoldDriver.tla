---------------------------- MODULE MCFoldDriver ----------------------------
(* Every list of one or two files of every kind, and a chain of three. *)
EXTENDS FoldDriver

MCWtnsLists ==
    {<<a>> : a \in Good \cup Faults} \cup {<<a, b>> : a, b \in Good \cup Faults}
      \cup {<<"w0", "w1", "w0">>}
MCStepCounts == {0, 1, 3}
MCRLens == {None, 26}
MCBoundaryOffset(probe) == probe.limbs + 7 * probe.accumulator.child_count
=============================================================================

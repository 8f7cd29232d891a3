------------------------------ MODULE FoldDriver ------------------------------
(***************************************************************************)
(* rfp_smoke_full, from its arguments to its verdict, with the step plan   *)
(* (step.rs), the chain orchestrator (chain.rs) and the finisher           *)
(* (finisher.rs) it calls.  The folding library (neo-fold-clean) is        *)
(* outside the repository and is modelled from how these files use it: an  *)
(* append beyond the first fails with PostParentShapeMismatch unless the   *)
(* plan has the accumulator and the parent shape of the step circuit, and  *)
(* compress fails as long as there is no decider; any call may fail.       *)
(***************************************************************************)
EXTENDS StepPlan

CONSTANTS
    M, M_IN,      \* wires and public inputs of the --r1cs file
    WtnsLists,    \* the --wtns arguments tried: sequences of kinds of file
    StepCounts,   \* the values of --n-steps tried
    NEEDED_R_LEN, \* r_len of the step circuit (26 for an HT layer)
    RLens         \* the values of --r-len tried, None for no --r-len

\* What is wrong with a file, if anything: two good witnesses, and each fault.
Good   == {"w0", "w1"}
Faults == {"unparsable", "other width", "other field", "unsatisfying"}

ASSUME InputAssumption ==
    /\ WtnsLists \subseteq Seq(Good \cup Faults) \ {<< >>}
    /\ StepCounts \subseteq Nat
    /\ RLens \subseteq Nat \cup {None} /\ None \notin {"pass", "parent shape"}
    /\ M \in Nat /\ M_IN \in Nat /\ NEEDED_R_LEN \in Nat

VARIABLES
    pc,
    args,       \* [wtns, n_steps, profile, r_len, close]
    r1cs,       \* what the --r1cs file is: "fine", "unparsable", "other field"
    decider,    \* the folding library has a decider (not at the pinned commit)
    steps,      \* effective_steps
    opts,       \* the plan options
    plan,       \* what build_plan made of them
    witnesses,  \* what is handed to the chain
    chain,      \* the witnesses appended so far
    verified,   \* the artifacts verified: "uncompressed", "compressed"
    status      \* None while running, "pass", or why it stopped

vars == <<pc, args, r1cs, decider, steps, opts, plan, witnesses, chain, verified, status>>

Args == [wtns : WtnsLists, n_steps : StepCounts, profile : {"auto", "smoke", "production"},
         r_len : RLens, close : BOOLEAN]

Init ==
    /\ pc = "args"
    /\ args \in Args
    /\ r1cs \in {"fine", "unparsable", "other field"}
    /\ decider \in BOOLEAN
    /\ steps = None /\ opts = None /\ plan = None
    /\ witnesses = << >> /\ chain = << >>
    /\ verified = {} /\ status = None

Some(kind) == \E k \in DOMAIN args.wtns : args.wtns[k] = kind
multi_witness == Len(args.wtns) > 1

Go(where) == pc' = where /\ UNCHANGED status
Stop(why) == pc' = "exit" /\ status' = why

(***************************************************************************)
(* --n-steps 0 is refused before anything is read; then the step count.    *)
(***************************************************************************)
effective_steps == IF multi_witness THEN Len(args.wtns) ELSE args.n_steps

CheckArgs ==
    /\ pc = "args"
    /\ \/ args.n_steps = 0 /\ Stop("n_steps is 0") /\ UNCHANGED steps
       \/ args.n_steps # 0 /\ Go("parse") /\ steps' = effective_steps
    /\ UNCHANGED <<args, r1cs, decider, opts, plan, witnesses, chain, verified>>

Stays == UNCHANGED <<args, r1cs, decider, steps, opts, plan, witnesses, chain, verified>>

\* All witnesses are parsed, lifted and checked before any is folded.
Parse ==
    /\ pc = "parse"
    /\ IF r1cs = "unparsable" \/ Some("unparsable") THEN Stop("parse") ELSE Go("wires")
    /\ Stays

CheckWires ==
    /\ pc = "wires"
    /\ IF Some("other width") THEN Stop("wire count") ELSE Go("lift")
    /\ Stays

\* The witnesses are lifted before the matrices.
Lift ==
    /\ pc = "lift"
    /\ \/ Some("other field") /\ Stop("witness field")
       \/ ~Some("other field") /\ r1cs = "other field" /\ Stop("r1cs field")
       \/ ~Some("other field") /\ r1cs # "other field" /\ (Stop("shape") \/ Go("satisfied"))
    /\ Stays

\* Faulty: only the first witness is checked.
FaultyCheckSatisfied ==
    /\ pc = "satisfied"
    /\ IF args.wtns[1] = "unsatisfying" THEN Stop("not satisfied") ELSE Go("plan")
    /\ Stays

CheckSatisfied ==
    /\ pc = "satisfied"
    /\ IF Some("unsatisfying") THEN Stop("not satisfied") ELSE Go("plan")
    /\ Stays

(***************************************************************************)
(* The profile, auto by the step count; --r-len overrides its r_len and    *)
(* its s_col_len, and build_plan.                                          *)
(***************************************************************************)
profile ==
    IF args.profile # "auto" THEN args.profile
    ELSE IF steps = 1 THEN "smoke" ELSE "production"

\* Faulty: --r-len leaves s_col_len as it was.
FaultyOverride(preset) == IF args.r_len = None THEN preset ELSE [preset EXCEPT !.r_len = args.r_len]

Override(preset) ==
    IF args.r_len = None THEN preset
    ELSE [preset EXCEPT !.r_len = args.r_len, !.s_col_len = args.r_len]

ChoosePlan ==
    /\ pc = "plan"
    /\ opts' = Override(IF profile = "smoke" THEN smoke ELSE production_multistep)
    /\ plan' = build_plan(M, M_IN, opts')
    /\ Go("preprocess")
    /\ UNCHANGED <<args, r1cs, decider, steps, witnesses, chain, verified>>

Preprocess ==
    /\ pc = "preprocess"
    /\ \/ /\ Go("append")
          /\ witnesses' = IF multi_witness THEN args.wtns
                          ELSE [k \in 1 .. args.n_steps |-> args.wtns[1]]
       \/ Stop("preprocess") /\ UNCHANGED witnesses
    /\ UNCHANGED <<args, r1cs, decider, steps, opts, plan, chain, verified>>

(***************************************************************************)
(* build_and_append: one append per witness, in order.                     *)
(***************************************************************************)
\* The claim that a step of the circuit leaves to the next one.
ClaimShape ==
    CeShape([production_multistep EXCEPT !.r_len = NEEDED_R_LEN, !.s_col_len = NEEDED_R_LEN])

ShapeFits ==
    chain = << >> \/ (plan.accumulator.child_count = 14 /\ plan.ce_claim = ClaimShape)

\* Faulty: the first witness is folded again and again.
FaultyAppendAssignment ==
    /\ pc = "append" /\ Len(chain) < Len(witnesses)
    /\ \/ ShapeFits /\ chain' = Append(chain, witnesses[1]) /\ UNCHANGED <<pc, status>>
       \/ ~ShapeFits /\ Stop("parent shape") /\ UNCHANGED chain
       \/ Stop("append") /\ UNCHANGED chain
    /\ UNCHANGED <<args, r1cs, decider, steps, opts, plan, witnesses, verified>>

AppendAssignment ==
    /\ pc = "append" /\ Len(chain) < Len(witnesses)
    /\ \/ ShapeFits /\ chain' = Append(chain, witnesses[Len(chain) + 1]) /\ UNCHANGED <<pc, status>>
       \/ ~ShapeFits /\ Stop("parent shape") /\ UNCHANGED chain
       \/ Stop("append") /\ UNCHANGED chain
    /\ UNCHANGED <<args, r1cs, decider, steps, opts, plan, witnesses, verified>>

\* finish for run_chain, finish_with_audit and compress for close_chain.
Close ==
    /\ pc = "append" /\ Len(chain) = Len(witnesses)
    /\ \/ Stop("finish")
       \/ args.close /\ ~decider /\ Stop("compress unsupported")
       \/ (args.close => decider) /\ Go("verify")
    /\ Stays

Verify ==
    /\ pc = "verify"
    /\ \/ /\ verified' = verified \cup {IF args.close THEN "compressed" ELSE "uncompressed"}
          /\ Stop("pass")
       \/ Stop("not verified") /\ UNCHANGED verified
    /\ UNCHANGED <<args, r1cs, decider, steps, opts, plan, witnesses, chain>>

Finished == pc = "exit" /\ UNCHANGED vars

Next ==
    \/ CheckArgs \/ Parse \/ CheckWires \/ Lift \/ CheckSatisfied
    \/ ChoosePlan \/ Preprocess \/ AppendAssignment \/ Close \/ Verify
    \/ Finished

Spec == Init /\ [][Next]_vars
-----------------------------------------------------------------------------
(***************************************************************************)
(* PASS is printed only when the chain that was verified holds every       *)
(* witness file once and in order, or the one witness --n-steps times, and *)
(* nothing was wrong with any of them.                                     *)
(***************************************************************************)
PassMeansWholeChain ==
    status = "pass" =>
        /\ \A k \in DOMAIN args.wtns : args.wtns[k] \in Good
        /\ IF multi_witness THEN chain = args.wtns
           ELSE /\ Len(chain) = args.n_steps
                /\ \A k \in DOMAIN chain : chain[k] = args.wtns[1]
        /\ verified # {}

(***************************************************************************)
(* No witness is folded while another one of the list is unchecked, so a   *)
(* bad file never costs a partial fold.                                    *)
(***************************************************************************)
CheckedBeforeFolded ==
    chain # << >> => r1cs = "fine" /\ \A k \in DOMAIN args.wtns : args.wtns[k] \in Good

(***************************************************************************)
(* The auto profile never picks the single-step accumulator for a chain    *)
(* that has a second step: with auto, only a wrong r_len stops an append.  *)
(***************************************************************************)
AutoPlanFits ==
    status = "parent shape" /\ args.profile = "auto" =>
        opts.child_count = 14 /\ opts.r_len # NEEDED_R_LEN

(***************************************************************************)
(* What the documentation says of --close: it runs the compress path "in   *)
(* addition to the Uncompressed accumulator verify", so a chain that was   *)
(* folded to its end has been verified in that form too.                   *)
(***************************************************************************)
CloseAlsoVerifiesUncompressed ==
    status \in {"pass", "compress unsupported"} => "uncompressed" \in verified
=============================================================================

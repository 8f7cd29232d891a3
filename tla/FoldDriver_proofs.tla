--------------------------- MODULE FoldDriver_proofs ---------------------------
(***************************************************************************)
(* For every list of witnesses and all flags: what rfp_smoke_full may have *)
(* folded at any point, what PASS means, and why the auto profile fits.    *)
(* The inductive invariant is what each stage knows of the files and of    *)
(* the plan it was handed.  Then the two smaller drivers on the same       *)
(* files: they refuse what it refuses, and build the plan it builds.       *)
(***************************************************************************)
EXTENDS SmokeDrivers, SequenceTheorems, TLAPS

Kinds == Good \cup Faults

\* The stages, from the one after each check on.
FromAppend == {"append", "verify"}
FromPlan   == {"plan", "preprocess"} \cup FromAppend
FromSat    == {"satisfied"} \cup FromPlan
FromLift   == {"lift"} \cup FromSat
FromWires  == {"wires"} \cup FromLift
Stages     == {"args", "parse", "exit"} \cup FromWires

Clean == r1cs = "fine" /\ \A k \in DOMAIN args.wtns : args.wtns[k] \in Good

Handed == IF multi_witness THEN args.wtns ELSE [k \in 1 .. args.n_steps |-> args.wtns[1]]

\* chain is a prefix of the witnesses that were handed over.
Prefix ==
    /\ Len(chain) <= Len(witnesses)
    /\ \A k \in 1 .. Len(chain) : chain[k] = witnesses[k]

TypeInv ==
    /\ pc \in Stages
    /\ args \in Args
    /\ r1cs \in {"fine", "unparsable", "other field"}
    /\ witnesses \in Seq(Kinds) /\ chain \in Seq(Kinds)

FilesInv ==
    /\ pc \in FromWires => r1cs # "unparsable" /\ ~Some("unparsable")
    /\ pc \in FromLift => ~Some("other width")
    /\ pc \in FromSat => r1cs # "other field" /\ ~Some("other field")
    /\ pc \in FromPlan => ~Some("unsatisfying")

StepsInv ==
    /\ pc \in {"parse"} \cup FromWires => args.n_steps # 0 /\ steps = effective_steps

PlanInv ==
    pc \in {"preprocess"} \cup FromAppend =>
        /\ opts = Override(IF profile = "smoke" THEN smoke ELSE production_multistep)
        /\ plan = build_plan(M, M_IN, opts)

ChainInv ==
    /\ pc \in FromAppend => witnesses = Handed /\ Prefix
    /\ pc = "verify" => Len(chain) = Len(witnesses)
    /\ pc \notin FromAppend \cup {"exit"} => chain = << >>

StatusInv == pc # "exit" => status = None

IInv ==
    /\ TypeInv /\ FilesInv /\ StepsInv /\ PlanInv /\ ChainInv /\ StatusInv
    /\ PassMeansWholeChain /\ CheckedBeforeFolded /\ AutoPlanFits

USE DEF Go, Stop, Stays
-----------------------------------------------------------------------------
(***************************************************************************)
(* Every witness is one of the kinds a file can be, so one that is none of *)
(* the faults is good.                                                     *)
(***************************************************************************)
LEMMA NoFaultIsGood ==
    ASSUME args \in Args,
           ~Some("unparsable"), ~Some("other width"), ~Some("other field"), ~Some("unsatisfying")
    PROVE  \A k \in DOMAIN args.wtns : args.wtns[k] \in Good
<1>1. args.wtns \in Seq(Kinds)
  BY InputAssumption DEF Args, Kinds
<1>2. ASSUME NEW k \in DOMAIN args.wtns PROVE args.wtns[k] \in Kinds
  BY <1>1, LenProperties, ElementOfSeq
<1>. QED
  BY <1>2 DEF Some, Kinds, Faults

(***************************************************************************)
(* The list handed to the chain: a sequence of kinds, one for each step.   *)
(***************************************************************************)
LEMMA HandedType ==
    ASSUME args \in Args, args.n_steps # 0
    PROVE  /\ Handed \in Seq(Kinds)
           /\ Len(Handed) = effective_steps
           /\ args.wtns \in Seq(Kinds)
           /\ Len(args.wtns) >= 1
<1>1. /\ args.wtns \in Seq(Kinds) /\ args.wtns # << >>
      /\ args.n_steps \in Nat
  BY InputAssumption DEF Args, Kinds
<1>2. Len(args.wtns) \in Nat /\ Len(args.wtns) >= 1
  BY <1>1
<1>3. args.wtns[1] \in Kinds
  BY <1>1, <1>2
<1>4. CASE multi_witness
  BY <1>1, <1>2, <1>4 DEF Handed, effective_steps
<1>5. CASE ~multi_witness
  <2>1. Handed = [k \in 1 .. args.n_steps |-> args.wtns[1]] /\ effective_steps = args.n_steps
    BY <1>5 DEF Handed, effective_steps
  <2>2. Handed \in Seq(Kinds) /\ Len(Handed) = args.n_steps
    BY <2>1, <1>1, <1>3
  <2>. QED
    BY <2>1, <2>2, <1>1, <1>2
<1>. QED
  BY <1>4, <1>5

(***************************************************************************)
(* The production plan with the step circuit's r_len has the parent shape  *)
(* the next step expects.                                                  *)
(***************************************************************************)
LEMMA ProductionFits ==
    ASSUME args.r_len = None \/ args.r_len \in Nat,
           NEW o, o = Override(production_multistep)
    PROVE  /\ o.child_count = 14
           /\ o.r_len = NEEDED_R_LEN => CeShape(o) = ClaimShape
<1>1. CASE args.r_len = None
  BY <1>1 DEF Override, production_multistep, CeShape, ClaimShape
<1>2. CASE args.r_len # None
  BY <1>2 DEF Override, production_multistep, CeShape, ClaimShape
<1>. QED
  BY <1>1, <1>2

LEMMA PlanFields ==
    ASSUME NEW o
    PROVE  /\ build_plan(M, M_IN, o).accumulator.child_count = o.child_count
           /\ build_plan(M, M_IN, o).ce_claim = CeShape(o)
<1>. DEFINE probe == [limbs |-> M * POSEIDON2_GOLDILOCKS_BITS + 1, boundary_bits |-> BOUNDARY_BITS,
                      ce_claim |-> CeShape(o),
                      accumulator |-> [c_data_entries |-> o.c_data_entries, child_count |-> o.child_count],
                      state_x_out |-> None]
<1>1. build_plan(M, M_IN, o) = WithOutput(probe, M_IN)
  BY DEF build_plan
<1>2. /\ "ce_claim" \in DOMAIN probe /\ "accumulator" \in DOMAIN probe
      /\ probe.ce_claim = CeShape(o) /\ probe.accumulator.child_count = o.child_count
  OBVIOUS
<1>. HIDE DEF probe
<1>3. ASSUME NEW v
      PROVE  /\ [probe EXCEPT !.state_x_out = v].ce_claim = probe.ce_claim
             /\ [probe EXCEPT !.state_x_out = v].accumulator = probe.accumulator
  BY <1>2
<1>. QED
  BY <1>1, <1>2, <1>3 DEF WithOutput
-----------------------------------------------------------------------------
LEMMA NoneIsNoStatus == None # "pass" /\ None # "parent shape"
  BY InputAssumption

LEMMA InitInv == Init => IInv
<1>. SUFFICES ASSUME Init PROVE IInv
  OBVIOUS
<1>1. TypeInv
  <2>1. witnesses \in Seq(Kinds) /\ chain \in Seq(Kinds)
    BY EmptySeq DEF Init
  <2>. QED
    BY <2>1 DEF Init, TypeInv, Stages
<1>2. FilesInv /\ StepsInv /\ PlanInv /\ ChainInv /\ StatusInv
  BY DEF Init, FilesInv, StepsInv, PlanInv, ChainInv, StatusInv,
         FromAppend, FromPlan, FromSat, FromLift, FromWires
<1>3. PassMeansWholeChain /\ CheckedBeforeFolded /\ AutoPlanFits
  <2>1. status = None /\ chain = << >>
    BY DEF Init
  <2>. QED
    BY <2>1, NoneIsNoStatus DEF PassMeansWholeChain, CheckedBeforeFolded, AutoPlanFits
<1>. QED
  BY <1>1, <1>2, <1>3 DEF IInv

(***************************************************************************)
(* The stages before the fold: nothing is appended, and a status other     *)
(* than the two that the properties are about ends the program.            *)
(***************************************************************************)
LEMMA Unfolded ==
    ASSUME IInv, chain = << >>, chain' = chain,
           status' = status \/ status' \notin {"pass", "parent shape"},
           pc # "exit"
    PROVE  PassMeansWholeChain' /\ CheckedBeforeFolded' /\ AutoPlanFits'
<1>1. status' \notin {"pass", "parent shape"}
  BY NoneIsNoStatus DEF IInv, StatusInv
<1>. QED
  BY <1>1 DEF PassMeansWholeChain, CheckedBeforeFolded, AutoPlanFits

USE DEF FromAppend, FromPlan, FromSat, FromLift, FromWires

LEMMA EarlyStep ==
    ASSUME IInv, CheckArgs \/ Parse \/ CheckWires \/ Lift \/ CheckSatisfied \/ ChoosePlan
    PROVE  IInv'
<1>1. pc \in {"args", "parse", "wires", "lift", "satisfied", "plan"}
  BY DEF CheckArgs, Parse, CheckWires, Lift, CheckSatisfied, ChoosePlan
<1>2. chain = << >> /\ chain' = chain /\ witnesses' = witnesses /\ args' = args /\ r1cs' = r1cs
  BY <1>1 DEF CheckArgs, Parse, CheckWires, Lift, CheckSatisfied, ChoosePlan, IInv, ChainInv
<1>3. TypeInv'
  BY <1>1, <1>2 DEF CheckArgs, Parse, CheckWires, Lift, CheckSatisfied, ChoosePlan, IInv, TypeInv, Stages
<1>4. FilesInv'
  BY <1>1, <1>2 DEF CheckArgs, Parse, CheckWires, Lift, CheckSatisfied, ChoosePlan, IInv, FilesInv, Some
<1>5. StepsInv'
  BY <1>1, <1>2 DEF CheckArgs, Parse, CheckWires, Lift, CheckSatisfied, ChoosePlan, IInv, StepsInv,
                    effective_steps, multi_witness
<1>6. PlanInv'
  <2>1. CASE ChoosePlan
    BY <2>1 DEF ChoosePlan, PlanInv, Override, profile
  <2>2. CASE ~ChoosePlan
    BY <1>1, <2>2 DEF CheckArgs, Parse, CheckWires, Lift, CheckSatisfied, PlanInv
  <2>. QED
    BY <2>1, <2>2
<1>7. ChainInv'
  BY <1>1, <1>2 DEF CheckArgs, Parse, CheckWires, Lift, CheckSatisfied, ChoosePlan, ChainInv
<1>8. StatusInv'
  BY <1>1 DEF CheckArgs, Parse, CheckWires, Lift, CheckSatisfied, ChoosePlan, IInv, StatusInv
<1>9. PassMeansWholeChain' /\ CheckedBeforeFolded' /\ AutoPlanFits'
  <2>1. status' = status \/ status' \notin {"pass", "parent shape"}
    BY DEF CheckArgs, Parse, CheckWires, Lift, CheckSatisfied, ChoosePlan
  <2>. QED
    BY <1>1, <1>2, <2>1, Unfolded
<1>. QED
  BY <1>3, <1>4, <1>5, <1>6, <1>7, <1>8, <1>9 DEF IInv

LEMMA PreprocessStep == ASSUME IInv, Preprocess PROVE IInv'
<1>1. pc = "preprocess" /\ chain = << >> /\ chain' = chain /\ UNCHANGED <<args, r1cs, steps, opts, plan>>
  BY DEF Preprocess, IInv, ChainInv
<1>2. args \in Args /\ args.n_steps # 0
  BY <1>1 DEF IInv, TypeInv, StepsInv
<1>3. \/ pc' = "append" /\ witnesses' = Handed /\ status' = status
      \/ pc' = "exit" /\ witnesses' = witnesses /\ status' = "preprocess"
  BY DEF Preprocess, Handed
<1>4. Handed' = Handed
  BY <1>1 DEF Handed, multi_witness
<1>5. TypeInv'
  BY <1>1, <1>2, <1>3, HandedType DEF IInv, TypeInv, Stages
<1>6. FilesInv'
  BY <1>1, <1>3 DEF IInv, FilesInv, Some
<1>7. StepsInv' /\ PlanInv'
  BY <1>1, <1>3 DEF IInv, StepsInv, PlanInv, effective_steps, multi_witness, Override, profile
<1>8. ChainInv'
  <2>1. Len(chain') = 0 /\ Len(witnesses') \in Nat
    BY <1>1, <1>5, EmptySeq, LenProperties DEF TypeInv
  <2>. QED
    BY <1>1, <1>3, <1>4, <2>1 DEF ChainInv, Prefix
<1>9. StatusInv' /\ PassMeansWholeChain' /\ CheckedBeforeFolded' /\ AutoPlanFits'
  <2>1. status' = status \/ status' \notin {"pass", "parent shape"}
    BY <1>3
  <2>. QED
    BY <1>1, <1>3, <2>1, Unfolded DEF IInv, StatusInv
<1>. QED
  BY <1>5, <1>6, <1>7, <1>8, <1>9 DEF IInv

(***************************************************************************)
(* From the append on, the files are clean.                                *)
(***************************************************************************)
LEMMA FoldedIsClean == ASSUME IInv, pc \in FromAppend PROVE Clean
<1>1. /\ args \in Args /\ r1cs \in {"fine", "unparsable", "other field"}
      /\ r1cs # "unparsable" /\ r1cs # "other field"
      /\ ~Some("unparsable") /\ ~Some("other width") /\ ~Some("other field") /\ ~Some("unsatisfying")
  BY DEF IInv, TypeInv, FilesInv
<1>. QED
  BY <1>1, NoFaultIsGood DEF Clean

(***************************************************************************)
(* A second append under the auto profile: there are two witnesses or two  *)
(* steps, so the plan is the production one.                               *)
(***************************************************************************)
LEMMA SecondAppendAuto ==
    ASSUME IInv, pc = "append", Len(chain) < Len(witnesses), ~ShapeFits, args.profile = "auto"
    PROVE  opts.child_count = 14 /\ opts.r_len # NEEDED_R_LEN
<1>1. chain # << >> /\ chain \in Seq(Kinds) /\ args \in Args /\ args.n_steps # 0
  BY DEF ShapeFits, IInv, TypeInv, StepsInv
<1>2. Len(chain) \in Nat /\ Len(chain) >= 1
  BY <1>1
<1>3. witnesses = Handed /\ steps = effective_steps
  BY DEF IInv, ChainInv, StepsInv
<1>4. Len(Handed) = effective_steps /\ Handed \in Seq(Kinds)
  BY <1>1, HandedType
<1>5. steps # 1
  BY <1>2, <1>3, <1>4
<1>6. opts = Override(production_multistep) /\ plan = build_plan(M, M_IN, opts)
  <2>1. profile # "smoke"
    BY <1>5 DEF profile
  <2>. QED
    BY <2>1 DEF IInv, PlanInv
<1>7. plan.accumulator.child_count = opts.child_count /\ plan.ce_claim = CeShape(opts)
  BY <1>6, PlanFields
<1>8. args.r_len = None \/ args.r_len \in Nat
  BY <1>1, InputAssumption DEF Args
<1>9. opts.child_count = 14 /\ (opts.r_len = NEEDED_R_LEN => CeShape(opts) = ClaimShape)
  BY <1>6, <1>8, ProductionFits
<1>. QED
  BY <1>7, <1>9 DEF ShapeFits

LEMMA AppendStep == ASSUME IInv, AppendAssignment PROVE IInv'
<1>1. /\ pc = "append" /\ Len(chain) < Len(witnesses)
      /\ UNCHANGED <<args, r1cs, decider, steps, opts, plan, witnesses, verified>>
  BY DEF AppendAssignment
<1>2. /\ chain \in Seq(Kinds) /\ witnesses \in Seq(Kinds) /\ witnesses = Handed /\ Prefix
      /\ status = None
  BY <1>1 DEF IInv, TypeInv, ChainInv, StatusInv
<1>3. Clean /\ Clean'
  <2>1. Clean
    BY <1>1, FoldedIsClean
  <2>. QED
    BY <1>1, <2>1 DEF Clean
<1>4. Handed' = Handed
  BY <1>1 DEF Handed, multi_witness
<1>5. CheckedBeforeFolded'
  BY <1>3 DEF CheckedBeforeFolded, Clean
<1>6. FilesInv' /\ StepsInv' /\ PlanInv'
  BY <1>1 DEF AppendAssignment, IInv, FilesInv, StepsInv, PlanInv, Some, effective_steps,
              multi_witness, Override, profile
<1>7. CASE ShapeFits /\ chain' = Append(chain, witnesses[Len(chain) + 1]) /\ UNCHANGED <<pc, status>>
  <2>1. Len(chain) \in Nat /\ Len(witnesses) \in Nat
    BY <1>2
  <2>2. witnesses[Len(chain) + 1] \in Kinds
    BY <1>1, <1>2, <2>1
  <2>3. /\ chain' \in Seq(Kinds) /\ Len(chain') = Len(chain) + 1
        /\ \A k \in 1 .. Len(chain) : chain'[k] = chain[k]
        /\ chain'[Len(chain) + 1] = witnesses[Len(chain) + 1]
    BY <1>2, <1>7, <2>1, <2>2, AppendProperties
  <2>4. TypeInv'
    BY <1>1, <1>7, <2>3 DEF IInv, TypeInv
  <2>5. Prefix'
    BY <1>1, <1>2, <2>1, <2>3 DEF Prefix
  <2>6. ChainInv'
    BY <1>1, <1>2, <1>4, <1>7, <2>5 DEF ChainInv
  <2>7. StatusInv' /\ PassMeansWholeChain' /\ AutoPlanFits'
    BY <1>2, <1>7, NoneIsNoStatus DEF IInv, StatusInv, PassMeansWholeChain, AutoPlanFits
  <2>. QED
    BY <1>5, <1>6, <2>4, <2>6, <2>7 DEF IInv
<1>8. CASE /\ pc' = "exit" /\ UNCHANGED chain
          /\ \/ ~ShapeFits /\ status' = "parent shape"
             \/ status' = "append"
  <2>1. TypeInv' /\ ChainInv' /\ StatusInv' /\ PassMeansWholeChain'
    BY <1>1, <1>8 DEF IInv, TypeInv, Stages, ChainInv, StatusInv, PassMeansWholeChain
  <2>2. AutoPlanFits'
    BY <1>1, <1>8, SecondAppendAuto DEF AutoPlanFits
  <2>. QED
    BY <1>5, <1>6, <2>1, <2>2 DEF IInv
<1>. QED
  BY <1>7, <1>8 DEF AppendAssignment

LEMMA CloseStep == ASSUME IInv, Close PROVE IInv'
<1>1. /\ pc = "append" /\ Len(chain) = Len(witnesses)
      /\ \/ pc' = "exit" /\ status' \in {"finish", "compress unsupported"}
         \/ pc' = "verify" /\ status' = status
      /\ UNCHANGED <<args, r1cs, decider, steps, opts, plan, witnesses, chain, verified>>
  BY DEF Close
<1>2. Clean /\ status = None
  BY <1>1, FoldedIsClean DEF IInv, StatusInv
<1>3. TypeInv' /\ FilesInv' /\ StepsInv' /\ PlanInv'
  BY <1>1 DEF IInv, TypeInv, Stages, FilesInv, StepsInv, PlanInv, Some, effective_steps,
              multi_witness, Override, profile
<1>4. ChainInv' /\ StatusInv'
  BY <1>1 DEF IInv, ChainInv, StatusInv, Handed, multi_witness, Prefix
<1>5. PassMeansWholeChain' /\ CheckedBeforeFolded' /\ AutoPlanFits'
  BY <1>1, <1>2, NoneIsNoStatus DEF Clean, PassMeansWholeChain, CheckedBeforeFolded, AutoPlanFits
<1>. QED
  BY <1>3, <1>4, <1>5 DEF IInv

LEMMA VerifyStep == ASSUME IInv, Verify PROVE IInv'
<1>1. /\ pc = "verify" /\ pc' = "exit"
      /\ (status' = "pass" /\ verified' # {}) \/ status' = "not verified"
      /\ UNCHANGED <<args, r1cs, decider, steps, opts, plan, witnesses, chain>>
  BY DEF Verify
<1>2. Clean
  BY <1>1, FoldedIsClean
<1>3. /\ chain \in Seq(Kinds) /\ witnesses \in Seq(Kinds) /\ args \in Args /\ args.n_steps # 0
      /\ witnesses = Handed /\ Len(chain) = Len(witnesses) /\ Prefix
  BY <1>1 DEF IInv, TypeInv, ChainInv, StepsInv
<1>4. chain = Handed
  BY <1>3, SeqEqual DEF Prefix
<1>5. TypeInv' /\ FilesInv' /\ StepsInv' /\ PlanInv' /\ ChainInv' /\ StatusInv'
  BY <1>1 DEF IInv, TypeInv, Stages, FilesInv, StepsInv, PlanInv, ChainInv, StatusInv
<1>6. PassMeansWholeChain'
  <2>1. multi_witness => chain = args.wtns
    BY <1>4 DEF Handed
  <2>2. ~multi_witness => Len(chain) = args.n_steps /\ \A k \in DOMAIN chain : chain[k] = args.wtns[1]
    BY <1>3, <1>4, HandedType DEF Handed, effective_steps
  <2>. QED
    BY <1>1, <1>2, <2>1, <2>2 DEF PassMeansWholeChain, Clean, multi_witness
<1>7. CheckedBeforeFolded' /\ AutoPlanFits'
  BY <1>1, <1>2 DEF Clean, CheckedBeforeFolded, AutoPlanFits
<1>. QED
  BY <1>5, <1>6, <1>7 DEF IInv

LEMMA StepInv == IInv /\ [Next]_vars => IInv'
<1>. SUFFICES ASSUME IInv, [Next]_vars PROVE IInv'
  OBVIOUS
<1>1. CASE CheckArgs \/ Parse \/ CheckWires \/ Lift \/ CheckSatisfied \/ ChoosePlan
  BY <1>1, EarlyStep
<1>2. CASE Preprocess
  BY <1>2, PreprocessStep
<1>3. CASE AppendAssignment
  BY <1>3, AppendStep
<1>4. CASE Close
  BY <1>4, CloseStep
<1>5. CASE Verify
  BY <1>5, VerifyStep
<1>6. CASE UNCHANGED vars
  BY <1>6 DEF vars, IInv, TypeInv, FilesInv, StepsInv, PlanInv, ChainInv, StatusInv, Prefix, Handed,
              Some, multi_witness, effective_steps, Override, profile,
              PassMeansWholeChain, CheckedBeforeFolded, AutoPlanFits
<1>. QED
  BY <1>1, <1>2, <1>3, <1>4, <1>5, <1>6 DEF Next, Finished
-----------------------------------------------------------------------------
(***************************************************************************)
(* PASS stands for the whole chain of clean witnesses, whatever the lists, *)
(* the step counts and the flags.                                          *)
(***************************************************************************)
THEOREM PassIsWholeChain == Spec => []PassMeansWholeChain
<1>1. IInv => PassMeansWholeChain
  BY DEF IInv
<1>. QED
  BY <1>1, InitInv, StepInv, PTL DEF Spec

(***************************************************************************)
(* No fold before every file was parsed, lifted and checked.               *)
(***************************************************************************)
THEOREM NothingFoldedUnchecked == Spec => []CheckedBeforeFolded
<1>1. IInv => CheckedBeforeFolded
  BY DEF IInv
<1>. QED
  BY <1>1, InitInv, StepInv, PTL DEF Spec

(***************************************************************************)
(* Under --profile auto only --r-len, or the lack of it, can make a second *)
(* append fail on its parent's shape.                                      *)
(***************************************************************************)
THEOREM AutoProfileFits == Spec => []AutoPlanFits
<1>1. IInv => AutoPlanFits
  BY DEF IInv
<1>. QED
  BY <1>1, InitInv, StepInv, PTL DEF Spec
-----------------------------------------------------------------------------
(***************************************************************************)
(* The three programs on the same files.  First is what is wrong with the  *)
(* files, in the order in which rfp_smoke and rfp_smoke_full look; a       *)
(* program that ended was stopped by it, by a shape the library refused,   *)
(* or, with nothing wrong, by something later.  nifs_smoke may have seen   *)
(* the field of the r1cs first.                                            *)
(***************************************************************************)
First ==
    IF r1cs = "unparsable" \/ Some("unparsable") THEN "parse"
    ELSE IF Some("other width") THEN "wire count"
    ELSE IF Some("other field") THEN "witness field"
    ELSE IF r1cs = "other field" THEN "r1cs field"
    ELSE IF Some("unsatisfying") THEN "not satisfied"
    ELSE "ok"

Stopped(why) == why = "shape" \/ IF why \in Refusals THEN why = First ELSE First = "ok"

StoppedAs(prog, why) ==
    \/ Stopped(why)
    \/ prog = "nifs_smoke" /\ why = "r1cs field" /\ First = "witness field"

EndInv == pc = "exit" => status = "n_steps is 0" \/ Stopped(status)

\* The plan stays the one that was chosen.
ChosenInv ==
    /\ pc = "args" => plan = None
    /\ plan # None =>
         /\ steps = effective_steps
         /\ opts = Override(IF profile = "smoke" THEN smoke ELSE production_multistep)
         /\ plan = build_plan(M, M_IN, opts)

RunRecord ==
    [prog : {"rfp_smoke", "nifs_smoke"}, sparse : BOOLEAN, at : {"inputs", "fold", "verify"},
     plan : {None, make_small_plan(M, M_IN)}, chain : Seq({wtns})]

RunInv ==
    run # None =>
        /\ pc = "exit" /\ ~multi_witness
        /\ run \in RunRecord
        /\ run.at \in {"fold", "verify"} => First = "ok"
        /\ run.at = "verify" => run.chain = <<wtns>>

EndedInv ==
    \A e \in ended :
        /\ pc = "exit" /\ ~multi_witness
        /\ StoppedAs(e.prog, e.at)
        /\ e.plan \in {None, make_small_plan(M, M_IN)}
        /\ e.at = "pass" => e.chain = <<wtns>>

DriversInv == IInv /\ EndInv /\ ChosenInv /\ RunInv /\ EndedInv
-----------------------------------------------------------------------------
LEMMA VerdictIsFirstFailing ==
    ASSUME NEW checks, DOMAIN checks = 1 .. 5
    PROVE  Verdict(checks) =
             IF checks[1][2] THEN checks[1][1]
             ELSE IF checks[2][2] THEN checks[2][1]
             ELSE IF checks[3][2] THEN checks[3][1]
             ELSE IF checks[4][2] THEN checks[4][1]
             ELSE IF checks[5][2] THEN checks[5][1]
             ELSE "ok"
<1> DEFINE failing == {k \in DOMAIN checks : checks[k][2]}
<1>1. Verdict(checks) = IF failing = {} THEN "ok"
                        ELSE checks[CHOOSE k \in failing : \A j \in failing : k <= j][1]
  BY DEF Verdict
<1>2. \A k : k \in failing <=> k \in 1 .. 5 /\ checks[k][2]
  OBVIOUS
<1> HIDE DEF failing
<1>3. ASSUME NEW m \in 1 .. 5, m \in failing, \A j \in failing : m <= j
      PROVE  Verdict(checks) = checks[m][1]
  <2>1. \A k \in failing : k \in Int  BY <1>2
  <2>2. \A k \in failing : (\A j \in failing : k <= j) => k = m  BY <1>3, <2>1
  <2>3. \E k \in failing : \A j \in failing : k <= j  BY <1>3
  <2>4. (CHOOSE k \in failing : \A j \in failing : k <= j) = m  BY <2>2, <2>3
  <2>5. failing # {}  BY <1>3
  <2> QED  BY <1>1, <2>4, <2>5
<1>4. CASE checks[1][2]
  <2>1. 1 \in failing /\ \A j \in failing : 1 <= j  BY <1>2, <1>4
  <2> QED  BY <1>3, <1>4, <2>1
<1>5. CASE ~checks[1][2] /\ checks[2][2]
  <2>1. 2 \in failing /\ \A j \in failing : 2 <= j  BY <1>2, <1>5
  <2> QED  BY <1>3, <1>5, <2>1
<1>6. CASE ~checks[1][2] /\ ~checks[2][2] /\ checks[3][2]
  <2>1. 3 \in failing /\ \A j \in failing : 3 <= j  BY <1>2, <1>6
  <2> QED  BY <1>3, <1>6, <2>1
<1>7. CASE ~checks[1][2] /\ ~checks[2][2] /\ ~checks[3][2] /\ checks[4][2]
  <2>1. 4 \in failing /\ \A j \in failing : 4 <= j  BY <1>2, <1>7
  <2> QED  BY <1>3, <1>7, <2>1
<1>8. CASE ~checks[1][2] /\ ~checks[2][2] /\ ~checks[3][2] /\ ~checks[4][2] /\ checks[5][2]
  <2>1. 5 \in failing /\ \A j \in failing : 5 <= j  BY <1>2, <1>8
  <2> QED  BY <1>3, <1>8, <2>1
<1>9. CASE ~checks[1][2] /\ ~checks[2][2] /\ ~checks[3][2] /\ ~checks[4][2] /\ ~checks[5][2]
  <2>1. failing = {}  BY <1>2, <1>9
  <2> QED  BY <1>1, <1>9, <2>1
<1> QED  BY <1>4, <1>5, <1>6, <1>7, <1>8, <1>9

\* With one file, what is wrong with some file is what is wrong with that one.
LEMMA OneWitness ==
    ASSUME args \in Args, ~multi_witness
    PROVE  /\ \A kind : Some(kind) <=> wtns = kind
           /\ DOMAIN args.wtns = {1} /\ Len(args.wtns) = 1
<1>1. args.wtns \in Seq(Kinds) /\ args.wtns # << >>  BY InputAssumption DEF Args, Kinds
<1>2. Len(args.wtns) \in Nat /\ Len(args.wtns) >= 1  BY <1>1
<1>3. ~(Len(args.wtns) > 1)  BY DEF multi_witness
<1>4. Len(args.wtns) = 1
  <2>1. \A n \in Nat : n >= 1 /\ ~(n > 1) => n = 1  OBVIOUS
  <2> QED  BY <1>2, <1>3, <2>1, Zenon
<1>5. DOMAIN args.wtns = {1}
  <2>1. DOMAIN args.wtns = 1 .. 1  BY <1>1, <1>4, LenProperties
  <2>2. 1 .. 1 = {1}  OBVIOUS
  <2> QED  BY <2>1, <2>2
<1> QED  BY <1>4, <1>5 DEF Some, wtns

LEMMA VerdictIsFirst ==
    ASSUME args \in Args, ~multi_witness
    PROVE  /\ Verdict(RfpChecks) = First
           /\ \/ Verdict(NifsChecks) = First
              \/ Verdict(NifsChecks) = "r1cs field" /\ First = "witness field"
<1>1. /\ Some("unparsable") <=> wtns = "unparsable"
      /\ Some("other width") <=> wtns = "other width"
      /\ Some("other field") <=> wtns = "other field"
      /\ Some("unsatisfying") <=> wtns = "unsatisfying"
  BY OneWitness
<1> DEFINE b1 == r1cs = "unparsable" \/ wtns = "unparsable"
           b2 == wtns = "other width"
           b3 == wtns = "other field"
           b4 == r1cs = "other field"
           b5 == wtns = "unsatisfying"
<1>2. First = IF b1 THEN "parse" ELSE IF b2 THEN "wire count" ELSE IF b3 THEN "witness field"
              ELSE IF b4 THEN "r1cs field" ELSE IF b5 THEN "not satisfied" ELSE "ok"
  BY <1>1 DEF First
<1>3. Verdict(RfpChecks) = IF b1 THEN "parse" ELSE IF b2 THEN "wire count" ELSE IF b3 THEN "witness field"
                           ELSE IF b4 THEN "r1cs field" ELSE IF b5 THEN "not satisfied" ELSE "ok"
  <2>1. DOMAIN RfpChecks = 1 .. 5  BY DEF RfpChecks
  <2>2. /\ RfpChecks[1][1] = "parse"
        /\ RfpChecks[2][1] = "wire count"
        /\ RfpChecks[3][1] = "witness field"
        /\ RfpChecks[4][1] = "r1cs field"
        /\ RfpChecks[5][1] = "not satisfied"
    BY DEF RfpChecks
  <2>3. /\ RfpChecks[1][2] <=> b1
        /\ RfpChecks[2][2] <=> b2
        /\ RfpChecks[3][2] <=> b3
        /\ RfpChecks[4][2] <=> b4
        /\ RfpChecks[5][2] <=> b5
    BY DEF RfpChecks
  <2> QED  BY <2>1, <2>2, <2>3, VerdictIsFirstFailing
<1>4. Verdict(NifsChecks) = IF b1 THEN "parse" ELSE IF b2 THEN "wire count" ELSE IF b4 THEN "r1cs field"
                            ELSE IF b3 THEN "witness field" ELSE IF b5 THEN "not satisfied" ELSE "ok"
  <2>1. DOMAIN NifsChecks = 1 .. 5  BY DEF NifsChecks
  <2>2. /\ NifsChecks[1][1] = "parse"
        /\ NifsChecks[2][1] = "wire count"
        /\ NifsChecks[3][1] = "r1cs field"
        /\ NifsChecks[4][1] = "witness field"
        /\ NifsChecks[5][1] = "not satisfied"
    BY DEF NifsChecks
  <2>3. /\ NifsChecks[1][2] <=> b1
        /\ NifsChecks[2][2] <=> b2
        /\ NifsChecks[3][2] <=> b4
        /\ NifsChecks[4][2] <=> b3
        /\ NifsChecks[5][2] <=> b5
    BY DEF NifsChecks
  <2> QED  BY <2>1, <2>2, <2>3, VerdictIsFirstFailing
<1> QED  BY <1>2, <1>3, <1>4
-----------------------------------------------------------------------------
\* The reason for which rfp_smoke_full stops is the first one.
LEMMA FullEnd == ASSUME IInv, EndInv, FullNext PROVE EndInv'
<1>1. First' = First
  BY DEF FullNext, CheckArgs, Parse, CheckWires, Lift, CheckSatisfied, ChoosePlan, Preprocess,
         AppendAssignment, Close, Verify, First, Some
<1>2. CASE CheckArgs \/ Parse \/ CheckWires \/ Lift \/ CheckSatisfied \/ ChoosePlan
  <2>1. pc' = "exit" =>
          \/ status' = "n_steps is 0" \/ status' = "shape"
          \/ status' \in Refusals /\ status' = First
    BY <1>2 DEF CheckArgs, Parse, CheckWires, Lift, CheckSatisfied, ChoosePlan, IInv, FilesInv,
                First, Refusals
  <2> QED  BY <1>1, <2>1 DEF EndInv, Stopped
<1>3. CASE Preprocess \/ AppendAssignment \/ Close \/ Verify
  <2>1. pc \in {"preprocess"} \cup FromAppend
    BY <1>3 DEF Preprocess, AppendAssignment, Close, Verify
  <2>2. First = "ok"
    BY <2>1 DEF IInv, FilesInv, First
  <2>3. pc' = "exit" => status' \notin Refusals \cup {"shape"}
    BY <1>3 DEF Preprocess, AppendAssignment, Close, Verify, Refusals
  <2> QED  BY <1>1, <2>2, <2>3 DEF EndInv, Stopped
<1> QED  BY <1>2, <1>3 DEF FullNext

LEMMA FullChosen == ASSUME IInv, ChosenInv, FullNext PROVE ChosenInv'
<1>1. CASE CheckArgs
  BY <1>1 DEF CheckArgs, ChosenInv
<1>2. CASE ChoosePlan
  <2>1. /\ steps = effective_steps /\ UNCHANGED <<args, steps>> /\ pc' # "args"
        /\ opts' = Override(IF profile = "smoke" THEN smoke ELSE production_multistep)
        /\ plan' = build_plan(M, M_IN, opts')
    BY <1>2 DEF ChoosePlan, IInv, StepsInv
  <2>2. (effective_steps = steps)' /\ profile' = profile
    BY <2>1 DEF effective_steps, multi_witness, profile
  <2>3. opts' = Override(IF profile = "smoke" THEN smoke ELSE production_multistep)'
    BY <2>1, <2>2 DEF Override
  <2> QED  BY <2>1, <2>2, <2>3 DEF ChosenInv
<1>3. CASE ~CheckArgs /\ ~ChoosePlan
  <2>1. UNCHANGED <<args, steps, opts, plan>> /\ pc' # "args"
    BY <1>3 DEF FullNext, Parse, CheckWires, Lift, CheckSatisfied, Preprocess, AppendAssignment, Close,
                Verify
  <2> QED  BY <2>1 DEF ChosenInv, effective_steps, multi_witness, profile, Override
<1> QED  BY <1>1, <1>2, <1>3

\* A step of a smoke driver ends it, or leaves a record of the same program.
LEMMA SmokeStep ==
    ASSUME DriversInv, UNCHANGED vars, run # None,
           NEW where,
           \/ /\ run' \in RunRecord /\ UNCHANGED ended
              /\ First = "ok"
              /\ run'.at = "verify" => run'.chain = <<wtns>>
           \/ /\ run' = None /\ ended' = ended \cup {[run EXCEPT !.at = where]}
              /\ StoppedAs(run.prog, where)
              /\ where = "pass" => run.chain = <<wtns>>
    PROVE  RunInv' /\ EndedInv'
<1>1. pc = "exit" /\ ~multi_witness /\ run \in RunRecord  BY DEF DriversInv, RunInv
<1>2. UNCHANGED <<pc, args, r1cs>>  BY DEF vars
<1>3. First' = First /\ multi_witness' = multi_witness /\ wtns' = wtns /\ RunRecord' = RunRecord
  BY <1>2 DEF First, Some, multi_witness, wtns, RunRecord
<1>4. CASE /\ run' \in RunRecord /\ UNCHANGED ended
           /\ First = "ok"
           /\ run'.at = "verify" => run'.chain = <<wtns>>
  <2>1. RunInv'  BY <1>1, <1>2, <1>3, <1>4 DEF RunInv
  <2>2. EndedInv'  BY <1>2, <1>3, <1>4 DEF DriversInv, EndedInv, Stopped, StoppedAs
  <2> QED  BY <2>1, <2>2
<1>5. CASE /\ run' = None /\ ended' = ended \cup {[run EXCEPT !.at = where]}
           /\ StoppedAs(run.prog, where)
           /\ where = "pass" => run.chain = <<wtns>>
  <2>1. RunInv'  BY <1>5 DEF RunInv
  <2>2. /\ [run EXCEPT !.at = where].at = where
        /\ [run EXCEPT !.at = where].prog = run.prog
        /\ [run EXCEPT !.at = where].plan = run.plan
        /\ [run EXCEPT !.at = where].chain = run.chain
        /\ run.plan \in {None, make_small_plan(M, M_IN)}
    BY <1>1 DEF RunRecord
  <2>3. ASSUME NEW e \in ended'
        PROVE  /\ pc' = "exit" /\ ~multi_witness'
               /\ StoppedAs(e.prog, e.at)
               /\ e.plan \in {None, make_small_plan(M, M_IN)}
               /\ e.at = "pass" => e.chain = <<wtns>>
    <3>1. CASE e \in ended  BY <1>2, <1>3, <3>1 DEF DriversInv, EndedInv
    <3>2. CASE e \notin ended
      <4>1. e = [run EXCEPT !.at = where]  BY <1>5, <3>2
      <4> QED  BY <1>1, <1>2, <1>3, <1>5, <2>2, <4>1
    <3> QED  BY <3>1, <3>2
  <2>4. EndedInv'  BY <1>3, <2>3 DEF EndedInv, Stopped, StoppedAs
  <2> QED  BY <2>1, <2>4
<1> QED  BY <1>4, <1>5

\* The parts about rfp_smoke_full do not change when another program runs.
LEMMA OtherSteps ==
    ASSUME IInv, EndInv, ChosenInv, UNCHANGED vars
    PROVE  IInv' /\ EndInv' /\ ChosenInv'
<1>1. IInv'  BY StepInv
<1>2. EndInv'  BY DEF vars, EndInv, Stopped, First, Some
<1>3. ChosenInv'  BY DEF vars, ChosenInv, effective_steps, multi_witness, profile, Override
<1> QED  BY <1>1, <1>2, <1>3

LEMMA DriversStep == DriversInv /\ [DriversNext]_allVars => DriversInv'
<1> SUFFICES ASSUME DriversInv, [DriversNext]_allVars PROVE DriversInv'
  OBVIOUS
<1> USE DEF DriversInv
<1>1. CASE FullNext
  <2>1. Next /\ UNCHANGED <<run, ended>>  BY <1>1 DEF FullNext, Next, smokeVars
  <2>2. IInv'  BY <2>1, StepInv
  <2>3. EndInv' /\ ChosenInv'  BY <1>1, FullEnd, FullChosen
  <2>4. pc # "exit"
    BY <1>1 DEF FullNext, CheckArgs, Parse, CheckWires, Lift, CheckSatisfied, ChoosePlan, Preprocess,
                AppendAssignment, Close, Verify
  <2>5. run = None /\ ended = {}  BY <2>4 DEF RunInv, EndedInv
  <2>6. RunInv' /\ EndedInv'  BY <2>1, <2>5 DEF RunInv, EndedInv
  <2> QED  BY <2>2, <2>3, <2>6
<1>2. ASSUME NEW prog \in {"rfp_smoke", "nifs_smoke"}, NEW sparse \in BOOLEAN, Start(prog, sparse)
      PROVE  DriversInv'
  <2>1. /\ pc = "exit" /\ ~multi_witness /\ UNCHANGED vars /\ UNCHANGED ended
        /\ run' = [prog |-> prog, sparse |-> sparse, at |-> "inputs", plan |-> None, chain |-> << >>]
    BY <1>2 DEF Start
  <2>2. UNCHANGED <<pc, args, r1cs>>  BY <2>1 DEF vars
  <2>3. << >> \in Seq({wtns})  BY EmptySeq
  <2>4. run' \in RunRecord /\ run'.at = "inputs"  BY <2>1, <2>3 DEF RunRecord
  <2>5. RunInv'  BY <2>1, <2>2, <2>4 DEF RunInv, RunRecord, wtns, multi_witness
  <2>6. EndedInv'  BY <2>1, <2>2 DEF EndedInv, Stopped, StoppedAs, First, Some, wtns, multi_witness
  <2> QED  BY <2>1, <2>5, <2>6, OtherSteps
<1>3. CASE RfpInputs \/ RfpFold \/ RfpVerify \/ NifsInputs \/ NifsProve \/ NifsVerify
  <2>1. UNCHANGED vars /\ run # None
    BY <1>3 DEF RfpInputs, RfpFold, RfpVerify, NifsInputs, NifsProve, NifsVerify, Running
  <2>2. args \in Args /\ ~multi_witness /\ run \in RunRecord  BY <2>1 DEF RunInv, IInv, TypeInv
  <2>3. /\ Verdict(RfpChecks) = First
        /\ \/ Verdict(NifsChecks) = First
           \/ Verdict(NifsChecks) = "r1cs field" /\ First = "witness field"
    BY <2>2, VerdictIsFirst
  <2>4. <<wtns>> \in Seq({wtns})  OBVIOUS
  <2>5. First \in Refusals \cup {"ok"}  BY DEF First, Refusals
  <2>6. CASE RfpInputs
    <3>1. First # "ok" /\ SmokeStop(First) => RunInv' /\ EndedInv'
      <4> SUFFICES ASSUME First # "ok", SmokeStop(First) PROVE RunInv' /\ EndedInv'  OBVIOUS
      <4>1. Stopped(First) /\ First # "pass"  BY <2>5 DEF Stopped, Refusals
      <4> QED  BY <2>1, <4>1, SmokeStep DEF SmokeStop, StoppedAs
    <3>2. ASSUME First = "ok", UNCHANGED ended,
                 run' = [run EXCEPT !.plan = make_small_plan(M, M_IN), !.at = "fold"]
          PROVE  RunInv' /\ EndedInv'
      <4>1. run' \in RunRecord /\ run'.at = "fold"  BY <2>2, <3>2 DEF RunRecord
      <4> QED  BY <2>1, <3>2, <4>1, SmokeStep
    <3>3. SmokeStop("shape") => RunInv' /\ EndedInv'
      BY <2>1, SmokeStep DEF SmokeStop, Stopped, StoppedAs
    <3> QED  BY <2>1, <2>3, <2>6, <3>1, <3>2, <3>3, OtherSteps DEF RfpInputs
  <2>7. CASE NifsInputs
    <3>1. First # "ok" /\ SmokeStop(First) => RunInv' /\ EndedInv'
      <4> SUFFICES ASSUME First # "ok", SmokeStop(First) PROVE RunInv' /\ EndedInv'  OBVIOUS
      <4>1. Stopped(First) /\ First # "pass"  BY <2>5 DEF Stopped, Refusals
      <4> QED  BY <2>1, <4>1, SmokeStep DEF SmokeStop, StoppedAs
    <3>2. ASSUME First = "ok", SmokeGo("fold") PROVE RunInv' /\ EndedInv'
      <4>1. run' \in RunRecord /\ run'.at = "fold" /\ UNCHANGED ended
        BY <2>2, <3>2 DEF SmokeGo, RunRecord
      <4> QED  BY <2>1, <3>2, <4>1, SmokeStep
    <3>3. ASSUME First = "witness field", SmokeStop("r1cs field") PROVE RunInv' /\ EndedInv'
      <4>1. run.prog = "nifs_smoke"  BY <2>7 DEF NifsInputs, Running
      <4>2. PICK why : why = "r1cs field"  OBVIOUS
      <4>3. StoppedAs(run.prog, why) /\ why # "pass"  BY <3>3, <4>1, <4>2 DEF StoppedAs
      <4>4. run' = None /\ ended' = ended \cup {[run EXCEPT !.at = why]}
        BY <3>3, <4>2 DEF SmokeStop
      <4> QED  BY <2>1, <4>3, <4>4, SmokeStep
    <3> QED  BY <2>1, <2>3, <2>7, <3>1, <3>2, <3>3, OtherSteps DEF NifsInputs
  <2>8. CASE RfpFold \/ NifsProve
    <3>1. First = "ok"  BY <2>1, <2>8 DEF RfpFold, NifsProve, Running, RunInv
    <3>2. ASSUME run' = [run EXCEPT !.chain = <<wtns>>, !.at = "verify"], UNCHANGED ended
          PROVE  RunInv' /\ EndedInv'
      <4>1. run' \in RunRecord /\ run'.chain = <<wtns>>  BY <2>2, <2>4, <3>2 DEF RunRecord
      <4> QED  BY <2>1, <3>1, <3>2, <4>1, SmokeStep
    <3>3. ASSUME NEW why \in {"preprocess", "append", "finish", "instance", "prove"}, SmokeStop(why)
          PROVE  RunInv' /\ EndedInv'
      <4>1. Stopped(why) /\ why # "pass"  BY <3>1 DEF Stopped, Refusals
      <4> QED  BY <2>1, <3>3, <4>1, SmokeStep DEF SmokeStop, StoppedAs
    <3> QED  BY <2>1, <2>8, <3>2, <3>3, OtherSteps DEF RfpFold, NifsProve
  <2>9. CASE RfpVerify \/ NifsVerify
    <3>1. First = "ok" /\ run.chain = <<wtns>>
      BY <2>1, <2>9 DEF RfpVerify, NifsVerify, Running, RunInv
    <3>2. ASSUME NEW why \in {"pass", "not verified", "claims differ"}, SmokeStop(why)
          PROVE  RunInv' /\ EndedInv'
      <4>1. Stopped(why)  BY <3>1 DEF Stopped, Refusals
      <4> QED  BY <2>1, <3>1, <3>2, <4>1, SmokeStep DEF SmokeStop, StoppedAs
    <3> QED  BY <2>1, <2>9, <3>2, OtherSteps DEF RfpVerify, NifsVerify
  <2> QED  BY <1>3, <2>6, <2>7, <2>8, <2>9
<1>4. CASE UNCHANGED allVars
  <2>1. UNCHANGED vars /\ UNCHANGED <<run, ended>>  BY <1>4 DEF allVars
  <2>2. UNCHANGED <<pc, args, r1cs>>  BY <2>1 DEF vars
  <2>3. RunInv' /\ EndedInv'
    <3>1. /\ First' = First /\ multi_witness' = multi_witness /\ wtns' = wtns
          /\ RunRecord' = RunRecord
      BY <2>2 DEF First, Some, multi_witness, wtns, RunRecord
    <3>2. RunInv'  BY <2>1, <2>2, <3>1 DEF RunInv
    <3>3. EndedInv'  BY <2>1, <2>2, <3>1 DEF EndedInv, Stopped, StoppedAs, Refusals
    <3> QED  BY <3>2, <3>3
  <2> QED  BY <2>1, <2>3, OtherSteps
<1> QED  BY <1>1, <1>2, <1>3, <1>4 DEF DriversNext, AllFinished

LEMMA DriversStart == DriversInit => DriversInv
<1> SUFFICES ASSUME DriversInit PROVE DriversInv  OBVIOUS
<1>1. IInv  BY InitInv DEF DriversInit
<1>2. pc = "args" /\ plan = None /\ run = None /\ ended = {}  BY DEF DriversInit, Init
<1> QED  BY <1>1, <1>2 DEF DriversInv, EndInv, ChosenInv, RunInv, EndedInv

LEMMA DriversInvariant == DriversSpec => []DriversInv
<1> QED  BY DriversStart, DriversStep, PTL DEF DriversSpec
-----------------------------------------------------------------------------
(***************************************************************************)
(* Whatever the files, the three front ends refuse the same ones, and for  *)
(* the same reason but for one: of a witness and an r1cs that are both of  *)
(* another field nifs_smoke names the r1cs, the others the witness.        *)
(***************************************************************************)
THEOREM FrontEndsAgree == DriversSpec => []SameRefusals
<1>1. ASSUME DriversInv, pc = "exit", status # "n_steps is 0", NEW e \in ended,
             e.at # "shape", status # "shape", e.at \in Refusals \/ status \in Refusals
      PROVE  \/ e.at = status
             \/ e.prog = "nifs_smoke" /\ e.at = "r1cs field" /\ status = "witness field"
  <2>1. Stopped(status) /\ StoppedAs(e.prog, e.at)  BY <1>1 DEF DriversInv, EndInv, EndedInv
  <2>2. First = "ok" => First \notin Refusals  BY DEF Refusals
  <2>3. CASE Stopped(e.at)  BY <1>1, <2>1, <2>2, <2>3 DEF Stopped
  <2>4. CASE e.prog = "nifs_smoke" /\ e.at = "r1cs field" /\ First = "witness field"
    BY <1>1, <2>1, <2>4 DEF Stopped
  <2> QED  BY <2>1, <2>3, <2>4 DEF StoppedAs
<1>2. DriversInv => SameRefusals
  BY <1>1 DEF SameRefusals
<1> QED  BY <1>2, DriversInvariant, PTL

\* The plan that rfp_smoke writes out is the one step.rs builds from the smoke options.
LEMMA SmallPlanIsSmoke == build_plan(M, M_IN, smoke) = make_small_plan(M, M_IN)
<1>1. smoke.c_data_entries = TEST_C_DATA_ENTRIES /\ smoke.child_count = 1
  BY DEF smoke, TEST_C_DATA_ENTRIES
<1>2. CeShape(smoke) =
        [c_data_entries |-> TEST_C_DATA_ENTRIES, x_rows |-> 0, x_active_cols |-> 0,
         r_len |-> 0, y_ring_inner_lens |-> <<>>, y_zcol_len |-> 0, s_col_len |-> 0]
  BY DEF CeShape, smoke, TEST_C_DATA_ENTRIES
<1> QED  BY <1>1, <1>2, Zenon DEF build_plan, make_small_plan

(***************************************************************************)
(* "--n-steps 1 mirrors rfp_smoke": the same plan and the same chain, for  *)
(* every circuit, every witness and every layout of the library.           *)
(***************************************************************************)
THEOREM OneStepMirrors == DriversSpec => []MirrorsRfpSmoke
<1>1. ASSUME DriversInv, NEW e \in ended, args.n_steps = 1, args.profile # "production",
             args.r_len = None
      PROVE  /\ e.plan # None /\ plan # None => e.plan = plan
             /\ e.at = "pass" /\ status = "pass" => e.chain = chain
  <2>1. args \in Args /\ chain \in Seq(Kinds) /\ ~multi_witness
        /\ e.plan \in {None, make_small_plan(M, M_IN)} /\ (e.at = "pass" => e.chain = <<wtns>>)
    BY <1>1 DEF DriversInv, IInv, TypeInv, EndedInv
  <2>2. ASSUME plan # None PROVE plan = make_small_plan(M, M_IN)
    <3>1. steps = 1  BY <1>1, <2>1, <2>2 DEF DriversInv, ChosenInv, effective_steps
    <3>2. profile = "smoke"  BY <1>1, <2>1, <3>1 DEF profile, Args
    <3>3. plan = build_plan(M, M_IN, smoke)
      BY <1>1, <2>2, <3>2 DEF DriversInv, ChosenInv, Override
    <3> QED  BY <3>3, SmallPlanIsSmoke
  <2>3. ASSUME status = "pass" PROVE chain = <<wtns>>
    <3>1. Len(chain) = 1 /\ \A k \in DOMAIN chain : chain[k] = wtns
      BY <1>1, <2>1, <2>3 DEF DriversInv, IInv, PassMeansWholeChain, wtns
    <3>2. DOMAIN chain = 1 .. 1 /\ chain = [k \in 1 .. 1 |-> chain[k]]
      BY <2>1, <3>1, LenProperties
    <3>3. chain[1] = wtns  BY <3>1, <3>2
    <3> QED  BY <3>2, <3>3
  <2> QED  BY <2>1, <2>2, <2>3
<1>2. DriversInv => MirrorsRfpSmoke
  BY <1>1 DEF MirrorsRfpSmoke
<1> QED  BY <1>2, DriversInvariant, PTL
=============================================================================

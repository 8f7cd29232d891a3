----------------------------- MODULE SmokeDrivers -----------------------------
(***************************************************************************)
(* rfp_smoke and nifs_smoke, run one after the other on the files that     *)
(* rfp_smoke_full was given, when it was given one witness.  Each is a     *)
(* copy of its front end with a fold of its own.                           *)
(***************************************************************************)
EXTENDS FoldDriver, FiniteSets

VARIABLES
    run,     \* the program that runs: [prog, sparse, at, plan, chain], or None
    ended    \* the programs that ended, with their status

smokeVars == <<run, ended>>
allVars   == <<vars, run, ended>>

DriversInit == Init /\ run = None /\ ended = {}

wtns == args.wtns[1]

\* A driver of the full pipeline is not touched by the others.
SmokeGo(where)   == run' = [run EXCEPT !.at = where] /\ UNCHANGED ended
SmokeStop(why)   == run' = None /\ ended' = ended \cup {[run EXCEPT !.at = why]}
Running(p, where) == run # None /\ run.prog = p /\ run.at = where

Start(p, sparse) ==
    /\ pc = "exit" /\ ~multi_witness
    /\ run = None /\ \A e \in ended : e.prog # p
    /\ run' = [prog |-> p, sparse |-> sparse, at |-> "inputs", plan |-> None, chain |-> << >>]
    /\ UNCHANGED <<vars, ended>>

\* The first check of a list that fails, "ok" if none does.
Verdict(checks) ==
    LET failing == {k \in DOMAIN checks : checks[k][2]}
    IN  IF failing = {} THEN "ok"
        ELSE checks[CHOOSE k \in failing : \A j \in failing : k <= j][1]
-----------------------------------------------------------------------------
\* Faulty: the wire counts are not compared.
FaultyRfpChecks ==
    << <<"parse", r1cs = "unparsable" \/ wtns = "unparsable">>,
       <<"witness field", wtns = "other field">>,
       <<"r1cs field", r1cs = "other field">>,
       <<"not satisfied", wtns = "unsatisfying">> >>

\* rfp_smoke: the witness is converted before the matrices.
RfpChecks ==
    << <<"parse", r1cs = "unparsable" \/ wtns = "unparsable">>,
       <<"wire count", wtns = "other width">>,
       <<"witness field", wtns = "other field">>,
       <<"r1cs field", r1cs = "other field">>,
       <<"not satisfied", wtns = "unsatisfying">> >>

\* SparseR1cs::new of the sparse branch may refuse the matrices.
RfpInputs ==
    /\ Running("rfp_smoke", "inputs")
    /\ \/ Verdict(RfpChecks) # "ok" /\ SmokeStop(Verdict(RfpChecks))
       \/ /\ Verdict(RfpChecks) = "ok"
          /\ run' = [run EXCEPT !.plan = make_small_plan(M, M_IN), !.at = "fold"]
          /\ UNCHANGED ended
       \/ Verdict(RfpChecks) \in {"ok", "not satisfied"} /\ run.sparse /\ SmokeStop("shape")
    /\ UNCHANGED vars

\* Preprocessing of either kind, the builder, one append and finish.
RfpFold ==
    /\ Running("rfp_smoke", "fold")
    /\ \/ run' = [run EXCEPT !.chain = <<wtns>>, !.at = "verify"] /\ UNCHANGED ended
       \/ \E why \in {"preprocess", "append", "finish"} : SmokeStop(why)
    /\ UNCHANGED vars

RfpVerify ==
    /\ Running("rfp_smoke", "verify")
    /\ SmokeStop("pass") \/ SmokeStop("not verified")
    /\ UNCHANGED vars
-----------------------------------------------------------------------------
\* nifs_smoke: the dense matrices, then the witness.
NifsChecks ==
    << <<"parse", r1cs = "unparsable" \/ wtns = "unparsable">>,
       <<"wire count", wtns = "other width">>,
       <<"r1cs field", r1cs = "other field">>,
       <<"witness field", wtns = "other field">>,
       <<"not satisfied", wtns = "unsatisfying">> >>

NifsInputs ==
    /\ Running("nifs_smoke", "inputs")
    /\ LET v == Verdict(NifsChecks) IN IF v = "ok" THEN SmokeGo("fold") ELSE SmokeStop(v)
    /\ UNCHANGED vars

\* direct_ccs' preprocessing and instance, and the NIFS prover.
NifsProve ==
    /\ Running("nifs_smoke", "fold")
    /\ \/ run' = [run EXCEPT !.chain = <<wtns>>, !.at = "verify"] /\ UNCHANGED ended
       \/ \E why \in {"preprocess", "instance", "prove"} : SmokeStop(why)
    /\ UNCHANGED vars

\* Accepted, and the claims are those the prover went on with.
NifsVerify ==
    /\ Running("nifs_smoke", "verify")
    /\ \E why \in {"pass", "not verified", "claims differ"} : SmokeStop(why)
    /\ UNCHANGED vars
-----------------------------------------------------------------------------
FullNext ==
    /\ \/ CheckArgs \/ Parse \/ CheckWires \/ Lift \/ CheckSatisfied
       \/ ChoosePlan \/ Preprocess \/ AppendAssignment \/ Close \/ Verify
    /\ UNCHANGED smokeVars

AllFinished ==
    /\ pc = "exit" /\ run = None
    /\ multi_witness \/ Cardinality(ended) = 2
    /\ UNCHANGED allVars

DriversNext ==
    \/ FullNext
    \/ \E sparse \in BOOLEAN : Start("rfp_smoke", sparse)
    \/ Start("nifs_smoke", FALSE)
    \/ RfpInputs \/ RfpFold \/ RfpVerify
    \/ NifsInputs \/ NifsProve \/ NifsVerify
    \/ AllFinished

DriversSpec == DriversInit /\ [][DriversNext]_allVars
-----------------------------------------------------------------------------
Refusals == {"parse", "wire count", "witness field", "r1cs field", "not satisfied"}

(***************************************************************************)
(* The three front ends are copies of one another.  Whatever the files,    *)
(* they refuse the same ones (the library apart, which may refuse a shape  *)
(* first), and for the same reason, with one exception: nifs_smoke lifts   *)
(* the matrices first, so of a witness and an r1cs that are both of        *)
(* another field it names the r1cs and the others the witness.             *)
(***************************************************************************)
SameRefusals ==
    pc = "exit" /\ status # "n_steps is 0" =>
        \A e \in ended :
            "shape" \notin {e.at, status} /\ {e.at, status} \cap Refusals # {} =>
                \/ e.at = status
                \/ e.prog = "nifs_smoke" /\ e.at = "r1cs field" /\ status = "witness field"

(***************************************************************************)
(* The documentation of --n-steps: "Use 1 to mirror rfp_smoke's single-    *)
(* fold behaviour".  With one step, no option that changes the plan and    *)
(* the uncompressed path, both hand the library the same plan and the same *)
(* witness.                                                                *)
(***************************************************************************)
MirrorsRfpSmoke ==
    \A e \in ended :
        /\ e.prog = "rfp_smoke"
        /\ args.n_steps = 1 /\ args.profile # "production" /\ args.r_len = None /\ ~args.close
        => /\ e.plan # None /\ plan # None => e.plan = plan
           /\ e.at = "pass" /\ status = "pass" => e.chain = chain
=============================================================================

------------------------------- MODULE StepPlan -------------------------------
(***************************************************************************)
(* step.rs: the plan options and the plan of a fold step, and the copy of  *)
(* it in rfp_smoke.rs.  Constant fields (the empty counts, the ring action *)
(* layout) are left out; where the image layout of the library puts the    *)
(* boundary is a function of the probe plan.                               *)
(***************************************************************************)
EXTENDS Integers, Sequences

CONSTANTS
    None,
    BoundaryOffset(_)   \* FPrimeImageLayout of a plan: boundary.offset

POSEIDON2_GOLDILOCKS_BITS == 64
BOUNDARY_BITS == 4 * POSEIDON2_GOLDILOCKS_BITS

smoke ==
    [c_data_entries |-> 2, child_count |-> 1, x_rows |-> 0, x_active_cols |-> 0, r_len |-> 0,
     y_ring_inner_lens |-> <<>>, y_zcol_len |-> 0, s_col_len |-> 0]

production_multistep ==
    [c_data_entries |-> 972, child_count |-> 14, x_rows |-> 54, x_active_cols |-> 5, r_len |-> 20,
     y_ring_inner_lens |-> [k \in 1 .. 8 |-> 64], y_zcol_len |-> 64, s_col_len |-> 20]

\* The parent shape among the options.
CeShape(opts) ==
    [c_data_entries |-> opts.c_data_entries, x_rows |-> opts.x_rows,
     x_active_cols |-> opts.x_active_cols, r_len |-> opts.r_len,
     y_ring_inner_lens |-> opts.y_ring_inner_lens, y_zcol_len |-> opts.y_zcol_len,
     s_col_len |-> opts.s_col_len]

\* Four lanes of 64 bits from the boundary on, and the public inputs.
WithOutput(probe, m_in) ==
    [probe EXCEPT !.state_x_out =
       [pc |-> 1,
        lane_bit_starts |-> [k \in 1 .. 4 |->
                               BoundaryOffset(probe) + (k - 1) * POSEIDON2_GOLDILOCKS_BITS],
        app_public_input_var_indices |-> [k \in 1 .. m_in |-> k - 1]]]

build_plan(m, m_in, opts) ==
    WithOutput(
      [limbs |-> m * POSEIDON2_GOLDILOCKS_BITS + 1, boundary_bits |-> BOUNDARY_BITS,
       ce_claim |-> CeShape(opts),
       accumulator |-> [c_data_entries |-> opts.c_data_entries, child_count |-> opts.child_count],
       state_x_out |-> None],
      m_in)

\* rfp_smoke's own plan, written out with its TEST_C_DATA_ENTRIES.
TEST_C_DATA_ENTRIES == 2

\* Faulty: the constant wire is not counted among the limbs.
faulty_small_plan(m, m_in) ==
    [build_plan(m, m_in, smoke) EXCEPT !.limbs = m * POSEIDON2_GOLDILOCKS_BITS]

make_small_plan(m, m_in) ==
    WithOutput(
      [limbs |-> m * POSEIDON2_GOLDILOCKS_BITS + 1, boundary_bits |-> BOUNDARY_BITS,
       ce_claim |-> [c_data_entries |-> TEST_C_DATA_ENTRIES, x_rows |-> 0, x_active_cols |-> 0,
                     r_len |-> 0, y_ring_inner_lens |-> <<>>, y_zcol_len |-> 0, s_col_len |-> 0],
       accumulator |-> [c_data_entries |-> TEST_C_DATA_ENTRIES, child_count |-> 1],
       state_x_out |-> None],
      m_in)
=============================================================================

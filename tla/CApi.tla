--------------------------------- MODULE CApi ---------------------------------
(***************************************************************************)
(* The C interface (capi/capi.cpp) as operators from a heap to the results *)
(* a call may have: the heap it leaves, its return code, the handle it     *)
(* returns and the diagnostic string it allocates.  An allocation may fail *)
(* wherever the code allocates, except for the diagnostic itself, whose    *)
(* failure ends the process.                                               *)
(*                                                                         *)
(* Abstractions.  An address is a member of Addr; which of the free ones   *)
(* the allocator returns does not matter.  A tensor is its element type,   *)
(* its shape and one datum: for waypoints the number of samples of their   *)
(* motion, none when they cannot be built into one; for an output the first *)
(* of the samples it holds.  Both limit vectors are "limits"; of the       *)
(* optional scalars "rate" stands for those that only shape the path.      *)
(***************************************************************************)
EXTENDS Integers, Sequences, FiniteSets

CONSTANTS
  Addr,        \* addresses
  NULL,        \* the null pointer
  MaxSamples   \* bound on the samples of a session

ASSUME AddressAssumption == NULL \notin Addr

Put(h, a, o) == [x \in DOMAIN h \cup {a} |-> IF x = a THEN o ELSE h[x]]
Drop(h, a) == [x \in DOMAIN h \ {a} |-> h[x]]

\* An address malloc may return.
Spare(h) == {a \in Addr : a \notin DOMAIN h /\ a = CHOOSE b \in Addr \ DOMAIN h : TRUE}

Result(h, rc, ret, err) == [heap |-> h, rc |-> rc, ret |-> ret, err |-> err]
Done(h) == Result(h, 0, NULL, NULL)
Refused(h, rc) == Result(h, rc, NULL, NULL)

\* new, inside a try block.
Created(h, o) == {Result(Put(h, a, o), 0, a, NULL) : a \in Spare(h)} \cup {Refused(h, -1)}

\* A catch block: duplicate_error_string(e.what()) into error_out.
Thrown(h) == {Result(Put(h, a, [kind |-> "string"]), -1, NULL, a) : a \in Spare(h)}

viam_trajex_string_destroy(h, a) == IF a = NULL THEN h ELSE Drop(h, a)

-----------------------------------------------------------------------------
(* Tensor maps *)

MapOf(tensors) == [kind |-> "map", tensors |-> tensors]
Without == [k \in {} |-> NULL]

viam_trajex_tensor_map_create(h) == Created(h, MapOf(Without))
viam_trajex_tensor_map_destroy(h, m) == IF m = NULL THEN h ELSE Drop(h, m)

IsTensor(t) ==
  /\ t.dtype \in {"f64", "i64"}
  /\ Len(t.shape) \in 1..2
  /\ \A i \in 1..Len(t.shape) : t.shape[i] >= 1

\* Fault: the entry is erased before the replacement has been built.
insert_erasing(h, m, k, t) ==
  IF m = NULL \/ ~IsTensor(t) THEN {Refused(h, -1)}
  ELSE {Done([h EXCEPT ![m].tensors = Put(@, k, t)]), Refused([h EXCEPT ![m].tensors = Drop(@, k)], -1)}

\* The replacement is built before the map is touched.
viam_trajex_tensor_map_insert(h, m, k, t) ==
  {Refused(h, -1)} \cup
  IF m = NULL \/ ~IsTensor(t) THEN {} ELSE {Done([h EXCEPT ![m].tensors = Put(@, k, t)])}

viam_trajex_tensor_map_view(h, m, k) ==
  IF m = NULL THEN Refused(h, -1)
  ELSE IF k \notin DOMAIN h[m].tensors THEN Refused(h, 1)
  ELSE Result(h, 0, h[m].tensors[k], NULL)

-----------------------------------------------------------------------------
(* Reading inputs *)

IsMatrix(t) == t.dtype = "f64" /\ Len(t.shape) = 2
IsVector(t, n) == t.dtype = "f64" /\ t.shape = <<n>>
require_matrix(m, k) == k \in DOMAIN m /\ IsMatrix(m[k])
require_vector(m, k, n) == k \in DOMAIN m /\ IsVector(m[k], n)
optional_scalar(m, k) == k \in DOMAIN m => IsVector(m[k], 1)

NoChain == [joints |-> <<>>]
dof(joints) == Cardinality({i \in 1..Len(joints) : joints[i] # "fixed"})

\* A chain must have the inputs' degrees of freedom, and a cap must have a chain.
tcp_limits_for(m, chain, n_dof) ==
  /\ chain # NoChain => dof(chain.joints) = n_dof
  /\ optional_scalar(m, "cap")
  /\ "cap" \in DOMAIN m => chain # NoChain

\* The four tensors of the samples from one index to another.
Samples(from, to, n_dof) ==
  [k \in {"sample_times", "configurations", "velocities", "accelerations"} |->
     [dtype |-> "f64",
      shape |-> IF k = "sample_times" THEN <<to - from + 1>> ELSE <<to - from + 1, n_dof>>,
      data |-> from]]

\* The computation behind an accepted request; a cap slows the motion down.
totg_generate_accepts(m, chain) ==
  /\ require_matrix(m, "waypoints")
  /\ LET n_dof == m["waypoints"].shape[2]
     IN  /\ require_vector(m, "limits", n_dof)
         /\ tcp_limits_for(m, chain, n_dof)
  /\ require_vector(m, "tolerance", 1)
  /\ optional_scalar(m, "rate")
  /\ m["waypoints"].data > 0

totg_generate_impl(m, chain) ==
  Samples(1, m["waypoints"].data + (IF "cap" \in DOMAIN m THEN 1 ELSE 0), m["waypoints"].shape[2])

ChainAt(h, c) == IF c = NULL THEN NoChain ELSE [joints |-> h[c].joints]

\* Fault: the output tensors are moved into the caller's map one after the other.
generate_in_place(h, c, in, out) ==
  IF NULL \in {in, out} \/ ~totg_generate_accepts(h[in].tensors, ChainAt(h, c)) THEN Thrown(h)
  ELSE LET result == totg_generate_impl(h[in].tensors, ChainAt(h, c))
           partial == [k \in {"sample_times"} |-> result[k]]
       IN  {Done([h EXCEPT ![out].tensors = result])} \cup
           Thrown([h EXCEPT ![out].tensors = partial])

\* The caller's map is replaced as a whole, once everything has been computed.
viam_trajex_totg_generate(h, c, in, out) ==
  Thrown(h) \cup
  IF NULL \in {in, out} \/ ~totg_generate_accepts(h[in].tensors, ChainAt(h, c)) THEN {}
  ELSE {Done([h EXCEPT ![out].tensors = totg_generate_impl(h[in].tensors, ChainAt(h, c))])}

-----------------------------------------------------------------------------
(* Chains: a joint is "fixed", "moving" or "bad", with a zero axis or the like *)

viam_trajex_kinematics_chain_builder_create(h) ==
  Created(h, [kind |-> "builder", joints |-> <<>>, spent |-> FALSE])
viam_trajex_kinematics_chain_builder_destroy(h, b) == IF b = NULL THEN h ELSE Drop(h, b)

viam_trajex_kinematics_chain_builder_extend(h, b, joint) ==
  {Refused(h, -1)} \cup
  IF b = NULL \/ h[b].spent THEN {} ELSE {Done([h EXCEPT ![b].joints = Append(@, joint)])}

Buildable(joints) == joints # <<>> /\ \A i \in 1..Len(joints) : joints[i] # "bad"

\* The builder is taken out before building, so it is spent even if that throws.
viam_trajex_kinematics_chain_builder_build(h, b) ==
  LET spent == [h EXCEPT ![b].spent = TRUE, ![b].joints = <<>>]
  IN  IF b = NULL \/ h[b].spent THEN Thrown(h)
      ELSE Thrown(spent) \cup
           (IF ~Buildable(h[b].joints) THEN {}
            ELSE {Result(Put(spent, a, [kind |-> "chain", joints |-> h[b].joints]), 0, a, NULL) :
                    a \in Spare(spent)})

viam_trajex_kinematics_chain_destroy(h, c) == IF c = NULL THEN h ELSE Drop(h, c)

viam_trajex_kinematics_chain_end_position(h, c, n_q) ==
  Thrown(h) \cup IF c = NULL \/ n_q # dof(h[c].joints) THEN {} ELSE {Done(h)}

-----------------------------------------------------------------------------
(* Streaming sessions: how many samples of motion are planned, and the next *)

build_streaming_session_accepts(m, chain) ==
  /\ "limits" \in DOMAIN m /\ m["limits"].dtype = "f64" /\ Len(m["limits"].shape) = 1
  /\ require_vector(m, "tolerance", 1)
  /\ require_vector(m, "rate", 1)
  /\ tcp_limits_for(m, chain, m["limits"].shape[1])

viam_trajex_totg_streaming_session_create(h, c, options) ==
  Thrown(h) \cup
  IF options = NULL \/ ~build_streaming_session_accepts(h[options].tensors, ChainAt(h, c)) THEN {}
  ELSE {Result(Put(h, a, [kind |-> "session", n_dof |-> h[options].tensors["limits"].shape[1],
                          planned |-> 0, next |-> 1]), 0, a, NULL) : a \in Spare(h)}

viam_trajex_totg_streaming_session_destroy(h, s) == IF s = NULL THEN h ELSE Drop(h, s)

viam_trajex_totg_streaming_session_extend(h, s, batch) ==
  Thrown(h) \cup
  IF NULL \in {s, batch} \/ ~require_matrix(h[batch].tensors, "waypoints") THEN {}
  ELSE LET waypoints == h[batch].tensors["waypoints"]
           total == h[s].planned + waypoints.data
       IN  IF waypoints.shape[2] # h[s].n_dof \/ waypoints.data = 0 \/ total > MaxSamples THEN {}
           ELSE {Done([h EXCEPT ![s].planned = total])}

\* Fault: an output that cannot be made is not reported.
sample_unreported(h, s, n, out) ==
  IF NULL \in {s, out} THEN Thrown(h)
  ELSE LET to == IF h[s].next + n - 1 < h[s].planned THEN h[s].next + n - 1 ELSE h[s].planned
           advanced == [h EXCEPT ![s].next = to + 1]
       IN  Thrown(h) \cup {Done(advanced)} \cup
           {Done([advanced EXCEPT ![out].tensors = Samples(h[s].next, to, h[s].n_dof)])}

\* sample_next and sample_at_least: the session advances, then the output is made
\* of its samples; either may throw.
viam_trajex_totg_streaming_session_sample(h, s, n, out) ==
  IF NULL \in {s, out} THEN Thrown(h)
  ELSE LET to == IF h[s].next + n - 1 < h[s].planned THEN h[s].next + n - 1 ELSE h[s].planned
           advanced == [h EXCEPT ![s].next = to + 1]
       IN  Thrown(h) \cup Thrown(advanced) \cup
           {Done([advanced EXCEPT ![out].tensors = Samples(h[s].next, to, h[s].n_dof)])}

=============================================================================

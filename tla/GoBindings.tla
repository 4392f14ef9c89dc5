------------------------------ MODULE GoBindings ------------------------------
(***************************************************************************)
(* The Go packages over the C interface (go/tensor_map.go, go/kinematics,  *)
(* go/totg, go/totg/streaming, go/totg/rdk) and a C caller of the chain    *)
(* builder.  A Go call of several C calls takes a step for each, and the   *)
(* caller's context may be cancelled between any two.                      *)
(*                                                                         *)
(* Abstractions.  The caller has two tensor maps, one it only fills and    *)
(* one it only passes as outputs, a chain and a session, each of which may *)
(* be closed, that is NULL, whenever it is used, except where the C        *)
(* interface has no way to refuse that.                                    *)
(***************************************************************************)
EXTENDS CApi

CONSTANTS
  Keys,        \* keys the caller inserts under
  TensorsFor,  \* TensorsFor[k]: the tensors it inserts under k
  Prepared,    \* what its map of inputs holds at first
  JointLists,  \* the joint lists it builds chains of
  Programs     \* the sets of calls that callers may make

\* A datum counts samples; a joint is one of CApi's, or none a constructor made.
ASSUME CallerAssumption ==
  /\ \A k \in Keys : \A t \in TensorsFor[k] : t.data \in Nat
  /\ \A k \in DOMAIN Prepared : Prepared[k].data \in Nat
  /\ JointLists \subseteq Seq({"fixed", "moving", "bad", "unset"})

VARIABLES
  heap,       \* the C heap: a function on the live addresses
  held,       \* the pointers of the Go objects and of the calls in progress
  call,       \* the Go call in progress
  cancelled,  \* ctx.Err() != nil
  returned,   \* what the latest call returned
  client,     \* what the caller has seen: views into the outputs, and samples
  program     \* the calls this caller makes

vars == <<heap, held, call, cancelled, returned, client, program>>

\* The kind of object each pointer is for: the caller's objects first.
KindOf == [inputs |-> "map", outputs |-> "map", chain |-> "chain", session |-> "session",
           builder |-> "builder",
           inMap |-> "map", outMap |-> "map", newBuilder |-> "builder", errOut |-> "string"]
Holders == DOMAIN KindOf
Locals == {"inMap", "outMap", "newBuilder", "errOut"}

\* chain, inputs, before: the arguments, and the outputs on entry; keys and joints:
\* what is still to be marshalled; read: the outputs copied so far.
NoCall == [op |-> "none", pc |-> "none", chain |-> NULL, inputs |-> Without, before |-> Without,
           keys |-> {}, joints |-> <<>>, read |-> Without, outcome |-> "error"]
Idle == call.pc = "none"
Contents(h, m) == IF m = NULL THEN Without ELSE h[m].tensors

\* What a call returns is kept until the next one, where a property is about it.
Nothing == [outcome |-> "none"]
Silent == returned' = Nothing

Init ==
  /\ \E a \in Spare(Without) :
       /\ heap = Put(Without, a, MapOf(Prepared))
       /\ held = [x \in Holders |-> IF x = "inputs" THEN a ELSE NULL]
  /\ call = NoCall
  /\ cancelled = FALSE
  /\ returned = Nothing
  /\ client = [views |-> {}, received |-> 0, announced |-> FALSE]
  /\ program \in Programs

\* A pointer x is given the handle a result returns, with the heap it leaves.
Take(x, r) == heap' = r.heap /\ held' = [held EXCEPT ![x] = r.ret]
Lose(x, h) == heap' = h /\ held' = [held EXCEPT ![x] = NULL]


\* Go on with and leave a call of several steps.
GoTo(pc) == call' = [call EXCEPT !.pc = pc]
Return(outcome) == call' = NoCall /\ returned' = [outcome |-> outcome, read |-> call.read]

-----------------------------------------------------------------------------
(* Tensor maps *)

NewTensorMap(x) ==
  /\ Idle /\ held[x] = NULL
  /\ \E r \in viam_trajex_tensor_map_create(heap) : Take(x, r)
  /\ Silent
  /\ UNCHANGED <<call, cancelled, client>>

\* Close is idempotent; the views into a closed map end with it.
CloseMap(x) ==
  /\ Idle
  /\ Lose(x, viam_trajex_tensor_map_destroy(heap, held[x]))
  /\ client' = IF x = "outputs" THEN [client EXCEPT !.views = {}] ELSE client
  /\ Silent
  /\ UNCHANGED <<call, cancelled>>

\* InsertFloat64s, InsertInt64s and the scalar forms.
Insert(x, k, t) ==
  /\ Idle
  /\ \E r \in viam_trajex_tensor_map_insert(heap, held[x], k, t) :
       /\ heap' = r.heap
       /\ client' = IF x = "outputs" /\ r.rc = 0
                      THEN [client EXCEPT !.views = {v \in @ : v.key # k}] ELSE client
  /\ Silent
  /\ UNCHANGED <<held, call, cancelled>>

\* ViewFloat64s: the slice aliases the map's storage.
View(k) ==
  /\ Idle
  /\ LET r == viam_trajex_tensor_map_view(heap, held["outputs"], k)
     IN  IF r.rc = 0 /\ r.ret.dtype = "f64"
           THEN client' = [client EXCEPT !.views = @ \cup {[key |-> k, tensor |-> r.ret]}]
           ELSE client' = client
  /\ Silent
  /\ UNCHANGED <<heap, held, call, cancelled>>

-----------------------------------------------------------------------------
(* totg.Generate, and service.Infer, which makes and closes its own maps *)

InputsOf(op) == IF op = "Infer" THEN held["inMap"] ELSE held["inputs"]
OutputsOf(op) == IF op = "Infer" THEN held["outMap"] ELSE held["outputs"]

\* Without a chain, or with one that has not been closed.
Generate(with_chain) ==
  /\ Idle
  /\ IF with_chain /\ held["chain"] = NULL
       THEN Silent /\ UNCHANGED call
       ELSE /\ call' = [NoCall EXCEPT !.op = "Generate", !.pc = "entry",
                       !.chain = IF with_chain THEN held["chain"] ELSE NULL,
                       !.inputs = Contents(heap, held["inputs"]),
                       !.before = Contents(heap, held["outputs"])]
            /\ UNCHANGED returned
  /\ UNCHANGED <<heap, held, cancelled, client>>

\* Where generate returns to: its caller, or the rest of Infer.
GenerateReturns(outcome) ==
  IF call.op = "Infer"
    THEN call' = [call EXCEPT !.pc = IF outcome = "ok" THEN "read" ELSE "close_out",
                              !.outcome = outcome] /\ UNCHANGED returned
    ELSE Return(outcome)

CheckContext(pc) ==
  /\ call.pc = pc
  /\ IF cancelled THEN GenerateReturns("cancelled")
     ELSE IF pc = "entry" THEN GoTo("generate") /\ UNCHANGED returned
     ELSE GenerateReturns("ok")
  /\ UNCHANGED <<heap, held, cancelled, client>>

\* The C call; the views into the outputs end when it replaces them.
CallGenerate ==
  /\ call.pc = "generate"
  /\ \E r \in viam_trajex_totg_generate(heap, call.chain, InputsOf(call.op), OutputsOf(call.op)) :
       /\ heap' = r.heap
       /\ held' = [held EXCEPT !["errOut"] = r.err]
       /\ client' = IF r.rc = 0 /\ call.op = "Generate" THEN [client EXCEPT !.views = {}] ELSE client
       /\ GoTo(IF r.rc = 0 THEN "exit" ELSE "report")
  /\ UNCHANGED <<cancelled, returned>>

\* The diagnostic is copied into a Go error and its C string destroyed.
Report ==
  /\ call.pc = "report"
  /\ Lose("errOut", viam_trajex_string_destroy(heap, held["errOut"]))
  /\ IF call.op = "NewChain" THEN GoTo("destroy_builder") /\ UNCHANGED returned
     ELSE GenerateReturns("error")
  /\ UNCHANGED <<cancelled, client>>

\* Any set of the tensors the caller has, in the order the map is walked.
Infer(tensors) ==
  /\ Idle
  /\ call' = [NoCall EXCEPT !.op = "Infer", !.pc = "make_in", !.inputs = tensors,
                            !.keys = DOMAIN tensors]
  /\ UNCHANGED <<heap, held, cancelled, returned, client>>

InferMakes(pc, x, next, failed) ==
  /\ call.pc = pc
  /\ \E r \in viam_trajex_tensor_map_create(heap) :
       Take(x, r) /\ GoTo(IF r.rc = 0 THEN next ELSE failed)
  /\ UNCHANGED <<cancelled, returned, client>>

InferMarshals ==
  /\ call.pc = "marshal"
  /\ IF call.keys = {} THEN GoTo("entry") /\ UNCHANGED heap
     ELSE \E k \in call.keys :
            \E r \in viam_trajex_tensor_map_insert(heap, held["inMap"], k, call.inputs[k]) :
              /\ heap' = r.heap
              /\ call' = [call EXCEPT !.keys = @ \ {k}, !.pc = IF r.rc = 0 THEN @ ELSE "close_out"]
  /\ UNCHANGED <<held, cancelled, returned, client>>

OutputKeys == {"sample_times", "configurations", "velocities", "accelerations"}

\* Each output is viewed and copied; the order is fixed and does not matter here.
InferReads ==
  /\ call.pc = "read"
  /\ LET views == [k \in OutputKeys |-> viam_trajex_tensor_map_view(heap, held["outMap"], k)]
         whole == \A k \in OutputKeys : views[k].rc = 0 /\ views[k].ret.dtype = "f64"
     IN  call' = IF whole
                   THEN [call EXCEPT !.read = [k \in OutputKeys |-> views[k].ret], !.pc = "close_out"]
                   ELSE [call EXCEPT !.outcome = "error", !.pc = "close_out"]
  /\ UNCHANGED <<heap, held, cancelled, returned, client>>

\* Fault: the deferred Close of the output map is skipped when generation has failed.
InferCloses_leaky(pc, x) ==
  /\ call.pc = pc
  /\ IF x = "outMap" /\ call.outcome # "ok" THEN UNCHANGED <<heap, held>>
     ELSE Lose(x, viam_trajex_tensor_map_destroy(heap, held[x]))
  /\ IF x = "outMap" THEN GoTo("close_in") /\ UNCHANGED returned
     ELSE Return(call.outcome)
  /\ UNCHANGED <<cancelled, client>>

\* The deferred calls, last in first out; what was read is returned.
InferCloses(pc, x) ==
  /\ call.pc = pc
  /\ Lose(x, viam_trajex_tensor_map_destroy(heap, held[x]))
  /\ IF x = "outMap" THEN GoTo("close_in") /\ UNCHANGED returned
     ELSE Return(call.outcome)
  /\ UNCHANGED <<cancelled, client>>

-----------------------------------------------------------------------------
(* Chains *)

NewChain(joints) ==
  /\ Idle /\ held["chain"] = NULL
  /\ \E r \in viam_trajex_kinematics_chain_builder_create(heap) :
       /\ Take("newBuilder", r)
       /\ IF r.rc = 0
            THEN /\ call' = [NoCall EXCEPT !.op = "NewChain", !.pc = "extend",
                                          !.inputs = joints, !.joints = joints]
                 /\ UNCHANGED returned
            ELSE Silent /\ UNCHANGED call
  /\ UNCHANGED <<cancelled, client>>

\* Fault: the return code of an extension is ignored.
NewChainExtends_unchecked ==
  /\ call.pc = "extend" /\ call.joints # <<>>
  /\ IF Head(call.joints) = "unset" THEN GoTo("destroy_builder") /\ UNCHANGED heap
     ELSE \E r \in viam_trajex_kinematics_chain_builder_extend(heap, held["newBuilder"], Head(call.joints)) :
            heap' = r.heap /\ call' = [call EXCEPT !.joints = Tail(@)]
  /\ UNCHANGED <<held, cancelled, returned, client>>

\* A joint no constructor made, or one that cannot be appended, ends the call.
NewChainExtends ==
  /\ call.pc = "extend" /\ call.joints # <<>>
  /\ IF Head(call.joints) = "unset" THEN GoTo("destroy_builder") /\ UNCHANGED heap
     ELSE \E r \in viam_trajex_kinematics_chain_builder_extend(heap, held["newBuilder"], Head(call.joints)) :
            /\ heap' = r.heap
            /\ call' = IF r.rc = 0 THEN [call EXCEPT !.joints = Tail(@)]
                       ELSE [call EXCEPT !.pc = "destroy_builder"]
  /\ UNCHANGED <<held, cancelled, returned, client>>

NewChainBuilds ==
  /\ call.pc = "extend" /\ call.joints = <<>>
  /\ \E r \in viam_trajex_kinematics_chain_builder_build(heap, held["newBuilder"]) :
       /\ heap' = r.heap
       /\ held' = [held EXCEPT !["chain"] = r.ret, !["errOut"] = r.err]
       /\ call' = IF r.rc = 0 THEN [call EXCEPT !.pc = "destroy_builder", !.outcome = "ok"]
                  ELSE [call EXCEPT !.pc = "report"]
  /\ UNCHANGED <<cancelled, returned, client>>

\* Deferred, on every path out of NewChain.
NewChainReturns ==
  /\ call.pc = "destroy_builder"
  /\ Lose("newBuilder", viam_trajex_kinematics_chain_builder_destroy(heap, held["newBuilder"]))
  /\ Return(call.outcome)
  /\ UNCHANGED <<cancelled, client>>

CloseChain ==
  /\ Idle
  /\ Lose("chain", viam_trajex_kinematics_chain_destroy(heap, held["chain"]))
  /\ Silent
  /\ UNCHANGED <<call, cancelled, client>>

\* A call that is over once its diagnostic, if any, has been reported.
FinishOrReport(op, r) ==
  IF r.rc = 0 THEN UNCHANGED call /\ Silent
  ELSE call' = [NoCall EXCEPT !.op = op, !.pc = "report"] /\ UNCHANGED returned

EndPosition(n_q) ==
  /\ Idle
  /\ IF held["chain"] = NULL
       THEN Silent /\ UNCHANGED <<heap, held, call>>
       ELSE \E r \in viam_trajex_kinematics_chain_end_position(heap, held["chain"], n_q) :
              /\ heap' = r.heap
              /\ held' = [held EXCEPT !["errOut"] = r.err]
              /\ FinishOrReport("EndPosition", r)
  /\ UNCHANGED <<cancelled, client>>

\* A C caller with a builder of its own, which it may build and extend again.
BuilderCreate ==
  /\ Idle /\ held["builder"] = NULL
  /\ \E r \in viam_trajex_kinematics_chain_builder_create(heap) :
       Take("builder", r)
  /\ Silent
  /\ UNCHANGED <<call, cancelled, client>>

BuilderExtend(joint) ==
  /\ Idle /\ held["builder"] # NULL /\ Len(heap[held["builder"]].joints) < 1
  /\ \E r \in viam_trajex_kinematics_chain_builder_extend(heap, held["builder"], joint) :
       heap' = r.heap
  /\ Silent
  /\ UNCHANGED <<held, call, cancelled, client>>

BuilderBuild ==
  /\ Idle /\ held["chain"] = NULL
  /\ \E r \in viam_trajex_kinematics_chain_builder_build(heap, held["builder"]) :
       /\ heap' = r.heap
       /\ held' = [held EXCEPT !["chain"] = r.ret, !["errOut"] = r.err]
       /\ FinishOrReport("BuilderBuild", r)
  /\ UNCHANGED <<cancelled, client>>

BuilderDestroy ==
  /\ Idle
  /\ Lose("builder", viam_trajex_kinematics_chain_builder_destroy(heap, held["builder"]))
  /\ Silent
  /\ UNCHANGED <<call, cancelled, client>>

-----------------------------------------------------------------------------
(* Streaming sessions *)

NewSession(with_chain) ==
  /\ Idle /\ held["session"] = NULL
  /\ IF with_chain /\ held["chain"] = NULL
       THEN Silent /\ UNCHANGED <<heap, held, call>>
       ELSE \E r \in viam_trajex_totg_streaming_session_create(
                       heap, IF with_chain THEN held["chain"] ELSE NULL, held["inputs"]) :
              /\ heap' = r.heap
              /\ held' = [held EXCEPT !["session"] = r.ret, !["errOut"] = r.err]
              /\ FinishOrReport("New", r)
  /\ client' = [client EXCEPT !.received = 0, !.announced = FALSE]
  /\ UNCHANGED cancelled

CloseSession ==
  /\ Idle
  /\ Lose("session", viam_trajex_totg_streaming_session_destroy(heap, held["session"]))
  /\ client' = [client EXCEPT !.received = 0, !.announced = FALSE]
  /\ Silent
  /\ UNCHANGED <<call, cancelled>>

\* Extend and the sampling calls honour the context at entry only.
Extend ==
  /\ Idle
  /\ IF cancelled
       THEN Silent /\ UNCHANGED <<heap, held, call>>
       ELSE \E r \in viam_trajex_totg_streaming_session_extend(heap, held["session"], held["inputs"]) :
              /\ heap' = r.heap
              /\ held' = [held EXCEPT !["errOut"] = r.err]
              /\ FinishOrReport("Extend", r)
  /\ UNCHANGED <<cancelled, client>>

\* The number of samples in a map of outputs.
Counted(tensors) == tensors["sample_times"].shape[1]

Sample(n) ==
  /\ Idle
  /\ IF cancelled
       THEN Silent /\ UNCHANGED <<heap, held, call, client>>
       ELSE \E r \in viam_trajex_totg_streaming_session_sample(heap, held["session"], n, held["outputs"]) :
              /\ heap' = r.heap
              /\ held' = [held EXCEPT !["errOut"] = r.err]
              /\ FinishOrReport("Sample", r)
              /\ client' = IF r.rc # 0 THEN [client EXCEPT !.announced = TRUE]
                           ELSE LET out == r.heap[held["outputs"]].tensors
                                IN  [client EXCEPT !.views = {},
                                       !.received = IF "sample_times" \in DOMAIN out
                                                      THEN @ + Counted(out) ELSE @]
  /\ UNCHANGED cancelled

-----------------------------------------------------------------------------

\* Another goroutine cancels the context; the next calls are given a new one.
Cancel == ~cancelled /\ cancelled' = TRUE /\ UNCHANGED <<heap, held, call, returned, client>>
NewContext == Idle /\ cancelled /\ cancelled' = FALSE /\ UNCHANGED <<heap, held, call, returned, client>>

\* The calls the caller makes, by what it makes them for.
MapCalls ==
  \/ \E x \in {"inputs", "outputs"} : NewTensorMap(x) \/ CloseMap(x)
  \/ \E k \in Keys : \E t \in TensorsFor[k] : Insert("inputs", k, t)
  \/ \E t \in TensorsFor["rate"] : Insert("outputs", "sample_times", t)
  \/ \E k \in {"sample_times", "velocities"} : View(k)

ChainCalls ==
  \/ \E joints \in JointLists : NewChain(joints)
  \/ CloseChain
  \/ \E n \in 0..1 : EndPosition(n)

BuilderCalls ==
  \/ BuilderCreate \/ BuilderBuild \/ BuilderDestroy
  \/ \E joint \in {"moving", "bad"} : BuilderExtend(joint)

SessionCalls ==
  \/ \E b \in BOOLEAN : NewSession(b)
  \/ CloseSession \/ Extend
  \/ \E n \in 1..2 : Sample(n)

InferCalls ==
  \E keys \in SUBSET Keys : \E tensors \in [keys -> UNION {TensorsFor[k] : k \in Keys}] :
    (\A k \in keys : tensors[k] \in TensorsFor[k]) /\ Infer(tensors)

CallerSteps ==
  \/ "maps" \in program /\ MapCalls
  \/ "generate" \in program /\ \E b \in BOOLEAN : Generate(b)
  \/ "chains" \in program /\ ChainCalls
  \/ "builder" \in program /\ BuilderCalls
  \/ "sessions" \in program /\ SessionCalls
  \/ "infer" \in program /\ InferCalls

CallSteps ==
  \/ CheckContext("entry") \/ CallGenerate \/ CheckContext("exit") \/ Report
  \/ InferMakes("make_in", "inMap", "make_out", "close_in")
  \/ InferMakes("make_out", "outMap", "marshal", "close_out")
  \/ InferMarshals \/ InferReads
  \/ InferCloses("close_out", "outMap") \/ InferCloses("close_in", "inMap")
  \/ NewChainExtends \/ NewChainBuilds \/ NewChainReturns

Next == (CallerSteps \/ CallSteps \/ Cancel \/ NewContext) /\ UNCHANGED program

Spec == Init /\ [][Next]_vars

-----------------------------------------------------------------------------
(* Properties *)

\* Every live object of the C heap is held by exactly one pointer, which is of its
\* kind, and no pointer is to anything else: nothing leaks, dangles or is owned
\* twice, whichever call failed at whichever of its steps; between calls only the
\* caller's own objects live (Close, the deferred calls of NewChain and Infer, the
\* diagnostics).
HandlesOwned ==
  /\ \A x \in Holders : held[x] # NULL => held[x] \in DOMAIN heap /\ heap[held[x]].kind = KindOf[x]
  /\ \A x, y \in Holders : held[x] = held[y] /\ held[x] # NULL => x = y
  /\ \A a \in DOMAIN heap : \E x \in Holders : held[x] = a
  /\ Idle => \A x \in Locals : held[x] = NULL

\* When Generate returns, its outputs are what they were before it, or all four
\* tensors of the one motion its inputs describe: the former if it failed, the latter
\* if it succeeded.  What Infer returns is likewise the whole motion of its inputs.
OutputsWhole ==
  [][call.op \in {"Generate", "Infer"} /\ call'.pc = "none" =>
       LET now == IF call.op = "Infer" THEN returned'.read ELSE Contents(heap', held["outputs"])
           motion == totg_generate_impl(call.inputs, NoChain)
       IN  CASE returned'.outcome = "ok" -> now = motion
             [] returned'.outcome = "error" -> now = call.before
             [] OTHER -> now = call.before \/ (call.op = "Generate" /\ now = motion)]_vars

\* A view into the outputs stays what it was read as until the caller closes the map,
\* replaces the key, or has the outputs replaced: calls that fail leave it alone.
ViewsStand ==
  \A v \in client.views :
    LET out == Contents(heap, held["outputs"])
    IN  v.key \in DOMAIN out /\ out[v.key] = v.tensor

\* Samples that the session has handed out and the caller has not received have
\* been announced by an error of a sampling call; none is received twice.
NothingLostSilently ==
  held["session"] # NULL =>
    LET handed_out == heap[held["session"]].next - 1
    IN  client.received <= handed_out /\ (client.received < handed_out => client.announced)

\* A chain that NewChain returns has every joint it was asked for, in order.
ChainAsGiven ==
  [][call.op = "NewChain" /\ call'.pc = "none" =>
       /\ (returned'.outcome = "ok") = (held'["chain"] # NULL)
       /\ held'["chain"] # NULL => heap'[held'["chain"]].joints = call.inputs]_vars

=============================================================================

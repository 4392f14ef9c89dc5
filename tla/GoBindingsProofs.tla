--------------------------- MODULE GoBindingsProofs ---------------------------
(***************************************************************************)
(* What a caller of the Go packages may rely on: that every object of the  *)
(* C heap has one owner, that views stand, that samples are not lost in    *)
(* silence, and that a call leaves all of its outputs or none of them.     *)
(* Proved for every set of programs, for every way an allocation may fail. *)
(***************************************************************************)
EXTENDS GoBindings, SequenceTheorems, TLAPS

Joint == {"fixed", "moving", "bad", "unset"}

\* An object of a kind, with the fields of its kind.
Typed(o, kind) ==
  /\ o.kind = kind
  /\ kind = "map" => o = [kind |-> "map", tensors |-> o.tensors]
  /\ kind = "builder" => o = [kind |-> "builder", joints |-> o.joints, spent |-> o.spent]
  /\ kind = "chain" => o = [kind |-> "chain", joints |-> o.joints]
  /\ kind = "session" =>
       o = [kind |-> "session", n_dof |-> o.n_dof, planned |-> o.planned, next |-> o.next]

\* Each pointer is to an object of its kind, and each object is held by one pointer.
Owned(h, g) ==
  /\ g = [x \in Holders |-> g[x]]
  /\ \A x \in Holders : g[x] # NULL => g[x] \in DOMAIN h /\ Typed(h[g[x]], KindOf[x])
  /\ \A x, y \in Holders : g[x] = g[y] /\ g[x] # NULL => x = y
  /\ DOMAIN h \subseteq Addr
  /\ \A a \in DOMAIN h : \E x \in Holders : g[x] = a

\* A step from one heap and its pointers to others that leaves alone every pointer
\* that is not in T, and what it points to.
Moves(h, g, h2, g2, T) ==
  /\ Owned(h2, g2)
  /\ \A x \in Holders \ T : g2[x] = g[x] /\ (g[x] # NULL => h2[g[x]] = h[g[x]])

\* The locals of a call are held only while it is at a step that needs them.
LocalsHeld ==
  /\ held["errOut"] # NULL => call.pc = "report"
  /\ held["newBuilder"] # NULL => call.op = "NewChain"
  /\ held["inMap"] # NULL => call.op = "Infer" /\ call.pc # "make_in"
  /\ held["outMap"] # NULL => call.op = "Infer" /\ call.pc \notin {"make_in", "make_out", "close_in"}

InputsCount ==
  held["inputs"] # NULL =>
    \A k \in DOMAIN heap[held["inputs"]].tensors : heap[held["inputs"]].tensors[k].data \in Nat

SessionCounts ==
  held["session"] # NULL =>
    LET s == heap[held["session"]]
    IN  s.next \in Nat \ {0} /\ s.planned \in Nat /\ s.next <= s.planned + 1

ClientOK ==
  /\ client = [views |-> client.views, received |-> client.received, announced |-> client.announced]
  /\ client.received \in Nat

\* The motion that the inputs of the call in progress describe.
Motion == totg_generate_impl(call.inputs, NoChain)

InGenerate ==
  /\ call.pc \in {"entry", "generate", "exit", "report"}
  /\ call.pc \in {"entry", "generate"} => Contents(heap, held["inputs"]) = call.inputs
  /\ call.pc # "exit" => Contents(heap, held["outputs"]) = call.before
  /\ call.pc = "exit" => Contents(heap, held["outputs"]) = Motion

InInfer ==
  /\ call.pc \in {"make_in", "make_out", "marshal", "entry", "generate", "exit", "report",
                  "read", "close_out", "close_in"}
  /\ call.before = Without
  /\ call.inputs = [k \in DOMAIN call.inputs |-> call.inputs[k]]
  /\ call.keys \subseteq DOMAIN call.inputs
  /\ call.pc = "make_in" => call.keys = DOMAIN call.inputs
  /\ call.pc \in {"make_out", "marshal"} /\ held["inMap"] # NULL =>
       heap[held["inMap"]].tensors = [k \in DOMAIN call.inputs \ call.keys |-> call.inputs[k]]
  /\ call.pc \in {"entry", "generate"} /\ held["inMap"] # NULL =>
       heap[held["inMap"]].tensors = call.inputs
  /\ call.pc \in {"exit", "read"} /\ held["outMap"] # NULL => heap[held["outMap"]].tensors = Motion
  /\ call.pc \notin {"read", "close_out", "close_in"} => call.outcome = "error"
  /\ call.pc = "read" => call.outcome = "ok"
  /\ call.read = IF call.pc # "read" /\ call.outcome = "ok" THEN Motion ELSE Without

InNewChain ==
  /\ call.pc \in {"extend", "report", "destroy_builder"}
  /\ call.pc # "destroy_builder" => held["chain"] = NULL /\ call.outcome = "error"
  /\ call.pc = "extend" =>
       /\ call.joints \in Seq(Joint)
       /\ held["newBuilder"] # NULL =>
            /\ heap[held["newBuilder"]].joints \in Seq(Joint)
            /\ heap[held["newBuilder"]].joints \o call.joints = call.inputs
  /\ call.pc = "destroy_builder" => (call.outcome = "ok") = (held["chain"] # NULL)
  /\ held["chain"] # NULL => heap[held["chain"]].joints = call.inputs

CallShape ==
  call = [op |-> call.op, pc |-> call.pc, chain |-> call.chain, inputs |-> call.inputs,
          before |-> call.before, keys |-> call.keys, joints |-> call.joints,
          read |-> call.read, outcome |-> call.outcome]

CallOK ==
  /\ CallShape
  /\ \/ call = NoCall
     \/ call.op = "Generate" /\ InGenerate
     \/ call.op = "Infer" /\ InInfer
     \/ call.op = "NewChain" /\ InNewChain
     \/ call.op \in {"EndPosition", "BuilderBuild", "New", "Extend", "Sample"} /\ call.pc = "report"

CallerOK == InputsCount /\ SessionCounts /\ ClientOK /\ ViewsStand /\ NothingLostSilently

GoInv == Owned(heap, held) /\ LocalsHeld /\ CallOK /\ CallerOK

-----------------------------------------------------------------------------
(* Heaps and pointers *)

LEMMA Kinds ==
  /\ {"inputs", "outputs", "chain", "session", "builder"} \subseteq Holders
  /\ {"inMap", "outMap", "newBuilder", "errOut"} \subseteq Holders
  /\ \A x \in {"inputs", "outputs", "inMap", "outMap"} : KindOf[x] = "map"
  /\ \A x \in {"builder", "newBuilder"} : KindOf[x] = "builder"
  /\ KindOf["chain"] = "chain" /\ KindOf["session"] = "session" /\ KindOf["errOut"] = "string"
BY DEF KindOf, Holders

\* Where the next object goes.
LEMMA SpareIs ==
  ASSUME NEW h, NEW a \in Spare(h)
  PROVE  a \in Addr /\ a \notin DOMAIN h /\ a # NULL
BY AddressAssumption DEF Spare

\* A pointer is changed.
Pointing(g, x, a) == [g EXCEPT ![x] = a]

\* The heap with other tensors in a map.
Refilled(h, a, tensors) == [h EXCEPT ![a].tensors = tensors]

LEMMA Gives ==
  ASSUME NEW h, NEW g, Owned(h, g), NEW x \in Holders, g[x] = NULL,
         NEW a \in Spare(h), NEW o, Typed(o, KindOf[x])
  PROVE  /\ Moves(h, g, Put(h, a, o), Pointing(g, x, a), {x})
         /\ Put(h, a, o)[a] = o /\ a # NULL /\ Pointing(g, x, a)[x] = a
<1>1. a \in Addr /\ a \notin DOMAIN h /\ a # NULL
  BY SpareIs
<1> DEFINE h2 == Put(h, a, o)
           g2 == Pointing(g, x, a)
<1>2. DOMAIN h2 = DOMAIN h \cup {a} /\ h2[a] = o /\ \A b \in DOMAIN h : h2[b] = h[b]
  BY <1>1 DEF Put
<1>3. /\ g2 = [y \in Holders |-> g2[y]] /\ g2[x] = a
      /\ \A y \in Holders : y # x => g2[y] = g[y]
  BY DEF Owned, Pointing
<1> HIDE DEF h2, g2
<1>4. \A y \in Holders \ {x} : g2[y] = g[y] /\ (g[y] # NULL => h2[g[y]] = h[g[y]])
  BY <1>2, <1>3 DEF Owned
<1>5. Owned(h2, g2)
  <2>1. \A y \in Holders : g2[y] # NULL => g2[y] \in DOMAIN h2 /\ Typed(h2[g2[y]], KindOf[y])
    BY <1>2, <1>3, <1>4 DEF Owned
  <2>2. \A y, z \in Holders : g2[y] = g2[z] /\ g2[y] # NULL => y = z
    BY <1>1, <1>3 DEF Owned
  <2>3. DOMAIN h2 \subseteq Addr
    BY <1>1, <1>2 DEF Owned
  <2>4. \A b \in DOMAIN h2 : \E y \in Holders : g2[y] = b
    <3>1. TAKE b \in DOMAIN h2
    <3>2. CASE b = a
      BY <1>3, <3>2
    <3>3. CASE b # a
      <4>1. PICK y \in Holders : g[y] = b
        BY <1>2, <3>1, <3>3 DEF Owned
      <4>2. y # x
        BY <4>1, <3>1, <3>3, <1>2, AddressAssumption DEF Owned
      <4> QED
        BY <4>1, <4>2, <1>3
    <3> QED
      BY <3>2, <3>3
  <2> QED
    BY <1>3, <2>1, <2>2, <2>3, <2>4 DEF Owned
<1>6. Moves(h, g, h2, g2, {x}) /\ h2[a] = o /\ g2[x] = a
  BY <1>2, <1>3, <1>4, <1>5 DEF Moves
<1> QED
  BY <1>1, <1>6 DEF h2, g2

\* A heap without an object, or as it was: the destructors take a null pointer.
LEMMA Frees ==
  ASSUME NEW h, NEW g, Owned(h, g), NEW x \in Holders,
         NEW h2, h2 = IF g[x] = NULL THEN h ELSE Drop(h, g[x])
  PROVE  Moves(h, g, h2, Pointing(g, x, NULL), {x}) /\ Pointing(g, x, NULL)[x] = NULL
<1> DEFINE g2 == Pointing(g, x, NULL)
<1>1. /\ g2 = [y \in Holders |-> g2[y]] /\ g2[x] = NULL
      /\ \A y \in Holders : y # x => g2[y] = g[y]
  BY DEF Owned, Pointing
<1>2. /\ DOMAIN h2 \subseteq DOMAIN h
      /\ \A b \in DOMAIN h : b # g[x] => b \in DOMAIN h2 /\ h2[b] = h[b]
      /\ g[x] # NULL => g[x] \notin DOMAIN h2
  BY DEF Drop
<1> HIDE DEF g2
<1>3. \A y \in Holders \ {x} : g[y] # NULL => g[y] # g[x] /\ g[y] \in DOMAIN h
  BY DEF Owned
<1>4. \A y \in Holders \ {x} : g2[y] = g[y] /\ (g[y] # NULL => h2[g[y]] = h[g[y]])
  BY <1>1, <1>2, <1>3
<1>5. Owned(h2, g2)
  <2>1. \A y \in Holders : g2[y] # NULL => g2[y] \in DOMAIN h2 /\ Typed(h2[g2[y]], KindOf[y])
    BY <1>1, <1>2, <1>3, <1>4 DEF Owned
  <2>2. \A y, z \in Holders : g2[y] = g2[z] /\ g2[y] # NULL => y = z
    BY <1>1 DEF Owned
  <2>3. \A b \in DOMAIN h2 : \E y \in Holders : g2[y] = b
    <3>1. TAKE b \in DOMAIN h2
    <3>2. PICK y \in Holders : g[y] = b
      BY <1>2, <3>1 DEF Owned
    <3>3. b # NULL
      BY <1>2, <3>1, AddressAssumption DEF Owned
    <3>4. y # x
      BY <1>2, <3>1, <3>2, <3>3
    <3> QED
      BY <1>1, <3>2, <3>4
  <2> QED
    BY <1>1, <1>2, <2>1, <2>2, <2>3 DEF Owned
<1>6. Moves(h, g, h2, g2, {x}) /\ g2[x] = NULL
  BY <1>1, <1>4, <1>5 DEF Moves
<1> QED
  BY <1>6 DEF g2

\* The heap with another object at an address.
Changed(h, a, o) == [h EXCEPT ![a] = o]

LEMMA Updates ==
  ASSUME NEW h, NEW g, Owned(h, g), NEW x \in Holders, g[x] # NULL,
         NEW o, Typed(o, KindOf[x])
  PROVE  Moves(h, g, Changed(h, g[x], o), g, {x}) /\ Changed(h, g[x], o)[g[x]] = o
<1> DEFINE h2 == Changed(h, g[x], o)
<1>1. g[x] \in DOMAIN h
  BY DEF Owned
<1>2. DOMAIN h2 = DOMAIN h /\ h2[g[x]] = o /\ \A b \in DOMAIN h : b # g[x] => h2[b] = h[b]
  BY <1>1 DEF Changed
<1> HIDE DEF h2
<1>3. \A y \in Holders \ {x} : g[y] # NULL => g[y] # g[x] /\ g[y] \in DOMAIN h
  BY DEF Owned
<1>4. \A y \in Holders : g[y] # NULL => Typed(h2[g[y]], KindOf[y])
  BY <1>2, <1>3 DEF Owned
<1>5. Owned(h2, g)
  BY <1>2, <1>4 DEF Owned
<1>6. Moves(h, g, h2, g, {x})
  BY <1>2, <1>3, <1>5 DEF Moves
<1> QED
  BY <1>2, <1>6 DEF h2

LEMMA Stays ==
  ASSUME NEW h, NEW g, Owned(h, g), NEW T
  PROVE  Moves(h, g, h, g, T)
BY DEF Moves

\* A null pointer that is set to null.
LEMMA StaysNull ==
  ASSUME NEW h, NEW g, Owned(h, g), NEW x \in Holders, g[x] = NULL, NEW T
  PROVE  Pointing(g, x, NULL) = g /\ Moves(h, g, h, Pointing(g, x, NULL), T)
<1>1. Pointing(g, x, NULL) = g
  BY DEF Owned, Pointing
<1> QED
  BY <1>1, Stays

LEMMA MovesOn ==
  ASSUME NEW h, NEW g, NEW h2, NEW g2, NEW h3, NEW g3, NEW S, NEW T, NEW U,
         Moves(h, g, h2, g2, S), Moves(h2, g2, h3, g3, T), S \cup T \subseteq U
  PROVE  Moves(h, g, h3, g3, U)
BY DEF Moves

-----------------------------------------------------------------------------
(* The results of calls to the C interface *)

\* new: an object that its pointer is then given, or no object and no pointer.
LEMMA CreatedGives ==
  ASSUME NEW h, NEW g, Owned(h, g), NEW x \in Holders, g[x] = NULL,
         NEW o, Typed(o, KindOf[x]), NEW r \in Created(h, o)
  PROVE  /\ Moves(h, g, r.heap, Pointing(g, x, r.ret), {x})
         /\ Pointing(g, x, r.ret)[x] = r.ret
         /\ r.rc = 0 => r.ret # NULL /\ r.heap[r.ret] = o
         /\ r.rc # 0 => r.ret = NULL
<1>1. CASE r = Refused(h, -1)
  <2>1. r.heap = h /\ r.rc = -1 /\ r.ret = NULL
    BY <1>1 DEF Refused, Result
  <2>2. Moves(h, g, h, Pointing(g, x, NULL), {x}) /\ Pointing(g, x, NULL) = g
    BY StaysNull
  <2> QED
    BY <2>1, <2>2
<1>2. CASE \E a \in Spare(h) : r = Result(Put(h, a, o), 0, a, NULL)
  <2>1. PICK a \in Spare(h) : r = Result(Put(h, a, o), 0, a, NULL)
    BY <1>2
  <2>2. r.heap = Put(h, a, o) /\ r.rc = 0 /\ r.ret = a
    BY <2>1 DEF Result
  <2>3. /\ Moves(h, g, Put(h, a, o), Pointing(g, x, a), {x})
        /\ Put(h, a, o)[a] = o /\ a # NULL /\ Pointing(g, x, a)[x] = a
    BY Gives
  <2> QED
    BY <2>2, <2>3
<1> QED
  BY <1>1, <1>2 DEF Created

\* A call that has thrown hands out a diagnostic.
LEMMA ThrownGives ==
  ASSUME NEW h, NEW g, Owned(h, g), g["errOut"] = NULL, NEW r \in Thrown(h)
  PROVE  /\ Moves(h, g, r.heap, Pointing(g, "errOut", r.err), {"errOut"})
         /\ r.rc = -1 /\ r.ret = NULL /\ r.err # NULL
<1>1. PICK a \in Spare(h) : r = Result(Put(h, a, [kind |-> "string"]), -1, NULL, a)
  BY DEF Thrown
<1>2. r.heap = Put(h, a, [kind |-> "string"]) /\ r.rc = -1 /\ r.ret = NULL /\ r.err = a
  BY <1>1 DEF Result
<1>3. Typed([kind |-> "string"], KindOf["errOut"]) /\ "errOut" \in Holders
  BY Kinds DEF Typed
<1>4. Moves(h, g, Put(h, a, [kind |-> "string"]), Pointing(g, "errOut", a), {"errOut"}) /\ a # NULL
  BY <1>3, Gives
<1> QED
  BY <1>2, <1>4

\* A call that has changed objects, and then thrown.
LEMMA ChangedAndThrown ==
  ASSUME NEW h, NEW g, Owned(h, g), g["errOut"] = NULL,
         NEW h2, NEW T, Moves(h, g, h2, g, T), NEW U, T \cup {"errOut"} \subseteq U,
         NEW r \in Thrown(h2)
  PROVE  /\ Moves(h, g, r.heap, Pointing(g, "errOut", r.err), U)
         /\ \A x \in Holders : g[x] # NULL /\ x # "errOut" => r.heap[g[x]] = h2[g[x]]
         /\ r.rc = -1 /\ r.ret = NULL /\ r.err # NULL
<1>1. Owned(h2, g)
  BY DEF Moves
<1>2. /\ Moves(h2, g, r.heap, Pointing(g, "errOut", r.err), {"errOut"})
      /\ r.rc = -1 /\ r.ret = NULL /\ r.err # NULL
  BY <1>1, ThrownGives
<1>3. Moves(h, g, r.heap, Pointing(g, "errOut", r.err), U)
  BY <1>2, MovesOn
<1> QED
  BY <1>2, <1>3 DEF Moves

\* The tensors of a map are replaced.
LEMMA TensorsReplaced ==
  ASSUME NEW h, NEW g, Owned(h, g), NEW x \in Holders, KindOf[x] = "map", g[x] # NULL,
         NEW tensors
  PROVE  /\ Moves(h, g, Refilled(h, g[x], tensors), g, {x})
         /\ Refilled(h, g[x], tensors)[g[x]].tensors = tensors
<1>1. g[x] \in DOMAIN h /\ h[g[x]] = [kind |-> "map", tensors |-> h[g[x]].tensors]
  BY DEF Owned, Typed
<1>2. PICK o : o = [h[g[x]] EXCEPT !.tensors = tensors]
  OBVIOUS
<1>3. o = [kind |-> "map", tensors |-> tensors]
  BY <1>1, <1>2
<1>4. Typed(o, KindOf[x]) /\ o.tensors = tensors
  BY <1>3 DEF Typed
<1>5. Refilled(h, g[x], tensors) = Changed(h, g[x], o)
  BY <1>2 DEF Changed, Refilled
<1>6. Moves(h, g, Changed(h, g[x], o), g, {x}) /\ Changed(h, g[x], o)[g[x]] = o
  BY <1>4, Updates
<1> QED
  BY <1>4, <1>5, <1>6

LEMMA InsertMoves ==
  ASSUME NEW h, NEW g, Owned(h, g), NEW x \in Holders, KindOf[x] = "map", NEW k, NEW t,
         NEW r \in viam_trajex_tensor_map_insert(h, g[x], k, t)
  PROVE  /\ Moves(h, g, r.heap, g, {x})
         /\ r.rc # 0 => r.heap = h
         /\ r.rc = 0 => /\ g[x] # NULL
                        /\ r.heap[g[x]].tensors = Put(h[g[x]].tensors, k, t)
<1>1. CASE r = Refused(h, -1)
  BY <1>1, Stays DEF Refused, Result
<1>2. CASE g[x] # NULL /\ r = Done([h EXCEPT ![g[x]].tensors = Put(@, k, t)])
  <2>1. PICK tensors : tensors = Put(h[g[x]].tensors, k, t)
    OBVIOUS
  <2>2. r.heap = Refilled(h, g[x], tensors) /\ r.rc = 0
    BY <1>2, <2>1 DEF Done, Result, Refilled
  <2>3. /\ Moves(h, g, Refilled(h, g[x], tensors), g, {x})
        /\ Refilled(h, g[x], tensors)[g[x]].tensors = tensors
    BY <1>2, TensorsReplaced
  <2> QED
    BY <1>2, <2>1, <2>2, <2>3
<1> QED
  BY <1>1, <1>2 DEF viam_trajex_tensor_map_insert

\* The outputs are replaced as a whole, or nothing is.
LEMMA GenerateMoves ==
  ASSUME NEW h, NEW g, Owned(h, g), g["errOut"] = NULL, NEW c,
         NEW x \in Holders, NEW y \in Holders, KindOf[y] = "map",
         NEW r \in viam_trajex_totg_generate(h, c, g[x], g[y])
  PROVE  /\ Moves(h, g, r.heap, Pointing(g, "errOut", r.err), {y, "errOut"})
         /\ r.rc = 0 =>
              /\ r.err = NULL /\ g[x] # NULL /\ g[y] # NULL
              /\ r.heap[g[y]].tensors = totg_generate_impl(h[g[x]].tensors, ChainAt(h, c))
         /\ r.rc # 0 =>
              Moves(h, g, r.heap, Pointing(g, "errOut", r.err), {"errOut"})
<1>1. CASE r \in Thrown(h)
  <2>1. /\ Moves(h, g, r.heap, Pointing(g, "errOut", r.err), {"errOut"})
        /\ r.rc = -1
    BY <1>1, ThrownGives
  <2>2. Moves(h, g, r.heap, Pointing(g, "errOut", r.err), {y, "errOut"})
    BY <2>1 DEF Moves
  <2> QED
    BY <2>1, <2>2
<1>2. ASSUME NULL \notin {g[x], g[y]},
             r = Done([h EXCEPT ![g[y]].tensors =
                                   totg_generate_impl(h[g[x]].tensors, ChainAt(h, c))])
      PROVE  /\ Moves(h, g, r.heap, Pointing(g, "errOut", r.err), {y, "errOut"})
             /\ r.rc = 0 /\ r.err = NULL /\ g[x] # NULL /\ g[y] # NULL
             /\ r.heap[g[y]].tensors = totg_generate_impl(h[g[x]].tensors, ChainAt(h, c))
  <2>1. PICK tensors : tensors = totg_generate_impl(h[g[x]].tensors, ChainAt(h, c))
    OBVIOUS
  <2>2. r.heap = Refilled(h, g[y], tensors) /\ r.rc = 0 /\ r.err = NULL
    BY <1>2, <2>1 DEF Done, Result, Refilled
  <2>3. /\ Moves(h, g, Refilled(h, g[y], tensors), g, {y})
        /\ Refilled(h, g[y], tensors)[g[y]].tensors = tensors
    BY <1>2, TensorsReplaced
  <2>4. Pointing(g, "errOut", r.err) = g
    BY <2>2, StaysNull, Kinds
  <2>5. Moves(h, g, r.heap, Pointing(g, "errOut", r.err), {y, "errOut"})
    BY <2>2, <2>3, <2>4 DEF Moves
  <2> QED
    BY <1>2, <2>1, <2>2, <2>3, <2>5
<1> QED
  BY <1>1, <1>2 DEF viam_trajex_totg_generate

Lengthened(joints, joint) == Append(joints, joint)

LEMMA BuilderExtendMoves ==
  ASSUME NEW h, NEW g, Owned(h, g), NEW x \in Holders, KindOf[x] = "builder", NEW joint,
         NEW r \in viam_trajex_kinematics_chain_builder_extend(h, g[x], joint)
  PROVE  /\ Moves(h, g, r.heap, g, {x})
         /\ r.rc = 0 => g[x] # NULL
                        /\ r.heap[g[x]].joints = Lengthened(h[g[x]].joints, joint)
<1>1. CASE r = Refused(h, -1)
  BY <1>1, Stays DEF Refused, Result
<1>2. CASE g[x] # NULL /\ r = Done([h EXCEPT ![g[x]].joints = Append(@, joint)])
  <2>1. PICK joints : joints = Append(h[g[x]].joints, joint)
    OBVIOUS
  <2>2. r.heap = [h EXCEPT ![g[x]].joints = joints] /\ r.rc = 0
    BY <1>2, <2>1 DEF Done, Result
  <2>3. g[x] \in DOMAIN h /\ h[g[x]] = [kind |-> "builder", joints |-> h[g[x]].joints,
                                        spent |-> h[g[x]].spent]
    BY <1>2 DEF Owned, Typed
  <2>4. PICK o : o = [h[g[x]] EXCEPT !.joints = joints]
    OBVIOUS
  <2>5. o = [kind |-> "builder", joints |-> joints, spent |-> h[g[x]].spent]
    BY <2>3, <2>4
  <2>6. Typed(o, KindOf[x]) /\ o.joints = joints
    BY <2>5 DEF Typed
  <2>7. r.heap = Changed(h, g[x], o)
    BY <2>2, <2>4 DEF Changed
  <2>8. Moves(h, g, Changed(h, g[x], o), g, {x}) /\ Changed(h, g[x], o)[g[x]] = o
    <3>1. g[x] # NULL
      BY <1>2
    <3> QED
      BY <2>6, <3>1, Updates
  <2> QED
    BY <1>2, <2>1, <2>2, <2>6, <2>7, <2>8 DEF Lengthened
<1> QED
  BY <1>1, <1>2 DEF viam_trajex_kinematics_chain_builder_extend

Spent(o) == [o EXCEPT !.spent = TRUE, !.joints = <<>>]

LEMMA SpentBuilder ==
  ASSUME NEW o, Typed(o, "builder")
  PROVE  Typed(Spent(o), "builder")
<1>1. PICK j : j = o.joints
  OBVIOUS
<1>2. PICK s : s = o.spent
  OBVIOUS
<1>3. PICK yes : yes = TRUE
  OBVIOUS
<1>4. PICK none : none = <<>>
  OBVIOUS
<1>5. o = [kind |-> "builder", joints |-> j, spent |-> s]
  BY <1>1, <1>2 DEF Typed
<1>6. PICK p : p = [kind |-> "builder", joints |-> j, spent |-> yes]
  OBVIOUS
<1>7. [o EXCEPT !.spent = yes] = p
  BY <1>5, <1>6
<1>8. [p EXCEPT !.joints = none] = [kind |-> "builder", joints |-> none, spent |-> yes]
  BY <1>6
<1>9. Spent(o) = [kind |-> "builder", joints |-> none, spent |-> yes]
  BY <1>3, <1>4, <1>7, <1>8 DEF Spent
<1> QED
  BY <1>9 DEF Typed

\* The chain has the joints that the builder had.
LEMMA BuildMoves ==
  ASSUME NEW h, NEW g, Owned(h, g), g["errOut"] = NULL, g["chain"] = NULL,
         NEW x \in Holders, KindOf[x] = "builder",
         NEW r \in viam_trajex_kinematics_chain_builder_build(h, g[x])
  PROVE  /\ Moves(h, g, r.heap, Pointing(Pointing(g, "chain", r.ret), "errOut", r.err),
                  {x, "chain", "errOut"})
         /\ r.rc = 0 => r.ret # NULL /\ r.err = NULL /\ g[x] # NULL
                        /\ r.heap[r.ret].joints = h[g[x]].joints
         /\ r.rc # 0 => r.ret = NULL
<1> DEFINE g2 == Pointing(Pointing(g, "chain", r.ret), "errOut", r.err)
<1>0. Pointing(g, "chain", NULL) = g /\ Pointing(g, "errOut", NULL) = g
  BY StaysNull, Kinds
<1>1. CASE r \in Thrown(h)
  <2>1. /\ Moves(h, g, r.heap, Pointing(g, "errOut", r.err), {"errOut"})
        /\ r.rc = -1 /\ r.ret = NULL
    BY <1>1, ThrownGives
  <2>2. g2 = Pointing(g, "errOut", r.err)
    BY <1>0, <2>1
  <2>3. Moves(h, g, r.heap, g2, {x, "chain", "errOut"})
    BY <2>1, <2>2 DEF Moves
  <2> QED
    BY <2>1, <2>3
<1>2. ASSUME g[x] # NULL
      PROVE  LET spent == [h EXCEPT ![g[x]].spent = TRUE, ![g[x]].joints = <<>>]
             IN  Moves(h, g, spent, g, {x})
  <2>1. g[x] \in DOMAIN h /\ Typed(h[g[x]], "builder")
    BY <1>2 DEF Owned
  <2>2. PICK o : o = Spent(h[g[x]])
    OBVIOUS
  <2>3. Typed(o, KindOf[x])
    BY <2>1, <2>2, SpentBuilder
  <2>4. PICK spent : spent = [h EXCEPT ![g[x]].spent = TRUE, ![g[x]].joints = <<>>]
    OBVIOUS
  <2>5. spent = Changed(h, g[x], o)
    BY <2>1, <2>2, <2>4 DEF Changed, Spent
  <2>6. Moves(h, g, Changed(h, g[x], o), g, {x})
    BY <1>2, <2>3, Updates
  <2> QED
    BY <2>4, <2>5, <2>6
<1>3. ASSUME g[x] # NULL,
             NEW spent, spent = [h EXCEPT ![g[x]].spent = TRUE, ![g[x]].joints = <<>>],
             r \in Thrown(spent)
      PROVE  Moves(h, g, r.heap, g2, {x, "chain", "errOut"}) /\ r.rc # 0 /\ r.ret = NULL
  <2>1. Moves(h, g, spent, g, {x}) /\ {x} \cup {"errOut"} \subseteq {x, "chain", "errOut"}
    BY <1>2, <1>3
  <2>2. /\ Moves(h, g, r.heap, Pointing(g, "errOut", r.err), {x, "chain", "errOut"})
        /\ r.rc = -1 /\ r.ret = NULL
    <3>1. Owned(spent, g)
      BY <2>1 DEF Moves
    <3>2. r \in Thrown(spent)
      BY <1>3
    <3>3. /\ Moves(spent, g, r.heap, Pointing(g, "errOut", r.err), {"errOut"})
          /\ r.rc = -1 /\ r.ret = NULL
      BY <3>1, <3>2, ThrownGives
    <3> QED
      BY <2>1, <3>3, MovesOn
  <2>3. g2 = Pointing(g, "errOut", r.err)
    BY <1>0, <2>2
  <2>4. Moves(h, g, r.heap, g2, {x, "chain", "errOut"})
    BY <2>2, <2>3
  <2> QED
    BY <2>2, <2>4
<1>4. ASSUME g[x] # NULL,
             NEW spent, spent = [h EXCEPT ![g[x]].spent = TRUE, ![g[x]].joints = <<>>],
             NEW a \in Spare(spent),
             r = Result(Put(spent, a, [kind |-> "chain", joints |-> h[g[x]].joints]), 0, a, NULL)
      PROVE  /\ Moves(h, g, r.heap, g2, {x, "chain", "errOut"})
             /\ r.rc = 0 /\ r.ret # NULL /\ r.err = NULL /\ r.heap[r.ret].joints = h[g[x]].joints
  <2>1. Moves(h, g, spent, g, {x})
    BY <1>2, <1>4
  <2>2. PICK o : o = [kind |-> "chain", joints |-> h[g[x]].joints]
    OBVIOUS
  <2>3. Typed(o, KindOf["chain"]) /\ o.joints = h[g[x]].joints
    BY <2>2, Kinds DEF Typed
  <2>4. Owned(spent, g)
    BY <2>1 DEF Moves
  <2>5. /\ Moves(spent, g, Put(spent, a, o), Pointing(g, "chain", a), {"chain"})
        /\ Put(spent, a, o)[a] = o /\ a # NULL
    BY <2>3, <2>4, Gives, Kinds
  <2>6. Moves(h, g, Put(spent, a, o), Pointing(g, "chain", a), {x, "chain", "errOut"})
    BY <2>1, <2>5, MovesOn
  <2>7. r.heap = Put(spent, a, o) /\ r.rc = 0 /\ r.ret = a /\ r.err = NULL
    BY <1>4, <2>2 DEF Result
  <2>8. g2 = Pointing(g, "chain", a)
    <3>1. g = [y \in Holders |-> g[y]]
      BY DEF Owned
    <3> QED
      BY <2>7, <3>1, Kinds DEF Pointing
  <2> QED
    BY <2>3, <2>5, <2>6, <2>7, <2>8
<1> QED
  BY <1>1, <1>3, <1>4 DEF viam_trajex_kinematics_chain_builder_build

Planned(o, n) == [o EXCEPT !.planned = n]
Advanced(o, n) == [o EXCEPT !.next = n]

LEMMA SessionFields ==
  ASSUME NEW o, Typed(o, "session"), NEW n
  PROVE  /\ Typed(Planned(o, n), "session")
         /\ Planned(o, n).planned = n /\ Planned(o, n).next = o.next
         /\ Typed(Advanced(o, n), "session")
         /\ Advanced(o, n).next = n /\ Advanced(o, n).planned = o.planned
<1>1. PICK d : d = o.n_dof
  OBVIOUS
<1>2. PICK p : p = o.planned
  OBVIOUS
<1>3. PICK x : x = o.next
  OBVIOUS
<1>4. o = [kind |-> "session", n_dof |-> d, planned |-> p, next |-> x]
  BY <1>1, <1>2, <1>3 DEF Typed
<1>5. Planned(o, n) = [kind |-> "session", n_dof |-> d, planned |-> n, next |-> x]
  BY <1>4 DEF Planned
<1>6. Advanced(o, n) = [kind |-> "session", n_dof |-> d, planned |-> p, next |-> n]
  BY <1>4 DEF Advanced
<1>7. Typed(Planned(o, n), "session") /\ Typed(Advanced(o, n), "session")
  BY <1>5, <1>6 DEF Typed
<1> QED
  BY <1>4, <1>5, <1>6, <1>7

\* A session starts with nothing planned.
LEMMA SessionCreateMoves ==
  ASSUME NEW h, NEW g, Owned(h, g), g["errOut"] = NULL, g["session"] = NULL, NEW c, NEW m,
         NEW r \in viam_trajex_totg_streaming_session_create(h, c, m)
  PROVE  /\ Moves(h, g, r.heap, Pointing(Pointing(g, "session", r.ret), "errOut", r.err),
                  {"session", "errOut"})
         /\ r.rc = 0 => r.err = NULL
         /\ r.ret # NULL => r.heap[r.ret].planned = 0 /\ r.heap[r.ret].next = 1
<1> DEFINE g2 == Pointing(Pointing(g, "session", r.ret), "errOut", r.err)
<1>0. Pointing(g, "session", NULL) = g /\ Pointing(g, "errOut", NULL) = g
  BY StaysNull, Kinds
<1>1. CASE r \in Thrown(h)
  <2>1. /\ Moves(h, g, r.heap, Pointing(g, "errOut", r.err), {"errOut"})
        /\ r.rc = -1 /\ r.ret = NULL
    BY <1>1, ThrownGives
  <2>2. g2 = Pointing(g, "errOut", r.err)
    BY <1>0, <2>1
  <2>3. Moves(h, g, r.heap, g2, {"session", "errOut"})
    BY <2>1, <2>2 DEF Moves
  <2> QED
    BY <2>1, <2>3
<1>2. ASSUME NEW a \in Spare(h), NEW o, NEW d,
             o = [kind |-> "session", n_dof |-> d, planned |-> 0, next |-> 1],
             r = Result(Put(h, a, o), 0, a, NULL)
      PROVE  /\ Moves(h, g, r.heap, g2, {"session", "errOut"})
             /\ r.err = NULL /\ r.heap[r.ret].planned = 0 /\ r.heap[r.ret].next = 1
  <2>1. Typed(o, KindOf["session"]) /\ o.planned = 0 /\ o.next = 1
    BY <1>2, Kinds DEF Typed
  <2>2. /\ Moves(h, g, Put(h, a, o), Pointing(g, "session", a), {"session"})
        /\ Put(h, a, o)[a] = o
    BY <2>1, Gives, Kinds
  <2>3. r.heap = Put(h, a, o) /\ r.ret = a /\ r.err = NULL
    BY <1>2 DEF Result
  <2>4. g2 = Pointing(g, "session", a)
    <3>1. g = [y \in Holders |-> g[y]]
      BY DEF Owned
    <3> QED
      BY <2>3, <3>1, Kinds DEF Pointing
  <2>5. Moves(h, g, r.heap, g2, {"session", "errOut"})
    BY <2>2, <2>3, <2>4 DEF Moves
  <2> QED
    BY <2>1, <2>2, <2>3, <2>5
<1>3. CASE r \notin Thrown(h)
  <2>1. PICK a \in Spare(h) :
          r = Result(Put(h, a, [kind |-> "session", n_dof |-> h[m].tensors["limits"].shape[1],
                                planned |-> 0, next |-> 1]), 0, a, NULL)
    BY <1>3 DEF viam_trajex_totg_streaming_session_create
  <2>2. PICK d : d = h[m].tensors["limits"].shape[1]
    OBVIOUS
  <2>3. PICK o : o = [kind |-> "session", n_dof |-> d, planned |-> 0, next |-> 1]
    OBVIOUS
  <2>4. r = Result(Put(h, a, o), 0, a, NULL)
    BY <2>1, <2>2, <2>3
  <2> QED
    BY <1>2, <2>3, <2>4
<1> QED
  BY <1>1, <1>3

\* An extension plans what the batch holds, or nothing.
LEMMA SessionExtendMoves ==
  ASSUME NEW h, NEW g, Owned(h, g), g["errOut"] = NULL,
         NEW r \in viam_trajex_totg_streaming_session_extend(h, g["session"], g["inputs"])
  PROVE  /\ Moves(h, g, r.heap, Pointing(g, "errOut", r.err), {"session", "errOut"})
         /\ r.rc = 0 => r.err = NULL
         /\ g["session"] # NULL =>
              LET old == h[g["session"]]
                  new == r.heap[g["session"]]
              IN  /\ new.next = old.next
                  /\ \/ new.planned = old.planned
                     \/ /\ g["inputs"] # NULL
                        /\ "waypoints" \in DOMAIN h[g["inputs"]].tensors
                        /\ new.planned = old.planned + h[g["inputs"]].tensors["waypoints"].data
<1>1. CASE r \in Thrown(h)
  <2>1. /\ Moves(h, g, r.heap, Pointing(g, "errOut", r.err), {"errOut"})
        /\ r.rc = -1
    BY <1>1, ThrownGives
  <2>2. Moves(h, g, r.heap, Pointing(g, "errOut", r.err), {"session", "errOut"})
    BY <2>1 DEF Moves
  <2>3. g["session"] # NULL => r.heap[g["session"]] = h[g["session"]]
    BY <2>1, Kinds DEF Moves
  <2> QED
    BY <2>1, <2>2, <2>3
<1>2. CASE r \notin Thrown(h)
  <2> DEFINE total == h[g["session"]].planned + h[g["inputs"]].tensors["waypoints"].data
  <2>1. /\ g["session"] # NULL /\ g["inputs"] # NULL
        /\ "waypoints" \in DOMAIN h[g["inputs"]].tensors
        /\ r = Done([h EXCEPT ![g["session"]].planned = total])
    BY <1>2 DEF viam_trajex_totg_streaming_session_extend, require_matrix
  <2>2. PICK n : n = total
    OBVIOUS
  <2>3. PICK o : o = Planned(h[g["session"]], n)
    OBVIOUS
  <2>4. Typed(h[g["session"]], "session")
    BY <2>1, Kinds DEF Owned
  <2>5. Typed(o, KindOf["session"]) /\ o.planned = n /\ o.next = h[g["session"]].next
    BY <2>3, <2>4, SessionFields, Kinds
  <2>6. r.heap = Changed(h, g["session"], o) /\ r.err = NULL
    BY <2>1, <2>2, <2>3 DEF Done, Result, Changed, Planned
  <2>7. /\ Moves(h, g, Changed(h, g["session"], o), g, {"session"})
        /\ Changed(h, g["session"], o)[g["session"]] = o
    <3>1. g["session"] # NULL
      BY <2>1
    <3> QED
      BY <2>5, <3>1, Updates, Kinds
  <2>8. Pointing(g, "errOut", r.err) = g
    BY <2>6, StaysNull, Kinds
  <2>9. Moves(h, g, r.heap, Pointing(g, "errOut", r.err), {"session", "errOut"})
    BY <2>6, <2>7, <2>8 DEF Moves
  <2> QED
    BY <2>1, <2>2, <2>5, <2>6, <2>7, <2>9
<1> QED
  BY <1>1, <1>2

\* The index of the last of n samples.
LastOf(o, n) == IF o.next + n - 1 < o.planned THEN o.next + n - 1 ELSE o.planned

\* Samples that are handed out are past, whether or not they reach the caller's map.
LEMMA SessionSampleMoves ==
  ASSUME NEW h, NEW g, Owned(h, g), g["errOut"] = NULL, NEW n,
         NEW r \in viam_trajex_totg_streaming_session_sample(h, g["session"], n, g["outputs"])
  PROVE  /\ Moves(h, g, r.heap, Pointing(g, "errOut", r.err), {"session", "outputs", "errOut"})
         /\ r.rc # 0 =>
              /\ Moves(h, g, r.heap, Pointing(g, "errOut", r.err), {"session", "errOut"})
              /\ g["session"] # NULL =>
                   /\ r.heap[g["session"]].planned = h[g["session"]].planned
                   /\ r.heap[g["session"]].next \in
                        {h[g["session"]].next, LastOf(h[g["session"]], n) + 1}
         /\ r.rc = 0 =>
              /\ r.err = NULL /\ g["session"] # NULL /\ g["outputs"] # NULL
              /\ r.heap[g["session"]].planned = h[g["session"]].planned
              /\ r.heap[g["session"]].next = LastOf(h[g["session"]], n) + 1
              /\ r.heap[g["outputs"]].tensors =
                   Samples(h[g["session"]].next, LastOf(h[g["session"]], n), h[g["session"]].n_dof)
<1>1. CASE r \in Thrown(h)
  <2>1. /\ Moves(h, g, r.heap, Pointing(g, "errOut", r.err), {"errOut"})
        /\ r.rc = -1
    BY <1>1, ThrownGives
  <2>2. /\ Moves(h, g, r.heap, Pointing(g, "errOut", r.err), {"session", "errOut"})
        /\ Moves(h, g, r.heap, Pointing(g, "errOut", r.err), {"session", "outputs", "errOut"})
    BY <2>1 DEF Moves
  <2>3. g["session"] # NULL => r.heap[g["session"]] = h[g["session"]]
    BY <2>1, Kinds DEF Moves
  <2> QED
    BY <2>1, <2>2, <2>3
<1>2. CASE NULL \in {g["session"], g["outputs"]}
  BY <1>1, <1>2 DEF viam_trajex_totg_streaming_session_sample
<1>3. CASE NULL \notin {g["session"], g["outputs"]} /\ r \notin Thrown(h)
  <2>1. PICK s : s = g["session"]
    OBVIOUS
  <2>2. PICK to : to = LastOf(h[s], n)
    OBVIOUS
  <2>3. PICK advanced : advanced = [h EXCEPT ![s].next = to + 1]
    OBVIOUS
  <2>4. PICK tensors : tensors = Samples(h[s].next, to, h[s].n_dof)
    OBVIOUS
  <2>5. r \in Thrown(advanced) \/ r = Done([advanced EXCEPT ![g["outputs"]].tensors = tensors])
    BY <1>3, <2>1, <2>2, <2>3, <2>4
       DEF viam_trajex_totg_streaming_session_sample, LastOf
  <2>6. PICK next : next = to + 1
    OBVIOUS
  <2>7. PICK o : o = Advanced(h[s], next)
    OBVIOUS
  <2>8. Typed(h[s], "session") /\ s # NULL /\ g["outputs"] # NULL
    BY <1>3, <2>1, Kinds DEF Owned
  <2>9. Typed(o, KindOf["session"]) /\ o.next = next /\ o.planned = h[s].planned
    BY <2>7, <2>8, SessionFields, Kinds
  <2>10. advanced = Changed(h, g["session"], o)
    BY <2>1, <2>3, <2>6, <2>7 DEF Changed, Advanced
  <2>11. /\ Moves(h, g, Changed(h, g["session"], o), g, {"session"})
         /\ Changed(h, g["session"], o)[g["session"]] = o
    BY <2>1, <2>8, <2>9, Updates, Kinds
  <2>12. Moves(h, g, advanced, g, {"session"}) /\ advanced[s] = o
    BY <2>1, <2>10, <2>11
  <2>13. CASE r \in Thrown(advanced)
    <3>1. {"session"} \cup {"errOut"} \subseteq {"session", "errOut"}
      OBVIOUS
    <3>2. /\ Moves(h, g, r.heap, Pointing(g, "errOut", r.err), {"session", "errOut"})
          /\ \A x \in Holders : g[x] # NULL /\ x # "errOut" => r.heap[g[x]] = advanced[g[x]]
          /\ r.rc = -1
      BY <2>12, <2>13, <3>1, ChangedAndThrown
    <3>3. r.heap[s] = o
      BY <2>1, <2>8, <2>12, <3>2, Kinds
    <3>4. Moves(h, g, r.heap, Pointing(g, "errOut", r.err), {"session", "outputs", "errOut"})
      BY <3>2 DEF Moves
    <3> QED
      BY <2>1, <2>2, <2>6, <2>9, <3>2, <3>3, <3>4
  <2>14. CASE r = Done([advanced EXCEPT ![g["outputs"]].tensors = tensors])
    <3>1. r.heap = Refilled(advanced, g["outputs"], tensors) /\ r.err = NULL /\ r.rc = 0
      BY <2>14 DEF Done, Result, Refilled
    <3>2. Owned(advanced, g)
      BY <2>12 DEF Moves
    <3>3. /\ Moves(advanced, g, Refilled(advanced, g["outputs"], tensors), g, {"outputs"})
          /\ Refilled(advanced, g["outputs"], tensors)[g["outputs"]].tensors = tensors
      BY <2>8, <3>2, TensorsReplaced, Kinds
    <3>4. Pointing(g, "errOut", r.err) = g
      BY <3>1, StaysNull, Kinds
    <3>5. {"session"} \cup {"outputs"} \subseteq {"session", "outputs", "errOut"}
      OBVIOUS
    <3>6. Moves(h, g, r.heap, Pointing(g, "errOut", r.err), {"session", "outputs", "errOut"})
      BY <2>12, <3>1, <3>3, <3>4, <3>5, MovesOn
    <3>7. r.heap[s] = o /\ r.heap[g["outputs"]].tensors = tensors
      BY <2>1, <2>8, <2>12, <3>1, <3>3, Kinds DEF Moves
    <3> QED
      BY <2>1, <2>2, <2>4, <2>6, <2>8, <2>9, <3>1, <3>6, <3>7
  <2> QED
    BY <2>5, <2>13, <2>14
<1> QED
  BY <1>1, <1>2, <1>3

-----------------------------------------------------------------------------
(* What a step leaves alone *)

LEMMA Kept ==
  ASSUME NEW T, Moves(heap, held, heap', held', T), NEW x \in Holders, x \notin T
  PROVE  /\ held'[x] = held[x]
         /\ held[x] # NULL => heap'[held[x]] = heap[held[x]]
         /\ Contents(heap', held'[x]) = Contents(heap, held[x])
BY DEF Moves, Contents

LEMMA InputsKept ==
  ASSUME InputsCount, NEW T, Moves(heap, held, heap', held', T), "inputs" \notin T
  PROVE  InputsCount'
<1>1. held'["inputs"] = held["inputs"]
      /\ (held["inputs"] # NULL => heap'[held["inputs"]] = heap[held["inputs"]])
  BY Kept, Kinds
<1> QED
  BY <1>1 DEF InputsCount

LEMMA ViewsKept ==
  ASSUME ViewsStand, NEW T, Moves(heap, held, heap', held', T), "outputs" \notin T,
         client'.views \subseteq client.views
  PROVE  ViewsStand'
<1>1. Contents(heap', held'["outputs"]) = Contents(heap, held["outputs"])
  BY Kept, Kinds
<1> QED
  BY <1>1 DEF ViewsStand

LEMMA SessionKept ==
  ASSUME SessionCounts, NothingLostSilently,
         NEW T, Moves(heap, held, heap', held', T), "session" \notin T,
         client'.received = client.received, client'.announced = client.announced
  PROVE  SessionCounts' /\ NothingLostSilently'
<1>1. held'["session"] = held["session"]
      /\ (held["session"] # NULL => heap'[held["session"]] = heap[held["session"]])
  BY Kept, Kinds
<1> QED
  BY <1>1 DEF SessionCounts, NothingLostSilently

LEMMA CallerKept ==
  ASSUME CallerOK, NEW T, Moves(heap, held, heap', held', T),
         "inputs" \notin T, "outputs" \notin T, "session" \notin T, client' = client
  PROVE  CallerOK'
<1>1. InputsCount' /\ ViewsStand' /\ SessionCounts' /\ NothingLostSilently'
  BY InputsKept, ViewsKept, SessionKept DEF CallerOK
<1> QED
  BY <1>1 DEF CallerOK, ClientOK

LEMMA IdleFacts ==
  ASSUME GoInv, Idle
  PROVE  /\ call = NoCall /\ call.op = "none"
         /\ held["errOut"] = NULL /\ held["newBuilder"] = NULL
         /\ held["inMap"] = NULL /\ held["outMap"] = NULL
<1>1. call = NoCall
  BY DEF GoInv, CallOK, Idle, InGenerate, InInfer, InNewChain
<1> QED
  BY <1>1 DEF GoInv, LocalsHeld, NoCall

LEMMA NoCallOK ==
  ASSUME call' = NoCall
  PROVE  CallOK' /\ call'.pc = "none" /\ call'.op = "none"
BY DEF CallOK, CallShape, NoCall

\* A step between calls that starts none.
LEMMA StaysIdle ==
  ASSUME GoInv, Idle, NEW T, Moves(heap, held, heap', held', T), T \cap Locals = {},
         call' = call
  PROVE  Owned(heap', held') /\ LocalsHeld' /\ CallOK'
<1>1. /\ call' = NoCall
      /\ held["errOut"] = NULL /\ held["newBuilder"] = NULL
      /\ held["inMap"] = NULL /\ held["outMap"] = NULL
  BY IdleFacts
<1>2. \A x \in Locals : held'[x] = held[x]
  BY Kinds DEF Moves, Locals
<1>3. LocalsHeld'
  BY <1>1, <1>2 DEF LocalsHeld, Locals
<1> QED
  BY <1>1, <1>3, NoCallOK DEF Moves

\* One that leaves at most a diagnostic to be reported.
LEMMA FinishesOrReports ==
  ASSUME GoInv, Idle, NEW T, Moves(heap, held, heap', held', T), T \cap Locals \subseteq {"errOut"},
         NEW op \in {"EndPosition", "BuilderBuild", "New", "Extend", "Sample"},
         NEW r, FinishOrReport(op, r), r.rc = 0 => held'["errOut"] = NULL
  PROVE  Owned(heap', held') /\ LocalsHeld' /\ CallOK'
<1>1. /\ call = NoCall
      /\ held["newBuilder"] = NULL /\ held["inMap"] = NULL /\ held["outMap"] = NULL
  BY IdleFacts
<1>2. held'["newBuilder"] = NULL /\ held'["inMap"] = NULL /\ held'["outMap"] = NULL
  BY <1>1, Kinds DEF Moves, Locals
<1>3. CASE r.rc = 0
  <2>1. call' = NoCall
    BY <1>1, <1>3 DEF FinishOrReport
  <2> QED
    BY <1>2, <1>3, <2>1, NoCallOK DEF Moves, LocalsHeld
<1>4. CASE r.rc # 0
  <2>1. call' = [NoCall EXCEPT !.op = op, !.pc = "report"]
    BY <1>4 DEF FinishOrReport
  <2>2. call'.op = op /\ call'.pc = "report"
    BY <2>1 DEF NoCall
  <2>3. CallOK'
    BY <2>1, <2>2 DEF CallOK, CallShape, NoCall
  <2> QED
    BY <1>2, <2>2, <2>3 DEF Moves, LocalsHeld
<1> QED
  BY <1>3, <1>4

-----------------------------------------------------------------------------
(* The calls of one step *)

LEMMA MapStep ==
  ASSUME GoInv, MapCalls
  PROVE  GoInv'
<1>1. Owned(heap, held) /\ CallerOK
  BY DEF GoInv
<1>2. ASSUME NEW x \in {"inputs", "outputs"}, NewTensorMap(x)
      PROVE  GoInv'
  <2>1. Idle /\ held[x] = NULL /\ call' = call /\ client' = client
    BY <1>2 DEF NewTensorMap
  <2>2. PICK r \in viam_trajex_tensor_map_create(heap) : Take(x, r)
    BY <1>2 DEF NewTensorMap
  <2>3. Typed(MapOf(Without), KindOf[x]) /\ MapOf(Without).tensors = Without /\ x \in Holders
    BY Kinds DEF Typed, MapOf
  <2>4. r \in Created(heap, MapOf(Without))
    BY <2>2 DEF viam_trajex_tensor_map_create
  <2>5. /\ Moves(heap, held, r.heap, Pointing(held, x, r.ret), {x})
        /\ Pointing(held, x, r.ret)[x] = r.ret
        /\ r.rc = 0 => r.ret # NULL /\ r.heap[r.ret] = MapOf(Without)
        /\ r.rc # 0 => r.ret = NULL
    BY <1>1, <2>1, <2>3, <2>4, CreatedGives DEF Pointing
  <2>6. heap' = r.heap /\ held' = Pointing(held, x, r.ret)
    BY <2>2 DEF Take, Pointing
  <2>7. Moves(heap, held, heap', held', {x}) /\ {x} \cap Locals = {}
    BY <2>5, <2>6 DEF Locals
  <2>8. Contents(heap', held'[x]) = Without
    BY <2>3, <2>5, <2>6 DEF Contents
  <2>9. InputsCount'
    <3>1. CASE x = "inputs"
      BY <2>8, <3>1 DEF InputsCount, Contents, Without
    <3>2. CASE x = "outputs"
      BY <1>1, <2>7, <3>2, InputsKept DEF CallerOK
    <3> QED
      BY <3>1, <3>2
  <2>10. ViewsStand'
    <3>1. CASE x = "outputs"
      <4>1. client.views = {}
        BY <1>1, <2>1, <3>1 DEF CallerOK, ViewsStand, Contents, Without
      <4> QED
        BY <2>1, <4>1 DEF ViewsStand
    <3>2. CASE x = "inputs"
      BY <1>1, <2>1, <2>7, <3>2, ViewsKept DEF CallerOK
    <3> QED
      BY <3>1, <3>2
  <2>11. SessionCounts' /\ NothingLostSilently'
    BY <1>1, <2>1, <2>7, SessionKept DEF CallerOK
  <2>12. CallerOK'
    BY <1>1, <2>1, <2>9, <2>10, <2>11 DEF CallerOK, ClientOK
  <2> QED
    BY <2>1, <2>7, <2>12, StaysIdle DEF GoInv
<1>3. ASSUME NEW x \in {"inputs", "outputs"}, CloseMap(x)
      PROVE  GoInv'
  <2>1. /\ Idle /\ call' = call
        /\ heap' = IF held[x] = NULL THEN heap ELSE Drop(heap, held[x])
        /\ held' = Pointing(held, x, NULL)
        /\ client' = IF x = "outputs" THEN [client EXCEPT !.views = {}] ELSE client
    BY <1>3 DEF CloseMap, Lose, viam_trajex_tensor_map_destroy, Pointing
  <2>2. x \in Holders
    BY Kinds
  <2>3. PICK h2 : h2 = IF held[x] = NULL THEN heap ELSE Drop(heap, held[x])
    OBVIOUS
  <2>4. Moves(heap, held, h2, Pointing(held, x, NULL), {x}) /\ Pointing(held, x, NULL)[x] = NULL
    BY <1>1, <2>2, <2>3, Frees
  <2>5. Moves(heap, held, heap', held', {x}) /\ held'[x] = NULL /\ {x} \cap Locals = {}
    BY <2>1, <2>3, <2>4 DEF Locals
  <2>6. /\ ClientOK' /\ client'.views \subseteq client.views
        /\ client'.received = client.received /\ client'.announced = client.announced
        /\ x = "outputs" => client'.views = {}
    BY <1>1, <2>1 DEF CallerOK, ClientOK
  <2>7. InputsCount'
    <3>1. CASE x = "inputs"
      BY <2>5, <3>1 DEF InputsCount
    <3>2. CASE x = "outputs"
      BY <1>1, <2>5, <3>2, InputsKept DEF CallerOK
    <3> QED
      BY <3>1, <3>2
  <2>8. ViewsStand'
    <3>1. CASE x = "outputs"
      BY <2>6, <3>1 DEF ViewsStand
    <3>2. CASE x = "inputs"
      BY <1>1, <2>5, <2>6, <3>2, ViewsKept DEF CallerOK
    <3> QED
      BY <3>1, <3>2
  <2>9. SessionCounts' /\ NothingLostSilently'
    BY <1>1, <2>5, <2>6, SessionKept DEF CallerOK
  <2>10. CallerOK'
    BY <2>6, <2>7, <2>8, <2>9 DEF CallerOK
  <2> QED
    BY <2>1, <2>5, <2>10, StaysIdle DEF GoInv
<1>4. ASSUME NEW x \in {"inputs", "outputs"}, NEW k, NEW t, Insert(x, k, t),
             x = "inputs" => t.data \in Nat
      PROVE  GoInv'
  <2>1. Idle /\ call' = call /\ held' = held
    BY <1>4 DEF Insert
  <2>2. PICK r \in viam_trajex_tensor_map_insert(heap, held[x], k, t) :
          /\ heap' = r.heap
          /\ client' = IF x = "outputs" /\ r.rc = 0
                         THEN [client EXCEPT !.views = {v \in @ : v.key # k}] ELSE client
    BY <1>4 DEF Insert
  <2>3. x \in Holders /\ KindOf[x] = "map"
    BY Kinds
  <2>4. /\ Moves(heap, held, r.heap, held, {x})
        /\ r.rc # 0 => r.heap = heap
        /\ r.rc = 0 => /\ held[x] # NULL
                       /\ r.heap[held[x]].tensors = Put(heap[held[x]].tensors, k, t)
    BY <1>1, <2>3, InsertMoves
  <2>5. Moves(heap, held, heap', held', {x}) /\ {x} \cap Locals = {}
    BY <2>1, <2>2, <2>4 DEF Locals
  <2>6. /\ ClientOK' /\ client'.views \subseteq client.views
        /\ client'.received = client.received /\ client'.announced = client.announced
        /\ r.rc # 0 \/ x = "inputs" => client' = client
        /\ r.rc = 0 /\ x = "outputs" => client'.views = {v \in client.views : v.key # k}
    BY <1>1, <2>2 DEF CallerOK, ClientOK
  <2>7. CASE r.rc # 0
    <3>1. Moves(heap, held, heap', held', {})
      BY <1>1, <2>1, <2>2, <2>4, <2>7, Stays
    <3>2. CallerOK'
      BY <1>1, <2>6, <2>7, <3>1, CallerKept
    <3> QED
      BY <2>1, <2>5, <3>2, StaysIdle DEF GoInv
  <2>8. CASE r.rc = 0
    <3>1. PICK old : old = heap[held[x]].tensors
      OBVIOUS
    <3>2. /\ DOMAIN heap'[held'[x]].tensors = DOMAIN old \cup {k}
          /\ heap'[held'[x]].tensors[k] = t
          /\ \A y \in DOMAIN old : y # k => heap'[held'[x]].tensors[y] = old[y]
      BY <2>1, <2>2, <2>4, <2>8, <3>1 DEF Put
    <3>3. InputsCount'
      <4>1. CASE x = "inputs"
        <5>1. \A y \in DOMAIN old : old[y].data \in Nat
          BY <1>1, <2>4, <2>8, <3>1, <4>1 DEF CallerOK, InputsCount
        <5> QED
          BY <1>4, <3>2, <4>1, <5>1 DEF InputsCount
      <4>2. CASE x = "outputs"
        BY <1>1, <2>5, <4>2, InputsKept DEF CallerOK
      <4> QED
        BY <4>1, <4>2
    <3>4. ViewsStand'
      <4>1. CASE x = "outputs"
        <5>1. \A v \in client.views : v.key \in DOMAIN old /\ old[v.key] = v.tensor
          BY <1>1, <2>4, <2>8, <3>1, <4>1 DEF CallerOK, ViewsStand, Contents
        <5> QED
          BY <2>1, <2>4, <2>6, <2>8, <3>2, <4>1, <5>1 DEF ViewsStand, Contents
      <4>2. CASE x = "inputs"
        BY <1>1, <2>5, <2>6, <4>2, ViewsKept DEF CallerOK
      <4> QED
        BY <4>1, <4>2
    <3>5. SessionCounts' /\ NothingLostSilently'
      BY <1>1, <2>5, <2>6, SessionKept DEF CallerOK
    <3>6. CallerOK'
      BY <2>6, <3>3, <3>4, <3>5 DEF CallerOK
    <3> QED
      BY <2>1, <2>5, <3>6, StaysIdle DEF GoInv
  <2> QED
    BY <2>7, <2>8
<1>5. ASSUME NEW k, View(k)
      PROVE  GoInv'
  <2>1. Idle /\ call' = call /\ heap' = heap /\ held' = held
    BY <1>5 DEF View
  <2>2. PICK r : r = viam_trajex_tensor_map_view(heap, held["outputs"], k)
    OBVIOUS
  <2>3. client' = IF r.rc = 0 /\ r.ret.dtype = "f64"
                    THEN [client EXCEPT !.views = @ \cup {[key |-> k, tensor |-> r.ret]}]
                    ELSE client
    BY <1>5, <2>2 DEF View
  <2>4. r.rc = 0 => /\ held["outputs"] # NULL
                    /\ k \in DOMAIN heap[held["outputs"]].tensors
                    /\ r.ret = heap[held["outputs"]].tensors[k]
    BY <2>2 DEF viam_trajex_tensor_map_view, Refused, Result
  <2>5. Moves(heap, held, heap', held', {})
    BY <1>1, <2>1, Stays
  <2>6. /\ ClientOK'
        /\ client'.received = client.received /\ client'.announced = client.announced
        /\ \/ client' = client
           \/ r.rc = 0 /\ client'.views = client.views \cup {[key |-> k, tensor |-> r.ret]}
    BY <1>1, <2>3 DEF CallerOK, ClientOK
  <2>7. ViewsStand'
    <3>1. CASE client' = client
      BY <1>1, <2>5, <3>1, ViewsKept DEF CallerOK
    <3>2. CASE r.rc = 0 /\ client'.views = client.views \cup {[key |-> k, tensor |-> r.ret]}
      BY <1>1, <2>1, <2>4, <3>2 DEF CallerOK, ViewsStand, Contents
    <3> QED
      BY <2>6, <3>1, <3>2
  <2>8. SessionCounts' /\ NothingLostSilently' /\ InputsCount'
    BY <1>1, <2>5, <2>6, SessionKept, InputsKept DEF CallerOK
  <2>9. CallerOK'
    BY <2>6, <2>7, <2>8 DEF CallerOK
  <2> QED
    BY <2>1, <2>5, <2>9, StaysIdle DEF GoInv
<1>6. \A k \in Keys : \A t \in TensorsFor[k] : t.data \in Nat
  BY CallerAssumption
<1>7. ASSUME NEW k \in Keys, NEW t \in TensorsFor[k], Insert("inputs", k, t)
      PROVE  GoInv'
  BY <1>4, <1>6, <1>7
<1>8. ASSUME NEW t \in TensorsFor["rate"], Insert("outputs", "sample_times", t)
      PROVE  GoInv'
  BY <1>4, <1>8
<1> QED
  BY <1>2, <1>3, <1>5, <1>7, <1>8 DEF MapCalls

\* A step between calls that touches neither maps nor session, and starts no call.
LEMMA StaysIdleAside ==
  ASSUME GoInv, Idle, NEW T, Moves(heap, held, heap', held', T),
         T \cap Locals = {}, T \cap {"inputs", "outputs", "session"} = {},
         call' = call, client' = client
  PROVE  GoInv'
<1>1. CallerOK'
  BY CallerKept DEF GoInv
<1> QED
  BY <1>1, StaysIdle DEF GoInv

\* A handle other than those is destroyed.
LEMMA DestroysAside ==
  ASSUME GoInv, Idle, NEW x \in {"chain", "builder"},
         Lose(x, IF held[x] = NULL THEN heap ELSE Drop(heap, held[x])),
         call' = call, client' = client
  PROVE  GoInv'
<1>1. PICK h2 : h2 = IF held[x] = NULL THEN heap ELSE Drop(heap, held[x])
  OBVIOUS
<1>2. heap' = h2 /\ held' = Pointing(held, x, NULL)
  BY <1>1 DEF Lose, Pointing
<1>3. x \in Holders /\ {x} \cap Locals = {} /\ {x} \cap {"inputs", "outputs", "session"} = {}
  BY Kinds DEF Locals
<1>4. Moves(heap, held, h2, Pointing(held, x, NULL), {x})
  BY <1>1, <1>3, Frees DEF GoInv
<1> QED
  BY <1>2, <1>3, <1>4, StaysIdleAside

LEMMA NewChainStep ==
  ASSUME GoInv, NEW joints \in JointLists, NewChain(joints)
  PROVE  GoInv'
<1>1. Owned(heap, held) /\ CallerOK
  BY DEF GoInv
<1>2. Idle /\ held["chain"] = NULL /\ client' = client
  BY DEF NewChain
<1>3. /\ call = NoCall /\ held["errOut"] = NULL /\ held["newBuilder"] = NULL
      /\ held["inMap"] = NULL /\ held["outMap"] = NULL
  BY <1>2, IdleFacts
<1>4. PICK r \in viam_trajex_kinematics_chain_builder_create(heap) :
        /\ Take("newBuilder", r)
        /\ IF r.rc = 0
             THEN call' = [NoCall EXCEPT !.op = "NewChain", !.pc = "extend",
                                         !.inputs = joints, !.joints = joints]
             ELSE UNCHANGED call
  BY DEF NewChain
<1>5. PICK o : o = [kind |-> "builder", joints |-> <<>>, spent |-> FALSE]
  OBVIOUS
<1>6. Typed(o, KindOf["newBuilder"]) /\ o.joints = <<>>
  BY <1>5, Kinds DEF Typed
<1>7. r \in Created(heap, o)
  BY <1>4, <1>5 DEF viam_trajex_kinematics_chain_builder_create
<1>8. /\ Moves(heap, held, r.heap, Pointing(held, "newBuilder", r.ret), {"newBuilder"})
      /\ Pointing(held, "newBuilder", r.ret)["newBuilder"] = r.ret
      /\ r.rc = 0 => r.ret # NULL /\ r.heap[r.ret] = o
      /\ r.rc # 0 => r.ret = NULL
  <2>1. Owned(heap, held) /\ held["newBuilder"] = NULL /\ Typed(o, KindOf["newBuilder"])
    BY <1>1, <1>3, <1>6
  <2> QED
    BY <1>7, <2>1, CreatedGives, Kinds
<1>9. heap' = r.heap /\ held' = Pointing(held, "newBuilder", r.ret)
  BY <1>4 DEF Take, Pointing
<1>10. Moves(heap, held, heap', held', {"newBuilder"}) /\ held'["newBuilder"] = r.ret
  BY <1>8, <1>9
<1>11. CallerOK'
  BY <1>1, <1>2, <1>10, CallerKept
<1>12. /\ held'["errOut"] = NULL /\ held'["inMap"] = NULL /\ held'["outMap"] = NULL
       /\ held'["chain"] = NULL
  BY <1>2, <1>3, <1>10, Kinds DEF Moves
<1>13. CASE r.rc = 0
  <2>1. call' = [NoCall EXCEPT !.op = "NewChain", !.pc = "extend",
                              !.inputs = joints, !.joints = joints]
    BY <1>4, <1>13
  <2>2. call' = [op |-> "NewChain", pc |-> "extend", chain |-> NULL, inputs |-> joints,
                 before |-> Without, keys |-> {}, joints |-> joints, read |-> Without,
                 outcome |-> "error"]
    BY <2>1 DEF NoCall
  <2>3. joints \in Seq(Joint)
    BY CallerAssumption DEF Joint
  <2>4. heap'[held'["newBuilder"]].joints = <<>> /\ <<>> \in Seq(Joint) /\ <<>> \o joints = joints
    BY <1>6, <1>8, <1>9, <1>13, <2>3
  <2>5. InNewChain'
    BY <1>12, <2>2, <2>3, <2>4 DEF InNewChain
  <2>6. CallOK'
    BY <2>2, <2>5 DEF CallOK, CallShape
  <2>7. LocalsHeld'
    BY <1>12, <2>2 DEF LocalsHeld
  <2> QED
    BY <1>10, <1>11, <2>6, <2>7 DEF GoInv, Moves
<1>14. CASE r.rc # 0
  <2>1. call' = NoCall
    BY <1>3, <1>4, <1>14
  <2>2. LocalsHeld'
    BY <1>8, <1>10, <1>12, <1>14 DEF LocalsHeld
  <2> QED
    BY <1>10, <1>11, <2>1, <2>2, NoCallOK DEF GoInv, Moves
<1> QED
  BY <1>13, <1>14

LEMMA ChainStep ==
  ASSUME GoInv, ChainCalls
  PROVE  GoInv'
<1>1. Owned(heap, held) /\ CallerOK
  BY DEF GoInv
<1>2. CASE CloseChain
  BY <1>2, DestroysAside DEF CloseChain, viam_trajex_kinematics_chain_destroy
<1>3. ASSUME NEW n, EndPosition(n)
      PROVE  GoInv'
  <2>1. Idle /\ client' = client
    BY <1>3 DEF EndPosition
  <2>2. held["errOut"] = NULL
    BY <2>1, IdleFacts
  <2>3. CASE held["chain"] = NULL
    <3>1. call' = call /\ heap' = heap /\ held' = held
      BY <1>3, <2>3 DEF EndPosition
    <3>2. Moves(heap, held, heap', held', {})
      BY <1>1, <3>1, Stays
    <3> QED
      BY <2>1, <3>1, <3>2, StaysIdleAside
  <2>4. CASE held["chain"] # NULL
    <3>1. PICK r \in viam_trajex_kinematics_chain_end_position(heap, held["chain"], n) :
            /\ heap' = r.heap
            /\ held' = Pointing(held, "errOut", r.err)
            /\ FinishOrReport("EndPosition", r)
      BY <1>3, <2>4 DEF EndPosition, Pointing
    <3>2. CASE r \in Thrown(heap)
      <4>1. /\ Moves(heap, held, r.heap, Pointing(held, "errOut", r.err), {"errOut"})
            /\ r.rc = -1
        BY <1>1, <2>2, <3>2, ThrownGives
      <4>2. Moves(heap, held, heap', held', {"errOut"}) /\ r.rc # 0
        BY <3>1, <4>1
      <4>3. CallerOK'
        BY <1>1, <2>1, <4>2, CallerKept
      <4>4. Owned(heap', held') /\ LocalsHeld' /\ CallOK'
        BY <2>1, <3>1, <4>2, FinishesOrReports
      <4> QED
        BY <4>3, <4>4 DEF GoInv
    <3>3. CASE r = Done(heap)
      <4>1. r.heap = heap /\ r.rc = 0 /\ r.err = NULL
        BY <3>3 DEF Done, Result
      <4>2. Moves(heap, held, heap', held', {})
        BY <1>1, <2>2, <3>1, <4>1, StaysNull, Kinds
      <4>3. call' = call
        BY <3>1, <4>1 DEF FinishOrReport
      <4> QED
        BY <2>1, <4>2, <4>3, StaysIdleAside
    <3> QED
      BY <3>1, <3>2, <3>3 DEF viam_trajex_kinematics_chain_end_position
  <2> QED
    BY <2>3, <2>4
<1> QED
  BY <1>2, <1>3, NewChainStep DEF ChainCalls

LEMMA BuilderStep ==
  ASSUME GoInv, BuilderCalls
  PROVE  GoInv'
<1>1. Owned(heap, held) /\ CallerOK
  BY DEF GoInv
<1>2. CASE BuilderCreate
  <2>1. Idle /\ held["builder"] = NULL /\ call' = call /\ client' = client
    BY <1>2 DEF BuilderCreate
  <2>2. PICK r \in viam_trajex_kinematics_chain_builder_create(heap) : Take("builder", r)
    BY <1>2 DEF BuilderCreate
  <2>3. PICK o : o = [kind |-> "builder", joints |-> <<>>, spent |-> FALSE]
    OBVIOUS
  <2>4. Typed(o, KindOf["builder"])
    BY <2>3, Kinds DEF Typed
  <2>5. r \in Created(heap, o)
    BY <2>2, <2>3 DEF viam_trajex_kinematics_chain_builder_create
  <2>6. Moves(heap, held, r.heap, Pointing(held, "builder", r.ret), {"builder"})
    BY <1>1, <2>1, <2>4, <2>5, CreatedGives, Kinds
  <2>7. Moves(heap, held, heap', held', {"builder"})
    BY <2>2, <2>6 DEF Take, Pointing
  <2> QED
    BY <2>1, <2>7, StaysIdleAside DEF Locals
<1>3. CASE BuilderDestroy
  BY <1>3, DestroysAside DEF BuilderDestroy, viam_trajex_kinematics_chain_builder_destroy
<1>4. ASSUME NEW joint, BuilderExtend(joint)
      PROVE  GoInv'
  <2>1. Idle /\ held' = held /\ call' = call /\ client' = client
    BY <1>4 DEF BuilderExtend
  <2>2. PICK r \in viam_trajex_kinematics_chain_builder_extend(heap, held["builder"], joint) :
          heap' = r.heap
    BY <1>4 DEF BuilderExtend
  <2>3. Moves(heap, held, r.heap, held, {"builder"})
    BY <1>1, BuilderExtendMoves, Kinds
  <2>4. Moves(heap, held, heap', held', {"builder"})
    BY <2>1, <2>2, <2>3
  <2> QED
    BY <2>1, <2>4, StaysIdleAside DEF Locals
<1>5. CASE BuilderBuild
  <2>1. Idle /\ held["chain"] = NULL /\ client' = client
    BY <1>5 DEF BuilderBuild
  <2>2. held["errOut"] = NULL
    BY <2>1, IdleFacts
  <2>3. PICK r \in viam_trajex_kinematics_chain_builder_build(heap, held["builder"]) :
          /\ heap' = r.heap
          /\ held' = [held EXCEPT !["chain"] = r.ret, !["errOut"] = r.err]
          /\ FinishOrReport("BuilderBuild", r)
    BY <1>5 DEF BuilderBuild
  <2>4. held' = Pointing(Pointing(held, "chain", r.ret), "errOut", r.err)
    BY <2>3 DEF Pointing
  <2>5. /\ Moves(heap, held, r.heap, Pointing(Pointing(held, "chain", r.ret), "errOut", r.err),
                 {"builder", "chain", "errOut"})
        /\ r.rc = 0 => r.err = NULL
    BY <1>1, <2>1, <2>2, BuildMoves, Kinds
  <2>6. Moves(heap, held, heap', held', {"builder", "chain", "errOut"})
    BY <2>3, <2>4, <2>5
  <2>7. held'["errOut"] = r.err
    <3>1. held = [x \in Holders |-> held[x]]
      BY <1>1 DEF Owned
    <3> QED
      BY <2>4, <3>1, Kinds DEF Pointing
  <2>8. CallerOK'
    BY <1>1, <2>1, <2>6, CallerKept
  <2>9. {"builder", "chain", "errOut"} \cap Locals \subseteq {"errOut"}
    BY DEF Locals
  <2>10. Owned(heap', held') /\ LocalsHeld' /\ CallOK'
    BY <2>1, <2>3, <2>5, <2>6, <2>7, <2>9, FinishesOrReports
  <2> QED
    BY <2>8, <2>10 DEF GoInv
<1> QED
  BY <1>2, <1>3, <1>4, <1>5 DEF BuilderCalls

\* A session is behind what it has planned, and the caller not behind the session
\* without notice.
LEMMA SessionStep ==
  ASSUME GoInv, SessionCalls
  PROVE  GoInv'
<1>1. Owned(heap, held) /\ CallerOK
  BY DEF GoInv
<1>2. ASSUME NEW b \in BOOLEAN, NewSession(b)
      PROVE  GoInv'
  <2>1. /\ Idle /\ held["session"] = NULL
        /\ client' = [client EXCEPT !.received = 0, !.announced = FALSE]
    BY <1>2 DEF NewSession
  <2>2. held["errOut"] = NULL
    BY <2>1, IdleFacts
  <2>3. ClientOK' /\ client'.views = client.views /\ client'.received = 0
    BY <1>1, <2>1 DEF CallerOK, ClientOK
  <2>4. CASE b /\ held["chain"] = NULL
    <3>1. call' = call /\ heap' = heap /\ held' = held
      BY <1>2, <2>4 DEF NewSession
    <3>2. Moves(heap, held, heap', held', {})
      BY <1>1, <3>1, Stays
    <3>3. SessionCounts' /\ NothingLostSilently'
      BY <2>1, <3>1 DEF SessionCounts, NothingLostSilently
    <3>4. InputsCount' /\ ViewsStand'
      BY <1>1, <2>3, <3>2, InputsKept, ViewsKept DEF CallerOK
    <3>5. CallerOK'
      BY <2>3, <3>3, <3>4 DEF CallerOK
    <3> QED
      BY <2>1, <3>1, <3>2, <3>5, StaysIdle DEF GoInv
  <2>5. CASE ~(b /\ held["chain"] = NULL)
    <3>1. PICK c : c = IF b THEN held["chain"] ELSE NULL
      OBVIOUS
    <3>2. PICK r \in viam_trajex_totg_streaming_session_create(heap, c, held["inputs"]) :
            /\ heap' = r.heap
            /\ held' = [held EXCEPT !["session"] = r.ret, !["errOut"] = r.err]
            /\ FinishOrReport("New", r)
      BY <1>2, <2>5, <3>1 DEF NewSession
    <3>3. held' = Pointing(Pointing(held, "session", r.ret), "errOut", r.err)
      BY <3>2 DEF Pointing
    <3>4. /\ Moves(heap, held, r.heap, Pointing(Pointing(held, "session", r.ret), "errOut", r.err),
                   {"session", "errOut"})
          /\ r.rc = 0 => r.err = NULL
          /\ r.ret # NULL => r.heap[r.ret].planned = 0 /\ r.heap[r.ret].next = 1
      BY <1>1, <2>1, <2>2, SessionCreateMoves
    <3>5. Moves(heap, held, heap', held', {"session", "errOut"})
      BY <3>2, <3>3, <3>4
    <3>6. held'["session"] = r.ret /\ held'["errOut"] = r.err
      <4>1. held = [x \in Holders |-> held[x]]
        BY <1>1 DEF Owned
      <4> QED
        BY <3>3, <4>1, Kinds DEF Pointing
    <3>7. SessionCounts' /\ NothingLostSilently'
      BY <2>3, <3>2, <3>4, <3>6 DEF SessionCounts, NothingLostSilently
    <3>8. InputsCount' /\ ViewsStand'
      BY <1>1, <2>3, <3>5, InputsKept, ViewsKept DEF CallerOK
    <3>9. CallerOK'
      BY <2>3, <3>7, <3>8 DEF CallerOK
    <3>10. {"session", "errOut"} \cap Locals \subseteq {"errOut"}
      BY DEF Locals
    <3>11. Owned(heap', held') /\ LocalsHeld' /\ CallOK'
      BY <2>1, <3>2, <3>4, <3>5, <3>6, <3>10, FinishesOrReports
    <3> QED
      BY <3>9, <3>11 DEF GoInv
  <2> QED
    BY <2>4, <2>5
<1>3. CASE CloseSession
  <2>1. /\ Idle /\ call' = call
        /\ heap' = IF held["session"] = NULL THEN heap ELSE Drop(heap, held["session"])
        /\ held' = Pointing(held, "session", NULL)
        /\ client' = [client EXCEPT !.received = 0, !.announced = FALSE]
    BY <1>3 DEF CloseSession, Lose, Pointing, viam_trajex_totg_streaming_session_destroy
  <2>2. PICK h2 : h2 = IF held["session"] = NULL THEN heap ELSE Drop(heap, held["session"])
    OBVIOUS
  <2>3. /\ Moves(heap, held, h2, Pointing(held, "session", NULL), {"session"})
        /\ Pointing(held, "session", NULL)["session"] = NULL
    BY <1>1, <2>2, Frees, Kinds
  <2>4. Moves(heap, held, heap', held', {"session"}) /\ held'["session"] = NULL
    BY <2>1, <2>2, <2>3
  <2>5. ClientOK' /\ client'.views = client.views
    BY <1>1, <2>1 DEF CallerOK, ClientOK
  <2>6. SessionCounts' /\ NothingLostSilently'
    BY <2>4 DEF SessionCounts, NothingLostSilently
  <2>7. InputsCount' /\ ViewsStand'
    BY <1>1, <2>4, <2>5, InputsKept, ViewsKept DEF CallerOK
  <2>8. CallerOK'
    BY <2>5, <2>6, <2>7 DEF CallerOK
  <2> QED
    BY <2>1, <2>4, <2>8, StaysIdle DEF GoInv, Locals
<1>4. CASE Extend
  <2>1. Idle /\ client' = client
    BY <1>4 DEF Extend
  <2>2. held["errOut"] = NULL
    BY <2>1, IdleFacts
  <2>3. CASE cancelled
    <3>1. call' = call /\ heap' = heap /\ held' = held
      BY <1>4, <2>3 DEF Extend
    <3>2. Moves(heap, held, heap', held', {})
      BY <1>1, <3>1, Stays
    <3> QED
      BY <2>1, <3>1, <3>2, StaysIdleAside
  <2>4. CASE ~cancelled
    <3>1. PICK r \in viam_trajex_totg_streaming_session_extend(heap, held["session"], held["inputs"]) :
            /\ heap' = r.heap
            /\ held' = Pointing(held, "errOut", r.err)
            /\ FinishOrReport("Extend", r)
      BY <1>4, <2>4 DEF Extend, Pointing
    <3>2. /\ Moves(heap, held, r.heap, Pointing(held, "errOut", r.err), {"session", "errOut"})
          /\ r.rc = 0 => r.err = NULL
          /\ held["session"] # NULL =>
               LET old == heap[held["session"]]
                   new == r.heap[held["session"]]
               IN  /\ new.next = old.next
                   /\ \/ new.planned = old.planned
                      \/ /\ held["inputs"] # NULL
                         /\ "waypoints" \in DOMAIN heap[held["inputs"]].tensors
                         /\ new.planned
                              = old.planned + heap[held["inputs"]].tensors["waypoints"].data
      BY <1>1, <2>2, SessionExtendMoves
    <3>3. Moves(heap, held, heap', held', {"session", "errOut"})
      BY <3>1, <3>2
    <3>4. held'["session"] = held["session"] /\ held'["errOut"] = r.err
      BY <1>1, <3>1, Kinds DEF Owned, Pointing
    <3>5. SessionCounts' /\ NothingLostSilently'
      <4>1. CASE held["session"] = NULL
        BY <3>4, <4>1 DEF SessionCounts, NothingLostSilently
      <4>2. CASE held["session"] # NULL
        <5>1. PICK old : old = heap[held["session"]]
          OBVIOUS
        <5>2. PICK new : new = heap'[held'["session"]]
          OBVIOUS
        <5>3. /\ old.next \in Nat \ {0} /\ old.planned \in Nat /\ old.next <= old.planned + 1
              /\ client.received \in Nat /\ client.received <= old.next - 1
              /\ client.received < old.next - 1 => client.announced
          BY <1>1, <4>2, <5>1 DEF CallerOK, SessionCounts, NothingLostSilently, ClientOK
        <5>4. new.next = old.next
          BY <3>1, <3>2, <3>4, <4>2, <5>1, <5>2
        <5>5. \/ new.planned = old.planned
              \/ \E d \in Nat : new.planned = old.planned + d
          <6>1. \/ new.planned = old.planned
                \/ /\ held["inputs"] # NULL
                   /\ "waypoints" \in DOMAIN heap[held["inputs"]].tensors
                   /\ new.planned
                        = old.planned + heap[held["inputs"]].tensors["waypoints"].data
            BY <3>1, <3>2, <3>4, <4>2, <5>1, <5>2
          <6>2. held["inputs"] # NULL /\ "waypoints" \in DOMAIN heap[held["inputs"]].tensors =>
                  heap[held["inputs"]].tensors["waypoints"].data \in Nat
            BY <1>1 DEF CallerOK, InputsCount
          <6> QED
            BY <6>1, <6>2
        <5>6. new.planned \in Nat /\ new.next <= new.planned + 1
          BY <5>3, <5>4, <5>5
        <5>7. SessionCounts'
          BY <5>2, <5>3, <5>4, <5>6 DEF SessionCounts
        <5>8. NothingLostSilently'
          BY <2>1, <5>2, <5>3, <5>4 DEF NothingLostSilently
        <5> QED
          BY <5>7, <5>8
      <4> QED
        BY <4>1, <4>2
    <3>6. InputsCount' /\ ViewsStand'
      BY <1>1, <2>1, <3>3, InputsKept, ViewsKept DEF CallerOK
    <3>7. CallerOK'
      BY <1>1, <2>1, <3>5, <3>6 DEF CallerOK, ClientOK
    <3>8. {"session", "errOut"} \cap Locals \subseteq {"errOut"}
      BY DEF Locals
    <3>9. Owned(heap', held') /\ LocalsHeld' /\ CallOK'
      BY <2>1, <3>1, <3>2, <3>3, <3>4, <3>8, FinishesOrReports
    <3> QED
      BY <3>7, <3>9 DEF GoInv
  <2> QED
    BY <2>3, <2>4
<1>5. ASSUME NEW n \in 1..2, Sample(n)
      PROVE  GoInv'
  <2>1. Idle
    BY <1>5 DEF Sample
  <2>2. held["errOut"] = NULL
    BY <2>1, IdleFacts
  <2>3. CASE cancelled
    <3>1. call' = call /\ heap' = heap /\ held' = held /\ client' = client
      BY <1>5, <2>3 DEF Sample
    <3>2. Moves(heap, held, heap', held', {})
      BY <1>1, <3>1, Stays
    <3> QED
      BY <2>1, <3>1, <3>2, StaysIdleAside
  <2>4. CASE ~cancelled
    <3>1. PICK r \in viam_trajex_totg_streaming_session_sample(heap, held["session"], n,
                                                               held["outputs"]) :
            /\ heap' = r.heap
            /\ held' = Pointing(held, "errOut", r.err)
            /\ FinishOrReport("Sample", r)
            /\ client' = IF r.rc # 0 THEN [client EXCEPT !.announced = TRUE]
                         ELSE LET out == r.heap[held["outputs"]].tensors
                              IN  [client EXCEPT !.views = {},
                                     !.received = IF "sample_times" \in DOMAIN out
                                                    THEN @ + Counted(out) ELSE @]
      BY <1>5, <2>4 DEF Sample, Pointing
    <3>2. PICK s : s = held["session"]
      OBVIOUS
    <3>3. PICK last : last = LastOf(heap[s], n)
      OBVIOUS
    <3>4. /\ Moves(heap, held, r.heap, Pointing(held, "errOut", r.err),
                   {"session", "outputs", "errOut"})
          /\ r.rc # 0 =>
               /\ Moves(heap, held, r.heap, Pointing(held, "errOut", r.err), {"session", "errOut"})
               /\ s # NULL =>
                    /\ r.heap[s].planned = heap[s].planned
                    /\ r.heap[s].next \in {heap[s].next, last + 1}
          /\ r.rc = 0 =>
               /\ r.err = NULL /\ s # NULL /\ held["outputs"] # NULL
               /\ r.heap[s].planned = heap[s].planned
               /\ r.heap[s].next = last + 1
               /\ r.heap[held["outputs"]].tensors = Samples(heap[s].next, last, heap[s].n_dof)
      BY <1>1, <2>2, <3>2, <3>3, SessionSampleMoves
    <3>5. Moves(heap, held, heap', held', {"session", "outputs", "errOut"})
      BY <3>1, <3>4
    <3>6. held'["session"] = s /\ held'["outputs"] = held["outputs"] /\ held'["errOut"] = r.err
      BY <1>1, <3>1, <3>2, Kinds DEF Owned, Pointing
    <3>7. s # NULL =>
            /\ heap[s].next \in Nat \ {0} /\ heap[s].planned \in Nat
            /\ heap[s].next <= heap[s].planned + 1
            /\ client.received <= heap[s].next - 1
            /\ client.received < heap[s].next - 1 => client.announced
      BY <1>1, <3>2 DEF CallerOK, SessionCounts, NothingLostSilently
    <3>8. client.received \in Nat
      BY <1>1 DEF CallerOK, ClientOK
    <3>9. s # NULL => last \in Nat /\ heap[s].next <= last + 1 /\ last <= heap[s].planned
      BY <1>5, <3>3, <3>7 DEF LastOf
    <3>10. InputsCount'
      BY <1>1, <3>5, InputsKept DEF CallerOK
    <3>11. SessionCounts'
      BY <3>1, <3>4, <3>6, <3>7, <3>9 DEF SessionCounts
    <3>12. ASSUME r.rc # 0 PROVE CallerOK'
      <4>1. /\ ClientOK' /\ client'.views = client.views
            /\ client'.received = client.received /\ client'.announced = TRUE
        BY <1>1, <3>1, <3>12 DEF CallerOK, ClientOK
      <4>2. Moves(heap, held, heap', held', {"session", "errOut"})
        BY <3>1, <3>4, <3>12
      <4>3. ViewsStand'
        BY <1>1, <4>1, <4>2, ViewsKept DEF CallerOK
      <4>4. s # NULL => heap'[s].next \in {heap[s].next, last + 1}
        BY <3>1, <3>4, <3>12
      <4>5. NothingLostSilently'
        <5>1. s # NULL => client'.received <= heap'[s].next - 1
          BY <3>7, <3>8, <3>9, <4>1, <4>4
        <5> QED
          BY <3>6, <4>1, <5>1 DEF NothingLostSilently
      <4> QED
        BY <3>10, <3>11, <4>1, <4>3, <4>5 DEF CallerOK
    <3>13. ASSUME r.rc = 0 PROVE CallerOK'
      <4>1. PICK out : out = r.heap[held["outputs"]].tensors
        OBVIOUS
      <4>2. /\ "sample_times" \in DOMAIN out
            /\ Counted(out) = last - heap[s].next + 1
        BY <3>4, <3>13, <4>1 DEF Samples, Counted
      <4>3. PICK m : m = client.received + Counted(out)
        OBVIOUS
      <4>4. client' = [client EXCEPT !.views = {}, !.received = m]
        BY <3>1, <3>13, <4>1, <4>2, <4>3
      <4>5. m \in Nat /\ m <= last /\ (m < last => client.received < heap[s].next - 1)
        BY <3>4, <3>7, <3>8, <3>9, <3>13, <4>2, <4>3
      <4>6. /\ ClientOK' /\ client'.views = {}
            /\ client'.received = m /\ client'.announced = client.announced
        BY <1>1, <4>4, <4>5 DEF CallerOK, ClientOK
      <4>7. ViewsStand'
        BY <4>6 DEF ViewsStand
      <4>8. heap'[s].next = last + 1 /\ s # NULL
        BY <3>1, <3>4, <3>13
      <4>9. NothingLostSilently'
        <5>1. heap'[s].next - 1 = last
          BY <3>9, <4>8
        <5> QED
          BY <3>6, <3>7, <4>5, <4>6, <4>8, <5>1 DEF NothingLostSilently
      <4> QED
        BY <3>10, <3>11, <4>6, <4>7, <4>9 DEF CallerOK
    <3>14. CallerOK'
      BY <3>12, <3>13
    <3>15. {"session", "outputs", "errOut"} \cap Locals \subseteq {"errOut"}
      BY DEF Locals
    <3>16. Owned(heap', held') /\ LocalsHeld' /\ CallOK'
      BY <2>1, <3>1, <3>4, <3>5, <3>6, <3>15, FinishesOrReports
    <3> QED
      BY <3>14, <3>16 DEF GoInv
  <2> QED
    BY <2>3, <2>4
<1> QED
  BY <1>2, <1>3, <1>4, <1>5 DEF SessionCalls

-----------------------------------------------------------------------------
(* The steps of a call *)

\* The ways in which a call goes on.
ToPc(c, pc) == [c EXCEPT !.pc = pc]
ToPcWith(c, pc, outcome) == [c EXCEPT !.pc = pc, !.outcome = outcome]
HasRead(c, read, pc) == [c EXCEPT !.read = read, !.pc = pc]
HasMarshalled(c, keys, pc) == [c EXCEPT !.keys = keys, !.pc = pc]
HasExtended(c, joints) == [c EXCEPT !.joints = joints]

\* A call that goes on keeps its arguments, and whatever else it does not decide.
LEMMA GoesTo ==
  ASSUME CallShape, NEW pc, call' = ToPc(call, pc)
  PROVE  /\ CallShape'
         /\ call'.pc = pc /\ call'.op = call.op /\ call'.outcome = call.outcome
         /\ call'.inputs = call.inputs /\ call'.before = call.before
         /\ call'.read = call.read /\ call'.keys = call.keys /\ call'.joints = call.joints
<1>1. /\ DOMAIN call = {"op", "pc", "chain", "inputs", "before", "keys", "joints", "read", "outcome"}
      /\ call = [f \in DOMAIN call |-> call[f]]
  BY DEF CallShape
<1>2. /\ call' = [f \in DOMAIN call |-> call'[f]]
      /\ call'.pc = pc /\ call'.op = call.op /\ call'.outcome = call.outcome
      /\ call'.inputs = call.inputs /\ call'.before = call.before
      /\ call'.read = call.read /\ call'.keys = call.keys /\ call'.joints = call.joints
  BY <1>1 DEF ToPc
<1>3. CallShape'
  BY <1>1, <1>2 DEF CallShape
<1> QED
  BY <1>2, <1>3

LEMMA GoesWith ==
  ASSUME CallShape, NEW pc, NEW outcome, call' = ToPcWith(call, pc, outcome)
  PROVE  /\ CallShape'
         /\ call'.pc = pc /\ call'.op = call.op /\ call'.outcome = outcome
         /\ call'.inputs = call.inputs /\ call'.before = call.before
         /\ call'.read = call.read /\ call'.keys = call.keys /\ call'.joints = call.joints
<1>1. /\ DOMAIN call = {"op", "pc", "chain", "inputs", "before", "keys", "joints", "read", "outcome"}
      /\ call = [f \in DOMAIN call |-> call[f]]
  BY DEF CallShape
<1>2. /\ call' = [f \in DOMAIN call |-> call'[f]]
      /\ call'.pc = pc /\ call'.op = call.op /\ call'.outcome = outcome
      /\ call'.inputs = call.inputs /\ call'.before = call.before
      /\ call'.read = call.read /\ call'.keys = call.keys /\ call'.joints = call.joints
  BY <1>1 DEF ToPcWith
<1>3. CallShape'
  BY <1>1, <1>2 DEF CallShape
<1> QED
  BY <1>2, <1>3

LEMMA GoesOnReading ==
  ASSUME CallShape, NEW read, NEW pc, call' = HasRead(call, read, pc)
  PROVE  /\ CallShape'
         /\ call'.pc = pc /\ call'.op = call.op /\ call'.outcome = call.outcome
         /\ call'.inputs = call.inputs /\ call'.before = call.before
         /\ call'.read = read /\ call'.keys = call.keys /\ call'.joints = call.joints
<1>1. /\ DOMAIN call = {"op", "pc", "chain", "inputs", "before", "keys", "joints", "read", "outcome"}
      /\ call = [f \in DOMAIN call |-> call[f]]
  BY DEF CallShape
<1>2. /\ call' = [f \in DOMAIN call |-> call'[f]]
      /\ call'.pc = pc /\ call'.op = call.op /\ call'.outcome = call.outcome
      /\ call'.inputs = call.inputs /\ call'.before = call.before
      /\ call'.read = read /\ call'.keys = call.keys /\ call'.joints = call.joints
  BY <1>1 DEF HasRead
<1>3. CallShape'
  BY <1>1, <1>2 DEF CallShape
<1> QED
  BY <1>2, <1>3

LEMMA GoesOnMarshalling ==
  ASSUME CallShape, NEW keys, NEW pc, call' = HasMarshalled(call, keys, pc)
  PROVE  /\ CallShape'
         /\ call'.pc = pc /\ call'.op = call.op /\ call'.outcome = call.outcome
         /\ call'.inputs = call.inputs /\ call'.before = call.before
         /\ call'.read = call.read /\ call'.keys = keys /\ call'.joints = call.joints
<1>1. /\ DOMAIN call = {"op", "pc", "chain", "inputs", "before", "keys", "joints", "read", "outcome"}
      /\ call = [f \in DOMAIN call |-> call[f]]
  BY DEF CallShape
<1>2. /\ call' = [f \in DOMAIN call |-> call'[f]]
      /\ call'.pc = pc /\ call'.op = call.op /\ call'.outcome = call.outcome
      /\ call'.inputs = call.inputs /\ call'.before = call.before
      /\ call'.read = call.read /\ call'.keys = keys /\ call'.joints = call.joints
  BY <1>1 DEF HasMarshalled
<1>3. CallShape'
  BY <1>1, <1>2 DEF CallShape
<1> QED
  BY <1>2, <1>3

LEMMA GoesOnExtending ==
  ASSUME CallShape, NEW joints, call' = HasExtended(call, joints)
  PROVE  /\ CallShape'
         /\ call'.pc = call.pc /\ call'.op = call.op /\ call'.outcome = call.outcome
         /\ call'.inputs = call.inputs /\ call'.before = call.before
         /\ call'.read = call.read /\ call'.keys = call.keys /\ call'.joints = joints
<1>1. /\ DOMAIN call = {"op", "pc", "chain", "inputs", "before", "keys", "joints", "read", "outcome"}
      /\ call = [f \in DOMAIN call |-> call[f]]
  BY DEF CallShape
<1>2. /\ call' = [f \in DOMAIN call |-> call'[f]]
      /\ call'.pc = call.pc /\ call'.op = call.op /\ call'.outcome = call.outcome
      /\ call'.inputs = call.inputs /\ call'.before = call.before
      /\ call'.read = call.read /\ call'.keys = call.keys /\ call'.joints = joints
  BY <1>1 DEF HasExtended
<1>3. CallShape'
  BY <1>1, <1>2 DEF CallShape
<1> QED
  BY <1>2, <1>3

\* Where no pointer is to be let go of, and nothing moves.
LEMMA StaysPut ==
  ASSUME GoInv, UNCHANGED <<heap, held>>, client' = client
  PROVE  /\ Owned(heap', held') /\ CallerOK'
         /\ \A x \in Holders : held'[x] = held[x] /\ Contents(heap', held'[x]) = Contents(heap, held[x])
<1>1. Moves(heap, held, heap', held', {})
  BY Stays DEF GoInv
<1>2. CallerOK'
  BY <1>1, CallerKept DEF GoInv
<1> QED
  BY <1>1, <1>2 DEF Moves

LEMMA GenerateStarts ==
  ASSUME GoInv, NEW b \in BOOLEAN, Generate(b)
  PROVE  GoInv'
<1>1. Idle /\ UNCHANGED <<heap, held>> /\ client' = client
  BY DEF Generate
<1>2. /\ Owned(heap', held') /\ CallerOK'
      /\ \A x \in Holders : held'[x] = held[x] /\ Contents(heap', held'[x]) = Contents(heap, held[x])
  BY <1>1, StaysPut
<1>3. /\ call = NoCall /\ held["errOut"] = NULL /\ held["newBuilder"] = NULL
      /\ held["inMap"] = NULL /\ held["outMap"] = NULL
  BY <1>1, IdleFacts
<1>4. CASE call' = call
  <2>1. LocalsHeld'
    BY <1>1, <1>3, <1>4 DEF LocalsHeld
  <2> QED
    BY <1>2, <1>3, <1>4, <2>1, NoCallOK DEF GoInv
<1>5. ASSUME NEW c, call' = [NoCall EXCEPT !.op = "Generate", !.pc = "entry", !.chain = c,
                                          !.inputs = Contents(heap, held["inputs"]),
                                          !.before = Contents(heap, held["outputs"])]
      PROVE  GoInv'
  <2>1. /\ CallShape' /\ call'.op = "Generate" /\ call'.pc = "entry"
        /\ call'.inputs = Contents(heap, held["inputs"])
        /\ call'.before = Contents(heap, held["outputs"])
    BY <1>5 DEF CallShape, NoCall
  <2>2. InGenerate'
    BY <1>2, <2>1, Kinds DEF InGenerate
  <2>3. LocalsHeld'
    BY <1>1, <1>3 DEF LocalsHeld
  <2> QED
    BY <1>2, <2>1, <2>2, <2>3 DEF GoInv, CallOK
<1> QED
  BY <1>4, <1>5 DEF Generate

LEMMA InferStarts ==
  ASSUME GoInv, NEW keys, NEW S, NEW tensors \in [keys -> S], Infer(tensors)
  PROVE  GoInv'
<1>1. /\ Idle /\ UNCHANGED <<heap, held>> /\ client' = client
      /\ call' = [NoCall EXCEPT !.op = "Infer", !.pc = "make_in", !.inputs = tensors,
                                !.keys = DOMAIN tensors]
  BY DEF Infer
<1>2. Owned(heap', held') /\ CallerOK'
  BY <1>1, StaysPut
<1>3. /\ held["errOut"] = NULL /\ held["newBuilder"] = NULL
      /\ held["inMap"] = NULL /\ held["outMap"] = NULL
  BY <1>1, IdleFacts
<1>4. /\ CallShape' /\ call'.op = "Infer" /\ call'.pc = "make_in" /\ call'.inputs = tensors
      /\ call'.keys = DOMAIN tensors /\ call'.before = Without /\ call'.read = Without
      /\ call'.outcome = "error"
  BY <1>1 DEF CallShape, NoCall
<1>5. tensors = [k \in DOMAIN tensors |-> tensors[k]]
  OBVIOUS
<1>6. InInfer'
  BY <1>4, <1>5 DEF InInfer
<1>7. LocalsHeld'
  BY <1>1, <1>3 DEF LocalsHeld
<1> QED
  BY <1>2, <1>4, <1>6, <1>7 DEF GoInv, CallOK

\* What a step of generate is in the middle of.
LEMMA OfGenerate ==
  ASSUME CallOK, call.pc \in {"entry", "generate", "exit"}
  PROVE  CallShape /\ ((call.op = "Generate" /\ InGenerate) \/ (call.op = "Infer" /\ InInfer))
<1>1. call # NoCall
  BY DEF NoCall
<1>2. ~(call.op = "NewChain" /\ InNewChain)
  BY DEF InNewChain
<1>3. call.pc # "report"
  OBVIOUS
<1>4. CallShape
  BY DEF CallOK
<1>5. (call.op = "Generate" /\ InGenerate) \/ (call.op = "Infer" /\ InInfer)
  BY <1>1, <1>2, <1>3 DEF CallOK
<1> QED
  BY <1>4, <1>5

LEMMA CheckContextStep ==
  ASSUME GoInv, NEW pc \in {"entry", "exit"}, CheckContext(pc)
  PROVE  GoInv'
<1>1. /\ call.pc = pc /\ UNCHANGED <<heap, held>> /\ client' = client
      /\ CallOK /\ LocalsHeld
  BY DEF CheckContext, GoInv
<1>2. /\ Owned(heap', held') /\ CallerOK'
      /\ \A x \in Holders : held'[x] = held[x] /\ Contents(heap', held'[x]) = Contents(heap, held[x])
  BY <1>1, StaysPut
<1>3. CallShape /\ ((call.op = "Generate" /\ InGenerate) \/ (call.op = "Infer" /\ InInfer))
  BY <1>1, OfGenerate
<1>4. \/ pc = "entry" /\ GoTo("generate")
      \/ GenerateReturns("cancelled")
      \/ pc = "exit" /\ GenerateReturns("ok")
  BY DEF CheckContext
<1>5. CASE pc = "entry" /\ GoTo("generate")
  <2>1. call' = ToPc(call, "generate")
    BY <1>5 DEF GoTo, ToPc
  <2>2. /\ CallShape' /\ call'.pc = "generate" /\ call'.op = call.op /\ call'.outcome = call.outcome
        /\ call'.inputs = call.inputs /\ call'.before = call.before
        /\ call'.read = call.read /\ call'.keys = call.keys
    BY <1>3, <2>1, GoesTo
  <2>3. LocalsHeld'
    BY <1>1, <1>5, <2>2 DEF LocalsHeld
  <2>4. CASE call.op = "Generate" /\ InGenerate
    <3>1. InGenerate'
      BY <1>1, <1>2, <1>5, <2>2, <2>4, Kinds DEF InGenerate
    <3> QED
      BY <1>2, <2>2, <2>3, <2>4, <3>1 DEF GoInv, CallOK
  <2>5. CASE call.op = "Infer" /\ InInfer
    <3>1. InInfer'
      BY <1>1, <1>5, <2>2, <2>5 DEF InInfer
    <3> QED
      BY <1>2, <2>2, <2>3, <2>5, <3>1 DEF GoInv, CallOK
  <2> QED
    BY <1>3, <2>4, <2>5
<1>6. ASSUME NEW outcome \in {"ok", "cancelled"}, GenerateReturns(outcome),
             outcome = "ok" => pc = "exit"
      PROVE  GoInv'
  <2>1. CASE call.op = "Generate"
    <3>1. call' = NoCall
      BY <1>6, <2>1 DEF GenerateReturns, Return
    <3>2. LocalsHeld'
      BY <1>1, <2>1 DEF LocalsHeld
    <3> QED
      BY <1>2, <3>1, <3>2, NoCallOK DEF GoInv
  <2>2. CASE call.op = "Infer" /\ InInfer
    <3>1. PICK next : next = IF outcome = "ok" THEN "read" ELSE "close_out"
      OBVIOUS
    <3>2. call' = ToPcWith(call, next, outcome)
      BY <1>6, <2>2, <3>1 DEF GenerateReturns, ToPcWith
    <3>3. /\ CallShape' /\ call'.pc = next /\ call'.op = call.op /\ call'.outcome = outcome
          /\ call'.inputs = call.inputs /\ call'.before = call.before
          /\ call'.read = call.read /\ call'.keys = call.keys
      BY <1>3, <3>2, GoesWith
    <3>4. LocalsHeld'
      BY <1>1, <2>2, <3>1, <3>3 DEF LocalsHeld
    <3>5. InInfer'
      BY <1>1, <1>6, <2>2, <3>1, <3>3 DEF InInfer, Motion
    <3> QED
      BY <1>2, <2>2, <3>3, <3>4, <3>5 DEF GoInv, CallOK
  <2> QED
    BY <1>3, <2>1, <2>2
<1> QED
  BY <1>4, <1>5, <1>6

\* The chain does not change what the motion is counted as.
LEMMA MotionOfInputs ==
  ASSUME NEW m, NEW chain
  PROVE  totg_generate_impl(m, chain) = totg_generate_impl(m, NoChain)
BY DEF totg_generate_impl

LEMMA CallGenerateStep ==
  ASSUME GoInv, CallGenerate
  PROVE  GoInv'
<1>1. Owned(heap, held) /\ LocalsHeld /\ CallOK /\ CallerOK /\ call.pc = "generate"
  BY DEF GoInv, CallGenerate
<1>2. held["errOut"] = NULL
  BY <1>1 DEF LocalsHeld
<1>3. CallShape /\ ((call.op = "Generate" /\ InGenerate) \/ (call.op = "Infer" /\ InInfer))
  BY <1>1, OfGenerate
<1>4. PICK x \in {"inputs", "inMap"} : x = IF call.op = "Infer" THEN "inMap" ELSE "inputs"
  OBVIOUS
<1>5. PICK y \in {"outputs", "outMap"} : y = IF call.op = "Infer" THEN "outMap" ELSE "outputs"
  OBVIOUS
<1>6. InputsOf(call.op) = held[x] /\ OutputsOf(call.op) = held[y]
  BY <1>4, <1>5 DEF InputsOf, OutputsOf
<1>7. PICK r \in viam_trajex_totg_generate(heap, call.chain, held[x], held[y]) :
        /\ heap' = r.heap
        /\ held' = Pointing(held, "errOut", r.err)
        /\ client' = IF r.rc = 0 /\ call.op = "Generate" THEN [client EXCEPT !.views = {}] ELSE client
        /\ GoTo(IF r.rc = 0 THEN "exit" ELSE "report")
  BY <1>6 DEF CallGenerate, Pointing
<1>8. x \in Holders /\ y \in Holders /\ KindOf[y] = "map"
  BY Kinds
<1>9. PICK c : c = call.chain
  OBVIOUS
<1>10. r \in viam_trajex_totg_generate(heap, c, held[x], held[y])
  BY <1>7, <1>9
<1>11. /\ Moves(heap, held, r.heap, Pointing(held, "errOut", r.err), {y, "errOut"})
       /\ r.rc = 0 =>
            /\ r.err = NULL /\ held[x] # NULL /\ held[y] # NULL
            /\ r.heap[held[y]].tensors = totg_generate_impl(heap[held[x]].tensors, ChainAt(heap, c))
       /\ r.rc # 0 => Moves(heap, held, r.heap, Pointing(held, "errOut", r.err), {"errOut"})
  BY <1>1, <1>2, <1>8, <1>10, GenerateMoves
<1>12. /\ Moves(heap, held, heap', held', {y, "errOut"})
       /\ r.rc # 0 => Moves(heap, held, heap', held', {"errOut"})
  BY <1>7, <1>11
<1>13. held'[y] = held[y] /\ held'["errOut"] = r.err
  BY <1>1, <1>5, <1>7, <1>8, Kinds DEF Owned, Pointing
<1>14. PICK pc : pc = IF r.rc = 0 THEN "exit" ELSE "report"
  OBVIOUS
<1>15. call' = ToPc(call, pc)
  BY <1>7, <1>14 DEF GoTo, ToPc
<1>16. /\ CallShape' /\ call'.pc = pc /\ call'.op = call.op /\ call'.outcome = call.outcome
       /\ call'.inputs = call.inputs /\ call'.before = call.before
       /\ call'.read = call.read /\ call'.keys = call.keys
  BY <1>3, <1>15, GoesTo
<1>17. \A z \in {"newBuilder", "inMap", "outMap"} : held'[z] = held[z]
  BY <1>5, <1>12, <1>13, Kinds DEF Moves
<1>18. LocalsHeld'
  BY <1>1, <1>3, <1>7, <1>11, <1>13, <1>14, <1>16, <1>17 DEF LocalsHeld
<1>19. r.rc = 0 => heap'[held'[y]].tensors = totg_generate_impl(heap[held[x]].tensors, NoChain)
  BY <1>7, <1>11, <1>13, MotionOfInputs
<1>20. CASE call.op = "Generate" /\ InGenerate
  <2>1. x = "inputs" /\ y = "outputs"
    BY <1>4, <1>5, <1>20
  <2>2. /\ ClientOK' /\ client'.views \subseteq client.views
        /\ client'.received = client.received /\ client'.announced = client.announced
        /\ r.rc = 0 => client'.views = {}
    BY <1>1, <1>7, <1>20 DEF CallerOK, ClientOK
  <2>3. InputsCount' /\ SessionCounts' /\ NothingLostSilently'
    BY <1>1, <1>12, <2>1, <2>2, InputsKept, SessionKept DEF CallerOK
  <2>4. ViewsStand'
    <3>1. CASE r.rc = 0
      BY <2>2, <3>1 DEF ViewsStand
    <3>2. CASE r.rc # 0
      BY <1>1, <1>12, <2>2, <3>2, ViewsKept DEF CallerOK
    <3> QED
      BY <3>1, <3>2
  <2>5. CallerOK'
    BY <2>2, <2>3, <2>4 DEF CallerOK
  <2>6. /\ Contents(heap, held["inputs"]) = call.inputs
        /\ Contents(heap, held["outputs"]) = call.before
    BY <1>1, <1>20 DEF InGenerate
  <2>7. r.rc = 0 => Contents(heap', held'["outputs"]) = Motion'
    BY <1>11, <1>13, <1>16, <1>19, <2>1, <2>6 DEF Contents, Motion
  <2>8. r.rc # 0 => Contents(heap', held'["outputs"]) = call.before
    BY <1>12, <2>6, Kept, Kinds
  <2>9. InGenerate'
    BY <1>14, <1>16, <2>7, <2>8 DEF InGenerate
  <2> QED
    BY <1>12, <1>16, <1>18, <1>20, <2>5, <2>9 DEF GoInv, CallOK, Moves
<1>21. CASE call.op = "Infer" /\ InInfer
  <2>1. x = "inMap" /\ y = "outMap" /\ client' = client
    BY <1>4, <1>5, <1>7, <1>21
  <2>2. CallerOK'
    BY <1>1, <1>12, <2>1, CallerKept
  <2>3. r.rc = 0 => heap[held["inMap"]].tensors = call.inputs
    BY <1>1, <1>11, <1>21, <2>1 DEF InInfer
  <2>4. r.rc = 0 => heap'[held'["outMap"]].tensors = Motion'
    BY <1>16, <1>19, <2>1, <2>3 DEF Motion
  <2>5. InInfer'
    BY <1>1, <1>14, <1>16, <1>21, <2>4 DEF InInfer
  <2> QED
    BY <1>12, <1>16, <1>18, <1>21, <2>2, <2>5 DEF GoInv, CallOK, Moves
<1> QED
  BY <1>3, <1>20, <1>21

\* A local that a call is done with.
LEMMA LosesLocal ==
  ASSUME GoInv, NEW x \in Locals,
         Lose(x, IF held[x] = NULL THEN heap ELSE Drop(heap, held[x])), client' = client
  PROVE  /\ Moves(heap, held, heap', held', {x}) /\ held'[x] = NULL
         /\ CallerOK'
         /\ \A y \in Holders \ {x} :
              /\ held'[y] = held[y]
              /\ held[y] # NULL => heap'[held[y]] = heap[held[y]]
              /\ Contents(heap', held'[y]) = Contents(heap, held[y])
<1>1. PICK h2 : h2 = IF held[x] = NULL THEN heap ELSE Drop(heap, held[x])
  OBVIOUS
<1>2. heap' = h2 /\ held' = Pointing(held, x, NULL)
  BY <1>1 DEF Lose, Pointing
<1>3. x \in Holders /\ "inputs" \notin {x} /\ "outputs" \notin {x} /\ "session" \notin {x}
  BY Kinds DEF Locals
<1>4. Moves(heap, held, h2, Pointing(held, x, NULL), {x}) /\ Pointing(held, x, NULL)[x] = NULL
  BY <1>1, <1>3, Frees DEF GoInv
<1>5. Moves(heap, held, heap', held', {x}) /\ held'[x] = NULL
  BY <1>2, <1>4
<1>6. CallerOK'
  BY <1>3, <1>5, CallerKept DEF GoInv
<1> QED
  BY <1>5, <1>6, Kept

LEMMA ReportStep ==
  ASSUME GoInv, Report
  PROVE  GoInv'
<1>1. LocalsHeld /\ CallOK /\ call.pc = "report" /\ client' = client
  BY DEF GoInv, Report
<1>2. Lose("errOut", IF held["errOut"] = NULL THEN heap ELSE Drop(heap, held["errOut"]))
  BY DEF Report, viam_trajex_string_destroy
<1>3. /\ Moves(heap, held, heap', held', {"errOut"}) /\ held'["errOut"] = NULL
      /\ CallerOK'
      /\ \A y \in Holders \ {"errOut"} :
           /\ held'[y] = held[y]
           /\ held[y] # NULL => heap'[held[y]] = heap[held[y]]
           /\ Contents(heap', held'[y]) = Contents(heap, held[y])
  BY <1>1, <1>2, LosesLocal DEF Locals
<1>4. Owned(heap', held')
  BY <1>3 DEF Moves
<1>5. \A z \in {"newBuilder", "inMap", "outMap", "chain", "outputs"} : held'[z] = held[z]
  BY <1>3, Kinds
<1>6. CallShape /\ call # NoCall
  BY <1>1 DEF CallOK, NoCall
<1>7. CASE call.op = "NewChain"
  <2>1. InNewChain
    BY <1>1, <1>6, <1>7 DEF CallOK
  <2>2. call' = ToPc(call, "destroy_builder")
    BY <1>7 DEF Report, GoTo, ToPc
  <2>3. /\ CallShape' /\ call'.pc = "destroy_builder" /\ call'.op = call.op
        /\ call'.outcome = call.outcome /\ call'.inputs = call.inputs
    BY <1>6, <2>2, GoesTo
  <2>4. InNewChain'
    BY <1>1, <1>5, <2>1, <2>3 DEF InNewChain
  <2>5. LocalsHeld'
    BY <1>1, <1>3, <1>5, <1>7, <2>3 DEF LocalsHeld
  <2> QED
    BY <1>3, <1>4, <1>7, <2>3, <2>4, <2>5 DEF GoInv, CallOK
<1>8. CASE call.op = "Infer"
  <2>1. InInfer
    BY <1>1, <1>6, <1>8 DEF CallOK
  <2>2. call' = ToPcWith(call, "close_out", "error")
    BY <1>8 DEF Report, GenerateReturns, ToPcWith
  <2>3. /\ CallShape' /\ call'.pc = "close_out" /\ call'.op = call.op
        /\ call'.outcome = "error" /\ call'.inputs = call.inputs /\ call'.before = call.before
        /\ call'.read = call.read /\ call'.keys = call.keys
    BY <1>6, <2>2, GoesWith
  <2>4. InInfer'
    BY <1>1, <2>1, <2>3 DEF InInfer
  <2>5. LocalsHeld'
    BY <1>1, <1>3, <1>5, <1>8, <2>3 DEF LocalsHeld
  <2> QED
    BY <1>3, <1>4, <1>8, <2>3, <2>4, <2>5 DEF GoInv, CallOK
<1>9. CASE call.op \notin {"NewChain", "Infer"}
  <2>1. call' = NoCall
    BY <1>9 DEF Report, GenerateReturns, Return
  <2>2. LocalsHeld'
    BY <1>1, <1>3, <1>5, <1>9 DEF LocalsHeld
  <2> QED
    BY <1>3, <1>4, <2>1, <2>2, NoCallOK DEF GoInv
<1> QED
  BY <1>7, <1>8, <1>9

\* A step of Infer or NewChain that is at a place only that call has.
LEMMA OfInfer ==
  ASSUME CallOK, call.pc \in {"make_in", "make_out", "marshal", "read", "close_out", "close_in"}
  PROVE  CallShape /\ call.op = "Infer" /\ InInfer
<1>1. call # NoCall
  BY DEF NoCall
<1>2. ~(call.op = "NewChain" /\ InNewChain) /\ ~(call.op = "Generate" /\ InGenerate)
  BY DEF InNewChain, InGenerate
<1>3. call.pc # "report"
  OBVIOUS
<1> QED
  BY <1>1, <1>2, <1>3 DEF CallOK

LEMMA OfNewChain ==
  ASSUME CallOK, call.pc \in {"extend", "destroy_builder"}
  PROVE  CallShape /\ call.op = "NewChain" /\ InNewChain
<1>1. call # NoCall
  BY DEF NoCall
<1>2. ~(call.op = "Infer" /\ InInfer) /\ ~(call.op = "Generate" /\ InGenerate)
  BY DEF InInfer, InGenerate
<1>3. call.pc # "report"
  OBVIOUS
<1> QED
  BY <1>1, <1>2, <1>3 DEF CallOK

\* An empty map, or none.
LEMMA InferMakesStep ==
  ASSUME GoInv, NEW pc, NEW x, NEW next, NEW failed,
         \/ pc = "make_in" /\ x = "inMap" /\ next = "make_out" /\ failed = "close_in"
         \/ pc = "make_out" /\ x = "outMap" /\ next = "marshal" /\ failed = "close_out",
         InferMakes(pc, x, next, failed)
  PROVE  GoInv'
<1>1. Owned(heap, held) /\ LocalsHeld /\ CallOK /\ CallerOK /\ call.pc = pc /\ client' = client
  BY DEF GoInv, InferMakes
<1>2. CallShape /\ call.op = "Infer" /\ InInfer
  BY <1>1, OfInfer
<1>3. x \in Holders /\ KindOf[x] = "map" /\ x \in {"inMap", "outMap"}
  BY Kinds
<1>4. held[x] = NULL
  BY <1>1 DEF LocalsHeld
<1>5. PICK r \in viam_trajex_tensor_map_create(heap) :
        Take(x, r) /\ GoTo(IF r.rc = 0 THEN next ELSE failed)
  BY DEF InferMakes
<1>6. PICK o : o = MapOf(Without)
  OBVIOUS
<1>7. Typed(o, KindOf[x]) /\ o.tensors = Without
  BY <1>3, <1>6 DEF Typed, MapOf
<1>8. r \in Created(heap, o)
  BY <1>5, <1>6 DEF viam_trajex_tensor_map_create
<1>9. /\ Moves(heap, held, r.heap, Pointing(held, x, r.ret), {x})
      /\ Pointing(held, x, r.ret)[x] = r.ret
      /\ r.rc = 0 => r.ret # NULL /\ r.heap[r.ret] = o
      /\ r.rc # 0 => r.ret = NULL
  <2>1. Owned(heap, held) /\ x \in Holders
    BY <1>1, <1>3
  <2> QED
    BY <1>4, <1>7, <1>8, <2>1, CreatedGives
<1>10. heap' = r.heap /\ held' = Pointing(held, x, r.ret)
  BY <1>5 DEF Take, Pointing
<1>11. /\ Moves(heap, held, heap', held', {x})
       /\ r.rc = 0 => held'[x] # NULL /\ heap'[held'[x]].tensors = Without
       /\ r.rc # 0 => held'[x] = NULL
  BY <1>7, <1>9, <1>10
<1>12. CallerOK'
  BY <1>1, <1>3, <1>11, CallerKept
<1>13. PICK to : to = IF r.rc = 0 THEN next ELSE failed
  OBVIOUS
<1>14. call' = ToPc(call, to)
  BY <1>5, <1>13 DEF GoTo, ToPc
<1>15. /\ CallShape' /\ call'.pc = to /\ call'.op = call.op /\ call'.outcome = call.outcome
       /\ call'.inputs = call.inputs /\ call'.before = call.before
       /\ call'.read = call.read /\ call'.keys = call.keys
  BY <1>2, <1>14, GoesTo
<1>16. \A z \in {"newBuilder", "errOut", "inMap", "outMap"} : z # x =>
         held'[z] = held[z] /\ (held[z] # NULL => heap'[held[z]] = heap[held[z]])
  BY <1>11, Kinds DEF Moves
<1>17. LocalsHeld'
  BY <1>1, <1>2, <1>3, <1>11, <1>13, <1>15, <1>16 DEF LocalsHeld
<1>18. InInfer'
  <2>1. CASE pc = "make_in" /\ x = "inMap" /\ next = "make_out" /\ failed = "close_in"
    <3>1. call.keys = DOMAIN call.inputs
      BY <1>1, <1>2, <2>1 DEF InInfer
    <3>2. Without = [k \in DOMAIN call.inputs \ call.keys |-> call.inputs[k]]
      BY <3>1 DEF Without
    <3>3. to \in {"make_out", "close_in"} /\ (to = "make_out" => r.rc = 0)
      BY <1>13, <2>1
    <3> QED
      BY <1>1, <1>2, <1>11, <1>15, <2>1, <3>2, <3>3 DEF InInfer
  <2>2. CASE pc = "make_out" /\ x = "outMap" /\ next = "marshal" /\ failed = "close_out"
    <3>1. to \in {"marshal", "close_out"}
      BY <1>13, <2>2
    <3>2. held'["inMap"] # NULL =>
            heap'[held'["inMap"]].tensors = [k \in DOMAIN call.inputs \ call.keys |-> call.inputs[k]]
      BY <1>1, <1>2, <1>16, <2>2 DEF InInfer
    <3> QED
      BY <1>1, <1>2, <1>15, <2>2, <3>1, <3>2 DEF InInfer
  <2> QED
    BY <2>1, <2>2
<1> QED
  BY <1>2, <1>11, <1>12, <1>15, <1>17, <1>18 DEF GoInv, CallOK, Moves

LEMMA InMapInserts ==
  ASSUME Owned(heap, held), NEW k, NEW t,
         NEW r \in viam_trajex_tensor_map_insert(heap, held["inMap"], k, t)
  PROVE  /\ Moves(heap, held, r.heap, held, {"inMap"})
         /\ r.rc # 0 => r.heap = heap
         /\ r.rc = 0 => /\ held["inMap"] # NULL
                        /\ r.heap[held["inMap"]].tensors = Put(heap[held["inMap"]].tensors, k, t)
<1>1. PICK x \in Holders : x = "inMap" /\ KindOf[x] = "map"
  BY Kinds
<1>2. r \in viam_trajex_tensor_map_insert(heap, held[x], k, t)
  BY <1>1
<1>3. /\ Moves(heap, held, r.heap, held, {x})
      /\ r.rc # 0 => r.heap = heap
      /\ r.rc = 0 => /\ held[x] # NULL
                     /\ r.heap[held[x]].tensors = Put(heap[held[x]].tensors, k, t)
  BY <1>1, <1>2, InsertMoves
<1> QED
  BY <1>1, <1>3

LEMMA InferMarshalsStep ==
  ASSUME GoInv, InferMarshals
  PROVE  GoInv'
<1>1. /\ Owned(heap, held) /\ LocalsHeld /\ CallOK /\ CallerOK /\ call.pc = "marshal"
      /\ held' = held /\ client' = client
  BY DEF GoInv, InferMarshals
<1>2. CallShape /\ call.op = "Infer" /\ InInfer
  BY <1>1, OfInfer
<1>3. /\ held["inMap"] # NULL =>
           heap[held["inMap"]].tensors = [k \in DOMAIN call.inputs \ call.keys |-> call.inputs[k]]
      /\ call.keys \subseteq DOMAIN call.inputs
      /\ call.inputs = [k \in DOMAIN call.inputs |-> call.inputs[k]]
  BY <1>1, <1>2 DEF InInfer
<1>4. CASE call.keys = {}
  <2>1. call' = ToPc(call, "entry") /\ heap' = heap
    BY <1>4 DEF InferMarshals, GoTo, ToPc
  <2>2. /\ CallShape' /\ call'.pc = "entry" /\ call'.op = call.op /\ call'.outcome = call.outcome
        /\ call'.inputs = call.inputs /\ call'.before = call.before
        /\ call'.read = call.read /\ call'.keys = call.keys
    BY <1>2, <2>1, GoesTo
  <2>3. held["inMap"] # NULL => heap[held["inMap"]].tensors = call.inputs
    <3>1. DOMAIN call.inputs \ call.keys = DOMAIN call.inputs
      BY <1>4
    <3> QED
      BY <1>3, <3>1
  <2>4. InInfer'
    BY <1>1, <1>2, <2>1, <2>2, <2>3 DEF InInfer
  <2>5. LocalsHeld'
    BY <1>1, <1>2, <2>2 DEF LocalsHeld
  <2>6. Owned(heap', held') /\ CallerOK'
    BY <1>1, <2>1, StaysPut
  <2> QED
    BY <1>2, <2>2, <2>4, <2>5, <2>6 DEF GoInv, CallOK
<1>5. CASE call.keys # {}
  <2>1. PICK k \in call.keys :
          \E r \in viam_trajex_tensor_map_insert(heap, held["inMap"], k, call.inputs[k]) :
            /\ heap' = r.heap
            /\ call' = [call EXCEPT !.keys = @ \ {k}, !.pc = IF r.rc = 0 THEN @ ELSE "close_out"]
    BY <1>5 DEF InferMarshals
  <2>2. PICK t : t = call.inputs[k]
    OBVIOUS
  <2>3. PICK r \in viam_trajex_tensor_map_insert(heap, held["inMap"], k, t) :
          /\ heap' = r.heap
          /\ call' = [call EXCEPT !.keys = @ \ {k}, !.pc = IF r.rc = 0 THEN @ ELSE "close_out"]
    BY <2>1, <2>2
  <2>4. /\ Moves(heap, held, r.heap, held, {"inMap"})
        /\ r.rc = 0 => /\ held["inMap"] # NULL
                       /\ r.heap[held["inMap"]].tensors = Put(heap[held["inMap"]].tensors, k, t)
    BY <1>1, InMapInserts
  <2>5. Moves(heap, held, heap', held', {"inMap"})
    BY <1>1, <2>3, <2>4
  <2>6. CallerOK'
    BY <1>1, <2>5, CallerKept
  <2>7. PICK keys : keys = call.keys \ {k}
    OBVIOUS
  <2>8. PICK pc : pc = IF r.rc = 0 THEN "marshal" ELSE "close_out"
    OBVIOUS
  <2>9. call' = HasMarshalled(call, keys, pc)
    BY <1>1, <2>3, <2>7, <2>8 DEF HasMarshalled
  <2>10. /\ CallShape' /\ call'.pc = pc /\ call'.op = call.op /\ call'.outcome = call.outcome
         /\ call'.inputs = call.inputs /\ call'.before = call.before
         /\ call'.read = call.read /\ call'.keys = keys
    BY <1>2, <2>9, GoesOnMarshalling
  <2>11. r.rc = 0 => heap'[held'["inMap"]].tensors
                       = [j \in DOMAIN call.inputs \ keys |-> call.inputs[j]]
    <3>1. SUFFICES ASSUME r.rc = 0
                   PROVE  Put(heap[held["inMap"]].tensors, k, t)
                            = [j \in DOMAIN call.inputs \ keys |-> call.inputs[j]]
      BY <1>1, <2>3, <2>4
    <3>2. PICK old : old = heap[held["inMap"]].tensors
      OBVIOUS
    <3>3. old = [j \in DOMAIN call.inputs \ call.keys |-> call.inputs[j]]
      BY <1>3, <2>4, <3>1, <3>2
    <3>4. DOMAIN old \cup {k} = DOMAIN call.inputs \ keys
      BY <1>3, <2>7, <3>3
    <3>5. Put(old, k, t) = [j \in DOMAIN call.inputs \ keys |-> IF j = k THEN t ELSE old[j]]
      BY <3>4 DEF Put
    <3>6. \A j \in DOMAIN call.inputs \ keys : (IF j = k THEN t ELSE old[j]) = call.inputs[j]
      BY <2>2, <2>7, <3>3, <3>4
    <3> QED
      BY <3>2, <3>5, <3>6
  <2>12. InInfer'
    <3>1. keys \subseteq DOMAIN call.inputs /\ pc \in {"marshal", "close_out"}
          /\ (pc = "marshal" => r.rc = 0)
      BY <1>3, <2>7, <2>8
    <3> QED
      BY <1>1, <1>2, <2>10, <2>11, <3>1 DEF InInfer
  <2>13. LocalsHeld'
    BY <1>1, <1>2, <2>8, <2>10 DEF LocalsHeld
  <2> QED
    BY <1>2, <2>5, <2>6, <2>10, <2>12, <2>13 DEF GoInv, CallOK, Moves
<1> QED
  BY <1>4, <1>5

\* The four tensors that are read are all there are.
LEMMA InferReadsStep ==
  ASSUME GoInv, InferReads
  PROVE  GoInv'
<1>1. LocalsHeld /\ CallOK /\ call.pc = "read" /\ UNCHANGED <<heap, held>> /\ client' = client
  BY DEF GoInv, InferReads
<1>2. CallShape /\ call.op = "Infer" /\ InInfer
  BY <1>1, OfInfer
<1>3. Owned(heap', held') /\ CallerOK'
  BY <1>1, StaysPut
<1>4. PICK views : views = [k \in OutputKeys |-> viam_trajex_tensor_map_view(heap, held["outMap"], k)]
  OBVIOUS
<1>5. PICK seen : seen = [k \in OutputKeys |-> views[k].ret]
  OBVIOUS
<1>6. \/ (\A k \in OutputKeys : views[k].rc = 0) /\ call' = HasRead(call, seen, "close_out")
      \/ call' = ToPcWith(call, "close_out", "error")
  <2>1. \/ (\A k \in OutputKeys : views[k].rc = 0)
           /\ call' = [call EXCEPT !.read = [k \in OutputKeys |-> views[k].ret], !.pc = "close_out"]
        \/ call' = [call EXCEPT !.outcome = "error", !.pc = "close_out"]
    BY <1>4 DEF InferReads
  <2>2. [call EXCEPT !.outcome = "error", !.pc = "close_out"]
          = [call EXCEPT !.pc = "close_out", !.outcome = "error"]
    OBVIOUS
  <2> QED
    BY <1>5, <2>1, <2>2 DEF HasRead, ToPcWith
<1>7. ASSUME \A k \in OutputKeys : views[k].rc = 0, call' = HasRead(call, seen, "close_out")
      PROVE  GoInv'
  <2>1. /\ CallShape' /\ call'.pc = "close_out" /\ call'.op = call.op /\ call'.outcome = call.outcome
        /\ call'.inputs = call.inputs /\ call'.before = call.before
        /\ call'.read = seen /\ call'.keys = call.keys
    BY <1>2, <1>7, GoesOnReading
  <2>2. \A k \in OutputKeys : /\ held["outMap"] # NULL
                              /\ seen[k] = heap[held["outMap"]].tensors[k]
    <3> SUFFICES ASSUME NEW k \in OutputKeys
                 PROVE  held["outMap"] # NULL /\ seen[k] = heap[held["outMap"]].tensors[k]
      OBVIOUS
    <3> DEFINE m == held["outMap"]
    <3>1. viam_trajex_tensor_map_view(heap, m, k).rc = 0 /\ seen[k] = viam_trajex_tensor_map_view(heap, m, k).ret
      BY <1>4, <1>5, <1>7
    <3> HIDE DEF m
    <3>2. Refused(heap, -1).rc = -1 /\ Refused(heap, 1).rc = 1
      BY DEF Refused, Result
    <3>3. m # NULL /\ viam_trajex_tensor_map_view(heap, m, k) = Result(heap, 0, heap[m].tensors[k], NULL)
      BY <3>1, <3>2 DEF viam_trajex_tensor_map_view
    <3> QED
      BY <3>1, <3>3 DEF Result, m
  <2>3. heap[held["outMap"]].tensors = Motion
    BY <1>1, <1>2, <2>2 DEF InInfer, OutputKeys
  <2>4. Motion = [k \in OutputKeys |-> Motion[k]]
    BY DEF Motion, totg_generate_impl, Samples, OutputKeys
  <2>5. seen = Motion
    BY <1>5, <2>2, <2>3, <2>4
  <2>6. InInfer'
    BY <1>1, <1>2, <2>1, <2>5 DEF InInfer, Motion
  <2>7. LocalsHeld'
    BY <1>1, <1>2, <2>1 DEF LocalsHeld
  <2> QED
    BY <1>2, <1>3, <2>1, <2>6, <2>7 DEF GoInv, CallOK
<1>8. CASE call' = ToPcWith(call, "close_out", "error")
  <2>1. /\ CallShape' /\ call'.pc = "close_out" /\ call'.op = call.op /\ call'.outcome = "error"
        /\ call'.inputs = call.inputs /\ call'.before = call.before
        /\ call'.read = call.read /\ call'.keys = call.keys
    BY <1>2, <1>8, GoesWith
  <2>2. InInfer'
    BY <1>1, <1>2, <2>1 DEF InInfer
  <2>3. LocalsHeld'
    BY <1>1, <1>2, <2>1 DEF LocalsHeld
  <2> QED
    BY <1>2, <1>3, <2>1, <2>2, <2>3 DEF GoInv, CallOK
<1> QED
  BY <1>6, <1>7, <1>8

LEMMA InferClosesStep ==
  ASSUME GoInv, NEW pc, NEW x,
         \/ pc = "close_out" /\ x = "outMap"
         \/ pc = "close_in" /\ x = "inMap",
         InferCloses(pc, x)
  PROVE  GoInv'
<1>1. LocalsHeld /\ CallOK /\ call.pc = pc /\ client' = client
  BY DEF GoInv, InferCloses
<1>2. CallShape /\ call.op = "Infer" /\ InInfer
  BY <1>1, OfInfer
<1>3. Lose(x, IF held[x] = NULL THEN heap ELSE Drop(heap, held[x]))
  BY DEF InferCloses, viam_trajex_tensor_map_destroy
<1>4. x \in Locals
  BY DEF Locals
<1>5. /\ Moves(heap, held, heap', held', {x}) /\ held'[x] = NULL
      /\ CallerOK'
      /\ \A y \in Holders \ {x} : held'[y] = held[y]
  BY <1>1, <1>3, <1>4, LosesLocal
<1>6. Owned(heap', held')
  BY <1>5 DEF Moves
<1>7. \A z \in {"newBuilder", "inMap", "outMap", "errOut"} : z # x => held'[z] = held[z]
  BY <1>5, Kinds
<1>8. CASE pc = "close_out" /\ x = "outMap"
  <2>1. call' = ToPc(call, "close_in")
    BY <1>8 DEF InferCloses, GoTo, ToPc
  <2>2. /\ CallShape' /\ call'.pc = "close_in" /\ call'.op = call.op /\ call'.outcome = call.outcome
        /\ call'.inputs = call.inputs /\ call'.before = call.before
        /\ call'.read = call.read /\ call'.keys = call.keys
    BY <1>2, <2>1, GoesTo
  <2>3. InInfer'
    BY <1>1, <1>2, <1>8, <2>2 DEF InInfer, Motion
  <2>4. LocalsHeld'
    BY <1>1, <1>2, <1>5, <1>7, <1>8, <2>2 DEF LocalsHeld
  <2> QED
    BY <1>2, <1>5, <1>6, <2>2, <2>3, <2>4 DEF GoInv, CallOK
<1>9. CASE pc = "close_in" /\ x = "inMap"
  <2>1. call' = NoCall
    BY <1>9 DEF InferCloses, Return
  <2>2. LocalsHeld'
    BY <1>1, <1>2, <1>5, <1>7, <1>9 DEF LocalsHeld
  <2> QED
    BY <1>5, <1>6, <2>1, <2>2, NoCallOK DEF GoInv
<1> QED
  BY <1>8, <1>9

LEMMA BuilderExtends ==
  ASSUME Owned(heap, held), NEW joint,
         NEW r \in viam_trajex_kinematics_chain_builder_extend(heap, held["newBuilder"], joint)
  PROVE  /\ Moves(heap, held, r.heap, held, {"newBuilder"})
         /\ r.rc = 0 => /\ held["newBuilder"] # NULL
                        /\ r.heap[held["newBuilder"]].joints
                             = Append(heap[held["newBuilder"]].joints, joint)
<1>1. PICK x \in Holders : x = "newBuilder" /\ KindOf[x] = "builder"
  BY Kinds
<1>2. r \in viam_trajex_kinematics_chain_builder_extend(heap, held[x], joint)
  BY <1>1
<1>3. /\ Moves(heap, held, r.heap, held, {x})
      /\ r.rc = 0 => held[x] # NULL
                     /\ r.heap[held[x]].joints = Lengthened(heap[held[x]].joints, joint)
  BY <1>1, <1>2, BuilderExtendMoves
<1> QED
  BY <1>1, <1>3 DEF Lengthened

\* What has been extended by, and what is left.
LEMMA OneJointOn ==
  ASSUME NEW s \in Seq(Joint), NEW t \in Seq(Joint), t # <<>>
  PROVE  /\ Append(s, Head(t)) \in Seq(Joint) /\ Tail(t) \in Seq(Joint)
         /\ Append(s, Head(t)) \o Tail(t) = s \o t
<1>1. Len(t) \in Nat \ {0} /\ Len(s) \in Nat
  BY EmptySeq, LenProperties
<1>2. Head(t) \in Joint /\ Head(t) = t[1]
  BY <1>1, ElementOfSeq
<1>3. /\ Tail(t) \in Seq(Joint) /\ Len(Tail(t)) = Len(t) - 1
      /\ \A i \in 1..Len(t) - 1 : Tail(t)[i] = t[i + 1]
  BY <1>1, HeadTailProperties
<1>4. PICK a : a = Append(s, Head(t))
  OBVIOUS
<1>5. /\ a \in Seq(Joint) /\ Len(a) = Len(s) + 1
      /\ \A i \in 1..Len(s) : a[i] = s[i]
      /\ a[Len(s) + 1] = t[1]
  BY <1>2, <1>4, AppendProperties
<1> DEFINE u == a \o Tail(t)
           v == s \o t
<1>6. /\ u \in Seq(Joint) /\ Len(u) = Len(s) + Len(t)
      /\ \A i \in 1..Len(s) + Len(t) :
           u[i] = IF i <= Len(s) + 1 THEN a[i] ELSE Tail(t)[i - (Len(s) + 1)]
  <2>1. PICK b : b = Tail(t)
    OBVIOUS
  <2>2. b \in Seq(Joint) /\ Len(b) = Len(t) - 1
    BY <1>3, <2>1
  <2>3. /\ a \o b \in Seq(Joint) /\ Len(a \o b) = Len(a) + Len(b)
        /\ \A i \in 1..Len(a) + Len(b) : (a \o b)[i] = IF i <= Len(a) THEN a[i] ELSE b[i - Len(a)]
    BY <1>5, <2>2, ConcatProperties
  <2>4. Len(a) + Len(b) = Len(s) + Len(t)
    BY <1>1, <1>5, <2>2
  <2>5. \A i \in 1..Len(s) + Len(t) : (a \o b)[i] = IF i <= Len(s) + 1 THEN a[i] ELSE b[i - (Len(s) + 1)]
    BY <1>5, <2>3, <2>4
  <2> QED
    BY <2>1, <2>3, <2>4, <2>5
<1>7. /\ v \in Seq(Joint) /\ Len(v) = Len(s) + Len(t)
      /\ \A i \in 1..Len(s) + Len(t) : v[i] = IF i <= Len(s) THEN s[i] ELSE t[i - Len(s)]
  BY <1>1, ConcatProperties
<1> HIDE DEF u, v
<1>8. ASSUME NEW i \in 1..Len(s) + Len(t)
      PROVE  u[i] = v[i]
  <2>1. CASE i <= Len(s)
    BY <1>1, <1>5, <1>6, <1>7, <2>1
  <2>2. CASE i = Len(s) + 1
    <3>1. u[i] = a[Len(s) + 1] /\ v[i] = t[i - Len(s)] /\ i - Len(s) = 1
      BY <1>1, <1>6, <1>7, <2>2
    <3> QED
      BY <1>5, <3>1
  <2>3. CASE i > Len(s) + 1
    <3>1. i - (Len(s) + 1) \in 1..Len(t) - 1 /\ i - (Len(s) + 1) + 1 = i - Len(s)
      BY <1>1, <2>3
    <3>2. Tail(t)[i - (Len(s) + 1)] = t[i - Len(s)]
      BY <1>3, <3>1
    <3> QED
      BY <1>1, <1>6, <1>7, <2>3, <3>2
  <2>4. i \in Int /\ Len(s) \in Int
    BY <1>1
  <2> QED
    BY <2>1, <2>2, <2>3, <2>4
<1>9. u = v
  BY <1>1, <1>6, <1>7, <1>8, SeqEqual
<1> QED
  BY <1>3, <1>4, <1>5, <1>9 DEF u, v

LEMMA NewChainExtendsStep ==
  ASSUME GoInv, NewChainExtends
  PROVE  GoInv'
<1>1. /\ Owned(heap, held) /\ LocalsHeld /\ CallOK /\ CallerOK /\ call.pc = "extend"
      /\ call.joints # <<>> /\ held' = held /\ client' = client
  BY DEF GoInv, NewChainExtends
<1>2. CallShape /\ call.op = "NewChain" /\ InNewChain
  BY <1>1, OfNewChain
<1>3. /\ held["chain"] = NULL /\ call.outcome = "error" /\ call.joints \in Seq(Joint)
      /\ held["newBuilder"] # NULL =>
           /\ heap[held["newBuilder"]].joints \in Seq(Joint)
           /\ heap[held["newBuilder"]].joints \o call.joints = call.inputs
  BY <1>1, <1>2 DEF InNewChain
<1>4. ASSUME call' = ToPc(call, "destroy_builder"),
             NEW T, Moves(heap, held, heap', held', T), T \subseteq {"newBuilder"}
      PROVE  GoInv'
  <2>1. CallerOK'
    BY <1>1, <1>4, CallerKept
  <2>2. /\ CallShape' /\ call'.pc = "destroy_builder" /\ call'.op = call.op
        /\ call'.outcome = call.outcome /\ call'.inputs = call.inputs
    BY <1>2, <1>4, GoesTo
  <2>3. InNewChain'
    BY <1>1, <1>3, <2>2 DEF InNewChain
  <2>4. LocalsHeld'
    BY <1>1, <1>2, <2>2 DEF LocalsHeld
  <2> QED
    BY <1>2, <1>4, <2>1, <2>2, <2>3, <2>4 DEF GoInv, CallOK, Moves
<1>5. CASE Head(call.joints) = "unset"
  <2>1. call' = ToPc(call, "destroy_builder") /\ heap' = heap
    BY <1>5 DEF NewChainExtends, GoTo, ToPc
  <2>2. Moves(heap, held, heap', held', {})
    BY <1>1, <2>1, Stays
  <2> QED
    BY <1>4, <2>1, <2>2
<1>6. CASE Head(call.joints) # "unset"
  <2>1. PICK joint : joint = Head(call.joints)
    OBVIOUS
  <2>2. PICK r \in viam_trajex_kinematics_chain_builder_extend(heap, held["newBuilder"], joint) :
          /\ heap' = r.heap
          /\ call' = IF r.rc = 0 THEN [call EXCEPT !.joints = Tail(@)]
                     ELSE [call EXCEPT !.pc = "destroy_builder"]
    BY <1>6, <2>1 DEF NewChainExtends
  <2>3. /\ Moves(heap, held, r.heap, held, {"newBuilder"})
        /\ r.rc = 0 => /\ held["newBuilder"] # NULL
                       /\ r.heap[held["newBuilder"]].joints
                            = Append(heap[held["newBuilder"]].joints, joint)
    BY <1>1, BuilderExtends
  <2>4. Moves(heap, held, heap', held', {"newBuilder"})
    BY <1>1, <2>2, <2>3
  <2>5. CASE r.rc = 0
    <3>1. PICK joints : joints = Tail(call.joints)
      OBVIOUS
    <3>2. call' = HasExtended(call, joints)
      BY <2>2, <2>5, <3>1 DEF HasExtended
    <3>3. /\ CallShape' /\ call'.pc = call.pc /\ call'.op = call.op
          /\ call'.outcome = call.outcome /\ call'.inputs = call.inputs
          /\ call'.joints = joints
      BY <1>2, <3>2, GoesOnExtending
    <3>4. PICK s \in Seq(Joint) : s = heap[held["newBuilder"]].joints
      BY <1>3, <2>3, <2>5
    <3>5. heap'[held'["newBuilder"]].joints = Append(s, joint)
      BY <1>1, <2>2, <2>3, <2>5, <3>4
    <3>6. /\ Append(s, joint) \in Seq(Joint) /\ joints \in Seq(Joint)
          /\ Append(s, joint) \o joints = s \o call.joints
      BY <1>1, <1>3, <2>1, <3>1, OneJointOn
    <3>7. s \o call.joints = call.inputs
      BY <1>3, <2>3, <2>5, <3>4
    <3>8. InNewChain'
      BY <1>1, <1>3, <3>3, <3>5, <3>6, <3>7 DEF InNewChain
    <3>9. LocalsHeld'
      BY <1>1, <1>2, <3>3 DEF LocalsHeld
    <3>10. CallerOK'
      BY <1>1, <2>4, CallerKept
    <3> QED
      BY <1>2, <2>4, <3>3, <3>8, <3>9, <3>10 DEF GoInv, CallOK, Moves
  <2>6. CASE r.rc # 0
    <3>1. call' = ToPc(call, "destroy_builder")
      BY <2>2, <2>6 DEF ToPc
    <3> QED
      BY <1>4, <2>4, <3>1
  <2> QED
    BY <2>5, <2>6
<1> QED
  BY <1>5, <1>6

LEMMA NewChainBuildsStep ==
  ASSUME GoInv, NewChainBuilds
  PROVE  GoInv'
<1>1. /\ Owned(heap, held) /\ LocalsHeld /\ CallOK /\ CallerOK /\ call.pc = "extend"
      /\ call.joints = <<>> /\ client' = client
  BY DEF GoInv, NewChainBuilds
<1>2. CallShape /\ call.op = "NewChain" /\ InNewChain
  BY <1>1, OfNewChain
<1>3. /\ held["chain"] = NULL /\ call.outcome = "error"
      /\ held["newBuilder"] # NULL => heap[held["newBuilder"]].joints = call.inputs
  <2>1. /\ held["chain"] = NULL /\ call.outcome = "error" /\ call.joints \in Seq(Joint)
        /\ held["newBuilder"] # NULL =>
             /\ heap[held["newBuilder"]].joints \in Seq(Joint)
             /\ heap[held["newBuilder"]].joints \o call.joints = call.inputs
    BY <1>1, <1>2 DEF InNewChain
  <2>2. \A s \in Seq(Joint) : s \o <<>> = s
    BY ConcatEmptySeq
  <2> QED
    BY <1>1, <2>1, <2>2
<1>4. held["errOut"] = NULL
  BY <1>1 DEF LocalsHeld
<1>5. PICK r \in viam_trajex_kinematics_chain_builder_build(heap, held["newBuilder"]) :
        /\ heap' = r.heap
        /\ held' = [held EXCEPT !["chain"] = r.ret, !["errOut"] = r.err]
        /\ call' = IF r.rc = 0 THEN [call EXCEPT !.pc = "destroy_builder", !.outcome = "ok"]
                   ELSE [call EXCEPT !.pc = "report"]
  BY DEF NewChainBuilds
<1>6. held' = Pointing(Pointing(held, "chain", r.ret), "errOut", r.err)
  BY <1>5 DEF Pointing
<1>7. PICK x \in Holders : x = "newBuilder" /\ KindOf[x] = "builder"
  BY Kinds
<1>8. r \in viam_trajex_kinematics_chain_builder_build(heap, held[x])
  BY <1>7
<1>9. /\ Moves(heap, held, r.heap, Pointing(Pointing(held, "chain", r.ret), "errOut", r.err),
               {x, "chain", "errOut"})
      /\ r.rc = 0 => r.ret # NULL /\ r.err = NULL /\ held[x] # NULL
                     /\ r.heap[r.ret].joints = heap[held[x]].joints
      /\ r.rc # 0 => r.ret = NULL
  <2>1. Owned(heap, held) /\ held["errOut"] = NULL /\ held["chain"] = NULL
    BY <1>1, <1>3, <1>4
  <2> QED
    BY <1>7, <1>8, <2>1, BuildMoves
<1>10. Moves(heap, held, heap', held', {"newBuilder", "chain", "errOut"})
  BY <1>5, <1>6, <1>7, <1>9
<1>11. held'["chain"] = r.ret /\ held'["errOut"] = r.err
  <2>1. held = [y \in Holders |-> held[y]]
    BY <1>1 DEF Owned
  <2> QED
    BY <1>6, <2>1, Kinds DEF Pointing
<1>12. CallerOK'
  BY <1>1, <1>10, CallerKept
<1>13. held'["inMap"] = held["inMap"] /\ held'["outMap"] = held["outMap"]
  BY <1>10, Kinds DEF Moves
<1>14. CASE r.rc = 0
  <2>1. call' = ToPcWith(call, "destroy_builder", "ok")
    BY <1>5, <1>14 DEF ToPcWith
  <2>2. /\ CallShape' /\ call'.pc = "destroy_builder" /\ call'.op = call.op
        /\ call'.outcome = "ok" /\ call'.inputs = call.inputs
    BY <1>2, <2>1, GoesWith
  <2>3. held'["chain"] # NULL /\ heap'[held'["chain"]].joints = call.inputs
    BY <1>3, <1>5, <1>7, <1>9, <1>11, <1>14
  <2>4. InNewChain'
    BY <2>2, <2>3 DEF InNewChain
  <2>5. LocalsHeld'
    BY <1>1, <1>2, <1>9, <1>11, <1>13, <1>14, <2>2 DEF LocalsHeld
  <2> QED
    BY <1>2, <1>10, <1>12, <2>2, <2>4, <2>5 DEF GoInv, CallOK, Moves
<1>15. CASE r.rc # 0
  <2>1. call' = ToPc(call, "report")
    BY <1>5, <1>15 DEF ToPc
  <2>2. /\ CallShape' /\ call'.pc = "report" /\ call'.op = call.op
        /\ call'.outcome = call.outcome /\ call'.inputs = call.inputs
    BY <1>2, <2>1, GoesTo
  <2>3. InNewChain'
    BY <1>3, <1>9, <1>11, <1>15, <2>2 DEF InNewChain
  <2>4. LocalsHeld'
    BY <1>1, <1>2, <1>13, <2>2 DEF LocalsHeld
  <2> QED
    BY <1>2, <1>10, <1>12, <2>2, <2>3, <2>4 DEF GoInv, CallOK, Moves
<1> QED
  BY <1>14, <1>15

LEMMA NewChainReturnsStep ==
  ASSUME GoInv, NewChainReturns
  PROVE  GoInv'
<1>1. LocalsHeld /\ CallOK /\ call.pc = "destroy_builder" /\ client' = client
  BY DEF GoInv, NewChainReturns
<1>2. call.op = "NewChain"
  BY <1>1, OfNewChain
<1>3. Lose("newBuilder", IF held["newBuilder"] = NULL THEN heap ELSE Drop(heap, held["newBuilder"]))
  BY DEF NewChainReturns, viam_trajex_kinematics_chain_builder_destroy
<1>4. /\ Moves(heap, held, heap', held', {"newBuilder"}) /\ held'["newBuilder"] = NULL
      /\ CallerOK'
      /\ \A y \in Holders \ {"newBuilder"} : held'[y] = held[y]
  BY <1>1, <1>3, LosesLocal DEF Locals
<1>5. call' = NoCall
  BY DEF NewChainReturns, Return
<1>6. held'["inMap"] = held["inMap"] /\ held'["outMap"] = held["outMap"]
      /\ held'["errOut"] = held["errOut"]
  BY <1>4, Kinds
<1>7. LocalsHeld'
  BY <1>1, <1>2, <1>4, <1>6 DEF LocalsHeld
<1> QED
  BY <1>4, <1>5, <1>7, NoCallOK DEF GoInv, Moves

-----------------------------------------------------------------------------
(* The invariant *)

LEMMA GoInvInit == Init => GoInv
<1> SUFFICES ASSUME Init
             PROVE  GoInv
  OBVIOUS
<1>1. PICK a \in Spare(Without) :
        /\ heap = Put(Without, a, MapOf(Prepared))
        /\ held = [x \in Holders |-> IF x = "inputs" THEN a ELSE NULL]
  BY DEF Init
<1>2. PICK g : g = [x \in Holders |-> NULL]
  OBVIOUS
<1>3. Owned(Without, g) /\ \A x \in Holders : g[x] = NULL
  BY <1>2 DEF Owned, Without
<1>4. PICK o : o = MapOf(Prepared)
  OBVIOUS
<1>5. Typed(o, KindOf["inputs"]) /\ o.tensors = Prepared
  BY <1>4, Kinds DEF Typed, MapOf
<1>6. /\ Moves(Without, g, Put(Without, a, o), Pointing(g, "inputs", a), {"inputs"})
      /\ Put(Without, a, o)[a] = o
  BY <1>3, <1>5, Gives, Kinds
<1>7. held = Pointing(g, "inputs", a)
  BY <1>1, <1>2 DEF Pointing
<1>8. Owned(heap, held) /\ heap[a] = o
  BY <1>1, <1>4, <1>6, <1>7 DEF Moves
<1>9. held["inputs"] = a /\ \A x \in Holders : x # "inputs" => held[x] = NULL
  BY <1>1, Kinds
<1>10. /\ call = NoCall
       /\ client = [views |-> {}, received |-> 0, announced |-> FALSE]
  BY DEF Init
<1>11. LocalsHeld
  BY <1>9, Kinds DEF LocalsHeld
<1>12. CallOK
  BY <1>10 DEF CallOK, CallShape, NoCall
<1>13. InputsCount
  BY <1>5, <1>8, <1>9, CallerAssumption DEF InputsCount
<1>14. SessionCounts /\ NothingLostSilently
  BY <1>9, Kinds DEF SessionCounts, NothingLostSilently
<1>15. ClientOK /\ ViewsStand
  BY <1>10 DEF ClientOK, ViewsStand
<1> QED
  BY <1>8, <1>11, <1>12, <1>13, <1>14, <1>15 DEF GoInv, CallerOK

LEMMA InferCallsStep ==
  ASSUME GoInv, InferCalls
  PROVE  GoInv'
<1>1. PICK keys \in SUBSET Keys :
        \E tensors \in [keys -> UNION {TensorsFor[k] : k \in Keys}] : Infer(tensors)
  BY DEF InferCalls
<1>2. PICK S : S = UNION {TensorsFor[k] : k \in Keys}
  OBVIOUS
<1>3. PICK tensors \in [keys -> S] : Infer(tensors)
  BY <1>1, <1>2
<1> QED
  BY <1>3, InferStarts

LEMMA ContextStep ==
  ASSUME GoInv, UNCHANGED <<heap, held, call, client>>
  PROVE  GoInv'
<1>1. Owned(heap', held') /\ CallerOK'
  BY StaysPut
<1>2. LocalsHeld'
  BY DEF GoInv, LocalsHeld
<1>3. CallOK'
  BY DEF GoInv, CallOK, CallShape, InGenerate, InInfer, InNewChain, Motion
<1> QED
  BY <1>1, <1>2, <1>3 DEF GoInv

LEMMA GoInvNext == GoInv /\ [Next]_vars => GoInv'
<1> SUFFICES ASSUME GoInv, [Next]_vars
             PROVE  GoInv'
  OBVIOUS
<1>1. CASE UNCHANGED vars
  BY <1>1, ContextStep DEF vars
<1>2. CASE Cancel \/ NewContext
  BY <1>2, ContextStep DEF Cancel, NewContext
<1>3. CASE CallerSteps
  <2>1. CASE MapCalls \/ ChainCalls \/ BuilderCalls \/ SessionCalls \/ InferCalls
    BY <2>1, MapStep, ChainStep, BuilderStep, SessionStep, InferCallsStep
  <2>2. ASSUME NEW b \in BOOLEAN, Generate(b)
        PROVE  GoInv'
    BY <2>2, GenerateStarts
  <2> QED
    BY <1>3, <2>1, <2>2 DEF CallerSteps
<1>4. CASE CallSteps
  <2>1. CASE CheckContext("entry") \/ CheckContext("exit")
    BY <2>1, CheckContextStep
  <2>2. CASE CallGenerate \/ Report \/ InferMarshals \/ InferReads
    BY <2>2, CallGenerateStep, ReportStep, InferMarshalsStep, InferReadsStep
  <2>3. CASE InferMakes("make_in", "inMap", "make_out", "close_in")
    BY <2>3, InferMakesStep
  <2>4. CASE InferMakes("make_out", "outMap", "marshal", "close_out")
    BY <2>4, InferMakesStep
  <2>5. CASE InferCloses("close_out", "outMap") \/ InferCloses("close_in", "inMap")
    BY <2>5, InferClosesStep
  <2>6. CASE NewChainExtends \/ NewChainBuilds \/ NewChainReturns
    BY <2>6, NewChainExtendsStep, NewChainBuildsStep, NewChainReturnsStep
  <2> QED
    BY <1>4, <2>1, <2>2, <2>3, <2>4, <2>5, <2>6 DEF CallSteps
<1> QED
  BY <1>1, <1>2, <1>3, <1>4 DEF Next

LEMMA GoInvariant == Spec => []GoInv
BY GoInvInit, GoInvNext, PTL DEF Spec

\* HandlesOwned: one pointer to each live object, of its kind, and none to another.
THEOREM OneOwnerEach == Spec => []HandlesOwned
<1>1. ASSUME GoInv
      PROVE  HandlesOwned
  <2>1. Owned(heap, held)
    BY <1>1 DEF GoInv
  <2>2. \A x \in Holders : held[x] # NULL =>
          held[x] \in DOMAIN heap /\ heap[held[x]].kind = KindOf[x]
    BY <2>1 DEF Owned, Typed
  <2>3. Idle => \A x \in Locals : held[x] = NULL
    BY <1>1, IdleFacts DEF Locals
  <2> QED
    BY <2>1, <2>2, <2>3 DEF HandlesOwned, Owned
<1> QED
  BY <1>1, GoInvariant, PTL

\* ViewsStand: a view reads as it did for as long as the caller lets it.
THEOREM ViewsLast == Spec => []ViewsStand
<1>1. GoInv => ViewsStand
  BY DEF GoInv, CallerOK
<1> QED
  BY <1>1, GoInvariant, PTL

\* NothingLostSilently: samples handed out and not received have been announced.
THEOREM LossesAnnounced == Spec => []NothingLostSilently
<1>1. GoInv => NothingLostSilently
  BY DEF GoInv, CallerOK
<1> QED
  BY <1>1, GoInvariant, PTL

-----------------------------------------------------------------------------
(* What a call returns *)

\* A call in progress returns at one of four places.
LEMMA ReturnsAt ==
  ASSUME GoInv, [Next]_vars, call.op # "none", call'.pc = "none"
  PROVE  \/ \E pc \in {"entry", "exit"} : CheckContext(pc)
         \/ Report
         \/ InferCloses("close_in", "inMap")
         \/ NewChainReturns
<1>1. ~Idle
  BY IdleFacts
<1>2. call' # call
  BY <1>1 DEF Idle
<1>3. ~CallerSteps
  BY <1>1 DEF CallerSteps, MapCalls, ChainCalls, BuilderCalls, SessionCalls, InferCalls,
              NewTensorMap, CloseMap, Insert, View, NewChain, CloseChain, EndPosition,
              BuilderCreate, BuilderBuild, BuilderDestroy, BuilderExtend,
              NewSession, CloseSession, Extend, Sample, Infer, Generate
<1>4. CallSteps
  BY <1>2, <1>3 DEF Next, vars, Cancel, NewContext
<1>5. CallOK
  BY DEF GoInv
<1>6. ASSUME NEW pc, GoTo(pc), pc # "none", CallShape
      PROVE  FALSE
  <2>1. call' = ToPc(call, pc)
    BY <1>6 DEF GoTo, ToPc
  <2> QED
    BY <1>6, <2>1, GoesTo
<1>7. ASSUME NEW pc, NEW outcome, call' = ToPcWith(call, pc, outcome), pc # "none", CallShape
      PROVE  FALSE
  BY <1>7, GoesWith
<1>8. CallShape
  BY <1>5 DEF CallOK
<1>9. ~CallGenerate
  BY <1>6, <1>8 DEF CallGenerate
<1>10. /\ ~InferMakes("make_in", "inMap", "make_out", "close_in")
       /\ ~InferMakes("make_out", "outMap", "marshal", "close_out")
       /\ ~InferCloses("close_out", "outMap")
  BY <1>6, <1>8 DEF InferMakes, InferCloses
<1>11. ~InferMarshals
  BY <1>1, <1>8 DEF InferMarshals, GoTo, CallShape, Idle
<1>12. ~InferReads
  BY <1>8 DEF InferReads, CallShape
<1>13. ~NewChainExtends /\ ~NewChainBuilds
  BY <1>1, <1>8 DEF NewChainExtends, NewChainBuilds, GoTo, CallShape, Idle
<1> QED
  BY <1>4, <1>9, <1>10, <1>11, <1>12, <1>13 DEF CallSteps

\* ChainAsGiven: the chain has every joint, in order, or there is none.
THEOREM ChainsAsGiven == Spec => ChainAsGiven
<1> DEFINE Returned ==
      /\ (returned'.outcome = "ok") = (held'["chain"] # NULL)
      /\ held'["chain"] # NULL => heap'[held'["chain"]].joints = call.inputs
<1>1. ASSUME GoInv, [Next]_vars, call.op = "NewChain", call'.pc = "none"
      PROVE  Returned
  <2>1. CallOK /\ call.pc # "none"
    BY <1>1, IdleFacts DEF GoInv, Idle
  <2>2. CallShape /\ InNewChain
    BY <1>1, <2>1 DEF CallOK, NoCall
  <2>3. NewChainReturns
    <3>1. ~Report
      <4>1. CASE Report
        <5>1. call' = ToPc(call, "destroy_builder")
          BY <1>1, <4>1 DEF Report, GoTo, ToPc
        <5> QED
          BY <1>1, <2>2, <5>1, GoesTo
      <4> QED
        BY <4>1
    <3>2. \A pc \in {"entry", "exit"} : ~CheckContext(pc)
      BY <2>2 DEF InNewChain, CheckContext
    <3>3. ~InferCloses("close_in", "inMap")
      BY <2>2 DEF InNewChain, InferCloses
    <3> QED
      BY <1>1, <3>1, <3>2, <3>3, ReturnsAt
  <2>4. /\ call.pc = "destroy_builder" /\ client' = client
        /\ returned' = [outcome |-> call.outcome, read |-> call.read]
    BY <2>3 DEF NewChainReturns, Return
  <2>5. Lose("newBuilder", IF held["newBuilder"] = NULL THEN heap
                           ELSE Drop(heap, held["newBuilder"]))
    BY <2>3 DEF NewChainReturns, viam_trajex_kinematics_chain_builder_destroy
  <2>6. \A y \in Holders \ {"newBuilder"} :
          held'[y] = held[y] /\ (held[y] # NULL => heap'[held[y]] = heap[held[y]])
    BY <1>1, <2>4, <2>5, LosesLocal DEF Locals
  <2>7. held'["chain"] = held["chain"]
        /\ (held["chain"] # NULL => heap'[held["chain"]] = heap[held["chain"]])
    BY <2>6, Kinds
  <2>8. returned'.outcome = call.outcome
    BY <2>4
  <2> QED
    BY <2>2, <2>4, <2>7, <2>8 DEF InNewChain
<1> QED
  BY <1>1, GoInvariant, PTL DEF Spec, ChainAsGiven

\* OutputsWhole: the outputs of a call are all there or as they were, and what they
\* are is what the call says.
THEOREM AllOrNothing == Spec => OutputsWhole
<1> DEFINE Now == IF call.op = "Infer" THEN returned'.read ELSE Contents(heap', held["outputs"])
           Whole == CASE returned'.outcome = "ok" -> Now = Motion
                      [] returned'.outcome = "error" -> Now = call.before
                      [] OTHER -> Now = call.before \/ (call.op = "Generate" /\ Now = Motion)
<1>1. ASSUME GoInv, [Next]_vars, call.op = "Generate", call'.pc = "none"
      PROVE  Whole
  <2>1. CallOK /\ call.pc # "none"
    BY <1>1, IdleFacts DEF GoInv, Idle
  <2>2. CallShape /\ InGenerate
    BY <1>1, <2>1 DEF CallOK, NoCall
  <2>3. Now = Contents(heap', held["outputs"])
    BY <1>1
  <2> HIDE DEF Now
  <2>4. ASSUME NEW pc \in {"entry", "exit"}, CheckContext(pc)
        PROVE  Whole
    <3>1. call.pc = pc /\ heap' = heap
      BY <2>4 DEF CheckContext
    <3>2. \/ Return("cancelled")
          \/ pc = "exit" /\ Return("ok")
      <4>1. ~(pc = "entry" /\ GoTo("generate"))
        <5>1. CASE GoTo("generate")
          <6>1. call' = ToPc(call, "generate")
            BY <5>1 DEF GoTo, ToPc
          <6> QED
            BY <1>1, <2>2, <6>1, GoesTo
        <5> QED
          BY <5>1
      <4> QED
        BY <1>1, <2>4, <4>1 DEF CheckContext, GenerateReturns
    <3>3. CASE Return("cancelled")
      <4>1. returned'.outcome = "cancelled"
        BY <3>3 DEF Return
      <4>2. Now = call.before \/ Now = Motion
        BY <2>2, <2>3, <3>1 DEF InGenerate
      <4> QED
        BY <1>1, <4>1, <4>2
    <3>4. CASE pc = "exit" /\ Return("ok")
      <4>1. returned'.outcome = "ok"
        BY <3>4 DEF Return
      <4>2. Now = Motion
        BY <2>2, <2>3, <3>1, <3>4 DEF InGenerate
      <4> QED
        BY <4>1, <4>2
    <3> QED
      BY <3>2, <3>3, <3>4
  <2>5. CASE Report
    <3>1. call.pc = "report" /\ Return("error") /\ client' = client
      BY <1>1, <2>5 DEF Report, GenerateReturns
    <3>2. returned'.outcome = "error"
      BY <3>1 DEF Return
    <3>3. Lose("errOut", IF held["errOut"] = NULL THEN heap ELSE Drop(heap, held["errOut"]))
      BY <2>5 DEF Report, viam_trajex_string_destroy
    <3>4. \A y \in Holders \ {"errOut"} :
            held'[y] = held[y] /\ Contents(heap', held'[y]) = Contents(heap, held[y])
      BY <1>1, <3>1, <3>3, LosesLocal DEF Locals
    <3>5. Contents(heap', held["outputs"]) = Contents(heap, held["outputs"])
      <4>1. "outputs" \in Holders \ {"errOut"}
        BY Kinds
      <4>2. held'["outputs"] = held["outputs"]
        BY <3>4, <4>1
      <4>3. Contents(heap', held'["outputs"]) = Contents(heap, held["outputs"])
        BY <3>4, <4>1
      <4> QED
        BY <4>2, <4>3
    <3>6. Now = call.before
      BY <2>2, <2>3, <3>1, <3>5 DEF InGenerate
    <3> QED
      BY <3>2, <3>6
  <2>6. ~InferCloses("close_in", "inMap") /\ ~NewChainReturns
    BY <2>2 DEF InGenerate, InferCloses, NewChainReturns
  <2> QED
    BY <1>1, <2>4, <2>5, <2>6, ReturnsAt
<1>2. ASSUME GoInv, [Next]_vars, call.op = "Infer", call'.pc = "none"
      PROVE  Whole
  <2>1. CallOK /\ call.pc # "none"
    BY <1>2, IdleFacts DEF GoInv, Idle
  <2>2. CallShape /\ InInfer
    BY <1>2, <2>1 DEF CallOK, NoCall
  <2>3. ASSUME NEW pc, NEW outcome, call' = ToPcWith(call, pc, outcome), pc # "none"
        PROVE  FALSE
    BY <1>2, <2>2, <2>3, GoesWith
  <2>4. ASSUME NEW outcome
        PROVE  ~GenerateReturns(outcome)
    <3>1. CASE GenerateReturns(outcome)
      <4>1. PICK pc : pc = IF outcome = "ok" THEN "read" ELSE "close_out"
        OBVIOUS
      <4>2. call' = ToPcWith(call, pc, outcome) /\ pc # "none"
        BY <1>2, <3>1, <4>1 DEF GenerateReturns, ToPcWith
      <4> QED
        BY <2>3, <4>2
    <3> QED
      BY <3>1
  <2>5. ~GoTo("generate")
    <3>1. CASE GoTo("generate")
      <4>1. call' = ToPc(call, "generate")
        BY <3>1 DEF GoTo, ToPc
      <4> QED
        BY <1>2, <2>2, <4>1, GoesTo
    <3> QED
      BY <3>1
  <2>6. ~Report /\ \A pc \in {"entry", "exit"} : ~CheckContext(pc)
    BY <1>2, <2>4, <2>5 DEF Report, CheckContext
  <2>7. ~NewChainReturns
    BY <2>2 DEF InInfer, NewChainReturns
  <2>8. InferCloses("close_in", "inMap")
    BY <1>2, <2>6, <2>7, ReturnsAt
  <2>9. call.pc = "close_in" /\ returned' = [outcome |-> call.outcome, read |-> call.read]
    BY <2>8 DEF InferCloses, Return
  <2>10. returned'.outcome = call.outcome /\ Now = call.read
    BY <1>2, <2>9
  <2> HIDE DEF Now
  <2>11. /\ call.outcome = "ok" => Now = Motion
         /\ call.outcome # "ok" => Now = call.before
    BY <2>2, <2>9, <2>10 DEF InInfer
  <2> QED
    BY <2>10, <2>11
<1>3. ASSUME GoInv, [Next]_vars, call.op \in {"Generate", "Infer"}, call'.pc = "none"
      PROVE  LET now == IF call.op = "Infer" THEN returned'.read ELSE Contents(heap', held["outputs"])
                 motion == totg_generate_impl(call.inputs, NoChain)
             IN  CASE returned'.outcome = "ok" -> now = motion
                   [] returned'.outcome = "error" -> now = call.before
                   [] OTHER -> now = call.before \/ (call.op = "Generate" /\ now = motion)
  BY <1>1, <1>2, <1>3 DEF Motion
<1> QED
  BY <1>3, GoInvariant, PTL DEF Spec, OutputsWhole

=============================================================================

----------------------------- MODULE OnnxRuntime -----------------------------
(***************************************************************************)
(* One inference session of src/onnx_runtime.c: the struct OnnxRuntime,    *)
(* the tensors ONNX Runtime allocated for it, and the calls that bind      *)
(* inputs, run the model and read the outputs back.                        *)
(*                                                                         *)
(* A session has one owner at a time, so calls do not overlap; the         *)
(* compound call predict is a sequence of steps all the same, because      *)
(* everything it shares with the other calls is shared through the state.  *)
(***************************************************************************)
EXTENDS TensorShape, FiniteSets

CONSTANTS
  InputNames,     \* rt->inputs[i].name, as introspection stored it
  InputDims,      \* rt->inputs[i].dims
  OutputNames,    \* rt->outputs[i].name
  AskedNames,     \* names callers pass, known to the model or not
  AskedShapes,    \* shapes callers pass to set_input
  AskedRuns,      \* sequences of output names callers pass to run
  Payloads,       \* float arrays callers pass: records [len, values]
  OutputShapes,   \* shapes ONNX Runtime may give an output
  ProfileModes,   \* whether sessions are created with profiling: subset of BOOLEAN
  Caps,           \* capacities of the buffer predict writes into
  OrtValues,      \* tensor handles of ONNX Runtime
  Null,           \* the null handle; also "not allocated"
  MaxGeneration,  \* bound: successful runs of a session
  MaxAllocations, \* bound: input tensors allocated by a session
  MaxReuses       \* bound: input tensors refilled in place

InputIds  == DOMAIN InputNames
OutputIds == DOMAIN OutputNames

(* What an OrtValue can hold: an input bound to one of the shapes callers  *)
(* or predict pass, or an output computed from inputs.                     *)
BoundShapes   == AskedShapes \cup {ConcreteShape(InputDims[i]) : i \in InputIds}
InputTensors  == [shape : BoundShapes, data : Payloads]
OutputTensors == [shape : OutputShapes,
                  data : [output : OutputIds, inputs : [InputIds -> InputTensors]]]
Tensors       == InputTensors \cup OutputTensors

Predictions == [at : {"run", "read"}, payload : Payloads, cap : Caps]

ASSUME SessionAssumption ==
  /\ InputNames \in Seq(STRING) /\ InputNames # <<>>
  /\ OutputNames \in Seq(STRING) /\ OutputNames # <<>>
  /\ Len(InputDims) = Len(InputNames)
  /\ AskedRuns \subseteq Seq(STRING)
  /\ ProfileModes \subseteq BOOLEAN
  /\ Null \notin OrtValues /\ Null \notin Tensors /\ Null \notin Predictions

VARIABLES
  live,         \* rt exists and rt->session_live
  boundInputs,  \* rt->bound_inputs[i]
  boundShapes,  \* rt->bound_input_shapes[i], its rank included
  runOutputs,   \* rt->run_outputs and run_output_indices, run_output_count long
  generation,   \* rt->generation
  allocations,  \* rt->input_tensor_allocations
  reuses,       \* rt->input_tensor_reuses
  profiling,    \* rt->profiling_active
  lastError,    \* rt->last_error: NoError, or who refused the call
  heap,         \* what each live OrtValue holds
  predicting,   \* the predict call under way, or Null
  reply         \* what the latest completed call returned

bindings == <<boundInputs, boundShapes, allocations, reuses>>
outputs  == <<runOutputs, generation>>
session  == <<live, profiling>>
vars     == <<session, bindings, outputs, lastError, heap, predicting, reply>>

----------------------------------------------------------------------------
(* Tensors and handles *)

NoName == 0   \* find_tensor's -1

NoError    == "none"   \* the empty message
ErrorKinds == {NoError, "refused", "ort"}  \* refused by the wrapper, by ONNX Runtime

(* find_tensor: the first entry of that name.                              *)
FindTensor(names, name) ==
  IF \E i \in DOMAIN names : names[i] = name
  THEN CHOOSE i \in DOMAIN names :
         names[i] = name /\ \A j \in 1..(i - 1) : names[j] # name
  ELSE NoName

Unallocated == {v \in OrtValues : heap[v] = Null}

OutputHandles == {runOutputs[k].value : k \in DOMAIN runOutputs}
BoundHandles  == {boundInputs[i] : i \in InputIds} \ {Null}

(* release_values: h after ReleaseValue on each handle of S.               *)
ReleaseValues(h, S) == [v \in OrtValues |-> IF v \in S THEN Null ELSE h[v]]

(* The same for the values a call obtained before it failed.                *)
DiscardedNot(h, S) == h   \* fault: returns without releasing them

Discarded(h, S) == ReleaseValues(h, S)

NoOutputs == <<>>

(* What the model computes for output o from the tensors bound to it, as   *)
(* an uninterpreted term over them.                                        *)
Evaluate(o) == [output |-> o, inputs |-> [i \in InputIds |-> heap[boundInputs[i]]]]

(* find_run_output: the first cached value of the output of that name.     *)
FindRunOutput(name) ==
  LET o == FindTensor(OutputNames, name)
      k == FindTensor([j \in DOMAIN runOutputs |-> runOutputs[j].index], o)
  IN  IF o # NoName /\ k # NoName THEN runOutputs[k].value ELSE Null

HasOutput(name) == FindRunOutput(name) # Null

(* A run that asks for more outputs than the model has is told apart from   *)
(* the others: it is turned down before anything else is looked at.        *)
RunOp(names) == IF Len(names) > Len(OutputNames) THEN "long_run" ELSE "run"

Reply(op, ok, answer) == reply' = [op |-> op, ok |-> ok, answer |-> answer]
Idle == live /\ predicting = Null

----------------------------------------------------------------------------
(* Lifecycle *)

Cleared ==
  /\ boundInputs' = [i \in InputIds |-> Null]
  /\ boundShapes' = [i \in InputIds |-> <<>>]
  /\ runOutputs' = NoOutputs
  /\ generation' = 0 /\ allocations' = 0 /\ reuses' = 0
  /\ lastError' = NoError

Init ==
  /\ live = FALSE /\ profiling = FALSE
  /\ boundInputs = [i \in InputIds |-> Null]
  /\ boundShapes = [i \in InputIds |-> <<>>]
  /\ runOutputs = NoOutputs
  /\ generation = 0 /\ allocations = 0 /\ reuses = 0
  /\ lastError = NoError
  /\ heap = [v \in OrtValues |-> Null]
  /\ predicting = Null
  /\ reply = [op |-> "none", ok |-> TRUE, answer |-> Null]

(* create, create_profiled: calloc leaves every slot null and every counter *)
(* zero.                                                                    *)
Create(profiled) ==
  /\ ~live
  /\ live' = TRUE /\ profiling' = profiled
  /\ Cleared
  /\ Reply("create", TRUE, Null)
  /\ UNCHANGED <<heap, predicting>>

CreateFails ==
  /\ ~live
  /\ Reply("create", FALSE, Null)
  /\ UNCHANGED <<session, bindings, outputs, lastError, heap, predicting>>

(* destroy, drop: the outputs, then the bound inputs, then the session.    *)
Destroy ==
  /\ Idle
  /\ live' = FALSE /\ profiling' = FALSE
  /\ heap' = ReleaseValues(heap, OutputHandles \cup BoundHandles)
  /\ Cleared
  /\ Reply("destroy", TRUE, Null)
  /\ UNCHANGED predicting

(* end_profiling: once per session; a failure of the flush can be retried.  *)
EndProfiling(ok) ==
  /\ Idle
  /\ ok => profiling
  /\ profiling' = (profiling /\ ~ok)
  /\ lastError' = IF ok THEN NoError ELSE IF profiling THEN "ort" ELSE "refused"
  /\ Reply("end_profiling", ok, Null)
  /\ UNCHANGED <<live, bindings, outputs, heap, predicting>>

----------------------------------------------------------------------------
(* Binding an input: onnx_runtime_set_input_f32 *)

(* Every check it makes before it touches a tensor.                        *)
Accepts(name, shape, payload) ==
  LET i == FindTensor(InputNames, name) IN
    /\ Len(shape) <= MaxRank
    /\ i # NoName
    /\ ShapeFits(InputDims[i], shape)
    /\ CheckedProduct(shape) = payload.len

BindRefused(name, shape, payload) ==
  /\ ~Accepts(name, shape, payload)
  /\ lastError' = "refused"
  /\ UNCHANGED <<bindings, heap>>

BindFailsUnbinds(name, shape, payload) ==   \* fault: the old tensor goes first
  LET i == FindTensor(InputNames, name) IN
    /\ Accepts(name, shape, payload)
    /\ heap' = ReleaseValues(heap, {boundInputs[i]})
    /\ boundInputs' = [boundInputs EXCEPT ![i] = Null]
    /\ lastError' = "ort"
    /\ UNCHANGED <<boundShapes, allocations, reuses>>

ReusableByRank(i, shape) ==   \* fault: compares ranks only
  boundInputs[i] # Null /\ Len(boundShapes[i]) = Len(shape)

Reusable(i, shape) == boundInputs[i] # Null /\ boundShapes[i] = shape

(* ONNX Runtime refuses the memory of the bound tensor, or a new tensor, or *)
(* the memory of the new tensor, which is then released again.              *)
BindFails(name, shape, payload) ==
  /\ Accepts(name, shape, payload)
  /\ \/ UNCHANGED heap
     \/ /\ ~Reusable(FindTensor(InputNames, name), shape)
        /\ \E v \in Unallocated :
              heap' = Discarded([heap EXCEPT ![v] = [shape |-> shape, data |-> payload]], {v})
  /\ lastError' = "ort"
  /\ UNCHANGED bindings

(* Same shape as before: copy into the tensor already bound.               *)
BindInPlace(name, shape, payload) ==
  LET i == FindTensor(InputNames, name) IN
    /\ Accepts(name, shape, payload)
    /\ Reusable(i, shape)
    /\ reuses < MaxReuses
    /\ heap' = [heap EXCEPT ![boundInputs[i]].data = payload]
    /\ reuses' = reuses + 1
    /\ lastError' = NoError
    /\ UNCHANGED <<boundInputs, boundShapes, allocations>>

(* The tensor bound to input i gives way to v.                             *)
ReplacedKeepingOld(i, v, tensor) == [heap EXCEPT ![v] = tensor]   \* fault: leaks it

Replaced(i, v, tensor) ==
  [ReleaseValues(heap, {boundInputs[i]}) EXCEPT ![v] = tensor]

(* A new tensor takes the place of the one bound, which is released.       *)
BindFresh(name, shape, payload) ==
  LET i == FindTensor(InputNames, name) IN
    /\ Accepts(name, shape, payload)
    /\ ~Reusable(i, shape)
    /\ allocations < MaxAllocations
    /\ \E v \in Unallocated :
          /\ heap' = Replaced(i, v, [shape |-> shape, data |-> payload])
          /\ boundInputs' = [boundInputs EXCEPT ![i] = v]
    /\ boundShapes' = [boundShapes EXCEPT ![i] = shape]
    /\ allocations' = allocations + 1
    /\ lastError' = NoError
    /\ UNCHANGED reuses

SetInputReturns(name, shape, payload, ok) ==
  IF ok
  THEN BindInPlace(name, shape, payload) \/ BindFresh(name, shape, payload)
  ELSE BindRefused(name, shape, payload) \/ BindFails(name, shape, payload)

SetInput(name, shape, payload, ok) ==
  /\ Idle
  /\ SetInputReturns(name, shape, payload, ok)
  /\ Reply("set_input", ok, Null)
  /\ UNCHANGED <<session, outputs, predicting>>

----------------------------------------------------------------------------
(* Running the model: onnx_runtime_run *)

(* The outputs a request selects, in order; none named means all of them.  *)
Selected(names) ==
  LET asked == IF names = <<>> THEN OutputNames ELSE names
  IN  [k \in DOMAIN asked |-> FindTensor(OutputNames, asked[k])]

RunnableUnchecked(names) ==   \* fault: takes unknown names
  \A i \in InputIds : boundInputs[i] # Null

Runnable(names) ==
  /\ \A i \in InputIds : boundInputs[i] # Null
  /\ \A k \in DOMAIN Selected(names) : Selected(names)[k] # NoName

(* More names than outputs: refused before the cache is touched.           *)
RunRefused(names) ==
  /\ Len(names) > Len(OutputNames)
  /\ lastError' = "refused"
  /\ UNCHANGED <<outputs, heap>>

RunFailsKeepingCache(names) ==   \* fault: validates before it invalidates
  /\ Len(names) <= Len(OutputNames)
  /\ lastError' = IF Runnable(names) THEN "ort" ELSE "refused"
  /\ UNCHANGED <<outputs, heap>>

(* fresh: handles of h that ONNX Runtime hands out, possibly the addresses  *)
(* of tensors released just before.                                        *)
Fresh(h, fresh) ==
  /\ \A j, k \in DOMAIN fresh : fresh[j] = fresh[k] => j = k
  /\ \A k \in DOMAIN fresh : h[fresh[k]] = Null

(* h with the outputs chosen at the handles fresh, in the shapes ONNX       *)
(* Runtime gave them.                                                      *)
WithOutputs(h, chosen, fresh, shapes) ==
  [v \in OrtValues |->
     IF \E k \in DOMAIN fresh : fresh[k] = v
     THEN LET k == CHOOSE j \in DOMAIN fresh : fresh[j] = v
          IN  [shape |-> shapes[k], data |-> Evaluate(chosen[k])]
     ELSE h[v]]

(* Any later failure finds the cache already released; the outputs ONNX     *)
(* Runtime had begun when it failed are released too.                       *)
RunFails(names) ==
  LET chosen   == Selected(names)
      released == ReleaseValues(heap, OutputHandles)
  IN  /\ Len(names) <= Len(OutputNames)
      /\ IF Runnable(names)
         THEN /\ lastError' = "ort"
              /\ \E begun \in SUBSET DOMAIN chosen :
                 \E fresh \in [begun -> OrtValues], shapes \in [begun -> OutputShapes] :
                   /\ Fresh(released, fresh)
                   /\ heap' = Discarded(WithOutputs(released, chosen, fresh, shapes),
                                        {fresh[k] : k \in begun})
         ELSE lastError' = "refused" /\ heap' = released
      /\ runOutputs' = NoOutputs
      /\ UNCHANGED generation

(* The cache entries for the outputs chosen, and the epoch they start.     *)
CachedByPosition(chosen, fresh) ==   \* fault: forgets the selection
  [k \in DOMAIN chosen |-> [index |-> k, value |-> fresh[k]]]

Cached(chosen, fresh) ==
  [k \in DOMAIN chosen |-> [index |-> chosen[k], value |-> fresh[k]]]

EpochOfReplacedOutputs ==   \* fault: counts only runs that replace outputs
  generation' = IF runOutputs = NoOutputs THEN generation ELSE generation + 1

Epoch == generation' = generation + 1

RunSucceeds(names) ==
  LET chosen   == Selected(names)
      released == ReleaseValues(heap, OutputHandles)
  IN  /\ Len(names) <= Len(OutputNames)
      /\ Runnable(names)
      /\ generation < MaxGeneration
      /\ \E fresh \in [DOMAIN chosen -> OrtValues],
            shapes \in [DOMAIN chosen -> OutputShapes] :
           /\ Fresh(released, fresh)
           /\ heap' = WithOutputs(released, chosen, fresh, shapes)
           /\ runOutputs' = Cached(chosen, fresh)
      /\ Epoch
      /\ lastError' = NoError

RunReturns(names, ok) ==
  IF ok THEN RunSucceeds(names) ELSE RunRefused(names) \/ RunFails(names)

Run(names, ok) ==
  /\ Idle
  /\ RunReturns(names, ok)
  /\ Reply(RunOp(names), ok, Null)
  /\ UNCHANGED <<session, bindings, predicting>>

----------------------------------------------------------------------------
(* Reading an output: onnx_runtime_output_data_f32 *)

Elements(shape) ==
  IF \E i \in DOMAIN shape : shape[i] = 0 THEN 0 ELSE CheckedProduct(shape)

(* The copy fits a buffer of cap elements.                                 *)
Readable(name, cap) ==
  /\ HasOutput(name)
  /\ Elements(heap[FindRunOutput(name)].shape) \in 0..cap

----------------------------------------------------------------------------
(* predict, predict_shaped: bind, run, read, stopping at the first failure  *)

PredictFails == Reply("predict", FALSE, Null) /\ predicting' = Null

(* A model with several inputs, or a payload that is not one flat batch:    *)
(* refused with no error recorded.                                          *)
PredictRefused(payload) ==
  /\ Idle
  /\ Len(InputNames) # 1 \/ FlatSize(InputDims[1]) # payload.len
  /\ PredictFails
  /\ UNCHANGED <<session, bindings, outputs, lastError, heap>>

PredictShapedUnchecked(payload, shape, cap, ok) ==   \* fault: runs although unbound
  /\ Idle
  /\ Len(InputNames) = 1
  /\ SetInputReturns(InputNames[1], shape, payload, ok)
  /\ predicting' = [at |-> "run", payload |-> payload, cap |-> cap]
  /\ UNCHANGED <<session, outputs, reply>>

PredictShaped(payload, shape, cap, ok) ==
  /\ Idle
  /\ Len(InputNames) = 1
  /\ SetInputReturns(InputNames[1], shape, payload, ok)
  /\ IF ok
     THEN /\ predicting' = [at |-> "run", payload |-> payload, cap |-> cap]
          /\ UNCHANGED reply
     ELSE PredictFails
  /\ UNCHANGED <<session, outputs>>

Predict(payload, cap, ok) ==
  /\ FlatSize(InputDims[1]) = payload.len
  /\ PredictShaped(payload, ConcreteShape(InputDims[1]), cap, ok)

At(step) == predicting # Null /\ predicting.at = step

PredictRun(ok) ==
  /\ At("run")
  /\ RunReturns(<<OutputNames[1]>>, ok)
  /\ IF ok
     THEN predicting' = [predicting EXCEPT !.at = "read"] /\ UNCHANGED reply
     ELSE PredictFails
  /\ UNCHANGED <<session, bindings>>

(* The value may be too large for the buffer, or ONNX Runtime may refuse it; *)
(* neither is recorded in last_error.                                        *)
PredictRead(ok) ==
  /\ At("read")
  /\ IF ok
     THEN /\ Readable(OutputNames[1], predicting.cap)
          /\ Reply("predict", TRUE, heap[FindRunOutput(OutputNames[1])])
          /\ predicting' = Null
     ELSE PredictFails
  /\ UNCHANGED <<session, bindings, outputs, lastError, heap>>

----------------------------------------------------------------------------
(* The calls that name inputs and outputs, and the predict of a model that  *)
(* has too many of them.                                                    *)
NamedNext ==
  \/ \E profiled \in ProfileModes : Create(profiled)
  \/ CreateFails
  \/ Destroy
  \/ \E ok \in BOOLEAN : EndProfiling(ok)
  \/ \E name \in AskedNames, shape \in AskedShapes, payload \in Payloads, ok \in BOOLEAN :
        SetInput(name, shape, payload, ok)
  \/ \E names \in AskedRuns, ok \in BOOLEAN : Run(names, ok)
  \/ \E payload \in Payloads : PredictRefused(payload)

(* The steps of predict, for a model with one input.                        *)
PredictNext ==
  \/ \E ok \in BOOLEAN : PredictRun(ok) \/ PredictRead(ok)
  \/ \E payload \in Payloads, cap \in Caps, ok \in BOOLEAN :
        \/ Predict(payload, cap, ok)
        \/ \E shape \in AskedShapes : PredictShaped(payload, shape, cap, ok)

Next == NamedNext \/ PredictNext

Spec == Init /\ [][Next]_vars

(* A model with several inputs: no predict gets past its first check.       *)
NamedSpec == Init /\ [][NamedNext]_vars

----------------------------------------------------------------------------
(* Properties *)

(* Every variable keeps the kind of value the struct declares for it.      *)
TypeOK ==
  /\ live \in BOOLEAN /\ profiling \in BOOLEAN
  /\ boundInputs \in [InputIds -> OrtValues \cup {Null}]
  /\ DOMAIN boundShapes = InputIds
  /\ runOutputs \in Seq([index : OutputIds, value : OrtValues])
  /\ generation \in Nat /\ allocations \in Nat /\ reuses \in Nat
  /\ lastError \in ErrorKinds
  /\ heap \in [OrtValues -> Tensors \cup {Null}]
  /\ predicting \in Predictions \cup {Null}
  /\ reply \in [op : {"none", "create", "destroy", "set_input", "run",
                       "long_run", "predict", "end_profiling"},
                 ok : BOOLEAN, answer : Tensors \cup {Null}]

(* No handle is held twice: releasing every slot releases each value once.  *)
SlotsDistinct ==
  /\ \A i, j \in InputIds :
        boundInputs[i] # Null /\ boundInputs[i] = boundInputs[j] => i = j
  /\ \A j, k \in DOMAIN runOutputs : runOutputs[j].value = runOutputs[k].value => j = k
  /\ BoundHandles \cap OutputHandles = {}

(* Every slot holds a live value and every live value is in a slot: nothing *)
(* dangles and nothing leaks, whichever call failed halfway.                *)
HandlesOwned == BoundHandles \cup OutputHandles = {v \in OrtValues : heap[v] # Null}

(* A session never holds an OrtValue twice, never one it already released,  *)
(* and never loses one (release_values, the replacement in set_input, the   *)
(* cleanup of a failed Run, destroy).                                       *)
Ownership == SlotsDistinct /\ HandlesOwned

(* The shape the session remembers for an input is the shape of the tensor  *)
(* bound there, conforms to the model, and is filled exactly: the memcpy of *)
(* a later in-place reuse stays inside the tensor.                          *)
BoundTensorsFit ==
  \A i \in InputIds : boundInputs[i] # Null =>
    LET tensor == heap[boundInputs[i]] IN
      /\ tensor.shape = boundShapes[i]
      /\ ShapeFits(InputDims[i], tensor.shape)
      /\ tensor.data.len = CheckedProduct(tensor.shape)

(* What the getters return for a name: the tensor, or Null.                 *)
OutputOf(name) == IF HasOutput(name) THEN heap[FindRunOutput(name)] ELSE Null

(* A getter asked for a name answers with the model output of that name,    *)
(* whatever selection, order or repetition of names the last run was given. *)
GettersAnswerByName ==
  \A name \in AskedNames :
    HasOutput(name) => OutputNames[OutputOf(name).data.output] = name

(* The generation identifies the outputs: as long as it stays, an output    *)
(* may disappear but never appears or changes, so a caller that kept a      *)
(* result together with its generation knows whether it is current.         *)
GenerationIdentifiesOutputs ==
  [][live /\ live' /\ generation' = generation =>
       \A name \in AskedNames : OutputOf(name)' \in {OutputOf(name), Null}]_vars

(* After a run that returned failure no output can be retrieved (README.md, *)
(* "failure leaves no retrievable output").                                 *)
FailedRunLeavesNoOutput ==
  predicting = Null /\ reply.op \in {"run", "long_run"} /\ ~reply.ok =>
    \A name \in AskedNames : ~HasOutput(name)

(* The same of a run that asked for at most as many outputs as the model    *)
(* has, whatever the runs before it asked for: whichever of its checks, or  *)
(* of ONNX Runtime's calls, failed.                                         *)
FailedFittingRunLeavesNoOutput ==
  predicting = Null /\ reply.op = "run" /\ ~reply.ok =>
    \A name \in AskedNames : ~HasOutput(name)

(* A predict that succeeds answers with the first output, computed from the *)
(* very input it was given: never from an earlier binding or an earlier run.*)
PredictAnswersItsOwnInput ==
  [][At("read") /\ predicting' = Null /\ reply'.ok =>
       /\ reply'.answer.data.output = 1
       /\ reply'.answer.data.inputs[1].data = predicting.payload]_vars

(* What run returned, to the caller who has just called it.                 *)
Returned ==
  IF predicting # Null \/ reply.op \notin {"run", "long_run"} THEN "other"
  ELSE IF reply.ok THEN "ok"
  ELSE IF reply.op = "run" THEN "failed" ELSE "refused"

(* The session implements the contract of its documentation: its bindings   *)
(* are the tensors bound, its output table what the getters return, and     *)
(* whoever is told that a run failed finds the table empty.  The contract   *)
(* has one exception, the run that asks for more outputs than there are.    *)
Contract == INSTANCE TensorContract WITH
  Inputs   <- InputIds,
  Outputs  <- OutputIds,
  None     <- Null,
  open     <- live,
  binding  <- [i \in InputIds |-> IF boundInputs[i] = Null THEN Null ELSE heap[boundInputs[i]]],
  cache    <- [o \in OutputIds |-> OutputOf(OutputNames[o])],
  returned <- Returned

ImplementsContract == Contract!Spec
=============================================================================

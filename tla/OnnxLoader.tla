------------------------------ MODULE OnnxLoader ------------------------------
(***************************************************************************)
(* The GDScript class OnnxLoader (src/OnnxLoader.cpp) on top of its        *)
(* session: loading replaces the session, every method first looks whether *)
(* there is one, and errors live in two places, the session's last_error   *)
(* and the loader's own for the time there is no session.                  *)
(*                                                                         *)
(* The session is OnnxRuntime's, with live standing for rt # nullptr and   *)
(* reply for what the method returned to the script (for predict, ok       *)
(* means an array that is not empty).                                      *)
(***************************************************************************)
EXTENDS OnnxRuntime

CONSTANTS
  OutputDims,  \* rt->outputs[i].dims
  MaxNames,    \* names run() takes (32)
  MinCap,      \* floats predict_shaped makes room for at least (4096)
  CapFactor    \* and how many per input element beyond that (16)

ASSUME LoaderAssumption ==
  /\ Len(OutputDims) = Len(OutputNames)
  /\ MaxNames \in Nat /\ MinCap \in Nat /\ CapFactor \in Nat \ {0}
  /\ Len(OutputNames) <= MaxNames   \* a model with more (ONNX_IO_MAX, 32) does not load

VARIABLES
  loaderError, \* last_error of the loader: what get_last_error() returns without rt
  exact        \* the predict under way is predict(), not predict_shaped()

loaderVars == <<vars, loaderError, exact>>
calls == <<session, bindings, outputs, lastError, heap, predicting>>

LoaderInit == Init /\ loaderError = NoError /\ exact = FALSE

(* get_input_size, get_output_size: flat sizes, or NoSize.                 *)
InputSize  == FlatSize(InputDims[1])
OutputSize == FlatSize(OutputDims[1])

GetLastError == IF live THEN lastError ELSE loaderError

(* A method that returns early: false or an empty value, nothing touched.  *)
Ignored(op) ==
  /\ predicting = Null
  /\ Reply(op, FALSE, Null)
  /\ UNCHANGED <<calls, loaderError, exact>>

----------------------------------------------------------------------------
(* load_model, load_model_profiled: unload first, then create.             *)
Released == ReleaseValues(heap, OutputHandles \cup BoundHandles)

LoadModelOverwriting(profiled) ==   \* fault: loses the session it replaces
  /\ predicting = Null
  /\ live' = TRUE /\ profiling' = profiled
  /\ Cleared
  /\ loaderError' = NoError
  /\ Reply("load_model", TRUE, Null)
  /\ UNCHANGED <<heap, predicting, exact>>

LoadModel(profiled) ==
  /\ predicting = Null
  /\ heap' = Released
  /\ live' = TRUE /\ profiling' = profiled
  /\ Cleared
  /\ loaderError' = NoError
  /\ Reply("load_model", TRUE, Null)
  /\ UNCHANGED <<predicting, exact>>

LoadModelFailsSilently ==   \* fault: takes the error on success only
  /\ predicting = Null
  /\ heap' = Released
  /\ live' = FALSE /\ profiling' = FALSE
  /\ Cleared
  /\ Reply("load_model", FALSE, Null)
  /\ UNCHANGED <<loaderError, predicting, exact>>

(* The previous model is gone all the same.  The thread's error is never   *)
(* empty: failing that, it reads "model not loaded".                       *)
LoadModelFails ==
  /\ predicting = Null
  /\ heap' = Released
  /\ live' = FALSE /\ profiling' = FALSE
  /\ Cleared
  /\ loaderError' = "refused"
  /\ Reply("load_model", FALSE, Null)
  /\ UNCHANGED <<predicting, exact>>

UnloadModel ==
  /\ IF live THEN Destroy ELSE Reply("destroy", TRUE, Null) /\ UNCHANGED calls
  /\ UNCHANGED <<loaderError, exact>>

----------------------------------------------------------------------------
(* The named calls *)

EndProfilingCall(ok) ==
  IF live THEN EndProfiling(ok) /\ UNCHANGED <<loaderError, exact>>
          ELSE ~ok /\ Ignored("end_profiling")

(* A set_input with more dimensions than the loader has room for, and a run *)
(* with more names (a "long_run", no model having that many), go no further.*)
SetInputOp(shape) == IF Len(shape) <= MaxRank THEN "set_input" ELSE "deep_set_input"

SetInputCall(name, shape, payload, ok) ==
  IF live /\ Len(shape) <= MaxRank
  THEN SetInput(name, shape, payload, ok) /\ UNCHANGED <<loaderError, exact>>
  ELSE ~ok /\ Ignored(SetInputOp(shape))

RunCall(names, ok) ==
  IF live /\ Len(names) <= MaxNames
  THEN Run(names, ok) /\ UNCHANGED <<loaderError, exact>>
  ELSE ~ok /\ Ignored(RunOp(names))

----------------------------------------------------------------------------
(* predict, predict_shaped *)

(* predict, and predict_array on a copy of its argument, asks for exactly   *)
(* the flat sizes; without them, for nothing.  A model with several inputs  *)
(* is refused by the session, as quietly.                                  *)
Predictable(payload) ==
  live /\ Len(InputNames) = 1 /\ payload.len = InputSize /\ OutputSize > 0

PredictCall(payload, ok) ==
  IF Predictable(payload)
  THEN /\ Predict(payload, OutputSize, ok)
       /\ exact' = (predicting' # Null)
       /\ UNCHANGED loaderError
  ELSE ~ok /\ Ignored("predict")

(* The room predict_shaped makes for the output: a multiple of the input.  *)
PredictCap(need) ==
  IF need <= MinCap THEN MinCap
  ELSE LET cap == IF need > Int32Max \div CapFactor THEN Int32Max ELSE need * CapFactor
       IN  IF cap < MinCap THEN MinCap ELSE cap

ShapedPredictable(payload, shape) ==
  /\ live /\ Len(InputNames) = 1
  /\ Len(shape) \in 1..MaxRank
  /\ CheckedProduct(shape) = payload.len

(* The buffers predict and predict_shaped make are among the capacities     *)
(* the session is given.                                                    *)
ASSUME RoomAssumption ==
  /\ OutputSize > 0 => OutputSize \in Caps
  /\ \A payload \in Payloads : PredictCap(payload.len) \in Caps

PredictShapedCall(payload, shape, ok) ==
  IF ShapedPredictable(payload, shape)
  THEN /\ PredictShaped(payload, shape, PredictCap(payload.len), ok)
       /\ exact' = FALSE
       /\ UNCHANGED loaderError
  ELSE ~ok /\ Ignored("predict")

PredictReadAnySize(ok) ==   \* fault: hands out a buffer it did not fill
  /\ PredictRead(ok)
  /\ exact' = FALSE
  /\ UNCHANGED loaderError

(* The answer is dropped unless it has the size promised, or, of            *)
(* predict_shaped, any size at all.                                        *)
PredictReadCall(ok) ==
  /\ PredictRead(ok)
  /\ ok => LET written == Elements(reply'.answer.shape)
           IN  IF exact THEN written = OutputSize ELSE written > 0
  /\ exact' = FALSE
  /\ UNCHANGED loaderError

PredictRunCall(ok) ==
  /\ PredictRun(ok)
  /\ exact' = (exact /\ ok)
  /\ UNCHANGED loaderError

----------------------------------------------------------------------------
LoaderNext ==
  \/ \E profiled \in ProfileModes : LoadModel(profiled)
  \/ LoadModelFails
  \/ UnloadModel
  \/ \E ok \in BOOLEAN : EndProfilingCall(ok) \/ PredictRunCall(ok) \/ PredictReadCall(ok)
  \/ \E name \in AskedNames, shape \in AskedShapes, payload \in Payloads, ok \in BOOLEAN :
        SetInputCall(name, shape, payload, ok)
  \/ \E names \in AskedRuns, ok \in BOOLEAN : RunCall(names, ok)
  \/ \E payload \in Payloads, ok \in BOOLEAN :
        \/ PredictCall(payload, ok)
        \/ \E shape \in AskedShapes : PredictShapedCall(payload, shape, ok)

LoaderSpec == LoaderInit /\ [][LoaderNext]_loaderVars

----------------------------------------------------------------------------
(* Properties *)

(* After a load_model, and after a set_input or a run on a model that was    *)
(* given no more dimensions than there is room for and no more names than   *)
(* the model has outputs, get_last_error() is empty when the call succeeded *)
(* and not when it failed, whatever happened to the loader before.          *)
ErrorReportsLatestCall ==
  /\ predicting = Null
  /\ reply.op = "load_model" \/ (live /\ reply.op \in {"set_input", "run"})
  => (GetLastError # NoError <=> ~reply.ok)

(* get_last_error() explains every failed named operation (README.md).      *)
FailuresExplained ==
  /\ predicting = Null /\ ~reply.ok
  /\ reply.op \in {"set_input", "deep_set_input", "run", "long_run"}
  => GetLastError # NoError

(* Replacing a model leaves no tensor of the model before it behind, and no *)
(* answer: what a getter returns, and what the heap holds, belongs to the   *)
(* model loaded last.                                                      *)
NothingOutlivesItsModel ==
  /\ ~live => \A v \in OrtValues : heap[v] = Null
  /\ predicting = Null /\ reply.op = "load_model" => \A v \in OrtValues : heap[v] = Null

(* What predict() hands to the script has the size get_output_size()        *)
(* announced, every element of it written by this very call's run.          *)
PredictionComplete ==
  [][exact /\ ~exact' /\ predicting' = Null /\ reply'.ok =>
       /\ Elements(reply'.answer.shape) = OutputSize
       /\ \A i \in InputIds : reply'.answer.data.inputs[i].data.len = InputSize]_loaderVars

(* OnnxLoader implements the contract of its documentation through loads    *)
(* and unloads: a binding persists until it is replaced or its model is     *)
(* gone, and what can be read was computed by the latest run, from the      *)
(* bindings of that moment, on the model that is loaded.                   *)
LoaderImplementsContract == Contract!LoaderSpec
=============================================================================

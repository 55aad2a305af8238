---------------------------- MODULE Introspection ----------------------------
(***************************************************************************)
(* What a model must be to be loaded, and the names its tensors go by       *)
(* afterwards (src/onnx_runtime.c: the second half of                      *)
(* onnx_runtime_create_impl, tensor_float_info, copy_io_name,              *)
(* copy_descriptor, find_tensor).                                          *)
(*                                                                         *)
(* The tensors of a model are asked for one after another, inputs first.   *)
(* Each is stored or refuses the model; what the caller learns of a refusal *)
(* is the error recorded on its thread.  Shapes are in TensorShape, what   *)
(* becomes of the session of a refused model in SharedEnv.                 *)
(***************************************************************************)
EXTENDS Naturals, Sequences, FiniteSets, SequencesExt

CONSTANTS
  Names,    \* names tensors may have, cut ones included
  Cut,      \* what ONNX_NAME_MAX - 1 = 127 bytes hold of a name
  Ranks,    \* ranks tensors may have
  MaxRank,  \* ONNX_LOADER_MAX_RANK
  IOMax     \* ONNX_IO_MAX, the most inputs and the most outputs

ASSUME IntrospectionAssumption ==
  /\ Cut \in [Names -> Names]
  /\ Ranks \subseteq Nat /\ MaxRank \in Nat
  /\ IOMax \in Nat \ {0}

VARIABLES
  model,   \* what the file declares of each side
  step,    \* "count", "tensor", "ready", "refused" or "ended": the process died
  side,    \* the side of the model the loop has come to
  stored,  \* the names kept for each side, in order
  error    \* g_last_error on the caller's thread

vars == <<model, step, side, stored, error>>

Sides == {"inputs", "outputs"}

(* The values a model takes and gives: tensors, and what is none (sequences, *)
(* maps), of which ONNX Runtime has no tensor's type to give.              *)
Tensors == [name : Names, tensor : {TRUE}, rank : Ranks, float : BOOLEAN]
Others  == [name : Names, tensor : {FALSE}]
Values  == Tensors \cup Others

(* ONNX gives the values of one side different names; one value more than   *)
(* is allowed is enough to be refused for their number.                    *)
Models ==
  LET Declared == {s \in UNION {[1..n -> Values] : n \in 0..IOMax + 1} :
                     IsInjective([i \in DOMAIN s |-> s[i].name])}
  IN  [Sides -> Declared]

Init ==
  /\ model \in Models
  /\ step = "count" /\ side = "inputs"
  /\ stored = [s \in Sides |-> <<>>]
  /\ error = "none"

----------------------------------------------------------------------------
CountFitsBelow(n) == n \in 1..IOMax - 1   \* fault: off by one

CountFits(n) == n \in 1..IOMax

(* GetInputCount, GetOutputCount.                                           *)
Count ==
  /\ step = "count"
  /\ IF \A s \in Sides : CountFits(Len(model[s]))
     THEN step' = "tensor" /\ UNCHANGED error
     ELSE step' = "refused" /\ error' = "counts"
  /\ UNCHANGED <<model, side, stored>>

(* Any request to ONNX Runtime fails, or it names a tensor null.            *)
OrtFails ==
  /\ step \in {"count", "tensor"}
  /\ step' = "refused" /\ error' = "ort"
  /\ UNCHANGED <<model, side, stored>>

TensorOfInputs(s, i) ==   \* fault: asks for inputs on both sides
  IF i <= Len(model["inputs"]) THEN model["inputs"][i] ELSE model[s][i]

TensorAt(s, i) == model[s][i]

Current == TensorAt(side, Len(stored[side]) + 1)

(* CastTypeInfoToTensorInfo succeeds and gives NULL, and its NULL goes       *)
(* unlooked at into GetDimensionsCount: an error of ONNX Runtime, or where  *)
(* ONNX Runtime does not look either, the end of the process.              *)
NotTensor ==
  /\ step = "tensor" /\ ~Current.tensor
  /\ \/ step' = "refused" /\ error' = "ort"
     \/ step' = "ended" /\ UNCHANGED error
  /\ UNCHANGED <<model, side, stored>>

(* tensor_float_info gives up before it asks for the type, without a word.  *)
TooDeep ==
  /\ step = "tensor" /\ Current.tensor /\ Current.rank > MaxRank
  /\ step' = "refused"
  /\ UNCHANGED <<model, side, stored, error>>

NotFloat ==
  /\ step = "tensor" /\ Current.tensor /\ Current.rank <= MaxRank /\ ~Current.float
  /\ step' = "refused" /\ error' = "element type"
  /\ UNCHANGED <<model, side, stored>>

(* copy_io_name keeps what the buffer holds.                                *)
Store ==
  /\ step = "tensor" /\ Current.tensor /\ Current.rank <= MaxRank /\ Current.float
  /\ stored' = [stored EXCEPT ![side] = Append(@, Cut[Current.name])]
  /\ IF Len(stored'[side]) < Len(model[side])
     THEN UNCHANGED <<step, side>>
     ELSE side' = "outputs" /\ step' = IF side = "inputs" THEN "tensor" ELSE "ready"
  /\ UNCHANGED <<model, error>>

Next == Count \/ OrtFails \/ NotTensor \/ TooDeep \/ NotFloat \/ Store

Spec == Init /\ [][Next]_vars

----------------------------------------------------------------------------
(* find_tensor: the first tensor of a name, or 0.                           *)
FindTensor(names, name) == SelectInSeq(names, LAMBDA n : n = name)

(* Properties *)

(* "The loader supports dense float32 tensors of rank 0-8 and at most 32    *)
(* inputs and outputs" (README.md).                                        *)
Supported ==
  \A s \in Sides :
    /\ Len(model[s]) \in 1..IOMax
    /\ \A i \in DOMAIN model[s] :
         model[s][i].tensor /\ model[s][i].float /\ model[s][i].rank \in 0..MaxRank

(* A model is refused when it is not supported, and only then, unless ONNX  *)
(* Runtime itself fails, and no supported model ends the process.           *)
AcceptsSupported ==
  /\ step = "ready" => Supported
  /\ step = "refused" /\ Supported => error = "ort"
  /\ step = "ended" => ~Supported

(* The name of a descriptor, given back, finds the tensor it describes, and *)
(* is the name ONNX Runtime knows it by, when the names fit; whatever they  *)
(* are, it finds one whose name begins alike.                              *)
NamesAddress ==
  step = "ready" =>
    \A s \in Sides : \A i \in DOMAIN model[s] :
      LET found == FindTensor(stored[s], stored[s][i]) IN
        /\ Cut[model[s][found].name] = stored[s][i]
        /\ (\A j \in DOMAIN model[s] : Cut[model[s][j].name] = model[s][j].name) =>
             found = i /\ stored[s][i] = model[s][i].name
=============================================================================

------------------------------ MODULE Inspector ------------------------------
(***************************************************************************)
(* The demo inspector (demo/matrix_demo.gd), a client of OnnxLoader that   *)
(* keeps state of its own beside the loader: an editor per input (a shape  *)
(* text and values), the names of the outputs, and the panels that show    *)
(* what the last run answered.  Loading replaces the loader before it is   *)
(* known whether the model loads; a press of Run or Benchmark binds the    *)
(* editors one after the other and may stop at any of them.                *)
(*                                                                         *)
(* Everything runs on the main thread: nothing happens between the steps   *)
(* of a press, but each of its calls of the loader may fail.               *)
(***************************************************************************)
EXTENDS TensorShape

CONSTANTS
  Models,      \* models that load: [inputs : name -> declared dims, outputs : set of names]
  TypedShapes, \* shapes typed into an editor
  TypedLengths,\* lengths of what is pasted into a text editor
  Contents,    \* what values may be, the ones the inspector makes up included
  MadeUp,      \* 1, 2, 3... in boxes, zeros in a text
  MaxVisible,  \* MAX_VISIBLE_VALUES: more values take a text instead of boxes
  BatchCounts, \* calls of a press: 1 for Run, batch_count for Benchmark
  None

(* A press of Run or Benchmark under way: what is left to bind, and to call. *)
Presses ==
  [at    : {"bind", "run"},
   left  : SUBSET UNION {DOMAIN m.inputs : m \in Models},
   calls : Nat]

ASSUME InspectorAssumption ==
  /\ MadeUp \in Contents
  /\ MaxVisible \in Nat /\ BatchCounts \subseteq Nat \ {0}
  /\ None \notin Models \cup Presses
  /\ \A m \in Models : \A n \in DOMAIN m.inputs : m.inputs[n] \in Seq(Int)
  /\ TypedShapes \subseteq Seq(Int)

VARIABLES
  session,     \* the loader's model, or None: loader.is_ready()
  bound,       \* the loader's bindings: input name -> [shape, len, content] or None
  computed,    \* the outputs it can answer with: output name -> what was computed
  editors,     \* input_editors: input name -> [shape, applied, len, content]
  outputNames, \* output_names
  shown,       \* output_tables: output name -> its shape and values on display
  status,      \* timing_label
  press        \* the press under way, one of Presses, or None

loader == <<session, bound, computed>>
panels == <<editors, outputNames, shown>>
vars   == <<loader, panels, status, press>>

Nothing == [n \in {} |-> None]

(* What is on display of an output: empty until a run answers.              *)
Parts == {"shape", "values"}
Blank == [part \in Parts |-> None]

Init ==
  /\ session = None /\ bound = Nothing /\ computed = Nothing
  /\ editors = Nothing /\ outputNames = {} /\ shown = Nothing
  /\ status = "no model" /\ press = None

----------------------------------------------------------------------------
(* The editors *)

(* _element_count: 64-bit signed products with no guard but the sign.      *)
Wrapped(n) ==
  LET low == n % SizeMod IN IF 2 * low < SizeMod THEN low ELSE low - SizeMod

ElementCount(shape) ==
  LET p[i \in 0..Len(shape)] == IF i = 0 THEN 1 ELSE Wrapped(p[i - 1] * shape[i])
  IN  IF \E i \in DOMAIN shape : shape[i] < 1 THEN 0 ELSE p[Len(shape)]

(* _rebuild_input_values: boxes for a few values, an empty text for many,   *)
(* a warning for none.                                                     *)
Rebuilt(shape) ==
  LET count == ElementCount(shape)
  IN  [shape   |-> shape,
       applied |-> count,
       len     |-> IF count \in 1..MaxVisible THEN count ELSE 0,
       content |-> MadeUp]

TypeShape(name, shape) ==
  /\ press = None /\ name \in DOMAIN editors
  /\ editors' = [editors EXCEPT ![name].shape = shape]
  /\ UNCHANGED <<loader, outputNames, shown, status, press>>

ApplyShape(name) ==
  /\ press = None /\ name \in DOMAIN editors
  /\ editors' = [editors EXCEPT ![name] = Rebuilt(editors[name].shape)]
  /\ UNCHANGED <<loader, outputNames, shown, status, press>>

(* Boxes keep their number; a text takes any; a warning takes nothing.     *)
TypeValues(name, len, content) ==
  /\ press = None /\ name \in DOMAIN editors
  /\ editors[name].applied >= 1
  /\ editors[name].applied <= MaxVisible => len = editors[name].applied
  /\ editors' = [editors EXCEPT ![name].len = len, ![name].content = content]
  /\ UNCHANGED <<loader, outputNames, shown, status, press>>

(* _fill_zeros: as many as the shape had when it was applied.              *)
FillZeros(name) ==
  /\ press = None /\ name \in DOMAIN editors
  /\ editors[name].applied > MaxVisible
  /\ editors' = [editors EXCEPT ![name].len = editors[name].applied,
                                ![name].content = MadeUp]
  /\ UNCHANGED <<loader, outputNames, shown, status, press>>

----------------------------------------------------------------------------
(* Loading a model *)

LoadModelKeepingEditors(m) ==   \* fault: adds the tables to those there are
  /\ press = None
  /\ session' = m
  /\ bound' = [n \in DOMAIN m.inputs |-> None]
  /\ computed' = Nothing
  /\ editors' = [n \in DOMAIN m.inputs \cup DOMAIN editors |->
                   IF n \in DOMAIN m.inputs THEN Rebuilt(ConcreteShape(m.inputs[n]))
                   ELSE editors[n]]
  /\ outputNames' = m.outputs
  /\ shown' = [o \in m.outputs |-> Blank]
  /\ status' = "loaded"
  /\ UNCHANGED press

(* _load_model: a new loader, the panels of its model, dynamic dimensions   *)
(* taken as 1.                                                             *)
LoadModel(m) ==
  /\ press = None
  /\ session' = m
  /\ bound' = [n \in DOMAIN m.inputs |-> None]
  /\ computed' = Nothing
  /\ editors' = [n \in DOMAIN m.inputs |-> Rebuilt(ConcreteShape(m.inputs[n]))]
  /\ outputNames' = m.outputs
  /\ shown' = [o \in m.outputs |-> Blank]
  /\ status' = "loaded"
  /\ UNCHANGED press

(* The loader is a new one all the same; the panels stay.                  *)
LoadModelFails ==
  /\ press = None
  /\ session' = None /\ bound' = Nothing /\ computed' = Nothing
  /\ status' = "error"
  /\ UNCHANGED <<panels, press>>

----------------------------------------------------------------------------
(* A press of Run or Benchmark *)

Press(calls) ==
  /\ press = None
  /\ press' = [at |-> "bind", left |-> DOMAIN editors, calls |-> calls]
  /\ UNCHANGED <<loader, panels, status>>

Stops == press' = None /\ status' = "error"

AcceptsCounted(name, e) ==   \* fault: takes the caller's word for the count
  /\ session # None /\ name \in DOMAIN session.inputs
  /\ Len(e.shape) = Len(session.inputs[name])
  /\ e.len = ElementCount(e.shape) /\ e.len > 0

(* OnnxLoader::set_input, as far as it depends on its arguments.           *)
Accepts(name, e) ==
  /\ session # None /\ name \in DOMAIN session.inputs
  /\ Len(e.shape) <= MaxRank
  /\ ShapeFits(session.inputs[name], e.shape)
  /\ CheckedProduct(e.shape) = e.len

Binding(e) == [shape |-> e.shape, len |-> e.len, content |-> e.content]

BindInputSameShape(name) ==   \* fault: keeps a binding of the same shape
  LET e == editors[name] IN
  /\ press # None /\ press.at = "bind" /\ name \in press.left
  /\ e.len = ElementCount(e.shape) /\ Accepts(name, e)
  /\ bound' = [bound EXCEPT ![name] =
                 IF @ # None /\ @.shape = e.shape THEN @ ELSE Binding(e)]
  /\ press' = [press EXCEPT !.left = @ \ {name}]
  /\ UNCHANGED <<session, computed, panels, status>>

(* _bind_inputs: one editor; its values must be as many as its shape says.  *)
BindInput(name) ==
  LET e == editors[name] IN
  /\ press # None /\ press.at = "bind" /\ name \in press.left
  /\ e.len = ElementCount(e.shape) /\ Accepts(name, e)
  /\ bound' = [bound EXCEPT ![name] = Binding(e)]
  /\ press' = [press EXCEPT !.left = @ \ {name}]
  /\ UNCHANGED <<session, computed, panels, status>>

(* The count is wrong, or set_input refuses the values or fails: the        *)
(* editors bound before it stay bound.                                     *)
BindInputFails ==
  /\ press # None /\ press.at = "bind" /\ press.left # {}
  /\ Stops
  /\ UNCHANGED <<loader, panels>>

BindingDone ==
  /\ press # None /\ press.at = "bind" /\ press.left = {}
  /\ press' = [press EXCEPT !.at = "run"]
  /\ UNCHANGED <<loader, panels, status>>

(* What the model computes for output o from its bindings.                 *)
Evaluate(o) == [model |-> session, output |-> o, inputs |-> bound]

RunOk ==
  /\ press # None /\ press.at = "run" /\ press.calls > 0
  /\ session # None /\ outputNames \subseteq session.outputs
  /\ \A n \in DOMAIN bound : bound[n] # None
  /\ computed' = [o \in outputNames |-> Evaluate(o)]
  /\ press' = [press EXCEPT !.calls = @ - 1]
  /\ UNCHANGED <<session, bound, panels, status>>

RunFails ==
  /\ press # None /\ press.at = "run" /\ press.calls > 0
  /\ computed' = Nothing
  /\ Stops
  /\ UNCHANGED <<session, bound, panels>>

(* _show_outputs: get_output_shape and get_output are asked of every output; *)
(* either may come back empty (a rank beyond MaxRank, ONNX Runtime failing), *)
(* and the inspector shows what came back without a word.                   *)
ShowOutputs ==
  /\ press # None /\ press.at = "run" /\ press.calls = 0
  /\ \E answered \in SUBSET ((DOMAIN computed) \X Parts) :
       shown' = [o \in outputNames |-> [part \in Parts |->
                   IF <<o, part>> \in answered THEN computed[o] ELSE None]]
  /\ status' = "ran" /\ press' = None
  /\ UNCHANGED <<loader, editors, outputNames>>

----------------------------------------------------------------------------
Next ==
  \/ \E m \in Models : LoadModel(m)
  \/ LoadModelFails
  \/ \E name \in DOMAIN editors :
        \/ ApplyShape(name) \/ FillZeros(name) \/ BindInput(name)
        \/ \E shape \in TypedShapes : TypeShape(name, shape)
        \/ \E len \in TypedLengths, content \in Contents : TypeValues(name, len, content)
  \/ \E calls \in BatchCounts : Press(calls)
  \/ BindInputFails \/ BindingDone \/ RunOk \/ RunFails \/ ShowOutputs

Spec == Init /\ [][Next]_vars

----------------------------------------------------------------------------
(* Properties *)

(* While a model is loaded the panels are its panels: an editor for each of *)
(* its inputs and no other, its outputs, and no answer of a model before    *)
(* it, whatever loads failed and whatever presses stopped halfway.          *)
PanelsMatchModel ==
  session # None =>
    /\ DOMAIN editors = DOMAIN session.inputs
    /\ outputNames = session.outputs /\ DOMAIN shown = session.outputs
    /\ \A o \in DOMAIN shown, part \in Parts :
         shown[o][part] # None => shown[o][part].model = session

(* Whatever a press puts on display is the model loaded applied to what the *)
(* editors say, all of them: nothing left of a press that stopped halfway,  *)
(* of values typed since, or of the panels of a model that is gone.  What   *)
(* the loader had no answer to is empty, never what an earlier press showed. *)
ShownAnswersEditors ==
  [][press # None /\ status' = "ran" /\ press' = None =>
       /\ session # None
       /\ \A o \in outputNames, part \in Parts :
            shown'[o][part] \in
              {None, [model |-> session, output |-> o,
                      inputs |-> [n \in DOMAIN session.inputs |-> Binding(editors[n])]]}]_vars

(* The inspector counts elements with products nobody guards; no binding    *)
(* has fewer values than its shape has elements all the same.               *)
ElementsOf(shape) ==
  LET p[i \in 0..Len(shape)] == IF i = 0 THEN 1 ELSE p[i - 1] * shape[i]
  IN  p[Len(shape)]

BindingsComplete ==
  \A n \in DOMAIN bound : bound[n] # None => bound[n].len = ElementsOf(bound[n].shape)
=============================================================================

--------------------------- MODULE OnnxLoaderProofs ---------------------------
(***************************************************************************)
(* What a session promises its callers, and what OnnxLoader promises the   *)
(* script on top of it.                                                    *)
(*                                                                         *)
(* First a session of onnx_runtime.c by itself: predict and predict_shaped *)
(* answer with the input they were given, although the binding and the     *)
(* output they use are those of set_input and run, and set_input and run   *)
(* implement what README.md promises of them, TensorContract, for every    *)
(* model whose outputs have different names.                               *)
(*                                                                         *)
(* Then the class OnnxLoader, for every model, every session below it and  *)
(* every order of loads, unloads and calls.                                *)
(***************************************************************************)
EXTENDS OnnxLoader, OnnxRuntimeProofs

(* The first name of a list finds the first entry.                          *)
LEMMA FirstFound ==
  ASSUME NEW n \in Nat \ {0}, NEW names, DOMAIN names = 1..n
  PROVE  FindTensor(names, names[1]) = 1
  <1>1. 1 \in DOMAIN names /\ \A j \in 1..(1 - 1) : names[j] # names[1]
    OBVIOUS
  <1>2. \A i \in DOMAIN names :
           names[i] = names[1] /\ (\A j \in 1..(i - 1) : names[j] # names[1]) => i = 1
    OBVIOUS
  <1> QED
    BY <1>1, <1>2 DEF FindTensor

LEMMA FirstInput == FindTensor(InputNames, InputNames[1]) = 1
  <1>1. Len(InputNames) \in Nat \ {0} /\ DOMAIN InputNames = 1..Len(InputNames)
    BY Domains, SessionAssumption, EmptySeq DEF InputIds
  <1> QED
    BY <1>1, FirstFound

LEMMA FirstOutput == FindTensor(OutputNames, OutputNames[1]) = 1
  <1>1. Len(OutputNames) \in Nat \ {0} /\ DOMAIN OutputNames = 1..Len(OutputNames)
    BY Domains, SessionAssumption, EmptySeq DEF OutputIds
  <1> QED
    BY <1>1, FirstFound

----------------------------------------------------------------------------
(* Everything the steps of a call rely on and keep, the reply left out.     *)
Core ==
  /\ Slots /\ CallTypes /\ BoundTensorsFit /\ Presence
  /\ live \in BOOLEAN
  /\ predicting \in Predictions \cup {Null}

(* What the predict under way can count on: before its run, that its input  *)
(* is bound; before it reads, that its output was computed from that input. *)
InputBound(payload) ==
  boundInputs[1] # Null /\ heap[boundInputs[1]].data = payload

AnswerReady(payload) ==
  LET answer == OutputOf(OutputNames[1])
  IN  answer # Null /\ answer.data.output = 1 /\ answer.data.inputs[1].data = payload

PredictPlace ==
  /\ At("run") => InputBound(predicting.payload)
  /\ At("read") => AnswerReady(predicting.payload)

(* set_input of the first input, when it succeeds, binds what it was given. *)
LEMMA BindsFirst ==
  ASSUME Slots, NEW shape, NEW payload,
         SetInputReturns(InputNames[1], shape, payload, TRUE)
  PROVE  InputBound(payload)'
  <1>1. CASE BindInPlace(InputNames[1], shape, payload)
    <2> DEFINE b == boundInputs[1]
    <2>1. b # Null /\ heap' = [heap EXCEPT ![b].data = payload] /\ boundInputs' = boundInputs
      BY <1>1, FirstInput DEF BindInPlace, Reusable
    <2>2. b \in OrtValues /\ heap[b] \in InputTensors
      BY <2>1, SlotsLive, Domains
    <2> HIDE DEF b
    <2>3. heap'[b].data = payload
      BY <2>1, <2>2 DEF Slots, SlotTypes, InputTensors
    <2> QED
      BY <2>1, <2>3 DEF InputBound, b
  <1>2. CASE BindFresh(InputNames[1], shape, payload)
    <2>1. PICK v \in Unallocated :
            /\ heap' = Replaced(1, v, [shape |-> shape, data |-> payload])
            /\ boundInputs' = [boundInputs EXCEPT ![1] = v]
      BY <1>2, FirstInput DEF BindFresh
    <2>2. v \in OrtValues /\ v # Null /\ boundInputs'[1] = v
      BY <2>1, Domains, SessionAssumption DEF Unallocated, Slots, SlotTypes
    <2>3. heap'[v] = [shape |-> shape, data |-> payload]
      BY <2>1, <2>2 DEF Replaced, ReleaseValues
    <2> QED
      BY <2>2, <2>3 DEF InputBound
  <1> QED
    BY <1>1, <1>2 DEF SetInputReturns

(* run of the first output, when it succeeds, computes it from what is      *)
(* bound.                                                                   *)
LEMMA RunAnswersFirst ==
  ASSUME Slots, NEW payload, InputBound(payload),
         RunSucceeds(<<OutputNames[1]>>), UNCHANGED boundInputs
  PROVE  AnswerReady(payload)'
  <1> DEFINE chosen == Selected(<<OutputNames[1]>>)
  <1>1. <<OutputNames[1]>> \in Seq(STRING)
    BY Domains, SessionAssumption, ElementOfSeq, LenProperties DEF OutputIds
  <1>2. PICK n, fresh : Installed(n, chosen, fresh)
    BY <1>1, RunInstalls
  <1>3. 1 \in DOMAIN chosen /\ chosen[1] = 1
    BY FirstOutput DEF Selected
  <1> HIDE DEF chosen
  <1>4. 1 \in 1..n
    BY <1>2, <1>3 DEF Installed
  <1>5. OutputOf(OutputNames[1])' # Null /\ OutputOf(OutputNames[1])'.data = Evaluate(1)
    BY <1>2, <1>3, <1>4, FirstOutput, FoundInstalled, Domains
  <1>6. Evaluate(1).output = 1 /\ Evaluate(1).inputs[1].data = payload
    BY Domains DEF Evaluate, InputBound
  <1> QED
    BY <1>5, <1>6 DEF AnswerReady

----------------------------------------------------------------------------
(* The calls keep Core, and what predict counts on                         *)

LEMMA NotUnderWay ==
  ASSUME predicting' = Null
  PROVE  PredictPlace'
  BY DEF PredictPlace, At

LEMMA CoreKept ==
  ASSUME Core, UNCHANGED <<live, bindings, outputs, heap>>, lastError' \in ErrorKinds,
         predicting' \in Predictions \cup {Null}, predicting' # Null => live
  PROVE  Core'
  <1>1. UNCHANGED <<boundInputs, boundShapes, allocations, reuses, runOutputs, generation>>
    BY DEF bindings, outputs
  <1>2. Slots'
    BY <1>1, SlotsUnchanged DEF Core
  <1>3. CallTypes' /\ BoundTensorsFit' /\ Presence'
    BY <1>1 DEF Core, CallTypes, BoundTensorsFit, Presence
  <1> QED
    BY <1>2, <1>3 DEF Core

LEMMA SetInputCore ==
  ASSUME Core, live, UNCHANGED live, UNCHANGED outputs,
         NEW name, NEW shape \in BoundShapes, NEW payload \in Payloads, NEW ok \in BOOLEAN,
         SetInputReturns(name, shape, payload, ok),
         predicting' \in Predictions \cup {Null}
  PROVE  Core'
  <1>1. Slots' /\ CallTypes' /\ BoundTensorsFit'
    BY SetInputKeeps DEF Core
  <1> QED
    BY <1>1 DEF Core, Presence

LEMMA RunCore ==
  ASSUME Core, live, UNCHANGED live, UNCHANGED bindings,
         NEW names \in Seq(STRING), NEW ok \in BOOLEAN, RunReturns(names, ok),
         predicting' \in Predictions \cup {Null}
  PROVE  Core'
  <1>1. Slots' /\ CallTypes' /\ BoundTensorsFit'
    BY RunKeeps DEF Core
  <1> QED
    BY <1>1 DEF Core, Presence

LEMMA EndProfilingCore ==
  ASSUME Core, NEW ok \in BOOLEAN, EndProfiling(ok)
  PROVE  Core' /\ PredictPlace'
  <1>1. /\ predicting = Null /\ predicting' = Null
        /\ UNCHANGED <<live, bindings, outputs, heap>> /\ lastError' \in ErrorKinds
    BY DEF EndProfiling, Idle, ErrorKinds
  <1> QED
    BY <1>1, CoreKept, NotUnderWay

LEMMA PredictShapedCore ==
  ASSUME Core, NEW payload \in Payloads, NEW shape \in BoundShapes, NEW cap \in Caps,
         NEW ok \in BOOLEAN, PredictShaped(payload, shape, cap, ok)
  PROVE  Core' /\ PredictPlace'
  <1>1. /\ live /\ UNCHANGED live /\ UNCHANGED outputs
        /\ SetInputReturns(InputNames[1], shape, payload, ok)
    BY DEF PredictShaped, Idle, session
  <1>2. CASE ok
    <2>1. predicting' = [at |-> "run", payload |-> payload, cap |-> cap]
      BY <1>2 DEF PredictShaped
    <2>2. predicting' \in Predictions
      BY <2>1 DEF Predictions
    <2>3. InputBound(payload)'
      BY <1>1, <1>2, BindsFirst DEF Core
    <2> QED
      BY <1>1, <2>1, <2>2, <2>3, SetInputCore DEF PredictPlace, At, InputBound
  <1>3. CASE ~ok
    <2>1. predicting' = Null
      BY <1>3 DEF PredictShaped, PredictFails
    <2> QED
      BY <1>1, <2>1, SetInputCore, NotUnderWay
  <1> QED
    BY <1>2, <1>3

LEMMA PredictRunCore ==
  ASSUME Core, PredictPlace, NEW ok \in BOOLEAN, PredictRun(ok)
  PROVE  Core' /\ PredictPlace'
  <1>1. /\ At("run") /\ live /\ UNCHANGED live /\ UNCHANGED bindings
        /\ RunReturns(<<OutputNames[1]>>, ok)
    BY DEF PredictRun, At, session, Core, Presence
  <1>2. <<OutputNames[1]>> \in Seq(STRING)
    BY Domains, SessionAssumption, ElementOfSeq, LenProperties DEF OutputIds
  <1>3. CASE ok
    <2>1. predicting' = [predicting EXCEPT !.at = "read"] /\ predicting \in Predictions
      BY <1>1, <1>3 DEF PredictRun, At, Core
    <2>2. /\ predicting' \in Predictions
          /\ predicting'.at = "read" /\ predicting'.payload = predicting.payload
      BY <2>1 DEF Predictions
    <2>3. InputBound(predicting.payload)
      BY <1>1 DEF PredictPlace
    <2>4. AnswerReady(predicting.payload)'
      <3> DEFINE payload == predicting.payload
      <3>1. Slots /\ InputBound(payload) /\ UNCHANGED boundInputs
            /\ RunSucceeds(<<OutputNames[1]>>)
        BY <1>1, <1>3, <2>3 DEF RunReturns, Core, bindings
      <3> QED
        BY <3>1, <2>2, RunAnswersFirst DEF AnswerReady
    <2> QED
      BY <1>1, <1>2, <2>2, <2>4, RunCore DEF PredictPlace, At, AnswerReady
  <1>4. CASE ~ok
    <2>1. predicting' = Null
      BY <1>4 DEF PredictRun, PredictFails
    <2> QED
      BY <1>1, <1>2, <2>1, RunCore, NotUnderWay
  <1> QED
    BY <1>3, <1>4

LEMMA PredictReadCore ==
  ASSUME Core, NEW ok \in BOOLEAN, PredictRead(ok)
  PROVE  Core' /\ PredictPlace'
  <1>1. /\ predicting' = Null /\ UNCHANGED <<live, bindings, outputs, heap, lastError>>
    BY DEF PredictRead, PredictFails, session
  <1>2. lastError' \in ErrorKinds
    BY <1>1 DEF Core, CallTypes
  <1> QED
    BY <1>1, <1>2, CoreKept, NotUnderWay

(* What predict hands out when it succeeds.                                 *)
LEMMA PredictReadAnswers ==
  ASSUME PredictPlace, PredictRead(TRUE)
  PROVE  /\ reply'.answer.data.output = 1
         /\ reply'.answer.data.inputs[1].data = predicting.payload
  <1>1. /\ AnswerReady(predicting.payload) /\ HasOutput(OutputNames[1])
        /\ Reply("predict", TRUE, heap[FindRunOutput(OutputNames[1])])
    BY DEF PredictRead, PredictPlace, Readable
  <1>2. reply'.answer = OutputOf(OutputNames[1])
    BY <1>1 DEF Reply, OutputOf
  <1> QED
    BY <1>1, <1>2 DEF AnswerReady

----------------------------------------------------------------------------
(* A session by itself                                                     *)

LEMMA StepKeepsPlace ==
  ASSUME IInv, PredictPlace, [Next]_vars
  PROVE  PredictPlace'
  <1>1. Core
    BY IInvParts DEF Core, Rest, RestTypes
  <1>2. ASSUME NEW profiled \in ProfileModes, Create(profiled) PROVE PredictPlace'
    BY <1>1, <1>2, NotUnderWay DEF Create, Core, Presence
  <1>3. CASE CreateFails
    BY <1>1, <1>3, NotUnderWay DEF CreateFails, Core, Presence
  <1>4. CASE Destroy
    BY <1>4, NotUnderWay DEF Destroy, Idle
  <1>5. ASSUME NEW ok \in BOOLEAN, EndProfiling(ok) PROVE PredictPlace'
    BY <1>1, <1>5, EndProfilingCore
  <1>6. ASSUME NEW name \in AskedNames, NEW shape \in AskedShapes,
               NEW payload \in Payloads, NEW ok \in BOOLEAN,
               SetInput(name, shape, payload, ok)
        PROVE  PredictPlace'
    BY <1>6, NotUnderWay DEF SetInput, Idle
  <1>7. ASSUME NEW names \in AskedRuns, NEW ok \in BOOLEAN, Run(names, ok)
        PROVE  PredictPlace'
    BY <1>7, NotUnderWay DEF Run, Idle
  <1>8. ASSUME NEW payload \in Payloads, PredictRefused(payload) PROVE PredictPlace'
    BY <1>8, NotUnderWay DEF PredictRefused, PredictFails
  <1>9. ASSUME NEW ok \in BOOLEAN, PredictRun(ok) PROVE PredictPlace'
    BY <1>1, <1>9, PredictRunCore
  <1>10. ASSUME NEW ok \in BOOLEAN, PredictRead(ok) PROVE PredictPlace'
    BY <1>1, <1>10, PredictReadCore
  <1>11. ASSUME NEW payload \in Payloads, NEW cap \in Caps, NEW ok \in BOOLEAN,
                NEW shape \in BoundShapes, PredictShaped(payload, shape, cap, ok)
         PROVE  PredictPlace'
    BY <1>1, <1>11, PredictShapedCore
  <1>12. ASSUME NEW payload \in Payloads, NEW cap \in Caps, NEW ok \in BOOLEAN,
                Predict(payload, cap, ok)
         PROVE  PredictPlace'
    <2> DEFINE shape == ConcreteShape(InputDims[1])
    <2>1. shape \in BoundShapes
      BY Domains DEF BoundShapes
    <2>2. PredictShaped(payload, shape, cap, ok)
      BY <1>12 DEF Predict
    <2> HIDE DEF shape
    <2> QED
      BY <1>11, <2>1, <2>2
  <1>13. CASE UNCHANGED vars
    <2>1. UNCHANGED <<predicting, boundInputs, heap, runOutputs>>
      BY <1>13 DEF vars, bindings, outputs
    <2>2. OutputOf(OutputNames[1])' = OutputOf(OutputNames[1])
      BY <2>1 DEF OutputOf, HasOutput, FindRunOutput
    <2> QED
      BY <2>1, <2>2 DEF PredictPlace, At, InputBound, AnswerReady
  <1> QED
    <2>1. \A shape \in AskedShapes : shape \in BoundShapes
      BY DEF BoundShapes
    <2> QED
      BY <1>2, <1>3, <1>4, <1>5, <1>6, <1>7, <1>8, <1>9, <1>10, <1>11, <1>12, <1>13, <2>1
      DEF Next, NamedNext, PredictNext

(* What the step that answers a predict hands out, said of any step.        *)
AnswersOwnInput ==
  At("read") /\ predicting' = Null /\ reply'.ok =>
    /\ reply'.answer.data.output = 1
    /\ reply'.answer.data.inputs[1].data = predicting.payload

(* While a predict is about to read, only it takes a step.                  *)
LEMMA StepAnswersOwnInput ==
  ASSUME IInv, PredictPlace, Next
  PROVE  AnswersOwnInput
  <1> SUFFICES ASSUME At("read"), predicting' = Null, reply'.ok
               PROVE  /\ reply'.answer.data.output = 1
                      /\ reply'.answer.data.inputs[1].data = predicting.payload
    BY DEF AnswersOwnInput
  <1>1. live /\ predicting # Null /\ ~At("run")
    BY IInvParts DEF Rest, Presence, At
  <1>2. \E ok \in BOOLEAN : PredictRead(ok)
    BY <1>1 DEF Next, NamedNext, PredictNext, Create, CreateFails, Destroy, EndProfiling,
      SetInput, Run, PredictRefused, Predict, PredictShaped, PredictRun, Idle
  <1>3. PredictRead(TRUE)
    BY <1>2 DEF PredictRead, PredictFails, Reply
  <1> QED
    BY <1>3, PredictReadAnswers

(* predict and predict_shaped, when they succeed, answer with the first     *)
(* output computed from the very input they were given, whatever was bound, *)
(* run or refused before.                                                   *)
THEOREM PredictAlwaysAnswersItsOwnInput == Spec => PredictAnswersItsOwnInput
  <1>1. Init => PredictPlace
    BY DEF Init, PredictPlace, At
  <1>2. IInv /\ PredictPlace /\ [Next]_vars => PredictPlace'
    BY StepKeepsPlace
  <1>3. IInv /\ PredictPlace /\ [Next]_vars => [AnswersOwnInput]_vars
    BY StepAnswersOwnInput
  <1>4. [AnswersOwnInput]_vars =>
          [At("read") /\ predicting' = Null /\ reply'.ok =>
             /\ reply'.answer.data.output = 1
             /\ reply'.answer.data.inputs[1].data = predicting.payload]_vars
    BY DEF AnswersOwnInput
  <1> QED
    BY Invariance, <1>1, <1>2, <1>3, <1>4, PTL DEF Spec, PredictAnswersItsOwnInput

----------------------------------------------------------------------------
(* The contract                                                            *)

(* The names of a model's outputs differ, after they were cut as before.    *)
UniqueOutputs ==
  \A o, p \in OutputIds : OutputNames[o] = OutputNames[p] => o = p

(* What the slots amount to: the tables of the contract.                    *)
Binding ==
  [i \in InputIds |-> IF boundInputs[i] = Null THEN Null ELSE heap[boundInputs[i]]]
Cache == [o \in OutputIds |-> OutputOf(OutputNames[o])]

NoBinding == [i \in InputIds |-> Null]
NoCache   == [o \in OutputIds |-> Null]

----------------------------------------------------------------------------
(* The cache *)

LEMMA CacheKept ==
  ASSUME Slots, UNCHANGED runOutputs, OutputsKept
  PROVE  Cache' = Cache
  <1>1. ASSUME NEW o \in OutputIds
        PROVE  OutputOf(OutputNames[o])' = OutputOf(OutputNames[o])
    BY SameAnswer
  <1> QED
    BY <1>1 DEF Cache

LEMMA CacheEmptied ==
  ASSUME runOutputs' = NoOutputs
  PROVE  Cache' = NoCache
  <1>1. ASSUME NEW o \in OutputIds
        PROVE  OutputOf(OutputNames[o])' = Null
    BY NothingFoundNext DEF OutputOf
  <1> QED
    BY <1>1 DEF Cache, NoCache

LEMMA BindingKept ==
  ASSUME UNCHANGED boundInputs, BoundKept
  PROVE  Binding' = Binding
  BY DEF Binding, BoundKept

LEMMA TablesKept ==
  ASSUME Slots, UNCHANGED <<boundInputs, runOutputs, heap>>
  PROVE  Binding' = Binding /\ Cache' = Cache
  BY CacheKept DEF Binding, OutputsKept

(* An output is found under its own name, when names differ.                *)
LEMMA FindsItself ==
  ASSUME UniqueOutputs, NEW o \in OutputIds
  PROVE  FindTensor(OutputNames, OutputNames[o]) = o
  BY FindTensorFinds, Domains DEF UniqueOutputs, OutputIds

----------------------------------------------------------------------------
(* Binding an input *)

(* A binding that succeeds replaces one entry of the table.                 *)
LEMMA BindReplaces ==
  ASSUME Slots, CallTypes, BoundTensorsFit, UNCHANGED outputs,
         NEW name, NEW shape \in BoundShapes, NEW payload \in Payloads,
         SetInputReturns(name, shape, payload, TRUE)
  PROVE  \E i \in InputIds :
           /\ Binding'[i] # Null
           /\ Binding' = [Binding EXCEPT ![i] = Binding'[i]]
  <1> DEFINE i == FindTensor(InputNames, name)
  <1>1. Slots'
    BY SetInputKeeps
  <1>2. i \in InputIds /\ Accepts(name, shape, payload)
    <2>1. Accepts(name, shape, payload)
      BY DEF SetInputReturns, BindInPlace, BindFresh
    <2> QED
      BY <2>1, FindTensorFinds, Domains DEF Accepts, InputIds
  <1>3. boundInputs'[i] # Null
        /\ \A j \in InputIds \ {i} :
             /\ boundInputs'[j] = boundInputs[j]
             /\ boundInputs[j] # Null => heap'[boundInputs[j]] = heap[boundInputs[j]]
    <2>1. CASE BindInPlace(name, shape, payload)
      <3>1. /\ boundInputs[i] # Null /\ boundInputs' = boundInputs
            /\ heap' = [heap EXCEPT ![boundInputs[i]].data = payload]
        BY <2>1 DEF BindInPlace, Reusable
      <3>2. \A j \in InputIds \ {i} : boundInputs[j] # boundInputs[i]
        BY <1>2, <3>1 DEF Slots, Ownership, SlotsDistinct
      <3> HIDE DEF i
      <3> QED
        BY <1>2, <3>1, <3>2 DEF Slots, SlotTypes
    <2>2. CASE BindFresh(name, shape, payload)
      <3>1. PICK v \in Unallocated :
              /\ heap' = Replaced(i, v, [shape |-> shape, data |-> payload])
              /\ boundInputs' = [boundInputs EXCEPT ![i] = v]
        BY <2>2 DEF BindFresh
      <3>2. v \in OrtValues /\ heap[v] = Null /\ v # Null
        BY <3>1, SessionAssumption DEF Unallocated
      <3>3. ASSUME NEW j \in InputIds \ {i}, boundInputs[j] # Null
            PROVE  heap'[boundInputs[j]] = heap[boundInputs[j]]
        <4>1. boundInputs[j] # boundInputs[i]
          BY <1>2, <3>3 DEF Slots, Ownership, SlotsDistinct
        <4>2. boundInputs[j] \in OrtValues /\ boundInputs[j] # v
          BY <3>2, <3>3, SlotsLive
        <4> HIDE DEF i
        <4> QED
          BY <3>1, <4>1, <4>2 DEF Replaced, ReleaseValues
      <3>4. boundInputs'[i] = v /\ \A j \in InputIds \ {i} : boundInputs'[j] = boundInputs[j]
        <4> HIDE DEF i
        <4> QED
          BY <1>2, <3>1 DEF Slots, SlotTypes
      <3> QED
        BY <3>2, <3>3, <3>4
    <2> QED
      BY <2>1, <2>2 DEF SetInputReturns
  <1> HIDE DEF i
  <1>4. Binding'[i] # Null
    <2>1. heap'[boundInputs'[i]] \in InputTensors
      BY <1>1, <1>2, <1>3 DEF Slots, SlotKinds
    <2> QED
      BY <1>2, <1>3, <2>1, SessionAssumption DEF Binding, Tensors
  <1>5. \A j \in InputIds \ {i} : Binding'[j] = Binding[j]
    BY <1>3 DEF Binding
  <1>6. Binding' = [Binding EXCEPT ![i] = Binding'[i]]
    BY <1>2, <1>5 DEF Binding
  <1> QED
    BY <1>2, <1>4, <1>6

----------------------------------------------------------------------------
(* Running *)

(* A run that succeeds computes the cache from the inputs bound.            *)
LEMMA RunFills ==
  ASSUME UniqueOutputs, Slots, NEW names \in Seq(STRING), RunSucceeds(names),
         UNCHANGED boundInputs
  PROVE  /\ \A i \in InputIds : Binding[i] # Null
         /\ Binding' = Binding
         /\ Cache' # NoCache
         /\ \A o \in OutputIds :
              Cache'[o] # Null => Cache'[o].data = [output |-> o, inputs |-> Binding]
  <1>1. \A i \in InputIds : boundInputs[i] # Null
    BY DEF RunSucceeds, Runnable
  <1>2. \A i \in InputIds : Binding[i] # Null /\ Binding[i] = heap[boundInputs[i]]
    BY <1>1, SlotsLive DEF Binding
  <1>3. Binding' = Binding
    BY RunSucceedsSlots, BindingKept
  <1> DEFINE chosen == Selected(names)
  <1>4. PICK n, fresh : Installed(n, chosen, fresh)
    BY RunInstalls
  <1> HIDE DEF chosen
  <1>5. Cache' # NoCache
    <2>1. 1 \in 1..n /\ chosen[1] \in OutputIds
      BY <1>4 DEF Installed
    <2>2. Cache'[chosen[1]] # Null
      BY <1>4, <2>1, FoundInstalled, FindsItself DEF Cache
    <2> QED
      BY <2>1, <2>2 DEF NoCache
  <1>6. ASSUME NEW o \in OutputIds, Cache'[o] # Null
        PROVE  Cache'[o].data = [output |-> o, inputs |-> Binding]
    <2>1. Cache'[o].data = Evaluate(o)
      BY <1>4, <1>6, FoundInstalled, FindsItself DEF Cache
    <2>2. Binding = [i \in InputIds |-> heap[boundInputs[i]]]
      BY <1>1 DEF Binding
    <2> QED
      BY <2>1, <2>2 DEF Evaluate
  <1> QED
    BY <1>2, <1>3, <1>5, <1>6

----------------------------------------------------------------------------
(* The contract's steps, said of the tables                                *)

LEMMA MapsInit ==
  ASSUME live = FALSE, Binding = NoBinding, Cache = NoCache, generation = 0,
         Returned = "other"
  PROVE  Contract!Init
  BY DEF Contract!Init, Contract!Empty, Binding, NoBinding, Cache, NoCache

LEMMA MapsStutter ==
  ASSUME UNCHANGED <<live, generation, Returned>>, Binding' = Binding, Cache' = Cache
  PROVE  UNCHANGED Contract!vars
  BY DEF Contract!vars, Binding, Cache

LEMMA MapsOther ==
  ASSUME UNCHANGED <<live, generation>>, Binding' = Binding, Cache' = Cache,
         Returned' = "other"
  PROVE  Contract!Next
  <1>1. Contract!Other
    BY DEF Contract!Other, Binding, Cache
  <1> QED
    BY <1>1 DEF Contract!Next

LEMMA MapsRunRefuse ==
  ASSUME UNCHANGED <<live, generation>>, Binding' = Binding, Cache' = Cache,
         Returned' = "refused"
  PROVE  Contract!Next
  <1>1. Contract!RunRefuse
    BY DEF Contract!RunRefuse, Binding, Cache
  <1> QED
    BY <1>1 DEF Contract!Next

LEMMA MapsReset ==
  ASSUME live' = ~live, live \in BOOLEAN, Returned' = "other",
         Binding' = NoBinding, Cache' = NoCache, generation' = 0
  PROVE  Contract!Next
  <1>1. Contract!Reset
    BY DEF Contract!Reset, Contract!Empty, Binding, NoBinding, Cache, NoCache
  <1> QED
    BY <1>1 DEF Contract!Next, Contract!Open, Contract!Close

LEMMA MapsBind ==
  ASSUME live, UNCHANGED <<live, generation>>, Cache' = Cache, Returned' = "other",
         NEW i \in InputIds, Binding'[i] # Null,
         Binding' = [Binding EXCEPT ![i] = Binding'[i]]
  PROVE  Contract!Next
  <1>1. Contract!Bind(i)
    BY DEF Contract!Bind, Binding, Cache
  <1> QED
    BY <1>1 DEF Contract!Next

LEMMA MapsRunOk ==
  ASSUME live, UNCHANGED live, generation' = generation + 1, Returned' \in {"ok", "other"},
         \A i \in InputIds : Binding[i] # Null, Binding' = Binding, Cache' # NoCache,
         \A o \in OutputIds :
            Cache'[o] # Null => Cache'[o].data = [output |-> o, inputs |-> Binding]
  PROVE  Contract!Next
  <1>1. Contract!RunOk
    BY DEF Contract!RunOk, Contract!Empty, Contract!Computed, Binding, Cache, NoCache
  <1> QED
    BY <1>1 DEF Contract!Next

LEMMA MapsRunFail ==
  ASSUME UNCHANGED <<live, generation>>, Binding' = Binding, Cache' = NoCache,
         Returned' \in {"failed", "other"}
  PROVE  Contract!Next
  <1>1. Contract!RunFail
    BY DEF Contract!RunFail, Contract!Empty, Binding, Cache, NoCache
  <1> QED
    BY <1>1 DEF Contract!Next

----------------------------------------------------------------------------
(* The session's calls, as steps of the contract                           *)

Implemented == [Contract!Next]_(Contract!vars)

(* A call that is no run, or a predict still under way, returns nothing of   *)
(* a run's.                                                                 *)
LEMMA ReturnsOther ==
  ASSUME predicting' # Null \/ reply'.op \notin {"run", "long_run"}
  PROVE  Returned' = "other"
  BY DEF Returned

LEMMA StutterImplements ==
  ASSUME Slots, UNCHANGED <<live, generation, boundInputs, runOutputs, heap, predicting, reply>>
  PROVE  Implemented
  <1>1. UNCHANGED Returned
    BY DEF Returned
  <1> QED
    BY <1>1, TablesKept, MapsStutter DEF Implemented

LEMMA OtherImplements ==
  ASSUME Slots, UNCHANGED <<live, generation, boundInputs, runOutputs, heap>>,
         Returned' = "other"
  PROVE  Implemented
  BY TablesKept, MapsOther DEF Implemented

(* create and destroy leave both tables empty.                              *)
LEMMA ClearedImplements ==
  ASSUME live' = ~live, live \in BOOLEAN, Cleared, Returned' = "other"
  PROVE  Implemented
  <1>1. boundInputs' = NoBinding /\ runOutputs' = NoOutputs /\ generation' = 0
    BY DEF Cleared, NoBinding
  <1>2. Binding' = NoBinding
    BY <1>1 DEF Binding, NoBinding
  <1>3. Cache' = NoCache
    BY <1>1, CacheEmptied
  <1> QED
    BY <1>1, <1>2, <1>3, MapsReset DEF Implemented

LEMMA SetInputImplements ==
  ASSUME Slots, CallTypes, BoundTensorsFit, live, UNCHANGED live, UNCHANGED outputs,
         NEW name, NEW shape \in BoundShapes, NEW payload \in Payloads, NEW ok \in BOOLEAN,
         SetInputReturns(name, shape, payload, ok), Returned' = "other"
  PROVE  Implemented
  <1>1. UNCHANGED <<runOutputs, generation>>
    BY DEF outputs
  <1>2. Cache' = Cache
    BY <1>1, SetInputKeeps, CacheKept
  <1>3. CASE ok
    <2>1. PICK i \in InputIds : /\ Binding'[i] # Null
                                /\ Binding' = [Binding EXCEPT ![i] = Binding'[i]]
      BY <1>3, BindReplaces
    <2> QED
      BY <1>1, <1>2, <2>1, MapsBind DEF Implemented
  <1>4. CASE ~ok
    <2>1. UNCHANGED <<boundInputs, heap>>
      BY <1>4, BindFailsHeap DEF SetInputReturns, BindRefused, BindFails, bindings
    <2> QED
      BY <1>1, <2>1, OtherImplements
  <1> QED
    BY <1>3, <1>4

(* What the caller of a run, or of the predict it is part of, is told.      *)
Told(names, ok) ==
  \/ Returned' = "other"
  \/ ok /\ Returned' = "ok"
  \/ ~ok /\ Returned' = IF Len(names) > Len(OutputNames) THEN "refused" ELSE "failed"

LEMMA RunTold ==
  ASSUME NEW names, NEW ok \in BOOLEAN, predicting' = Null, Reply(RunOp(names), ok, Null)
  PROVE  Told(names, ok)
  BY DEF Told, Returned, Reply, RunOp

LEMMA RunImplements ==
  ASSUME UniqueOutputs, Slots, live, UNCHANGED live, UNCHANGED bindings,
         NEW names \in Seq(STRING), NEW ok \in BOOLEAN, RunReturns(names, ok),
         Told(names, ok)
  PROVE  Implemented
  <1>1. UNCHANGED boundInputs
    BY DEF bindings
  <1>5. Len(names) \in Nat /\ Len(OutputNames) \in Nat
    BY SessionAssumption, LenProperties
  <1>2. CASE ok /\ RunSucceeds(names)
    <2>1. generation' = generation + 1
      BY <1>2 DEF RunSucceeds, Epoch
    <2>2. Returned' \in {"ok", "other"}
      BY <1>2 DEF Told
    <2> QED
      BY <1>1, <1>2, <2>1, <2>2, RunFills, MapsRunOk DEF Implemented
  <1>3. CASE ~ok /\ RunFails(names)
    <2>1. UNCHANGED generation /\ runOutputs' = NoOutputs
      BY <1>3 DEF RunFails
    <2>2. Binding' = Binding
      BY <1>1, <1>3, RunFailsSlots, BindingKept
    <2>3. Returned' \in {"failed", "other"}
      BY <1>3, <1>5 DEF Told, RunFails
    <2> QED
      BY <2>1, <2>2, <2>3, CacheEmptied, MapsRunFail DEF Implemented
  <1>4. CASE ~ok /\ RunRefused(names)
    <2>1. UNCHANGED <<runOutputs, generation, heap>>
      BY <1>4 DEF RunRefused, outputs
    <2>2. Returned' \in {"refused", "other"}
      BY <1>4, <1>5 DEF Told, RunRefused
    <2> QED
      BY <1>1, <2>1, <2>2, OtherImplements, TablesKept, MapsRunRefuse DEF Implemented
  <1> QED
    BY <1>2, <1>3, <1>4 DEF RunReturns

LEMMA PredictShapedReturnsOther ==
  ASSUME NEW payload \in Payloads, NEW shape, NEW cap \in Caps, NEW ok \in BOOLEAN,
         PredictShaped(payload, shape, cap, ok)
  PROVE  Returned' = "other"
  <1>1. predicting' # Null \/ reply'.op = "predict"
    BY SessionAssumption DEF PredictShaped, PredictFails, Reply, Predictions
  <1> QED
    BY <1>1, ReturnsOther

LEMMA PredictRunReturnsOther ==
  ASSUME predicting \in Predictions \cup {Null}, NEW ok \in BOOLEAN, PredictRun(ok)
  PROVE  Returned' = "other"
  <1>1. CASE ok
    <2>1. predicting' = [predicting EXCEPT !.at = "read"] /\ predicting \in Predictions
      BY <1>1 DEF PredictRun, At
    <2>2. predicting' # Null
      BY <2>1, SessionAssumption DEF Predictions
    <2> QED
      BY <2>2, ReturnsOther
  <1>2. CASE ~ok
    BY <1>2, ReturnsOther DEF PredictRun, PredictFails, Reply
  <1> QED
    BY <1>1, <1>2

LEMMA StepImplements ==
  ASSUME UniqueOutputs, IInv, [Next]_vars
  PROVE  Implemented
  <1>1. Slots /\ CallTypes /\ BoundTensorsFit /\ live \in BOOLEAN
        /\ (predicting # Null => live)
    BY IInvParts DEF Rest, RestTypes, Presence
  <1>2. ASSUME UNCHANGED <<session, bindings, outputs, heap>>, Returned' = "other"
        PROVE  Implemented
    BY <1>1, <1>2, OtherImplements DEF session, bindings, outputs
  <1>3. ASSUME NEW profiled \in ProfileModes, Create(profiled) PROVE Implemented
    BY <1>1, <1>3, ClearedImplements, ReturnsOther DEF Create, Reply
  <1>4. CASE CreateFails
    BY <1>2, <1>4, ReturnsOther DEF CreateFails, Reply
  <1>5. CASE Destroy
    BY <1>1, <1>5, ClearedImplements, ReturnsOther DEF Destroy, Idle, Reply
  <1>6. ASSUME NEW ok \in BOOLEAN, EndProfiling(ok) PROVE Implemented
    <2>1. Returned' = "other"
      BY <1>6, ReturnsOther DEF EndProfiling, Reply
    <2> QED
      BY <1>1, <1>6, <2>1, OtherImplements DEF EndProfiling, bindings, outputs
  <1>7. ASSUME NEW name \in AskedNames, NEW shape \in AskedShapes,
               NEW payload \in Payloads, NEW ok \in BOOLEAN,
               SetInput(name, shape, payload, ok)
        PROVE  Implemented
    <2>1. Returned' = "other"
      BY <1>7, ReturnsOther DEF SetInput, Reply
    <2> QED
      BY <1>1, <1>7, <2>1, SetInputImplements DEF SetInput, Idle, session, BoundShapes
  <1>8. ASSUME NEW names \in AskedRuns, NEW ok \in BOOLEAN, Run(names, ok)
        PROVE  Implemented
    <2>1. Told(names, ok)
      BY <1>8, RunTold DEF Run, Idle
    <2> QED
      BY <1>1, <1>8, <2>1, RunImplements, SessionAssumption DEF Run, Idle, session
  <1>9. ASSUME NEW payload \in Payloads, PredictRefused(payload) PROVE Implemented
    BY <1>2, <1>9, ReturnsOther DEF PredictRefused, PredictFails, Reply
  <1>10. ASSUME NEW ok \in BOOLEAN, PredictRun(ok) PROVE Implemented
    <2>1. <<OutputNames[1]>> \in Seq(STRING)
      BY Domains, SessionAssumption, ElementOfSeq, LenProperties DEF OutputIds
    <2>2. predicting \in Predictions \cup {Null}
      BY IInvParts DEF Rest, RestTypes
    <2>3. Returned' = "other"
      BY <1>10, <2>2, PredictRunReturnsOther
    <2> QED
      BY <1>1, <1>10, <2>1, <2>3, RunImplements DEF PredictRun, At, session, Told
  <1>11. ASSUME NEW ok \in BOOLEAN, PredictRead(ok) PROVE Implemented
    BY <1>2, <1>11, ReturnsOther DEF PredictRead, PredictFails, Reply
  <1>12. ASSUME NEW payload \in Payloads, NEW cap \in Caps, NEW ok \in BOOLEAN,
                NEW shape \in BoundShapes, PredictShaped(payload, shape, cap, ok)
         PROVE  Implemented
    <2>1. Returned' = "other"
      BY <1>12, PredictShapedReturnsOther
    <2> QED
      BY <1>1, <1>12, <2>1, SetInputImplements DEF PredictShaped, Idle, session
  <1>13. ASSUME NEW payload \in Payloads, NEW cap \in Caps, NEW ok \in BOOLEAN,
                Predict(payload, cap, ok)
         PROVE  Implemented
    <2> DEFINE shape == ConcreteShape(InputDims[1])
    <2>1. shape \in BoundShapes
      BY Domains DEF BoundShapes
    <2>2. PredictShaped(payload, shape, cap, ok)
      BY <1>13 DEF Predict
    <2> HIDE DEF shape
    <2> QED
      BY <1>12, <2>1, <2>2
  <1>14. CASE UNCHANGED vars
    BY <1>1, <1>14, StutterImplements DEF vars, session, bindings, outputs
  <1> QED
    <2>1. \A shape \in AskedShapes : shape \in BoundShapes
      BY DEF BoundShapes
    <2> QED
      BY <1>3, <1>4, <1>5, <1>6, <1>7, <1>8, <1>9, <1>10, <1>11, <1>12, <1>13, <1>14, <2>1
      DEF Next, NamedNext, PredictNext

LEMMA InitImplements == Init => Contract!Init
  <1> SUFFICES ASSUME Init PROVE Contract!Init
    OBVIOUS
  <1>1. /\ live = FALSE /\ generation = 0 /\ runOutputs = NoOutputs
        /\ boundInputs = NoBinding
    BY DEF Init, NoBinding
  <1>2. Binding = NoBinding
    BY <1>1 DEF Binding, NoBinding
  <1>3. Cache = NoCache
    BY <1>1, NothingFound DEF Cache, NoCache, OutputOf
  <1>4. Returned = "other"
    BY DEF Init, Returned
  <1> QED
    BY <1>1, <1>2, <1>3, <1>4, MapsInit

(* A session keeps the promises of README.md on bindings, outputs and       *)
(* generations, through reuse in place, replacement, release and every      *)
(* failure, if no two outputs of the model have one name.                   *)
THEOREM SessionImplementsContract == UniqueOutputs => (Spec => ImplementsContract)
  <1> SUFFICES ASSUME UniqueOutputs PROVE Spec => ImplementsContract
    OBVIOUS
  <1>1. IInv /\ [Next]_vars => [Contract!Next]_(Contract!vars)
    BY StepImplements DEF Implemented
  <1> QED
    BY Invariance, InitImplements, <1>1, PTL DEF Spec, ImplementsContract, Contract!Spec

----------------------------------------------------------------------------
(* OnnxLoader *)

HeapEmpty == \A v \in OrtValues : heap[v] = Null

(* A predict() under way was given one batch, of the only input there is.   *)
ExactPlace ==
  exact => /\ predicting # Null /\ Len(InputNames) = 1
           /\ predicting.payload.len = InputSize

(* What makes the promise on replaced models inductive.                     *)
EmptyAfterLoad == predicting = Null /\ reply.op = "load_model" => HeapEmpty

LoaderInv == Core /\ PredictPlace /\ ExactPlace /\ EmptyAfterLoad

----------------------------------------------------------------------------
(* Steps *)

(* The session is gone, with everything it held.                            *)
LEMMA ReleasedCore ==
  ASSUME Core, predicting = Null, UNCHANGED predicting,
         heap' = Released, Cleared, live' \in BOOLEAN
  PROVE  Core' /\ PredictPlace' /\ HeapEmpty'
  <1>1. heap' = [v \in OrtValues |-> Null]
    BY DEF Core, Slots, SlotTypes, Ownership, HandlesOwned, Released, ReleaseValues
  <1>2. boundInputs' = [i \in InputIds |-> Null] /\ runOutputs' = <<>>
    BY DEF Cleared, NoOutputs
  <1>3. Slots' /\ BoundTensorsFit'
    BY <1>1, <1>2, EmptySlotsNext
  <1>4. CallTypes'
    BY DEF Cleared, CallTypes, ErrorKinds
  <1>5. Presence'
    BY <1>2 DEF Presence
  <1> QED
    BY <1>1, <1>3, <1>4, <1>5, NotUnderWay DEF Core, HeapEmpty

(* A call the loader turns away itself touches nothing.                     *)
LEMMA IgnoredKeeps ==
  ASSUME LoaderInv, NEW op, op # "load_model", Ignored(op)
  PROVE  LoaderInv'
  <1>1. /\ predicting = Null /\ predicting' = Null /\ exact' = exact
        /\ UNCHANGED <<live, bindings, outputs, heap, lastError>>
        /\ reply'.op = op
    BY DEF Ignored, calls, session, Reply
  <1>2. lastError' \in ErrorKinds
    BY <1>1 DEF LoaderInv, Core, CallTypes
  <1>3. Core' /\ PredictPlace'
    BY <1>1, <1>2, CoreKept, NotUnderWay DEF LoaderInv
  <1>4. ExactPlace' /\ EmptyAfterLoad'
    BY <1>1 DEF LoaderInv, ExactPlace, EmptyAfterLoad
  <1> QED
    BY <1>3, <1>4 DEF LoaderInv

LEMMA LoadModelKeeps ==
  ASSUME LoaderInv, (\E profiled \in ProfileModes : LoadModel(profiled)) \/ LoadModelFails
  PROVE  LoaderInv'
  <1>1. /\ predicting = Null /\ predicting' = Null /\ exact' = exact
        /\ heap' = Released /\ Cleared /\ live' \in BOOLEAN
    BY DEF LoadModel, LoadModelFails
  <1>2. Core' /\ PredictPlace' /\ HeapEmpty'
    BY <1>1, ReleasedCore DEF LoaderInv
  <1>3. ExactPlace' /\ EmptyAfterLoad'
    BY <1>1, <1>2 DEF LoaderInv, ExactPlace, EmptyAfterLoad
  <1> QED
    BY <1>2, <1>3 DEF LoaderInv

LEMMA UnloadModelKeeps ==
  ASSUME LoaderInv, UnloadModel
  PROVE  LoaderInv'
  <1>1. /\ exact' = exact /\ reply'.op = "destroy"
    BY DEF UnloadModel, Destroy, Reply
  <1>2. Core' /\ PredictPlace' /\ UNCHANGED predicting
    <2>1. CASE live
      <3>1. /\ predicting = Null /\ UNCHANGED predicting
            /\ heap' = Released /\ Cleared /\ live' \in BOOLEAN
        BY <2>1 DEF UnloadModel, Destroy, Idle, Released
      <3> QED
        BY <3>1, ReleasedCore DEF LoaderInv
    <2>2. CASE ~live
      <3>1. /\ predicting = Null /\ UNCHANGED <<live, bindings, outputs, heap, lastError, predicting>>
        BY <2>2 DEF UnloadModel, calls, session, LoaderInv, Core, Presence
      <3>2. lastError' \in ErrorKinds
        BY <3>1 DEF LoaderInv, Core, CallTypes
      <3> QED
        BY <3>1, <3>2, CoreKept, NotUnderWay DEF LoaderInv
    <2> QED
      BY <2>1, <2>2
  <1>3. ExactPlace' /\ EmptyAfterLoad'
    BY <1>1, <1>2 DEF LoaderInv, ExactPlace, EmptyAfterLoad
  <1> QED
    BY <1>2, <1>3 DEF LoaderInv

LEMMA EndProfilingCallKeeps ==
  ASSUME LoaderInv, NEW ok \in BOOLEAN, EndProfilingCall(ok)
  PROVE  LoaderInv'
  <1>1. CASE live
    <2>1. EndProfiling(ok) /\ exact' = exact
      BY <1>1 DEF EndProfilingCall
    <2>2. predicting = Null /\ predicting' = Null /\ reply'.op = "end_profiling"
      BY <2>1 DEF EndProfiling, Idle, Reply
    <2> QED
      BY <2>1, <2>2, EndProfilingCore DEF LoaderInv, ExactPlace, EmptyAfterLoad
  <1>2. CASE ~live
    BY <1>2, IgnoredKeeps DEF EndProfilingCall
  <1> QED
    BY <1>1, <1>2

LEMMA SetInputCallKeeps ==
  ASSUME LoaderInv, NEW name \in AskedNames, NEW shape \in AskedShapes,
         NEW payload \in Payloads, NEW ok \in BOOLEAN,
         SetInputCall(name, shape, payload, ok)
  PROVE  LoaderInv'
  <1>1. CASE SetInput(name, shape, payload, ok) /\ UNCHANGED exact
    <2>1. /\ live /\ UNCHANGED live /\ UNCHANGED outputs
          /\ SetInputReturns(name, shape, payload, ok)
          /\ predicting = Null /\ predicting' = Null /\ reply'.op = "set_input"
      BY <1>1 DEF SetInput, Idle, session, Reply
    <2>2. Core' /\ PredictPlace'
      BY <2>1, SetInputCore, NotUnderWay DEF LoaderInv, BoundShapes
    <2> QED
      BY <1>1, <2>1, <2>2 DEF LoaderInv, ExactPlace, EmptyAfterLoad
  <1>2. CASE Ignored(SetInputOp(shape))
    BY <1>2, IgnoredKeeps DEF SetInputOp
  <1> QED
    BY <1>1, <1>2 DEF SetInputCall

LEMMA RunCallKeeps ==
  ASSUME LoaderInv, NEW names \in AskedRuns, NEW ok \in BOOLEAN, RunCall(names, ok)
  PROVE  LoaderInv'
  <1>1. CASE Run(names, ok) /\ UNCHANGED exact
    <2>1. /\ live /\ UNCHANGED live /\ UNCHANGED bindings
          /\ RunReturns(names, ok)
          /\ predicting = Null /\ predicting' = Null /\ reply'.op \in {"run", "long_run"}
      BY <1>1 DEF Run, Idle, session, Reply, RunOp
    <2>2. Core' /\ PredictPlace'
      BY <2>1, RunCore, NotUnderWay, SessionAssumption DEF LoaderInv
    <2> QED
      BY <1>1, <2>1, <2>2 DEF LoaderInv, ExactPlace, EmptyAfterLoad
  <1>2. CASE Ignored(RunOp(names))
    BY <1>2, IgnoredKeeps DEF RunOp
  <1> QED
    BY <1>1, <1>2 DEF RunCall

LEMMA PredictCallKeeps ==
  ASSUME LoaderInv, NEW payload \in Payloads, NEW ok \in BOOLEAN, PredictCall(payload, ok)
  PROVE  LoaderInv'
  <1>1. CASE Predictable(payload)
    <2> DEFINE shape == ConcreteShape(InputDims[1])
    <2>1. /\ PredictShaped(payload, shape, OutputSize, ok)
          /\ exact' = (predicting' # Null)
      BY <1>1 DEF PredictCall, Predict
    <2>2. shape \in BoundShapes /\ OutputSize \in Caps
      BY <1>1, Domains, RoomAssumption DEF BoundShapes, Predictable
    <2> HIDE DEF shape
    <2>3. Core' /\ PredictPlace'
      BY <2>1, <2>2, PredictShapedCore DEF LoaderInv
    <2>4. \/ predicting' = Null /\ reply'.op = "predict"
          \/ predicting' = [at |-> "run", payload |-> payload, cap |-> OutputSize]
             /\ predicting' # Null
      BY <2>1, <2>2, SessionAssumption DEF PredictShaped, PredictFails, Reply, Predictions
    <2>5. predicting' = Null \/ predicting'.payload = payload
      BY <2>4
    <2>6. ExactPlace'
      <3>1. InputSize' = InputSize
        BY DEF InputSize
      <3>2. Len(InputNames) = 1 /\ payload.len = InputSize
        BY <1>1 DEF Predictable
      <3> QED
        BY <2>1, <2>5, <3>1, <3>2 DEF ExactPlace
    <2>7. EmptyAfterLoad'
      BY <2>4 DEF EmptyAfterLoad
    <2> QED
      BY <2>3, <2>6, <2>7 DEF LoaderInv
  <1>2. CASE ~Predictable(payload)
    BY <1>2, IgnoredKeeps DEF PredictCall
  <1> QED
    BY <1>1, <1>2

LEMMA PredictShapedCallKeeps ==
  ASSUME LoaderInv, NEW payload \in Payloads, NEW shape \in AskedShapes,
         NEW ok \in BOOLEAN, PredictShapedCall(payload, shape, ok)
  PROVE  LoaderInv'
  <1>1. CASE ShapedPredictable(payload, shape)
    <2> DEFINE cap == PredictCap(payload.len)
    <2>1. /\ PredictShaped(payload, shape, cap, ok) /\ exact' = FALSE
      BY <1>1 DEF PredictShapedCall
    <2>2. shape \in BoundShapes /\ cap \in Caps
      BY RoomAssumption DEF BoundShapes
    <2> HIDE DEF cap
    <2>3. Core' /\ PredictPlace'
      BY <2>1, <2>2, PredictShapedCore DEF LoaderInv
    <2>4. \/ predicting' = Null /\ reply'.op = "predict"
          \/ predicting' # Null
      BY <2>1, <2>2, SessionAssumption DEF PredictShaped, PredictFails, Reply, Predictions
    <2> QED
      BY <2>1, <2>3, <2>4 DEF LoaderInv, ExactPlace, EmptyAfterLoad
  <1>2. CASE ~ShapedPredictable(payload, shape)
    BY <1>2, IgnoredKeeps DEF PredictShapedCall
  <1> QED
    BY <1>1, <1>2

LEMMA PredictRunCallKeeps ==
  ASSUME LoaderInv, NEW ok \in BOOLEAN, PredictRunCall(ok)
  PROVE  LoaderInv'
  <1>1. Core' /\ PredictPlace'
    BY PredictRunCore DEF LoaderInv, PredictRunCall
  <1>2. exact' = (exact /\ ok)
    BY DEF PredictRunCall
  <1>3. CASE ok
    <2>1. predicting' = [predicting EXCEPT !.at = "read"] /\ predicting \in Predictions
      BY <1>3 DEF PredictRunCall, PredictRun, At, LoaderInv, Core
    <2>2. predicting' # Null /\ predicting'.payload = predicting.payload
      BY <2>1, SessionAssumption DEF Predictions
    <2> QED
      BY <1>1, <1>2, <2>2 DEF LoaderInv, ExactPlace, EmptyAfterLoad
  <1>4. CASE ~ok
    <2>1. predicting' = Null /\ reply'.op = "predict"
      BY <1>4 DEF PredictRunCall, PredictRun, PredictFails, Reply
    <2> QED
      BY <1>1, <1>2, <1>4, <2>1 DEF LoaderInv, ExactPlace, EmptyAfterLoad
  <1> QED
    BY <1>3, <1>4

LEMMA PredictReadCallKeeps ==
  ASSUME LoaderInv, NEW ok \in BOOLEAN, PredictReadCall(ok)
  PROVE  LoaderInv'
  <1>1. Core' /\ PredictPlace'
    BY PredictReadCore DEF LoaderInv, PredictReadCall
  <1>2. exact' = FALSE /\ reply'.op = "predict"
    BY DEF PredictReadCall, PredictRead, PredictFails, Reply
  <1> QED
    BY <1>1, <1>2 DEF LoaderInv, ExactPlace, EmptyAfterLoad

LEMMA LoaderStutters ==
  ASSUME LoaderInv, UNCHANGED loaderVars
  PROVE  LoaderInv'
  <1>1. UNCHANGED <<live, bindings, outputs, heap, lastError, predicting, reply, exact>>
    BY DEF loaderVars, vars, session
  <1>2. UNCHANGED <<boundInputs, runOutputs>>
    BY <1>1 DEF bindings, outputs
  <1>3. Core'
    <2>1. lastError' \in ErrorKinds /\ predicting' \in Predictions \cup {Null}
          /\ (predicting' # Null => live)
      BY <1>1 DEF LoaderInv, Core, CallTypes, Presence
    <2> QED
      BY <1>1, <2>1, CoreKept DEF LoaderInv
  <1>4. PredictPlace'
    <2>1. OutputOf(OutputNames[1])' = OutputOf(OutputNames[1])
      BY <1>1, <1>2 DEF OutputOf, HasOutput, FindRunOutput
    <2> QED
      BY <1>1, <1>2, <2>1 DEF LoaderInv, PredictPlace, At, InputBound, AnswerReady
  <1>5. ExactPlace' /\ EmptyAfterLoad'
    BY <1>1 DEF LoaderInv, ExactPlace, EmptyAfterLoad, HeapEmpty
  <1> QED
    BY <1>3, <1>4, <1>5 DEF LoaderInv

LEMMA LoaderStep == LoaderInv /\ [LoaderNext]_loaderVars => LoaderInv'
  BY LoadModelKeeps, UnloadModelKeeps, EndProfilingCallKeeps, SetInputCallKeeps,
     RunCallKeeps, PredictCallKeeps, PredictShapedCallKeeps, PredictRunCallKeeps,
     PredictReadCallKeeps, LoaderStutters DEF LoaderNext

LEMMA LoaderStart == LoaderInit => LoaderInv
  <1> SUFFICES ASSUME LoaderInit PROVE LoaderInv
    OBVIOUS
  <1>1. Init /\ exact = FALSE
    BY DEF LoaderInit
  <1>2. IInv
    BY <1>1, InitIInv
  <1>3. Core
    BY <1>2, IInvParts DEF Core, Rest, RestTypes
  <1>4. PredictPlace /\ ExactPlace /\ EmptyAfterLoad
    BY <1>1 DEF Init, PredictPlace, At, ExactPlace, EmptyAfterLoad
  <1> QED
    BY <1>3, <1>4 DEF LoaderInv

----------------------------------------------------------------------------
(* The theorems                                                            *)

(* Whatever is loaded, unloaded and called in whatever order, the session's *)
(* tensors stay owned and typed, and predict finds what it counts on.       *)
THEOREM LoaderInvariance == LoaderSpec => []LoaderInv
  BY LoaderStart, LoaderStep, PTL DEF LoaderSpec

(* Replacing, failing to replace or unloading a model leaves no tensor of   *)
(* it behind, and so nothing of it that a getter could return.              *)
THEOREM NothingEverOutlivesItsModel == LoaderSpec => []NothingOutlivesItsModel
  <1>1. LoaderInv => NothingOutlivesItsModel
    <2> SUFFICES ASSUME LoaderInv PROVE NothingOutlivesItsModel
      OBVIOUS
    <2>1. ~live => HeapEmpty
      <3> SUFFICES ASSUME ~live PROVE HeapEmpty
        OBVIOUS
      <3>1. BoundHandles = {} /\ OutputHandles = {}
        BY DEF LoaderInv, Core, Presence, BoundHandles, OutputHandles
      <3> QED
        BY <3>1 DEF LoaderInv, Core, Slots, Ownership, HandlesOwned, HeapEmpty
    <2> QED
      BY <2>1 DEF LoaderInv, EmptyAfterLoad, HeapEmpty, NothingOutlivesItsModel
  <1> QED
    BY LoaderInvariance, <1>1, PTL

----------------------------------------------------------------------------
(* Errors *)

(* What set_input and run leave as the session's error.                     *)
LEMMA SetInputReports ==
  ASSUME NEW name, NEW shape, NEW payload, NEW ok \in BOOLEAN,
         SetInput(name, shape, payload, ok)
  PROVE  live' /\ reply'.ok = ok /\ (lastError' # NoError <=> ~ok)
  BY DEF SetInput, Idle, session, Reply, SetInputReturns, BindInPlace, BindFresh,
     BindRefused, BindFails, NoError

LEMMA RunReports ==
  ASSUME NEW names, NEW ok \in BOOLEAN, Run(names, ok)
  PROVE  live' /\ reply'.ok = ok /\ (lastError' # NoError <=> ~ok)
  BY DEF Run, Idle, session, Reply, RunReturns, RunSucceeds, RunRefused, RunFails, NoError

LEMMA ErrorStep ==
  ASSUME LoaderInv, ErrorReportsLatestCall, [LoaderNext]_loaderVars
  PROVE  ErrorReportsLatestCall'
  <1>1. ASSUME NEW op \in {"end_profiling", "predict"}, reply'.op = op
        PROVE  ErrorReportsLatestCall'
    BY <1>1 DEF ErrorReportsLatestCall
  <1>2. CASE (\E profiled \in ProfileModes : LoadModel(profiled)) \/ LoadModelFails
    BY <1>2 DEF LoadModel, LoadModelFails, Cleared, Reply, NoError, GetLastError,
      ErrorReportsLatestCall
  <1>3. CASE UnloadModel
    BY <1>3 DEF UnloadModel, Destroy, Reply, ErrorReportsLatestCall
  <1>4. ASSUME NEW ok \in BOOLEAN, EndProfilingCall(ok) PROVE ErrorReportsLatestCall'
    BY <1>1, <1>4 DEF EndProfilingCall, EndProfiling, Ignored, Reply
  <1>5. ASSUME NEW name \in AskedNames, NEW shape \in AskedShapes,
               NEW payload \in Payloads, NEW ok \in BOOLEAN,
               SetInputCall(name, shape, payload, ok)
        PROVE  ErrorReportsLatestCall'
    <2>1. CASE SetInput(name, shape, payload, ok)
      BY <2>1, SetInputReports DEF ErrorReportsLatestCall, GetLastError
    <2>2. CASE ~(live /\ Len(shape) <= MaxRank) /\ Ignored(SetInputOp(shape))
      <3>1. reply'.op = SetInputOp(shape) /\ live' = live
        BY <2>2 DEF Ignored, Reply, calls, session
      <3>2. live' => reply'.op = "deep_set_input"
        BY <2>2, <3>1 DEF SetInputOp
      <3> QED
        BY <3>1, <3>2 DEF ErrorReportsLatestCall, SetInputOp
    <2> QED
      BY <1>5, <2>1, <2>2 DEF SetInputCall
  <1>6. ASSUME NEW names \in AskedRuns, NEW ok \in BOOLEAN, RunCall(names, ok)
        PROVE  ErrorReportsLatestCall'
    <2>1. CASE Run(names, ok)
      BY <2>1, RunReports DEF ErrorReportsLatestCall, GetLastError
    <2>2. CASE ~(live /\ Len(names) <= MaxNames) /\ Ignored(RunOp(names))
      <3>1. reply'.op = RunOp(names) /\ live' = live
        BY <2>2 DEF Ignored, Reply, calls, session
      <3>2. live' => Len(names) > Len(OutputNames)
        <4>1. names \in Seq(STRING) /\ OutputNames \in Seq(STRING)
          BY SessionAssumption
        <4> QED
          BY <2>2, <3>1, <4>1, LoaderAssumption
      <3>3. live' => reply'.op = "long_run"
        BY <3>1, <3>2 DEF RunOp
      <3> QED
        BY <3>1, <3>3 DEF ErrorReportsLatestCall, RunOp
    <2> QED
      BY <1>6, <2>1, <2>2 DEF RunCall
  <1>7. ASSUME NEW payload \in Payloads, NEW ok \in BOOLEAN, PredictCall(payload, ok)
        PROVE  ErrorReportsLatestCall'
    <2>1. CASE Predictable(payload)
      <3> DEFINE shape == ConcreteShape(InputDims[1])
      <3>1. PredictShaped(payload, shape, OutputSize, ok) /\ OutputSize \in Caps
        BY <1>7, <2>1, RoomAssumption DEF PredictCall, Predict, Predictable
      <3> HIDE DEF shape
      <3>2. predicting' # Null \/ reply'.op = "predict"
        BY <3>1, SessionAssumption DEF PredictShaped, PredictFails, Reply, Predictions
      <3> QED
        BY <3>2 DEF ErrorReportsLatestCall
    <2>2. CASE ~Predictable(payload)
      BY <1>1, <1>7, <2>2 DEF PredictCall, Ignored, Reply
    <2> QED
      BY <2>1, <2>2
  <1>8. ASSUME NEW payload \in Payloads, NEW shape \in AskedShapes, NEW ok \in BOOLEAN,
               PredictShapedCall(payload, shape, ok)
        PROVE  ErrorReportsLatestCall'
    <2>1. CASE ShapedPredictable(payload, shape)
      <3> DEFINE cap == PredictCap(payload.len)
      <3>1. PredictShaped(payload, shape, cap, ok) /\ cap \in Caps
        BY <1>8, <2>1, RoomAssumption DEF PredictShapedCall
      <3> HIDE DEF cap
      <3>2. predicting' # Null \/ reply'.op = "predict"
        BY <3>1, SessionAssumption DEF PredictShaped, PredictFails, Reply, Predictions
      <3> QED
        BY <3>2 DEF ErrorReportsLatestCall
    <2>2. CASE ~ShapedPredictable(payload, shape)
      BY <1>1, <1>8, <2>2 DEF PredictShapedCall, Ignored, Reply
    <2> QED
      BY <2>1, <2>2
  <1>9. ASSUME NEW ok \in BOOLEAN, PredictRunCall(ok) PROVE ErrorReportsLatestCall'
    <2>1. CASE ok
      <3>1. predicting' = [predicting EXCEPT !.at = "read"] /\ predicting \in Predictions
        BY <1>9, <2>1 DEF PredictRunCall, PredictRun, At, LoaderInv, Core
      <3>2. predicting' # Null
        BY <3>1, SessionAssumption DEF Predictions
      <3> QED
        BY <3>2 DEF ErrorReportsLatestCall
    <2>2. CASE ~ok
      BY <1>1, <1>9, <2>2 DEF PredictRunCall, PredictRun, PredictFails, Reply
    <2> QED
      BY <2>1, <2>2
  <1>10. ASSUME NEW ok \in BOOLEAN, PredictReadCall(ok) PROVE ErrorReportsLatestCall'
    BY <1>1, <1>10 DEF PredictReadCall, PredictRead, PredictFails, Reply
  <1>11. CASE UNCHANGED loaderVars
    BY <1>11 DEF loaderVars, vars, session, ErrorReportsLatestCall, GetLastError
  <1> QED
    BY <1>2, <1>3, <1>4, <1>5, <1>6, <1>7, <1>8, <1>9, <1>10, <1>11 DEF LoaderNext

(* After a load_model, and after a set_input or a run on a model with no    *)
(* more dimensions and names than there is room for, get_last_error() is    *)
(* empty exactly when the call succeeded, across replacements of the        *)
(* session and the two places an error is kept.                             *)
THEOREM ErrorsReportTheLatestCall == LoaderSpec => []ErrorReportsLatestCall
  <1>1. LoaderInit => ErrorReportsLatestCall
    BY DEF LoaderInit, Init, ErrorReportsLatestCall
  <1>2. LoaderInv /\ ErrorReportsLatestCall /\ [LoaderNext]_loaderVars => ErrorReportsLatestCall'
    BY ErrorStep
  <1> QED
    BY LoaderInvariance, <1>1, <1>2, PTL DEF LoaderSpec

----------------------------------------------------------------------------
(* predict() *)

(* The step that hands the answer of a predict() to the script.             *)
Complete ==
  exact /\ ~exact' /\ predicting' = Null /\ reply'.ok =>
    /\ Elements(reply'.answer.shape) = OutputSize
    /\ \A i \in InputIds : reply'.answer.data.inputs[i].data.len = InputSize

LEMMA StepCompletes ==
  ASSUME LoaderInv, LoaderNext
  PROVE  Complete
  <1> SUFFICES ASSUME exact, ~exact', predicting' = Null, reply'.ok
               PROVE  /\ Elements(reply'.answer.shape) = OutputSize
                      /\ \A i \in InputIds : reply'.answer.data.inputs[i].data.len = InputSize
    BY DEF Complete
  <1>1. predicting # Null /\ Len(InputNames) = 1 /\ predicting.payload.len = InputSize
    BY DEF LoaderInv, ExactPlace
  <1>2. \E ok \in BOOLEAN : PredictRunCall(ok) \/ PredictReadCall(ok)
    BY <1>1 DEF LoaderNext, LoadModel, LoadModelFails, UnloadModel, Destroy, Idle,
      EndProfilingCall, EndProfiling, SetInputCall, SetInput, RunCall, Run,
      PredictCall, Predict, PredictShapedCall, PredictShaped, Ignored
  <1>3. PredictReadCall(TRUE)
    <2>1. ASSUME NEW ok \in BOOLEAN, PredictRunCall(ok) PROVE FALSE
      BY <2>1 DEF PredictRunCall, PredictRun, PredictFails, Reply
    <2>2. PICK ok \in BOOLEAN : PredictReadCall(ok)
      BY <1>2, <2>1
    <2>3. ok
      BY <2>2 DEF PredictReadCall, PredictRead, PredictFails, Reply
    <2> QED
      BY <2>2, <2>3
  <1>4. Elements(reply'.answer.shape) = OutputSize
    BY <1>3 DEF PredictReadCall
  <1>5. reply'.answer.data.inputs[1].data = predicting.payload
    BY <1>3, PredictReadAnswers DEF PredictReadCall, LoaderInv
  <1>6. \A i \in InputIds : i = 1
    BY <1>1, Domains
  <1> QED
    BY <1>1, <1>4, <1>5, <1>6

(* predict() hands out as many elements as get_output_size() announced,     *)
(* computed from one whole batch.                                           *)
THEOREM PredictionsAlwaysComplete == LoaderSpec => PredictionComplete
  <1>1. LoaderInv /\ [LoaderNext]_loaderVars => [Complete]_loaderVars
    BY StepCompletes
  <1>2. [Complete]_loaderVars =>
          [exact /\ ~exact' /\ predicting' = Null /\ reply'.ok =>
             /\ Elements(reply'.answer.shape) = OutputSize
             /\ \A i \in InputIds : reply'.answer.data.inputs[i].data.len = InputSize]_loaderVars
    BY DEF Complete
  <1> QED
    BY LoaderInvariance, <1>1, <1>2, PTL DEF LoaderSpec, PredictionComplete

----------------------------------------------------------------------------
(* The promises of a session, kept through the methods of OnnxLoader       *)

(* Of a session that OnnxLoader creates, replaces and drops: every live     *)
(* tensor is in one slot, every bound tensor is filled exactly, and every   *)
(* getter answers with the output of the name it was asked for.             *)
THEOREM LoaderKeepsSessionSound ==
  LoaderSpec => [](Ownership /\ BoundTensorsFit /\ GettersAnswerByName)
  <1>1. LoaderInv => Ownership /\ BoundTensorsFit /\ GettersAnswerByName
    BY SlotsAnswerByName DEF LoaderInv, Core, Slots
  <1> QED
    BY LoaderInvariance, <1>1, PTL

(* While a predict is about to read, only its own step is left to OnnxLoader *)
(* too.                                                                      *)
LEMMA LoaderStepAnswersOwnInput ==
  ASSUME LoaderInv, LoaderNext
  PROVE  AnswersOwnInput
  <1> SUFFICES ASSUME At("read"), predicting' = Null, reply'.ok
               PROVE  /\ reply'.answer.data.output = 1
                      /\ reply'.answer.data.inputs[1].data = predicting.payload
    BY DEF AnswersOwnInput
  <1>1. predicting # Null /\ ~At("run") /\ live
    BY DEF At, LoaderInv, Core, Presence
  <1>2. \E ok \in BOOLEAN : PredictReadCall(ok)
    BY <1>1 DEF LoaderNext, LoadModel, LoadModelFails, UnloadModel, Destroy, Idle,
      EndProfilingCall, EndProfiling, SetInputCall, SetInput, RunCall, Run,
      PredictCall, Predict, PredictShapedCall, PredictShaped, Ignored,
      PredictRunCall, PredictRun
  <1>3. PredictRead(TRUE)
    BY <1>2 DEF PredictReadCall, PredictRead, PredictFails, Reply
  <1> QED
    BY <1>3, PredictReadAnswers DEF LoaderInv

(* The script's predict and predict_shaped, when they hand out anything,    *)
(* hand out the first output computed from the input they were given,       *)
(* across loads and unloads.                                                *)
THEOREM LoaderPredictAnswersItsOwnInput == LoaderSpec => PredictAnswersItsOwnInput
  <1>1. LoaderInv /\ [LoaderNext]_loaderVars => [AnswersOwnInput]_vars
    BY LoaderStepAnswersOwnInput DEF loaderVars
  <1>2. [AnswersOwnInput]_vars =>
          [At("read") /\ predicting' = Null /\ reply'.ok =>
             /\ reply'.answer.data.output = 1
             /\ reply'.answer.data.inputs[1].data = predicting.payload]_vars
    BY DEF AnswersOwnInput
  <1> QED
    BY LoaderInvariance, <1>1, <1>2, PTL DEF LoaderSpec, PredictAnswersItsOwnInput

----------------------------------------------------------------------------
(* After a failed run *)

(* A step that ends in another method's reply, or in none, says nothing of  *)
(* run.                                                                     *)
LEMMA OtherReply ==
  ASSUME predicting' # Null \/ reply'.op # "run"
  PROVE  NothingCached'
  BY DEF NothingCached

LEMMA LoaderNothingCached ==
  ASSUME LoaderInv, NothingCached, [LoaderNext]_loaderVars
  PROVE  NothingCached'
  <1>1. CASE (\E profiled \in ProfileModes : LoadModel(profiled)) \/ LoadModelFails
    BY <1>1, OtherReply DEF LoadModel, LoadModelFails, Reply
  <1>2. CASE UnloadModel
    BY <1>2, OtherReply DEF UnloadModel, Destroy, Reply
  <1>3. ASSUME NEW ok \in BOOLEAN, EndProfilingCall(ok) PROVE NothingCached'
    BY <1>3, OtherReply DEF EndProfilingCall, EndProfiling, Ignored, Reply
  <1>4. ASSUME NEW name \in AskedNames, NEW shape \in AskedShapes,
               NEW payload \in Payloads, NEW ok \in BOOLEAN,
               SetInputCall(name, shape, payload, ok)
        PROVE  NothingCached'
    BY <1>4, OtherReply DEF SetInputCall, SetInput, Ignored, Reply, SetInputOp
  <1>5. ASSUME NEW names \in AskedRuns, NEW ok \in BOOLEAN, RunCall(names, ok)
        PROVE  NothingCached'
    <2>1. /\ Len(names) \in Nat /\ Len(OutputNames) \in Nat
          /\ Len(OutputNames) <= MaxNames /\ MaxNames \in Nat
      BY SessionAssumption, LoaderAssumption, LenProperties
    <2>2. CASE Len(names) > Len(OutputNames)
      <3>1. reply'.op = "long_run"
        BY <1>5, <2>2 DEF RunCall, Run, Ignored, Reply, RunOp
      <3> QED
        BY <3>1, OtherReply
    <2>3. CASE Len(names) <= Len(OutputNames) /\ live
      <3>1. Len(names) <= MaxNames
        BY <2>1, <2>3
      <3>2. Run(names, ok)
        BY <1>5, <2>3, <3>1 DEF RunCall
      <3>3. CASE ok
        BY <3>2, <3>3 DEF Run, Reply, NothingCached
      <3>4. CASE ~ok
        <4>1. RunFails(names)
          BY <2>1, <2>3, <3>2, <3>4 DEF Run, RunReturns, RunRefused
        <4> QED
          BY <4>1 DEF RunFails, NothingCached
      <3> QED
        BY <3>3, <3>4
    <2>4. CASE ~live
      BY <1>5, <2>4 DEF RunCall, Ignored, calls, outputs, LoaderInv, Core, Presence, NoOutputs,
        NothingCached
    <2> QED
      BY <2>1, <2>2, <2>3, <2>4
  <1>6. ASSUME NEW payload \in Payloads, NEW shape, NEW cap \in Caps, NEW ok \in BOOLEAN,
               PredictShaped(payload, shape, cap, ok)
        PROVE  NothingCached'
    <2>1. predicting' # Null \/ reply'.op = "predict"
      BY <1>6, SessionAssumption DEF PredictShaped, PredictFails, Reply, Predictions
    <2> QED
      BY <2>1, OtherReply
  <1>7. CASE Ignored("predict")
    BY <1>7, OtherReply DEF Ignored, Reply
  <1>8. ASSUME NEW payload \in Payloads, NEW ok \in BOOLEAN, PredictCall(payload, ok)
        PROVE  NothingCached'
    BY <1>6, <1>7, <1>8, RoomAssumption DEF PredictCall, Predict, Predictable
  <1>9. ASSUME NEW payload \in Payloads, NEW shape \in AskedShapes, NEW ok \in BOOLEAN,
               PredictShapedCall(payload, shape, ok)
        PROVE  NothingCached'
    <2> DEFINE cap == PredictCap(payload.len)
    <2>1. cap \in Caps
      BY RoomAssumption
    <2>2. PredictShaped(payload, shape, cap, ok) \/ Ignored("predict")
      BY <1>9 DEF PredictShapedCall
    <2> HIDE DEF cap
    <2> QED
      BY <1>6, <1>7, <2>1, <2>2
  <1>10. ASSUME NEW ok \in BOOLEAN, PredictRunCall(ok) PROVE NothingCached'
    <2>1. CASE ok
      <3>1. predicting' = [predicting EXCEPT !.at = "read"] /\ predicting \in Predictions
        BY <1>10, <2>1 DEF PredictRunCall, PredictRun, At, LoaderInv, Core
      <3>2. predicting' # Null
        BY <3>1, SessionAssumption DEF Predictions
      <3> QED
        BY <3>2, OtherReply
    <2>2. CASE ~ok
      BY <1>10, <2>2, OtherReply DEF PredictRunCall, PredictRun, PredictFails, Reply
    <2> QED
      BY <2>1, <2>2
  <1>11. ASSUME NEW ok \in BOOLEAN, PredictReadCall(ok) PROVE NothingCached'
    BY <1>11, OtherReply DEF PredictReadCall, PredictRead, PredictFails, Reply
  <1>12. CASE UNCHANGED loaderVars
    BY <1>12 DEF loaderVars, vars, outputs, NothingCached
  <1> QED
    BY <1>1, <1>2, <1>3, <1>4, <1>5, <1>8, <1>9, <1>10, <1>11, <1>12 DEF LoaderNext

(* A run() that named at most as many outputs as the model has and returned *)
(* false leaves nothing the script can retrieve, whether there was no model *)
(* or the session turned it down.                                           *)
THEOREM LoaderFailedRunsLeaveNothing == LoaderSpec => []FailedFittingRunLeavesNoOutput
  <1>1. LoaderInit => NothingCached
    BY DEF LoaderInit, Init, NothingCached
  <1>2. LoaderInv /\ NothingCached /\ [LoaderNext]_loaderVars => NothingCached'
    BY LoaderNothingCached
  <1>3. NothingCached => FailedFittingRunLeavesNoOutput
    BY NothingFound DEF NothingCached, FailedFittingRunLeavesNoOutput
  <1> QED
    BY LoaderInvariance, <1>1, <1>2, <1>3, PTL DEF LoaderSpec

----------------------------------------------------------------------------
(* The generation, across loads *)

LEMMA LoaderStepIdentifies ==
  ASSUME LoaderInv, LoaderNext
  PROVE  Identified
  <1>1. Slots /\ CallTypes /\ BoundTensorsFit
    BY DEF LoaderInv, Core
  <1>2. CASE runOutputs' = NoOutputs
    BY <1>2, NothingFoundNext DEF Identified, OutputOf
  <1>3. ASSUME NEW op, Ignored(op) PROVE Identified
    BY <1>1, <1>3, SameHeap DEF Ignored, calls, outputs
  <1>4. ASSUME NEW name, NEW shape \in BoundShapes, NEW payload \in Payloads, NEW ok \in BOOLEAN,
               SetInputReturns(name, shape, payload, ok), UNCHANGED outputs
        PROVE  Identified
    BY <1>1, <1>4, SetInputKeeps, SameAnswers DEF outputs
  <1>5. CASE (\E profiled \in ProfileModes : LoadModel(profiled)) \/ LoadModelFails
    BY <1>2, <1>5 DEF LoadModel, LoadModelFails, Cleared
  <1>6. CASE UnloadModel
    BY <1>6 DEF UnloadModel, Destroy, LoaderInv, Core, calls, session, Identified
  <1>7. ASSUME NEW ok \in BOOLEAN, EndProfilingCall(ok) PROVE Identified
    BY <1>1, <1>3, <1>7, SameHeap DEF EndProfilingCall, EndProfiling, outputs
  <1>8. ASSUME NEW name \in AskedNames, NEW shape \in AskedShapes,
               NEW payload \in Payloads, NEW ok \in BOOLEAN,
               SetInputCall(name, shape, payload, ok)
        PROVE  Identified
    <2>1. shape \in BoundShapes
      BY DEF BoundShapes
    <2> QED
      BY <1>3, <1>4, <1>8, <2>1 DEF SetInputCall, SetInput
  <1>9. ASSUME NEW names \in AskedRuns, NEW ok \in BOOLEAN, RunCall(names, ok) PROVE Identified
    BY <1>1, <1>3, <1>9, RunIdentified DEF RunCall, Run
  <1>10. ASSUME NEW payload \in Payloads, NEW ok \in BOOLEAN, PredictCall(payload, ok)
         PROVE  Identified
    <2> DEFINE shape == ConcreteShape(InputDims[1])
    <2>1. shape \in BoundShapes
      BY Domains DEF BoundShapes
    <2>2. PredictShaped(payload, shape, OutputSize, ok) \/ Ignored("predict")
      BY <1>10 DEF PredictCall, Predict
    <2> HIDE DEF shape
    <2> QED
      BY <1>3, <1>4, <2>1, <2>2 DEF PredictShaped
  <1>11. ASSUME NEW payload \in Payloads, NEW shape \in AskedShapes, NEW ok \in BOOLEAN,
                PredictShapedCall(payload, shape, ok)
         PROVE  Identified
    <2>1. shape \in BoundShapes
      BY DEF BoundShapes
    <2> QED
      BY <1>3, <1>4, <1>11, <2>1 DEF PredictShapedCall, PredictShaped
  <1>12. ASSUME NEW ok \in BOOLEAN, PredictRunCall(ok) PROVE Identified
    BY <1>1, <1>12, RunIdentified DEF PredictRunCall, PredictRun
  <1>13. ASSUME NEW ok \in BOOLEAN, PredictReadCall(ok) PROVE Identified
    BY <1>1, <1>13, SameHeap DEF PredictReadCall, PredictRead, outputs
  <1> QED
    BY <1>5, <1>6, <1>7, <1>8, <1>9, <1>10, <1>11, <1>12, <1>13 DEF LoaderNext

(* As long as what get_output_generation() returns stays, no step of any    *)
(* method makes an output appear or change, a load that replaces the model  *)
(* included: it may only take outputs away.                                 *)
THEOREM LoaderGenerationIdentifies == LoaderSpec => GenerationIdentifiesOutputs
  <1>1. LoaderInv /\ [LoaderNext]_loaderVars => [Identified]_vars
    BY LoaderStepIdentifies DEF loaderVars
  <1>2. [Identified]_vars =>
          [live /\ live' /\ generation' = generation =>
             \A name \in AskedNames : OutputOf(name)' \in {OutputOf(name), Null}]_vars
    BY DEF Identified
  <1> QED
    BY LoaderInvariance, <1>1, <1>2, PTL DEF LoaderSpec, GenerationIdentifiesOutputs

----------------------------------------------------------------------------
(* The contract, through loads and unloads                                 *)

(* Without a model there is no generation: the next one starts at zero.     *)
GenerationStartsOver == ~live => generation = 0

LEMMA LoaderGenerationStartsOver ==
  ASSUME LoaderInv, GenerationStartsOver, [LoaderNext]_loaderVars
  PROVE  GenerationStartsOver'
  <1>1. ASSUME Cleared PROVE GenerationStartsOver'
    BY <1>1 DEF Cleared, GenerationStartsOver
  <1>2. ASSUME UNCHANGED <<live, generation>> PROVE GenerationStartsOver'
    BY <1>2 DEF GenerationStartsOver
  <1>3. ASSUME live, UNCHANGED live PROVE GenerationStartsOver'
    BY <1>3 DEF GenerationStartsOver
  <1>4. live \/ predicting = Null
    BY DEF LoaderInv, Core, Presence
  <1>5. ASSUME NEW op, Ignored(op) PROVE GenerationStartsOver'
    BY <1>2, <1>5 DEF Ignored, calls, session, outputs
  <1>6. CASE (\E profiled \in ProfileModes : LoadModel(profiled)) \/ LoadModelFails
    BY <1>1, <1>6 DEF LoadModel, LoadModelFails
  <1>7. CASE UnloadModel
    BY <1>1, <1>2, <1>7 DEF UnloadModel, Destroy, calls, session, outputs
  <1>8. ASSUME NEW ok \in BOOLEAN, EndProfilingCall(ok) PROVE GenerationStartsOver'
    BY <1>3, <1>5, <1>8 DEF EndProfilingCall, EndProfiling
  <1>9. ASSUME NEW name \in AskedNames, NEW shape \in AskedShapes,
               NEW payload \in Payloads, NEW ok \in BOOLEAN,
               SetInputCall(name, shape, payload, ok)
        PROVE  GenerationStartsOver'
    BY <1>3, <1>5, <1>9 DEF SetInputCall, SetInput, session
  <1>10. ASSUME NEW names \in AskedRuns, NEW ok \in BOOLEAN, RunCall(names, ok)
         PROVE  GenerationStartsOver'
    BY <1>3, <1>5, <1>10 DEF RunCall, Run, session
  <1>11. ASSUME NEW payload \in Payloads, NEW ok \in BOOLEAN, PredictCall(payload, ok)
         PROVE  GenerationStartsOver'
    BY <1>3, <1>5, <1>11 DEF PredictCall, Predictable, Predict, PredictShaped, session
  <1>12. ASSUME NEW payload \in Payloads, NEW shape \in AskedShapes, NEW ok \in BOOLEAN,
                PredictShapedCall(payload, shape, ok)
         PROVE  GenerationStartsOver'
    BY <1>3, <1>5, <1>12 DEF PredictShapedCall, ShapedPredictable, PredictShaped, session
  <1>13. ASSUME NEW ok \in BOOLEAN, PredictRunCall(ok) PROVE GenerationStartsOver'
    BY <1>3, <1>4, <1>13 DEF PredictRunCall, PredictRun, At, session
  <1>14. ASSUME NEW ok \in BOOLEAN, PredictReadCall(ok) PROVE GenerationStartsOver'
    BY <1>2, <1>14 DEF PredictReadCall, PredictRead, session, outputs
  <1>15. CASE UNCHANGED loaderVars
    BY <1>2, <1>15 DEF loaderVars, vars, session, outputs
  <1> QED
    BY <1>6, <1>7, <1>8, <1>9, <1>10, <1>11, <1>12, <1>13, <1>14, <1>15 DEF LoaderNext

(* A model replaced is a step that only the owner of a loader sees.         *)
LEMMA MapsReplace ==
  ASSUME live, UNCHANGED live, Binding' = NoBinding, Cache' = NoCache, generation' = 0,
         Returned' = "other"
  PROVE  Contract!Replace
  BY DEF Contract!Replace, Contract!Reset, Contract!Empty, Binding, NoBinding, Cache, NoCache

LoaderImplemented == [Contract!LoaderNext]_(Contract!vars)

LEMMA ImplementedByLoader ==
  ASSUME Implemented
  PROVE  LoaderImplemented
  BY DEF Implemented, LoaderImplemented, Contract!LoaderNext

(* load_model opens the first model, replaces one by another, or closes it. *)
(* When it fails with no model loaded, nothing happened.                    *)
LEMMA LoadImplements ==
  ASSUME LoaderInv, GenerationStartsOver,
         (\E profiled \in ProfileModes : LoadModel(profiled)) \/ LoadModelFails
  PROVE  LoaderImplemented
  <1>1. live \in BOOLEAN /\ live' \in BOOLEAN /\ Cleared
    BY DEF LoaderInv, Core, LoadModel, LoadModelFails
  <1>2. boundInputs' = NoBinding /\ runOutputs' = NoOutputs /\ generation' = 0
    BY <1>1 DEF Cleared, NoBinding
  <1>3. Binding' = NoBinding /\ Cache' = NoCache
    BY <1>2, CacheEmptied DEF Binding, NoBinding
  <1>7. Returned' = "other"
    BY ReturnsOther DEF LoadModel, LoadModelFails, Reply
  <1>4. CASE live' = ~live
    BY <1>1, <1>4, <1>7, ClearedImplements, ImplementedByLoader
  <1>5. CASE live /\ live'
    BY <1>2, <1>3, <1>5, <1>7, MapsReplace DEF LoaderImplemented, Contract!LoaderNext
  <1>6. CASE ~live /\ ~live'
    <2>1. runOutputs = NoOutputs /\ (\A i \in InputIds : boundInputs[i] = Null)
          /\ generation = 0
      BY <1>6 DEF LoaderInv, Core, Presence, NoOutputs, GenerationStartsOver
    <2>2. Binding = NoBinding
      BY <2>1 DEF Binding, NoBinding
    <2>3. Cache = NoCache
      BY <2>1, NothingFound DEF Cache, NoCache, OutputOf
    <2> QED
      BY <1>1, <1>2, <1>3, <1>6, <1>7, <2>1, <2>2, <2>3, MapsOther
      DEF LoaderImplemented, Contract!LoaderNext
  <1> QED
    BY <1>1, <1>4, <1>5, <1>6

(* A run the loader turns away is one too long, or finds no model and       *)
(* nothing to read.                                                         *)
LEMMA IgnoredRunImplements ==
  ASSUME LoaderInv, NEW names \in AskedRuns, ~(live /\ Len(names) <= MaxNames),
         Ignored(RunOp(names))
  PROVE  Implemented
  <1>1. /\ UNCHANGED <<live, generation, boundInputs, runOutputs, heap>>
        /\ predicting' = Null /\ Reply(RunOp(names), FALSE, Null)
    BY DEF Ignored, calls, session, bindings, outputs
  <1>2. Told(names, FALSE)
    BY <1>1, RunTold
  <1>3. Binding' = Binding /\ Cache' = Cache
    BY <1>1, TablesKept DEF LoaderInv, Core
  <1>4. /\ Len(names) \in Nat /\ Len(OutputNames) \in Nat /\ MaxNames \in Nat
        /\ Len(OutputNames) <= MaxNames
    BY SessionAssumption, LoaderAssumption, LenProperties
  <1>5. CASE Len(names) > Len(OutputNames)
    <2>1. Returned' \in {"other", "refused"}
      BY <1>2, <1>5 DEF Told
    <2> QED
      BY <1>1, <1>3, <2>1, MapsOther, MapsRunRefuse DEF Implemented
  <1>6. CASE ~(Len(names) > Len(OutputNames))
    <2>1. ~live
      BY <1>4, <1>6
    <2>2. runOutputs = NoOutputs
      BY <2>1 DEF LoaderInv, Core, Presence, NoOutputs
    <2>3. Cache' = NoCache
      BY <1>1, <2>2, CacheEmptied
    <2>4. Returned' \in {"other", "failed"}
      BY <1>2, <1>6 DEF Told
    <2> QED
      BY <1>1, <1>3, <2>3, <2>4, MapsRunFail DEF Implemented
  <1> QED
    BY <1>5, <1>6

LEMMA LoaderStepImplements ==
  ASSUME UniqueOutputs, LoaderInv, GenerationStartsOver, [LoaderNext]_loaderVars
  PROVE  LoaderImplemented
  <1>1. Slots /\ CallTypes /\ BoundTensorsFit /\ live \in BOOLEAN
        /\ (predicting # Null => live)
    BY DEF LoaderInv, Core, Presence
  <1>2. ASSUME UNCHANGED <<live, bindings, outputs, heap>>, Returned' = "other"
        PROVE  LoaderImplemented
    BY <1>1, <1>2, OtherImplements, ImplementedByLoader DEF bindings, outputs
  <1>3. ASSUME NEW op \in {"end_profiling", "set_input", "deep_set_input", "predict"},
               Ignored(op)
        PROVE  LoaderImplemented
    <2>1. Returned' = "other"
      BY <1>3, ReturnsOther DEF Ignored, Reply
    <2> QED
      BY <1>2, <1>3, <2>1 DEF Ignored, calls, session
  <1>4. ASSUME live, UNCHANGED live, UNCHANGED outputs, Returned' = "other",
               NEW name, NEW shape \in BoundShapes, NEW payload \in Payloads,
               NEW ok \in BOOLEAN, SetInputReturns(name, shape, payload, ok)
        PROVE  LoaderImplemented
    BY <1>1, <1>4, SetInputImplements, ImplementedByLoader
  <1>5. ASSUME live, UNCHANGED live, UNCHANGED bindings,
               NEW names \in Seq(STRING), NEW ok \in BOOLEAN, RunReturns(names, ok),
               Told(names, ok)
        PROVE  LoaderImplemented
    BY <1>1, <1>5, RunImplements, ImplementedByLoader
  <1>6. CASE (\E profiled \in ProfileModes : LoadModel(profiled)) \/ LoadModelFails
    BY <1>6, LoadImplements
  <1>7. CASE UnloadModel
    <2>1. Returned' = "other"
      BY <1>7, ReturnsOther DEF UnloadModel, Destroy, Reply
    <2>2. CASE live
      BY <1>1, <1>7, <2>1, <2>2, ClearedImplements, ImplementedByLoader DEF UnloadModel, Destroy
    <2>3. CASE ~live
      BY <1>2, <1>7, <2>1, <2>3 DEF UnloadModel, calls, session
    <2> QED
      BY <2>2, <2>3
  <1>8. ASSUME NEW ok \in BOOLEAN, EndProfilingCall(ok) PROVE LoaderImplemented
    <2>1. CASE EndProfiling(ok)
      <3>1. Returned' = "other"
        BY <2>1, ReturnsOther DEF EndProfiling, Reply
      <3> QED
        BY <1>2, <2>1, <3>1 DEF EndProfiling
    <2> QED
      BY <1>3, <1>8, <2>1 DEF EndProfilingCall
  <1>9. ASSUME NEW name \in AskedNames, NEW shape \in AskedShapes,
               NEW payload \in Payloads, NEW ok \in BOOLEAN,
               SetInputCall(name, shape, payload, ok)
        PROVE  LoaderImplemented
    <2>1. CASE SetInput(name, shape, payload, ok)
      <3>1. Returned' = "other"
        BY <2>1, ReturnsOther DEF SetInput, Reply
      <3> QED
        BY <1>4, <2>1, <3>1 DEF SetInput, Idle, session, BoundShapes
    <2> QED
      BY <1>3, <1>9, <2>1 DEF SetInputCall, SetInputOp
  <1>10. ASSUME NEW names \in AskedRuns, NEW ok \in BOOLEAN, RunCall(names, ok)
         PROVE  LoaderImplemented
    <2>1. CASE Run(names, ok)
      <3>1. Told(names, ok)
        BY <2>1, RunTold DEF Run, Idle
      <3> QED
        BY <1>5, <2>1, <3>1, SessionAssumption DEF Run, Idle, session
    <2>2. CASE ~(live /\ Len(names) <= MaxNames) /\ ~ok /\ Ignored(RunOp(names))
      BY <2>2, IgnoredRunImplements, ImplementedByLoader
    <2> QED
      BY <1>10, <2>1, <2>2 DEF RunCall
  <1>16. ASSUME NEW payload \in Payloads, NEW shape \in BoundShapes, NEW cap \in Caps,
                NEW ok \in BOOLEAN, PredictShaped(payload, shape, cap, ok)
         PROVE  LoaderImplemented
    <2>1. Returned' = "other"
      BY <1>16, PredictShapedReturnsOther
    <2> QED
      BY <1>4, <1>16, <2>1 DEF PredictShaped, Idle, session
  <1>11. ASSUME NEW payload \in Payloads, NEW ok \in BOOLEAN, PredictCall(payload, ok)
         PROVE  LoaderImplemented
    <2> DEFINE shape == ConcreteShape(InputDims[1])
    <2>1. shape \in BoundShapes
      BY Domains DEF BoundShapes
    <2>2. \/ PredictShaped(payload, shape, OutputSize, ok) /\ OutputSize \in Caps
          \/ Ignored("predict")
      BY <1>11, RoomAssumption DEF PredictCall, Predict, Predictable
    <2> HIDE DEF shape
    <2> QED
      BY <1>3, <1>16, <2>1, <2>2
  <1>12. ASSUME NEW payload \in Payloads, NEW shape \in AskedShapes, NEW ok \in BOOLEAN,
                PredictShapedCall(payload, shape, ok)
         PROVE  LoaderImplemented
    <2> DEFINE cap == PredictCap(payload.len)
    <2>1. shape \in BoundShapes /\ cap \in Caps
      BY RoomAssumption DEF BoundShapes
    <2>2. PredictShaped(payload, shape, cap, ok) \/ Ignored("predict")
      BY <1>12 DEF PredictShapedCall
    <2> HIDE DEF cap
    <2> QED
      BY <1>3, <1>16, <2>1, <2>2
  <1>13. ASSUME NEW ok \in BOOLEAN, PredictRunCall(ok) PROVE LoaderImplemented
    <2>1. <<OutputNames[1]>> \in Seq(STRING)
      BY Domains, SessionAssumption, ElementOfSeq, LenProperties DEF OutputIds
    <2>2. PredictRun(ok) /\ predicting \in Predictions \cup {Null}
      BY <1>13 DEF PredictRunCall, LoaderInv, Core
    <2>3. Returned' = "other"
      BY <2>2, PredictRunReturnsOther
    <2> QED
      BY <1>1, <1>5, <2>1, <2>2, <2>3 DEF PredictRun, At, session, Told
  <1>14. ASSUME NEW ok \in BOOLEAN, PredictReadCall(ok) PROVE LoaderImplemented
    <2>1. Returned' = "other"
      BY <1>14, ReturnsOther DEF PredictReadCall, PredictRead, PredictFails, Reply
    <2> QED
      BY <1>2, <1>14, <2>1 DEF PredictReadCall, PredictRead, session
  <1>15. CASE UNCHANGED loaderVars
    BY <1>1, <1>15, StutterImplements, ImplementedByLoader
    DEF loaderVars, vars, session, bindings, outputs
  <1> QED
    BY <1>6, <1>7, <1>8, <1>9, <1>10, <1>11, <1>12, <1>13, <1>14, <1>15 DEF LoaderNext

(* OnnxLoader keeps the promises of README.md on bindings, outputs and      *)
(* generations for every model it is given, one after the other: loading    *)
(* over a model empties both tables at once, and nothing but set_input, run *)
(* and predict fills them.  As for a session, no two outputs of a model may *)
(* have one name.                                                           *)
THEOREM LoaderImplementsItsContract ==
  UniqueOutputs => (LoaderSpec => LoaderImplementsContract)
  <1> SUFFICES ASSUME UniqueOutputs PROVE LoaderSpec => LoaderImplementsContract
    OBVIOUS
  <1>1. LoaderInit => GenerationStartsOver /\ Contract!Init
    BY InitImplements DEF LoaderInit, Init, GenerationStartsOver
  <1>2. LoaderInv /\ GenerationStartsOver /\ [LoaderNext]_loaderVars => GenerationStartsOver'
    BY LoaderGenerationStartsOver
  <1>3. LoaderInv /\ GenerationStartsOver /\ [LoaderNext]_loaderVars
          => [Contract!LoaderNext]_(Contract!vars)
    BY LoaderStepImplements DEF LoaderImplemented
  <1> QED
    BY LoaderInvariance, <1>1, <1>2, <1>3, PTL
    DEF LoaderSpec, LoaderImplementsContract, Contract!LoaderSpec
=============================================================================

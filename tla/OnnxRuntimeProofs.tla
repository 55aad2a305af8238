--------------------------- MODULE OnnxRuntimeProofs ---------------------------
(***************************************************************************)
(* Proofs about OnnxRuntime, for every model (number and shape of inputs   *)
(* and outputs), every set of handles and every request.                   *)
(***************************************************************************)
EXTENDS OnnxRuntime, SequenceTheorems, WellFoundedInduction, TLAPS

----------------------------------------------------------------------------
(* find_tensor *)

(* A set of natural numbers that is not empty has a least element.         *)
LEMMA LeastNat ==
  ASSUME NEW T, T \subseteq Nat, T # {}
  PROVE  \E x \in T : \A y \in T : x <= y
  <1>1. PICK x \in T : \A y \in T : ~(<<y, x>> \in OpToRel(<, Nat))
    BY NatLessThanWellFounded, WFMin
  <1>2. \A y \in T : ~(y < x)
    BY <1>1 DEF OpToRel
  <1> QED
    BY <1>2

(* find_tensor returns an entry of the name asked for, and fails only when *)
(* there is none.                                                          *)
LEMMA FindTensorFinds ==
  ASSUME NEW n \in Nat, NEW names, DOMAIN names = 1..n, NEW name
  PROVE  /\ FindTensor(names, name) # NoName =>
              /\ FindTensor(names, name) \in DOMAIN names
              /\ names[FindTensor(names, name)] = name
         /\ (\E i \in DOMAIN names : names[i] = name) => FindTensor(names, name) # NoName
  <1> DEFINE Match == {i \in DOMAIN names : names[i] = name}
  <1>1. CASE Match = {}
    BY <1>1 DEF FindTensor
  <1>2. CASE Match # {}
    <2>1. PICK x \in Match : \A y \in Match : x <= y
      <3>1. Match \subseteq Nat
        OBVIOUS
      <3> HIDE DEF Match
      <3> QED
        BY <3>1, <1>2, LeastNat
    <2>2. x \in DOMAIN names /\ names[x] = name /\ \A j \in 1..(x - 1) : names[j] # name
      BY <2>1
    <2>3. /\ FindTensor(names, name) \in DOMAIN names
          /\ names[FindTensor(names, name)] = name
      BY <2>2 DEF FindTensor
    <2> QED
      BY <2>3 DEF NoName
  <1> QED
    BY <1>1, <1>2

LEMMA Domains ==
  /\ Len(InputNames) \in Nat /\ InputIds = 1..Len(InputNames)
  /\ Len(OutputNames) \in Nat /\ OutputIds = 1..Len(OutputNames)
  /\ 1 \in InputIds /\ 1 \in OutputIds
  BY SessionAssumption, LenProperties, EmptySeq DEF InputIds, OutputIds

----------------------------------------------------------------------------
(* The strengthened invariant.  A slot holds a live tensor of its kind;    *)
(* an output slot the output its index names.                              *)
SlotKinds ==
  /\ \A i \in InputIds : boundInputs[i] # Null => heap[boundInputs[i]] \in InputTensors
  /\ \A k \in DOMAIN runOutputs :
       /\ heap[runOutputs[k].value] \in OutputTensors
       /\ heap[runOutputs[k].value].data.output = runOutputs[k].index

SlotTypes ==
  /\ boundInputs \in [InputIds -> OrtValues \cup {Null}]
  /\ runOutputs \in Seq([index : OutputIds, value : OrtValues])
  /\ heap \in [OrtValues -> Tensors \cup {Null}]

(* Everything about the slots and the heap.                                *)
Slots == SlotTypes /\ Ownership /\ SlotKinds

(* What a step may leave in place: the tensors bound before it and after    *)
(* it, and the tensors cached as outputs.                                  *)
BoundKept ==
  \A i \in InputIds : boundInputs[i] # Null => heap'[boundInputs[i]] = heap[boundInputs[i]]
OutputsKept ==
  \A k \in DOMAIN runOutputs : heap'[runOutputs[k].value] = heap[runOutputs[k].value]

(* Equality of every piece of the slots carries the invariant over.        *)
LEMMA SlotsUnchanged ==
  ASSUME Slots, UNCHANGED <<boundInputs, runOutputs, heap>>
  PROVE  Slots'
  <1>1. BoundHandles' = BoundHandles /\ OutputHandles' = OutputHandles
    BY DEF BoundHandles, OutputHandles
  <1>2. SlotTypes'
    BY DEF Slots, SlotTypes
  <1>3. Ownership'
    BY <1>1 DEF Slots, Ownership, SlotsDistinct, HandlesOwned
  <1>4. SlotKinds'
    BY DEF Slots, SlotKinds
  <1> QED
    BY <1>2, <1>3, <1>4 DEF Slots

(* A handle in a slot is live, and no other slot holds it.                 *)
LEMMA SlotsLive ==
  ASSUME Slots
  PROVE  /\ \A i \in InputIds : boundInputs[i] # Null =>
              /\ boundInputs[i] \in OrtValues
              /\ heap[boundInputs[i]] \in InputTensors
              /\ heap[boundInputs[i]] # Null
         /\ \A k \in DOMAIN runOutputs :
              /\ runOutputs[k].value \in OrtValues
              /\ runOutputs[k].index \in OutputIds
              /\ heap[runOutputs[k].value] \in OutputTensors
              /\ heap[runOutputs[k].value] # Null
         /\ \A i \in InputIds, k \in DOMAIN runOutputs :
              boundInputs[i] # runOutputs[k].value
  <1>1. \A k \in DOMAIN runOutputs :
           runOutputs[k] \in [index : OutputIds, value : OrtValues]
    <2> DEFINE R == [index : OutputIds, value : OrtValues]
    <2>1. runOutputs \in Seq(R)
      BY DEF Slots, SlotTypes
    <2> HIDE DEF R
    <2>2. DOMAIN runOutputs = 1..Len(runOutputs)
      BY <2>1, LenProperties
    <2>3. \A k \in DOMAIN runOutputs : runOutputs[k] \in R
      BY <2>1, <2>2, ElementOfSeq
    <2> QED
      BY <2>3 DEF R
  <1>2. \A i \in InputIds, k \in DOMAIN runOutputs :
           boundInputs[i] # runOutputs[k].value
    <2> SUFFICES ASSUME NEW i \in InputIds, NEW k \in DOMAIN runOutputs,
                        boundInputs[i] = runOutputs[k].value
                 PROVE  FALSE
      OBVIOUS
    <2>1. boundInputs[i] # Null
      BY <1>1, SessionAssumption
    <2>2. boundInputs[i] \in BoundHandles /\ boundInputs[i] \in OutputHandles
      BY <2>1 DEF BoundHandles, OutputHandles
    <2> QED
      BY <2>2 DEF Slots, Ownership, SlotsDistinct
  <1> QED
    BY <1>1, <1>2, SessionAssumption DEF Slots, SlotTypes, SlotKinds, Tensors

(* Refilling a bound tensor in place changes neither slots nor kinds.      *)
LEMMA BindInPlaceSlots ==
  ASSUME Slots, NEW name, NEW shape, NEW payload \in Payloads,
         BindInPlace(name, shape, payload), UNCHANGED runOutputs
  PROVE  Slots' /\ OutputsKept /\ (BoundTensorsFit => BoundTensorsFit')
  <1> DEFINE i == FindTensor(InputNames, name)
             b == boundInputs[i]
  <1>1. i \in InputIds /\ b # Null
    BY FindTensorFinds, Domains DEF BindInPlace, Accepts, Reusable, InputIds
  <1>2. b \in OrtValues /\ heap[b] \in InputTensors
    BY <1>1, SlotsLive
  <1>3. heap' = [heap EXCEPT ![b].data = payload] /\ UNCHANGED boundInputs
    BY DEF BindInPlace
  <1> HIDE DEF i, b
  <1>4. /\ heap'[b] \in InputTensors /\ heap'[b] # Null
        /\ \A v \in OrtValues \ {b} : heap'[v] = heap[v]
        /\ heap' \in [OrtValues -> Tensors \cup {Null}]
    BY <1>2, <1>3, SessionAssumption DEF Slots, SlotTypes, InputTensors, Tensors
  <1>5. heap[b] # Null
    BY <1>2, SessionAssumption DEF Tensors
  <1>6. SlotTypes'
    <2>1. boundInputs' = boundInputs /\ runOutputs' = runOutputs
      BY <1>3
    <2> QED
      BY <1>4, <2>1 DEF Slots, SlotTypes
  <1>7. SlotKinds'
    BY <1>1, <1>3, <1>4, SlotsLive DEF Slots, SlotTypes, SlotKinds, b
  <1>8. BoundHandles' = BoundHandles /\ OutputHandles' = OutputHandles
    BY <1>3 DEF BoundHandles, OutputHandles
  <1>9. Ownership'
    BY <1>3, <1>4, <1>5, <1>8 DEF Slots, Ownership, SlotsDistinct, HandlesOwned
  <1>10. OutputsKept
    BY <1>1, <1>4, SlotsLive DEF OutputsKept, b
  <1>11. ASSUME BoundTensorsFit PROVE BoundTensorsFit'
    <2>1. \A j \in InputIds \ {i} : boundInputs[j] # b
      BY <1>1 DEF Slots, Ownership, SlotsDistinct, b
    <2>2. shape = boundShapes[i] /\ boundShapes' = boundShapes
          /\ payload.len = CheckedProduct(shape)
      BY DEF BindInPlace, Accepts, Reusable, i
    <2>3. heap'[b].shape = heap[b].shape /\ heap'[b].data = payload
      BY <1>2, <1>3 DEF Slots, SlotTypes, InputTensors
    <2>4. ASSUME NEW j \in InputIds, boundInputs[j] # Null
          PROVE  LET t == heap'[boundInputs[j]] IN
                   /\ t.shape = boundShapes[j]
                   /\ ShapeFits(InputDims[j], t.shape)
                   /\ t.data.len = CheckedProduct(t.shape)
      <3>1. CASE j = i
        BY <1>1, <1>11, <2>2, <2>3, <3>1 DEF BoundTensorsFit, b
      <3>2. CASE j # i
        BY <1>4, <1>11, <2>1, <2>4, <3>2, SlotsLive DEF BoundTensorsFit
      <3> QED
        BY <3>1, <3>2
    <2> QED
      BY <1>3, <2>2, <2>4 DEF BoundTensorsFit
  <1> QED
    BY <1>6, <1>7, <1>9, <1>10, <1>11 DEF Slots

(* A fresh tensor takes the place of the one bound.                        *)
LEMMA BindFreshSlots ==
  ASSUME Slots, NEW name, NEW shape \in BoundShapes, NEW payload \in Payloads,
         DOMAIN boundShapes = InputIds,
         BindFresh(name, shape, payload), UNCHANGED runOutputs
  PROVE  Slots' /\ OutputsKept /\ (BoundTensorsFit => BoundTensorsFit')
  <1> DEFINE i == FindTensor(InputNames, name)
             old == boundInputs[i]
             tensor == [shape |-> shape, data |-> payload]
  <1>1. i \in InputIds
    BY FindTensorFinds, Domains DEF BindFresh, Accepts, InputIds
  <1>2. PICK v \in Unallocated :
          /\ heap' = Replaced(i, v, tensor)
          /\ boundInputs' = [boundInputs EXCEPT ![i] = v]
    BY DEF BindFresh
  <1>3. tensor \in InputTensors /\ tensor \in Tensors /\ tensor # Null
    BY SessionAssumption DEF InputTensors, Tensors
  <1>4. v \in OrtValues /\ heap[v] = Null /\ v # Null
    BY SessionAssumption DEF Unallocated
  <1>5. old \in OrtValues \cup {Null} /\ old # v
    BY <1>1, <1>4, SlotsLive DEF Slots, SlotTypes
  <1>6. /\ heap' \in [OrtValues -> Tensors \cup {Null}]
        /\ heap'[v] = tensor
        /\ \A w \in OrtValues \ {v} : heap'[w] = IF w = old THEN Null ELSE heap[w]
    <2> HIDE DEF tensor
    <2> QED
      BY <1>2, <1>3, <1>4, <1>5 DEF Slots, SlotTypes, Replaced, ReleaseValues
  <1>7. /\ boundInputs' \in [InputIds -> OrtValues \cup {Null}]
        /\ boundInputs'[i] = v
        /\ \A j \in InputIds \ {i} : boundInputs'[j] = boundInputs[j]
    BY <1>1, <1>2, <1>4 DEF Slots, SlotTypes
  <1> HIDE DEF i, old, tensor
  <1>8. \A j \in InputIds \ {i} : boundInputs[j] # Null =>
          boundInputs[j] # v /\ boundInputs[j] # old
    BY <1>1, <1>4, SlotsLive DEF Slots, Ownership, SlotsDistinct, old
  <1>9. \A k \in DOMAIN runOutputs :
          runOutputs[k].value # v /\ runOutputs[k].value # old
    BY <1>1, <1>4, SlotsLive DEF old
  <1>10. SlotTypes'
    BY <1>6, <1>7 DEF Slots, SlotTypes
  <1>11. SlotKinds'
    BY <1>3, <1>6, <1>7, <1>8, <1>9, SlotsLive DEF Slots, SlotKinds
  <1>12. SlotsDistinct'
    <2>1. \A j, k \in InputIds :
            boundInputs'[j] # Null /\ boundInputs'[j] = boundInputs'[k] => j = k
      BY <1>4, <1>7, <1>8 DEF Slots, Ownership, SlotsDistinct
    <2>2. \A j \in InputIds, k \in DOMAIN runOutputs :
            boundInputs'[j] # runOutputs[k].value
      BY <1>7, <1>9, SlotsLive
    <2>3. BoundHandles' \cap OutputHandles' = {}
      BY <2>2 DEF BoundHandles, OutputHandles
    <2> QED
      BY <2>1, <2>3 DEF Slots, Ownership, SlotsDistinct
  <1>13. HandlesOwned'
    <2>1. BoundHandles' = (BoundHandles \ {old}) \cup {v}
      BY <1>1, <1>4, <1>5, <1>7, <1>8 DEF BoundHandles, old
    <2>2. OutputHandles' = OutputHandles /\ old \notin OutputHandles
      BY <1>9 DEF OutputHandles
    <2>3. {w \in OrtValues : heap'[w] # Null}
            = ({w \in OrtValues : heap[w] # Null} \ {old}) \cup {v}
      BY <1>3, <1>4, <1>6
    <2> QED
      BY <2>1, <2>2, <2>3 DEF Slots, Ownership, HandlesOwned
  <1>14. OutputsKept
    BY <1>6, <1>9, SlotsLive DEF OutputsKept
  <1>15. ASSUME BoundTensorsFit PROVE BoundTensorsFit'
    <2>1. /\ boundShapes' = [boundShapes EXCEPT ![i] = shape]
          /\ ShapeFits(InputDims[i], shape) /\ payload.len = CheckedProduct(shape)
      BY DEF BindFresh, Accepts, i
    <2>2. tensor.shape = shape /\ tensor.data = payload
      BY DEF tensor
    <2>3. ASSUME NEW j \in InputIds, boundInputs'[j] # Null
          PROVE  LET t == heap'[boundInputs'[j]] IN
                   /\ t.shape = boundShapes'[j]
                   /\ ShapeFits(InputDims[j], t.shape)
                   /\ t.data.len = CheckedProduct(t.shape)
      <3>1. CASE j = i
        BY <1>1, <1>6, <1>7, <2>1, <2>2, <3>1
      <3>2. CASE j # i
        BY <1>6, <1>7, <1>8, <1>15, <2>1, <2>3, <3>2, SlotsLive DEF BoundTensorsFit
      <3> QED
        BY <3>1, <3>2
    <2> QED
      BY <2>3 DEF BoundTensorsFit
  <1> QED
    BY <1>10, <1>11, <1>12, <1>13, <1>14, <1>15 DEF Slots, Ownership

(* What a failing set_input allocated is gone again.                        *)
LEMMA BindFailsHeap ==
  ASSUME Slots, NEW name, NEW shape, NEW payload, BindFails(name, shape, payload)
  PROVE  UNCHANGED heap
  <1>1. CASE UNCHANGED heap
    BY <1>1
  <1>2. ASSUME NEW v \in Unallocated, NEW tensor,
               heap' = Discarded([heap EXCEPT ![v] = tensor], {v})
        PROVE  heap' = heap
    <2>1. heap \in [OrtValues -> Tensors \cup {Null}] /\ v \in OrtValues /\ heap[v] = Null
      BY DEF Slots, SlotTypes, Unallocated
    <2>2. \A w \in OrtValues : heap'[w] = heap[w]
      BY <1>2, <2>1 DEF Discarded, ReleaseValues
    <2>3. heap' = [w \in OrtValues |-> heap'[w]]
      BY <1>2 DEF Discarded, ReleaseValues
    <2> QED
      BY <2>1, <2>2, <2>3
  <1> QED
    BY <1>1, <1>2 DEF BindFails

(* So is what ONNX Runtime had begun when a run fails: all such a run does  *)
(* to the tensors is to release the outputs of the run before.              *)
LEMMA RunFailsHeap ==
  ASSUME NEW names, RunFails(names)
  PROVE  heap' = ReleaseValues(heap, OutputHandles)
  <1> DEFINE chosen   == Selected(names)
             released == ReleaseValues(heap, OutputHandles)
  <1>1. CASE ~Runnable(names)
    BY <1>1 DEF RunFails
  <1>2. CASE Runnable(names)
    <2>1. PICK begun \in SUBSET DOMAIN chosen :
            \E fresh \in [begun -> OrtValues], shapes \in [begun -> OutputShapes] :
              /\ Fresh(released, fresh)
              /\ heap' = Discarded(WithOutputs(released, chosen, fresh, shapes),
                                   {fresh[k] : k \in begun})
      BY <1>2 DEF RunFails
    <2>2. PICK fresh \in [begun -> OrtValues], shapes \in [begun -> OutputShapes] :
              /\ Fresh(released, fresh)
              /\ heap' = Discarded(WithOutputs(released, chosen, fresh, shapes),
                                   {fresh[k] : k \in begun})
      BY <2>1
    <2>3. released = [v \in OrtValues |-> released[v]]
      BY DEF ReleaseValues
    <2> HIDE DEF chosen, released
    <2>4. \A v \in OrtValues : heap'[v] = released[v]
      <3>1. ASSUME NEW v \in OrtValues, NEW k \in begun, v = fresh[k]
            PROVE  heap'[v] = released[v]
        <4>1. heap'[v] = Null
          BY <2>2, <3>1 DEF Discarded, ReleaseValues
        <4>2. released[v] = Null
          BY <2>2, <3>1 DEF Fresh
        <4> QED
          BY <4>1, <4>2
      <3>2. ASSUME NEW v \in OrtValues, \A k \in begun : fresh[k] # v
            PROVE  heap'[v] = released[v]
        <4>1. heap'[v] = WithOutputs(released, chosen, fresh, shapes)[v]
          BY <2>2, <3>2 DEF Discarded, ReleaseValues
        <4> QED
          BY <2>2, <3>2, <4>1 DEF WithOutputs
      <3> QED
        BY <3>1, <3>2
    <2>5. heap' = [v \in OrtValues |-> heap'[v]]
      BY <2>2 DEF Discarded, ReleaseValues
    <2>6. heap' = released
      BY <2>3, <2>4, <2>5
    <2> QED
      BY <2>6 DEF released
  <1> QED
    BY <1>1, <1>2

(* Releasing the outputs leaves the bound inputs, and only them.           *)
LEMMA RunFailsSlots ==
  ASSUME Slots, NEW names, RunFails(names), UNCHANGED boundInputs
  PROVE  Slots' /\ BoundKept
  <1>1. /\ heap' = ReleaseValues(heap, OutputHandles)
        /\ runOutputs' = <<>>
        /\ boundInputs' = boundInputs
    BY RunFailsHeap DEF RunFails, NoOutputs
  <1>2. SlotTypes'
    BY <1>1 DEF Slots, SlotTypes, ReleaseValues
  <1>3. /\ DOMAIN runOutputs' = {}
        /\ OutputHandles' = {} /\ BoundHandles' = BoundHandles
    BY <1>1 DEF OutputHandles, BoundHandles
  <1>4. SlotsDistinct'
    BY <1>1, <1>3 DEF Slots, Ownership, SlotsDistinct
  <1>5. HandlesOwned'
    BY <1>1, <1>3 DEF Slots, SlotTypes, Ownership, SlotsDistinct, HandlesOwned, ReleaseValues
  <1>6. \A i \in InputIds : boundInputs[i] # Null => heap'[boundInputs[i]] = heap[boundInputs[i]]
    BY <1>1, SlotsLive DEF OutputHandles, ReleaseValues
  <1>7. SlotKinds'
    BY <1>1, <1>3, <1>6 DEF Slots, SlotKinds
  <1> QED
    BY <1>2, <1>4, <1>5, <1>6, <1>7 DEF Slots, Ownership, BoundKept

(* What a request selects: as many outputs as it names, each of the model. *)
LEMMA SelectedOutputs ==
  ASSUME NEW names \in Seq(STRING), Runnable(names)
  PROVE  \E n \in Nat : Selected(names) \in [1..n -> OutputIds]
  <1> DEFINE asked == IF names = <<>> THEN OutputNames ELSE names
  <1>1. asked \in Seq(STRING)
    BY SessionAssumption
  <1>2. Selected(names) = [k \in DOMAIN asked |-> FindTensor(OutputNames, asked[k])]
    BY DEF Selected
  <1> HIDE DEF asked
  <1>3. Len(asked) \in Nat /\ DOMAIN asked = 1..Len(asked)
    BY <1>1, LenProperties
  <1>4. \A k \in DOMAIN asked : FindTensor(OutputNames, asked[k]) \in OutputIds
    <2>1. \A k \in DOMAIN asked : FindTensor(OutputNames, asked[k]) # NoName
      BY <1>2 DEF Runnable
    <2> QED
      BY <2>1, FindTensorFinds, Domains DEF OutputIds
  <1> QED
    BY <1>2, <1>3, <1>4

(* A run that succeeds installs fresh tensors under the indices it chose.  *)
LEMMA RunSucceedsSlots ==
  ASSUME Slots, NEW names \in Seq(STRING), RunSucceeds(names), UNCHANGED boundInputs
  PROVE  Slots' /\ BoundKept
  <1> DEFINE chosen   == Selected(names)
             released == ReleaseValues(heap, OutputHandles)
  <1>1. Runnable(names)
    BY DEF RunSucceeds
  <1>2. PICK n \in Nat : chosen \in [1..n -> OutputIds]
    BY <1>1, SelectedOutputs
  <1>3. PICK fresh \in [DOMAIN chosen -> OrtValues],
             shapes \in [DOMAIN chosen -> OutputShapes] :
           /\ Fresh(released, fresh)
           /\ heap' = WithOutputs(released, chosen, fresh, shapes)
           /\ runOutputs' = Cached(chosen, fresh)
    BY DEF RunSucceeds
  <1>4. /\ fresh \in [1..n -> OrtValues] /\ shapes \in [1..n -> OutputShapes]
        /\ DOMAIN chosen = 1..n /\ DOMAIN fresh = 1..n
        /\ \A j, k \in 1..n : fresh[j] = fresh[k] => j = k
        /\ \A k \in 1..n : released[fresh[k]] = Null
    BY <1>2, <1>3 DEF Fresh
  <1>5. \A i \in InputIds : boundInputs[i] # Null /\ heap[boundInputs[i]] \in InputTensors
    BY <1>1, SlotsLive DEF Runnable
  <1>6. \A o \in OutputIds : /\ Evaluate(o) \in [output : OutputIds, inputs : [InputIds -> InputTensors]]
                            /\ Evaluate(o).output = o
    BY <1>5 DEF Evaluate
  <1>7. \A v \in OrtValues : released[v] = IF v \in OutputHandles THEN Null ELSE heap[v]
    BY DEF ReleaseValues
  <1> HIDE DEF chosen, released
  <1>8. \A k \in 1..n : heap'[fresh[k]] = [shape |-> shapes[k], data |-> Evaluate(chosen[k])]
    <2> SUFFICES ASSUME NEW k \in 1..n
                 PROVE  heap'[fresh[k]] = [shape |-> shapes[k], data |-> Evaluate(chosen[k])]
      OBVIOUS
    <2>1. (CHOOSE j \in DOMAIN fresh : fresh[j] = fresh[k]) = k
      BY <1>4
    <2> QED
      BY <1>3, <1>4, <2>1 DEF WithOutputs
  <1>9. \A v \in OrtValues : (\A k \in 1..n : fresh[k] # v) => heap'[v] = released[v]
    BY <1>3, <1>4 DEF WithOutputs
  <1>10. \A k \in 1..n : /\ heap'[fresh[k]] \in OutputTensors
                         /\ heap'[fresh[k]].data.output = chosen[k]
                         /\ heap'[fresh[k]] # Null
    <2> SUFFICES ASSUME NEW k \in 1..n
                 PROVE  /\ heap'[fresh[k]] \in OutputTensors
                        /\ heap'[fresh[k]].data.output = chosen[k]
                        /\ heap'[fresh[k]] # Null
      OBVIOUS
    <2>1. shapes[k] \in OutputShapes /\ chosen[k] \in OutputIds
      BY <1>2, <1>4
    <2>2. /\ Evaluate(chosen[k]) \in [output : OutputIds, inputs : [InputIds -> InputTensors]]
          /\ Evaluate(chosen[k]).output = chosen[k]
      BY <1>6, <2>1
    <2>3. [shape |-> shapes[k], data |-> Evaluate(chosen[k])] \in OutputTensors
      BY <2>1, <2>2 DEF OutputTensors
    <2>4. heap'[fresh[k]] \in OutputTensors
      BY <1>8, <2>3
    <2>5. heap'[fresh[k]].data = Evaluate(chosen[k])
      <3> DEFINE d == Evaluate(chosen[k])
                 s == shapes[k]
                 h == heap'[fresh[k]]
      <3>1. h = [shape |-> s, data |-> d]
        BY <1>8
      <3> HIDE DEF d, s, h
      <3>2. h.data = d
        BY <3>1
      <3> QED
        BY <3>2 DEF d, h
    <2>6. heap'[fresh[k]] # Null
      BY <2>4, SessionAssumption DEF Tensors
    <2> QED
      BY <2>2, <2>4, <2>5, <2>6
  <1>11. runOutputs' = [k \in 1..n |-> [index |-> chosen[k], value |-> fresh[k]]]
    BY <1>3, <1>4 DEF Cached
  <1>12. runOutputs' \in Seq([index : OutputIds, value : OrtValues])
    BY <1>2, <1>4, <1>11
  <1>13. \A i \in InputIds, k \in 1..n : boundInputs[i] # fresh[k]
    <2> SUFFICES ASSUME NEW i \in InputIds, NEW k \in 1..n, boundInputs[i] = fresh[k]
                 PROVE  FALSE
      OBVIOUS
    <2>1. released[boundInputs[i]] = heap[boundInputs[i]]
      BY <1>4, <1>5, <1>7, SlotsLive DEF OutputHandles
    <2> QED
      BY <1>3, <1>4, <1>5, <2>1, SlotsLive
  <1>14. \A i \in InputIds : heap'[boundInputs[i]] = heap[boundInputs[i]]
    BY <1>5, <1>7, <1>9, <1>13, SlotsLive DEF OutputHandles
  <1>15. heap' \in [OrtValues -> Tensors \cup {Null}]
    <2>1. \A v \in OrtValues : heap'[v] \in Tensors \cup {Null}
      BY <1>4, <1>7, <1>9, <1>10 DEF Slots, SlotTypes, Tensors
    <2>2. heap' = [v \in OrtValues |-> heap'[v]]
      BY <1>3 DEF WithOutputs
    <2> QED
      BY <2>1, <2>2
  <1>16. SlotTypes'
    BY <1>12, <1>15 DEF Slots, SlotTypes
  <1>17. SlotKinds'
    BY <1>5, <1>10, <1>11, <1>14 DEF SlotKinds
  <1>18. OutputHandles' = {fresh[k] : k \in 1..n} /\ BoundHandles' = BoundHandles
    BY <1>11 DEF OutputHandles, BoundHandles
  <1>19. SlotsDistinct'
    <2>1. \A j, k \in DOMAIN runOutputs' : runOutputs'[j].value = runOutputs'[k].value => j = k
      BY <1>3, <1>4, <1>11
    <2>2. BoundHandles' \cap OutputHandles' = {}
      BY <1>13, <1>18 DEF BoundHandles
    <2> QED
      BY <2>1, <2>2 DEF Slots, Ownership, SlotsDistinct
  <1>20. HandlesOwned'
    <2>1. ASSUME NEW v \in OrtValues
          PROVE  heap'[v] # Null <=> v \in BoundHandles \/ \E k \in 1..n : fresh[k] = v
      <3>1. CASE \E k \in 1..n : fresh[k] = v
        BY <1>10, <3>1
      <3>2. CASE \A k \in 1..n : fresh[k] # v
        BY <1>7, <1>9, <3>2 DEF Slots, Ownership, SlotsDistinct, HandlesOwned
      <3> QED
        BY <3>1, <3>2
    <2>2. BoundHandles \subseteq OrtValues
      BY DEF Slots, Ownership, HandlesOwned
    <2> QED
      BY <1>4, <1>18, <2>1, <2>2 DEF HandlesOwned
  <1> QED
    BY <1>14, <1>16, <1>17, <1>19, <1>20 DEF Slots, Ownership, BoundKept

----------------------------------------------------------------------------
(* The inductive invariant                                                 *)

(* The variables a call of set_input or run changes besides the slots.     *)
CallTypes ==
  /\ DOMAIN boundShapes = InputIds
  /\ generation \in Nat /\ allocations \in Nat /\ reuses \in Nat
  /\ lastError \in ErrorKinds

(* Without a session every slot is empty, and no predict is under way.     *)
Presence ==
  /\ ~live => runOutputs = <<>> /\ \A i \in InputIds : boundInputs[i] = Null
  /\ predicting # Null => live

IInv == TypeOK /\ Slots /\ BoundTensorsFit /\ Presence

(* Whatever set_input returns, it keeps the slots and the cached outputs.  *)
LEMMA SetInputKeeps ==
  ASSUME Slots, CallTypes, BoundTensorsFit,
         NEW name, NEW shape \in BoundShapes, NEW payload \in Payloads, NEW ok \in BOOLEAN,
         SetInputReturns(name, shape, payload, ok), UNCHANGED outputs
  PROVE  Slots' /\ CallTypes' /\ BoundTensorsFit' /\ OutputsKept
  <1>1. UNCHANGED <<runOutputs, generation>>
    BY DEF outputs
  <1>2. CASE BindInPlace(name, shape, payload)
    <2>1. CallTypes'
      <3>1. reuses' = reuses + 1 /\ lastError' = NoError /\ UNCHANGED <<boundShapes, allocations>>
        BY <1>2 DEF BindInPlace
      <3> QED
        BY <1>1, <3>1 DEF CallTypes, ErrorKinds
    <2> QED
      BY <1>1, <1>2, <2>1, BindInPlaceSlots
  <1>3. CASE BindFresh(name, shape, payload)
    <2>1. CallTypes'
      <3>1. /\ \E i : boundShapes' = [boundShapes EXCEPT ![i] = shape]
            /\ allocations' = allocations + 1 /\ lastError' = NoError /\ reuses' = reuses
        BY <1>3 DEF BindFresh
      <3>2. DOMAIN boundShapes' = InputIds
        BY <3>1 DEF CallTypes
      <3> QED
        BY <1>1, <3>1, <3>2 DEF CallTypes, ErrorKinds
    <2> QED
      BY <1>1, <1>3, <2>1, BindFreshSlots DEF CallTypes
  <1>4. CASE BindRefused(name, shape, payload) \/ BindFails(name, shape, payload)
    <2>1. UNCHANGED <<boundInputs, boundShapes, allocations, reuses, heap>>
          /\ lastError' \in ErrorKinds
      BY <1>4, BindFailsHeap DEF BindRefused, BindFails, bindings, ErrorKinds
    <2>2. Slots'
      BY <1>1, <2>1, SlotsUnchanged
    <2>3. BoundTensorsFit' /\ OutputsKept
      BY <1>1, <2>1 DEF BoundTensorsFit, OutputsKept
    <2> QED
      BY <1>1, <2>1, <2>2, <2>3 DEF CallTypes
  <1> QED
    BY <1>2, <1>3, <1>4 DEF SetInputReturns

(* Whatever run returns, it keeps the slots and the bound inputs.          *)
LEMMA RunKeeps ==
  ASSUME Slots, CallTypes, BoundTensorsFit,
         NEW names \in Seq(STRING), NEW ok \in BOOLEAN,
         RunReturns(names, ok), UNCHANGED bindings
  PROVE  Slots' /\ CallTypes' /\ BoundTensorsFit'
  <1>1. UNCHANGED <<boundInputs, boundShapes, allocations, reuses>>
    BY DEF bindings
  <1>2. CASE RunSucceeds(names)
    <2>1. CallTypes'
      <3>1. generation' = generation + 1 /\ lastError' = NoError
        BY <1>2 DEF RunSucceeds, Epoch
      <3> QED
        BY <1>1, <3>1 DEF CallTypes, ErrorKinds
    <2>2. Slots' /\ BoundKept
      BY <1>1, <1>2, RunSucceedsSlots
    <2>3. BoundTensorsFit'
      BY <1>1, <2>2 DEF BoundTensorsFit, BoundKept
    <2> QED
      BY <2>1, <2>2, <2>3
  <1>3. CASE RunFails(names)
    <2>1. CallTypes'
      BY <1>1, <1>3 DEF RunFails, CallTypes, ErrorKinds
    <2>2. Slots' /\ BoundKept
      BY <1>1, <1>3, RunFailsSlots
    <2>3. BoundTensorsFit'
      BY <1>1, <2>2 DEF BoundTensorsFit, BoundKept
    <2> QED
      BY <2>1, <2>2, <2>3
  <1>4. CASE RunRefused(names)
    <2>1. UNCHANGED <<runOutputs, generation, heap>> /\ lastError' \in ErrorKinds
      BY <1>4 DEF RunRefused, outputs, ErrorKinds
    <2>2. Slots'
      BY <1>1, <2>1, SlotsUnchanged
    <2>3. BoundTensorsFit'
      BY <1>1, <2>1 DEF BoundTensorsFit
    <2> QED
      BY <1>1, <2>1, <2>2, <2>3 DEF CallTypes
  <1> QED
    BY <1>2, <1>3, <1>4 DEF RunReturns

(* The getter's value is the tensor of some slot, of the output named.     *)
LEMMA FoundOutput ==
  ASSUME Slots, NEW name, HasOutput(name)
  PROVE  \E k \in DOMAIN runOutputs :
           /\ FindRunOutput(name) = runOutputs[k].value
           /\ runOutputs[k].index \in OutputIds
           /\ OutputNames[runOutputs[k].index] = name
  <1> DEFINE o == FindTensor(OutputNames, name)
             indices == [j \in DOMAIN runOutputs |-> runOutputs[j].index]
             k == FindTensor(indices, o)
  <1>1. o # NoName /\ k # NoName /\ FindRunOutput(name) = runOutputs[k].value
    BY DEF HasOutput, FindRunOutput
  <1>2. o \in OutputIds /\ OutputNames[o] = name
    BY <1>1, FindTensorFinds, Domains DEF OutputIds
  <1>3. Len(runOutputs) \in Nat /\ DOMAIN runOutputs = 1..Len(runOutputs)
    BY LenProperties DEF Slots, SlotTypes
  <1>4. DOMAIN indices = 1..Len(runOutputs)
    BY <1>3
  <1> HIDE DEF o
  <1>5. k \in DOMAIN runOutputs /\ indices[k] = o
    <2> HIDE DEF indices
    <2> QED
      BY <1>1, <1>3, <1>4, FindTensorFinds
  <1> QED
    BY <1>1, <1>2, <1>5

----------------------------------------------------------------------------
(* What a run leaves for the getters                                       *)

(* What a run that succeeds puts into the cache: at least one entry, each a *)
(* tensor computed for the output it names.                                 *)
Installed(n, chosen, fresh) ==
  /\ n \in Nat /\ n # 0
  /\ chosen \in [1..n -> OutputIds]
  /\ fresh \in [1..n -> OrtValues]
  /\ runOutputs' = [k \in 1..n |-> [index |-> chosen[k], value |-> fresh[k]]]
  /\ \A k \in 1..n : /\ heap'[fresh[k]].data = Evaluate(chosen[k])
                      /\ heap'[fresh[k]] # Null

LEMMA RunInstalls ==
  ASSUME Slots, NEW names \in Seq(STRING), RunSucceeds(names), UNCHANGED boundInputs
  PROVE  \E n, fresh : Installed(n, Selected(names), fresh)
  <1> DEFINE chosen == Selected(names)
  <1>1. Runnable(names)
    BY DEF RunSucceeds
  <1>2. PICK n \in Nat : chosen \in [1..n -> OutputIds]
    BY <1>1, SelectedOutputs
  <1>3. n # 0
    <2> DEFINE asked == IF names = <<>> THEN OutputNames ELSE names
    <2>1. asked \in Seq(STRING) /\ asked # <<>>
      BY SessionAssumption
    <2>2. DOMAIN chosen = DOMAIN asked
      BY DEF Selected
    <2> HIDE DEF asked, chosen
    <2>3. DOMAIN asked = 1..Len(asked) /\ Len(asked) \in Nat /\ Len(asked) # 0
      BY <2>1, EmptySeq, LenProperties
    <2>4. 1 \in 1..n
      BY <1>2, <2>2, <2>3
    <2> QED
      BY <2>4
  <1>4. PICK fresh \in [DOMAIN chosen -> OrtValues],
             shapes \in [DOMAIN chosen -> OutputShapes] :
           /\ Fresh(ReleaseValues(heap, OutputHandles), fresh)
           /\ heap' = WithOutputs(ReleaseValues(heap, OutputHandles), chosen, fresh, shapes)
           /\ runOutputs' = Cached(chosen, fresh)
    BY DEF RunSucceeds
  <1> HIDE DEF chosen
  <1>5. DOMAIN chosen = 1..n /\ fresh \in [1..n -> OrtValues] /\ shapes \in [1..n -> OutputShapes]
    BY <1>2, <1>4
  <1>6. runOutputs' = [k \in 1..n |-> [index |-> chosen[k], value |-> fresh[k]]]
    BY <1>4, <1>5 DEF Cached
  <1>7. ASSUME NEW k \in 1..n
        PROVE  heap'[fresh[k]].data = Evaluate(chosen[k]) /\ heap'[fresh[k]] # Null
    <2>2. heap'[fresh[k]] = [shape |-> shapes[k], data |-> Evaluate(chosen[k])]
      <3>1. DOMAIN fresh = 1..n /\ \A j \in 1..n : fresh[j] = fresh[k] => j = k
        BY <1>4, <1>5 DEF Fresh
      <3>2. (CHOOSE j \in DOMAIN fresh : fresh[j] = fresh[k]) = k
        BY <3>1
      <3> QED
        BY <1>4, <1>5, <3>1, <3>2 DEF WithOutputs
    <2>3. heap'[fresh[k]].data = Evaluate(chosen[k])
      <3> DEFINE d == Evaluate(chosen[k])
                 s == shapes[k]
                 h == heap'[fresh[k]]
      <3>1. h = [shape |-> s, data |-> d]
        BY <2>2
      <3> HIDE DEF d, s, h
      <3>2. h.data = d
        BY <3>1
      <3> QED
        BY <3>2 DEF d, h
    <2>4. heap'[fresh[k]] # Null
      <3>1. Slots'
        BY RunSucceedsSlots
      <3>2. k \in DOMAIN runOutputs' /\ runOutputs'[k].value = fresh[k]
        BY <1>6
      <3>3. heap'[fresh[k]] \in OutputTensors
        BY <3>1, <3>2 DEF Slots, SlotKinds
      <3> QED
        BY <3>3, SessionAssumption DEF Tensors
    <2> QED
      BY <2>3, <2>4
  <1>8. Installed(n, chosen, fresh)
    BY <1>2, <1>3, <1>5, <1>6, <1>7 DEF Installed
  <1> QED
    BY <1>8 DEF chosen

(* The getter of an output finds its entry, if there is one.                *)
LEMMA FoundInstalled ==
  ASSUME NEW n, NEW chosen, NEW fresh, Installed(n, chosen, fresh),
         NEW o \in OutputIds, FindTensor(OutputNames, OutputNames[o]) = o
  PROVE  \/ /\ OutputOf(OutputNames[o])' = Null
            /\ \A k \in 1..n : chosen[k] # o
         \/ /\ OutputOf(OutputNames[o])' # Null
            /\ OutputOf(OutputNames[o])'.data = Evaluate(o)
  <1> DEFINE indices == [j \in DOMAIN runOutputs' |-> runOutputs'[j].index]
             k == FindTensor(indices, o)
  <1>1. /\ n \in Nat /\ DOMAIN runOutputs' = 1..n
        /\ chosen \in [1..n -> OutputIds] /\ fresh \in [1..n -> OrtValues]
        /\ \A j \in 1..n : runOutputs'[j].index = chosen[j] /\ runOutputs'[j].value = fresh[j]
    BY DEF Installed
  <1>2. DOMAIN indices = 1..n /\ \A j \in 1..n : indices[j] = chosen[j]
    BY <1>1
  <1>3. o # NoName
    BY Domains DEF NoName
  <1>4. FindRunOutput(OutputNames[o])' = IF k # NoName THEN runOutputs'[k].value ELSE Null
    BY <1>3 DEF FindRunOutput
  <1> HIDE DEF indices
  <1>5. /\ k # NoName => k \in 1..n /\ chosen[k] = o
        /\ (\E j \in 1..n : chosen[j] = o) => k # NoName
    BY <1>1, <1>2, FindTensorFinds
  <1> HIDE DEF k
  <1>6. CASE k = NoName
    <2>1. OutputOf(OutputNames[o])' = Null
      BY <1>4, <1>6 DEF OutputOf, HasOutput
    <2> QED
      BY <1>5, <1>6, <2>1
  <1>7. CASE k # NoName
    <2>1. FindRunOutput(OutputNames[o])' = fresh[k] /\ fresh[k] # Null
      BY <1>1, <1>4, <1>5, <1>7, SessionAssumption
    <2>2. OutputOf(OutputNames[o])' = heap'[fresh[k]]
      BY <2>1 DEF OutputOf, HasOutput
    <2> QED
      BY <1>5, <1>7, <2>2 DEF Installed
  <1> QED
    BY <1>6, <1>7

----------------------------------------------------------------------------
(* The remaining variables: the session, predict's place and the reply.    *)
RestTypes ==
  /\ live \in BOOLEAN /\ profiling \in BOOLEAN
  /\ predicting \in Predictions \cup {Null}
  /\ reply \in [op : {"none", "create", "destroy", "set_input", "run",
                       "long_run", "predict", "end_profiling"},
                 ok : BOOLEAN, answer : Tensors \cup {Null}]

Rest == RestTypes /\ Presence

LEMMA IInvParts == IInv <=> Slots /\ CallTypes /\ Rest /\ BoundTensorsFit
  BY DEF IInv, TypeOK, Slots, SlotTypes, CallTypes, Rest, RestTypes

LEMMA IInvPartsNext == IInv' <=> Slots' /\ CallTypes' /\ Rest' /\ BoundTensorsFit'
  BY DEF IInv, TypeOK, Slots, SlotTypes, CallTypes, Rest, RestTypes

(* A step that touches nothing but the session, predict's place and the    *)
(* reply only has those to get right.                                      *)
LEMMA RestOnly ==
  ASSUME IInv, UNCHANGED <<bindings, outputs, lastError, heap>>, Rest'
  PROVE  IInv'
  <1>1. UNCHANGED <<boundInputs, boundShapes, allocations, reuses, runOutputs, generation,
                    lastError, heap>>
    BY DEF bindings, outputs
  <1>2. Slots'
    BY <1>1, IInvParts, SlotsUnchanged
  <1>3. CallTypes' /\ BoundTensorsFit'
    BY <1>1, IInvParts DEF CallTypes, BoundTensorsFit
  <1> QED
    BY <1>2, <1>3, IInvPartsNext

(* A reply without a tensor is well typed.                                 *)
LEMMA PlainReply ==
  ASSUME NEW op \in {"none", "create", "destroy", "set_input", "run", "long_run",
                    "predict", "end_profiling"},
         NEW ok \in BOOLEAN, Reply(op, ok, Null)
  PROVE  reply' \in [op : {"none", "create", "destroy", "set_input", "run",
                           "long_run", "predict", "end_profiling"},
                     ok : BOOLEAN, answer : Tensors \cup {Null}]
  BY DEF Reply

(* Slots that are all empty, with a heap that is, satisfy the invariant:    *)
(* in the first state, and after a step.                                    *)
LEMMA EmptySlots ==
  ASSUME boundInputs = [i \in InputIds |-> Null], runOutputs = <<>>,
         heap = [v \in OrtValues |-> Null]
  PROVE  Slots /\ BoundTensorsFit
  <1>1. BoundHandles = {} /\ OutputHandles = {} /\ DOMAIN runOutputs = {}
    BY DEF BoundHandles, OutputHandles
  <1>2. SlotTypes
    BY EmptySeq DEF SlotTypes
  <1>3. Ownership /\ SlotKinds /\ BoundTensorsFit
    BY <1>1 DEF Ownership, SlotsDistinct, HandlesOwned, SlotKinds, BoundTensorsFit
  <1> QED
    BY <1>2, <1>3 DEF Slots

LEMMA EmptySlotsNext ==
  ASSUME boundInputs' = [i \in InputIds |-> Null], runOutputs' = <<>>,
         heap' = [v \in OrtValues |-> Null]
  PROVE  Slots' /\ BoundTensorsFit'
  <1>1. BoundHandles' = {} /\ OutputHandles' = {} /\ DOMAIN runOutputs' = {}
    BY DEF BoundHandles, OutputHandles
  <1>2. SlotTypes'
    BY EmptySeq DEF SlotTypes
  <1>3. Ownership' /\ SlotKinds' /\ BoundTensorsFit'
    BY <1>1 DEF Ownership, SlotsDistinct, HandlesOwned, SlotKinds, BoundTensorsFit
  <1> QED
    BY <1>2, <1>3 DEF Slots

LEMMA InitIInv == Init => IInv
  <1> SUFFICES ASSUME Init PROVE IInv
    OBVIOUS
  <1>1. Slots /\ BoundTensorsFit
    BY EmptySlots DEF Init, NoOutputs
  <1>2. CallTypes /\ Rest
    BY DEF Init, CallTypes, Rest, RestTypes, Presence, ErrorKinds, NoOutputs
  <1> QED
    BY <1>1, <1>2, IInvParts

(* While the session lives, only the types of the remaining variables are   *)
(* left to check.                                                           *)
LEMMA LiveRest ==
  ASSUME RestTypes', live'
  PROVE  Rest'
  BY DEF Rest, Presence

LEMMA CreateKeeps ==
  ASSUME IInv, NEW profiled \in ProfileModes, Create(profiled)
  PROVE  IInv'
  <1>1. Slots /\ CallTypes /\ RestTypes /\ Presence
    BY IInvParts DEF Rest
  <1>2. /\ ~live /\ live' /\ profiling' = profiled
        /\ UNCHANGED <<heap, predicting>> /\ Reply("create", TRUE, Null)
        /\ Cleared
    BY DEF Create
  <1>3. BoundHandles = {} /\ OutputHandles = {}
    BY <1>1, <1>2 DEF Presence, BoundHandles, OutputHandles
  <1>4. heap = [v \in OrtValues |-> Null]
    BY <1>1, <1>3 DEF Slots, SlotTypes, Ownership, HandlesOwned
  <1>5. Slots' /\ BoundTensorsFit'
    BY <1>2, <1>4, EmptySlotsNext DEF Cleared, NoOutputs
  <1>6. CallTypes'
    BY <1>2 DEF Cleared, CallTypes, ErrorKinds
  <1>7. RestTypes'
    BY <1>1, <1>2, PlainReply, SessionAssumption DEF RestTypes
  <1> QED
    BY <1>2, <1>5, <1>6, <1>7, LiveRest, IInvPartsNext

LEMMA DestroyKeeps ==
  ASSUME IInv, Destroy
  PROVE  IInv'
  <1>1. Slots /\ CallTypes /\ RestTypes /\ Presence
    BY IInvParts DEF Rest
  <1>2. /\ live' = FALSE /\ profiling' = FALSE
        /\ heap' = ReleaseValues(heap, OutputHandles \cup BoundHandles)
        /\ predicting = Null /\ UNCHANGED predicting
        /\ Reply("destroy", TRUE, Null)
        /\ Cleared
    BY DEF Destroy, Idle
  <1>3. heap' = [v \in OrtValues |-> Null]
    BY <1>1, <1>2 DEF Slots, SlotTypes, Ownership, HandlesOwned, ReleaseValues
  <1>4. Slots' /\ BoundTensorsFit'
    BY <1>2, <1>3, EmptySlotsNext DEF Cleared, NoOutputs
  <1>5. CallTypes'
    BY <1>2 DEF Cleared, CallTypes, ErrorKinds
  <1>6. RestTypes'
    BY <1>1, <1>2, PlainReply DEF RestTypes
  <1>7. Presence'
    BY <1>2 DEF Presence, Cleared, NoOutputs
  <1> QED
    BY <1>4, <1>5, <1>6, <1>7, IInvPartsNext DEF Rest

LEMMA EndProfilingKeeps ==
  ASSUME IInv, NEW ok \in BOOLEAN, EndProfiling(ok)
  PROVE  IInv'
  <1>1. Slots /\ CallTypes /\ RestTypes /\ BoundTensorsFit /\ live
    BY IInvParts DEF Rest, EndProfiling, Idle
  <1>2. UNCHANGED <<boundInputs, boundShapes, allocations, reuses, runOutputs, generation, heap>>
    BY DEF EndProfiling, bindings, outputs
  <1>3. /\ UNCHANGED <<live, predicting>> /\ profiling' \in BOOLEAN
        /\ lastError' \in ErrorKinds /\ Reply("end_profiling", ok, Null)
    BY <1>1 DEF EndProfiling, ErrorKinds, RestTypes
  <1>4. Slots' /\ BoundTensorsFit'
    BY <1>1, <1>2, SlotsUnchanged DEF BoundTensorsFit
  <1>5. CallTypes'
    BY <1>1, <1>2, <1>3 DEF CallTypes
  <1>6. RestTypes'
    BY <1>1, <1>3, PlainReply DEF RestTypes
  <1> QED
    BY <1>1, <1>3, <1>4, <1>5, <1>6, LiveRest, IInvPartsNext

LEMMA SetInputStep ==
  ASSUME IInv, NEW name \in AskedNames, NEW shape \in AskedShapes,
         NEW payload \in Payloads, NEW ok \in BOOLEAN,
         SetInput(name, shape, payload, ok)
  PROVE  IInv'
  <1>1. Slots /\ CallTypes /\ RestTypes /\ BoundTensorsFit
    BY IInvParts DEF Rest
  <1>2. /\ live /\ UNCHANGED <<live, profiling, predicting>>
        /\ SetInputReturns(name, shape, payload, ok) /\ UNCHANGED outputs
        /\ Reply("set_input", ok, Null)
    BY DEF SetInput, Idle, session
  <1>3. Slots' /\ CallTypes' /\ BoundTensorsFit'
    BY <1>1, <1>2, SetInputKeeps DEF BoundShapes
  <1>4. RestTypes'
    BY <1>1, <1>2, PlainReply DEF RestTypes
  <1> QED
    BY <1>2, <1>3, <1>4, LiveRest, IInvPartsNext

LEMMA RunStep ==
  ASSUME IInv, NEW names \in AskedRuns, NEW ok \in BOOLEAN, Run(names, ok)
  PROVE  IInv'
  <1>1. Slots /\ CallTypes /\ RestTypes /\ BoundTensorsFit
    BY IInvParts DEF Rest
  <1>2. /\ live /\ UNCHANGED <<live, profiling, predicting>>
        /\ RunReturns(names, ok) /\ UNCHANGED bindings
        /\ Reply(RunOp(names), ok, Null) /\ RunOp(names) \in {"run", "long_run"}
    BY DEF Run, Idle, session, RunOp
  <1>3. Slots' /\ CallTypes' /\ BoundTensorsFit'
    BY <1>1, <1>2, RunKeeps, SessionAssumption
  <1>4. RestTypes'
    BY <1>1, <1>2, PlainReply DEF RestTypes
  <1> QED
    BY <1>2, <1>3, <1>4, LiveRest, IInvPartsNext

(* predict's reply when it fails.                                           *)
LEMMA PredictFailsRest ==
  ASSUME RestTypes, live, UNCHANGED <<live, profiling>>, PredictFails
  PROVE  Rest'
  <1>1. Reply("predict", FALSE, Null) /\ predicting' = Null
    BY DEF PredictFails
  <1>2. RestTypes'
    BY <1>1, PlainReply DEF RestTypes
  <1> QED
    BY <1>2, LiveRest

LEMMA PredictShapedStep ==
  ASSUME IInv, NEW payload \in Payloads, NEW shape \in BoundShapes, NEW cap \in Caps,
         NEW ok \in BOOLEAN, PredictShaped(payload, shape, cap, ok)
  PROVE  IInv'
  <1>1. Slots /\ CallTypes /\ RestTypes /\ BoundTensorsFit
    BY IInvParts DEF Rest
  <1>2. /\ live /\ UNCHANGED <<live, profiling>> /\ UNCHANGED outputs
        /\ SetInputReturns(InputNames[1], shape, payload, ok)
    BY DEF PredictShaped, Idle, session
  <1>3. Slots' /\ CallTypes' /\ BoundTensorsFit'
    BY <1>1, <1>2, SetInputKeeps
  <1>4. Rest'
    <2>1. CASE ok
      <3>1. predicting' \in Predictions /\ UNCHANGED reply
        BY <2>1 DEF PredictShaped, Predictions
      <3> QED
        BY <1>1, <1>2, <3>1, LiveRest DEF RestTypes
    <2>2. CASE ~ok
      <3>1. PredictFails
        BY <2>2 DEF PredictShaped
      <3> QED
        BY <1>1, <1>2, <3>1, PredictFailsRest
    <2> QED
      BY <2>1, <2>2
  <1> QED
    BY <1>3, <1>4, IInvPartsNext

LEMMA PredictRunStep ==
  ASSUME IInv, NEW ok \in BOOLEAN, PredictRun(ok)
  PROVE  IInv'
  <1>1. Slots /\ CallTypes /\ RestTypes /\ BoundTensorsFit /\ Presence
    BY IInvParts DEF Rest
  <1>2. /\ predicting # Null /\ UNCHANGED <<live, profiling>> /\ UNCHANGED bindings
        /\ RunReturns(<<OutputNames[1]>>, ok)
    BY DEF PredictRun, At, session
  <1>3. live
    BY <1>1, <1>2 DEF Presence
  <1>4. <<OutputNames[1]>> \in Seq(STRING)
    BY Domains, SessionAssumption, ElementOfSeq, LenProperties DEF OutputIds
  <1>5. Slots' /\ CallTypes' /\ BoundTensorsFit'
    BY <1>1, <1>2, <1>4, RunKeeps
  <1>6. Rest'
    <2>1. CASE ok
      <3>1. predicting' = [predicting EXCEPT !.at = "read"] /\ UNCHANGED reply
        BY <2>1 DEF PredictRun
      <3>2. predicting' \in Predictions
        BY <1>1, <1>2, <3>1 DEF RestTypes, Predictions
      <3> QED
        BY <1>1, <1>2, <1>3, <3>1, <3>2, LiveRest DEF RestTypes
    <2>2. CASE ~ok
      <3>1. PredictFails
        BY <2>2 DEF PredictRun
      <3> QED
        BY <1>1, <1>2, <1>3, <3>1, PredictFailsRest
    <2> QED
      BY <2>1, <2>2
  <1> QED
    BY <1>5, <1>6, IInvPartsNext

LEMMA PredictReadStep ==
  ASSUME IInv, NEW ok \in BOOLEAN, PredictRead(ok)
  PROVE  IInv'
  <1>1. Slots /\ RestTypes /\ Presence
    BY IInvParts DEF Rest
  <1>2. /\ predicting # Null /\ UNCHANGED <<live, profiling>>
        /\ UNCHANGED <<bindings, outputs, lastError, heap>>
    BY DEF PredictRead, At, session
  <1>3. live
    BY <1>1, <1>2 DEF Presence
  <1>4. Rest'
    <2>1. CASE ok
      <3> DEFINE value == FindRunOutput(OutputNames[1])
      <3>1. /\ HasOutput(OutputNames[1]) /\ predicting' = Null
            /\ Reply("predict", TRUE, heap[value])
        BY <2>1 DEF PredictRead, Readable
      <3>2. heap[value] \in OutputTensors
        BY <1>1, <3>1, FoundOutput, SlotsLive
      <3> HIDE DEF value
      <3>3. RestTypes'
        BY <1>1, <1>2, <3>1, <3>2 DEF RestTypes, Reply, Tensors
      <3> QED
        BY <1>2, <1>3, <3>3, LiveRest
    <2>2. CASE ~ok
      <3>1. PredictFails
        BY <2>2 DEF PredictRead
      <3> QED
        BY <1>1, <1>2, <1>3, <3>1, PredictFailsRest
    <2> QED
      BY <2>1, <2>2
  <1> QED
    BY <1>2, <1>4, RestOnly

(* The calls that are refused before they touch anything.                   *)
LEMMA CreateFailsStep ==
  ASSUME IInv, CreateFails
  PROVE  IInv'
  <1>1. Slots /\ RestTypes /\ Presence
    BY IInvParts DEF Rest
  <1>2. /\ UNCHANGED <<live, profiling, predicting>>
        /\ UNCHANGED <<bindings, outputs, lastError, heap>>
        /\ Reply("create", FALSE, Null)
    BY DEF CreateFails, session
  <1>3. RestTypes'
    BY <1>1, <1>2, PlainReply DEF RestTypes
  <1>4. Presence'
    BY <1>1, <1>2 DEF Presence, bindings, outputs
  <1> QED
    BY <1>2, <1>3, <1>4, RestOnly DEF Rest

LEMMA PredictRefusedStep ==
  ASSUME IInv, NEW payload \in Payloads, PredictRefused(payload)
  PROVE  IInv'
  <1>1. RestTypes
    BY IInvParts DEF Rest
  <1>2. /\ live /\ UNCHANGED <<live, profiling>> /\ PredictFails
        /\ UNCHANGED <<bindings, outputs, lastError, heap>>
    BY DEF PredictRefused, Idle, session
  <1>3. Rest'
    BY <1>1, <1>2, PredictFailsRest
  <1> QED
    BY <1>2, <1>3, RestOnly

LEMMA PredictStep ==
  ASSUME IInv, NEW payload \in Payloads, NEW cap \in Caps, NEW ok \in BOOLEAN,
         Predict(payload, cap, ok)
  PROVE  IInv'
  <1> DEFINE shape == ConcreteShape(InputDims[1])
  <1>1. shape \in BoundShapes
    BY Domains DEF BoundShapes
  <1>2. PredictShaped(payload, shape, cap, ok)
    BY DEF Predict
  <1> HIDE DEF shape
  <1> QED
    BY <1>1, <1>2, PredictShapedStep

LEMMA StutterStep ==
  ASSUME IInv, UNCHANGED vars
  PROVE  IInv'
  <1>1. Rest
    BY IInvParts
  <1>2. /\ UNCHANGED <<live, profiling, predicting, reply>>
        /\ UNCHANGED <<bindings, outputs, lastError, heap>>
    BY DEF vars, session
  <1>3. Rest'
    BY <1>1, <1>2 DEF Rest, RestTypes, Presence, bindings, outputs
  <1> QED
    BY <1>2, <1>3, RestOnly

(* Every step of the session keeps the invariant.                           *)
LEMMA StepKeepsIInv == IInv /\ [Next]_vars => IInv'
  <1> SUFFICES ASSUME IInv, [Next]_vars PROVE IInv'
    OBVIOUS
  <1>1. ASSUME NEW profiled \in ProfileModes, Create(profiled) PROVE IInv'
    BY <1>1, CreateKeeps
  <1>2. CASE CreateFails
    BY <1>2, CreateFailsStep
  <1>3. CASE Destroy
    BY <1>3, DestroyKeeps
  <1>4. ASSUME NEW ok \in BOOLEAN, EndProfiling(ok) PROVE IInv'
    BY <1>4, EndProfilingKeeps
  <1>5. ASSUME NEW ok \in BOOLEAN, PredictRun(ok) PROVE IInv'
    BY <1>5, PredictRunStep
  <1>6. ASSUME NEW ok \in BOOLEAN, PredictRead(ok) PROVE IInv'
    BY <1>6, PredictReadStep
  <1>7. ASSUME NEW name \in AskedNames, NEW shape \in AskedShapes,
               NEW payload \in Payloads, NEW ok \in BOOLEAN,
               SetInput(name, shape, payload, ok)
        PROVE  IInv'
    BY <1>7, SetInputStep
  <1>8. ASSUME NEW names \in AskedRuns, NEW ok \in BOOLEAN, Run(names, ok) PROVE IInv'
    BY <1>8, RunStep
  <1>9. ASSUME NEW payload \in Payloads, PredictRefused(payload) PROVE IInv'
    BY <1>9, PredictRefusedStep
  <1>10. ASSUME NEW payload \in Payloads, NEW cap \in Caps, NEW ok \in BOOLEAN,
                Predict(payload, cap, ok)
         PROVE  IInv'
    BY <1>10, PredictStep
  <1>11. ASSUME NEW payload \in Payloads, NEW cap \in Caps, NEW ok \in BOOLEAN,
                NEW shape \in AskedShapes, PredictShaped(payload, shape, cap, ok)
         PROVE  IInv'
    <2>1. shape \in BoundShapes
      BY DEF BoundShapes
    <2> QED
      BY <1>11, <2>1, PredictShapedStep
  <1>12. CASE UNCHANGED vars
    BY <1>12, StutterStep
  <1> QED
    BY <1>1, <1>2, <1>3, <1>4, <1>5, <1>6, <1>7, <1>8, <1>9, <1>10, <1>11, <1>12 DEF Next, NamedNext, PredictNext

----------------------------------------------------------------------------
(* The theorems                                                            *)

(* The inductive invariant holds in every behaviour of a session.           *)
THEOREM Invariance == Spec => []IInv
  BY InitIInv, StepKeepsIInv, PTL DEF Spec

(* Every variable keeps its type.                                           *)
THEOREM TypesAlwaysOK == Spec => []TypeOK
  <1>1. IInv => TypeOK
    BY DEF IInv
  <1> QED
    BY Invariance, <1>1, PTL

(* No OrtValue is held twice, used after its release, or lost, through every *)
(* failure of set_input, run and predict.                                   *)
THEOREM OwnershipAlways == Spec => []Ownership
  <1>1. IInv => Ownership
    BY DEF IInv, Slots
  <1> QED
    BY Invariance, <1>1, PTL

(* The remembered shape of a bound input is that of its tensor, so that an   *)
(* in-place reuse copies exactly what the tensor holds.                     *)
THEOREM BoundTensorsAlwaysFit == Spec => []BoundTensorsFit
  <1>1. IInv => BoundTensorsFit
    BY DEF IInv
  <1> QED
    BY Invariance, <1>1, PTL

LEMMA SlotsAnswerByName ==
  ASSUME Slots
  PROVE  GettersAnswerByName
  <1> SUFFICES ASSUME NEW name \in AskedNames, HasOutput(name)
               PROVE  OutputNames[OutputOf(name).data.output] = name
    BY DEF GettersAnswerByName
  <1>1. PICK k \in DOMAIN runOutputs :
           /\ FindRunOutput(name) = runOutputs[k].value
           /\ OutputNames[runOutputs[k].index] = name
    BY FoundOutput
  <1>2. OutputOf(name).data.output = runOutputs[k].index
    BY <1>1 DEF OutputOf, Slots, SlotKinds
  <1> QED
    BY <1>1, <1>2

(* A getter answers a name with the output of that name, whatever selection *)
(* the last run was given.                                                  *)
THEOREM GettersAlwaysAnswerByName == Spec => []GettersAnswerByName
  <1>1. IInv => GettersAnswerByName
    BY SlotsAnswerByName DEF IInv
  <1> QED
    BY Invariance, <1>1, PTL

----------------------------------------------------------------------------
(* After a failed run                                                      *)

(* What makes the failed run's promise inductive: not that the getters find *)
(* nothing, but that there is nothing.                                      *)
NothingCached == predicting = Null /\ reply.op = "run" /\ ~reply.ok => runOutputs = NoOutputs

(* Nothing is found in an empty cache.                                      *)
LEMMA NothingFound ==
  ASSUME runOutputs = NoOutputs, NEW name
  PROVE  ~HasOutput(name)
  <1> DEFINE o == FindTensor(OutputNames, name)
             indices == [j \in DOMAIN runOutputs |-> runOutputs[j].index]
  <1>1. DOMAIN indices = {}
    BY DEF NoOutputs
  <1> HIDE DEF indices
  <1>2. FindTensor(indices, o) = NoName
    BY <1>1 DEF FindTensor
  <1> QED
    BY <1>2 DEF HasOutput, FindRunOutput, indices

LEMMA NothingCachedKept ==
  ASSUME IInv, NothingCached, [Next]_vars
  PROVE  NothingCached'
  <1>1. predicting \in Predictions \cup {Null}
    BY IInvParts DEF Rest, RestTypes
  <1>2. ASSUME NEW profiled \in ProfileModes, Create(profiled) PROVE NothingCached'
    BY <1>2 DEF Create, Reply, NothingCached
  <1>3. CASE CreateFails \/ Destroy
    BY <1>3 DEF CreateFails, Destroy, Reply, NothingCached
  <1>4. ASSUME NEW ok \in BOOLEAN, EndProfiling(ok) PROVE NothingCached'
    BY <1>4 DEF EndProfiling, Reply, NothingCached
  <1>5. ASSUME NEW ok \in BOOLEAN, PredictRun(ok) PROVE NothingCached'
    <2>1. CASE ok
      <3>1. predicting' = [predicting EXCEPT !.at = "read"] /\ predicting # Null
        BY <1>5, <2>1 DEF PredictRun, At
      <3>2. predicting' \in Predictions
        BY <1>1, <3>1 DEF Predictions
      <3> QED
        BY <3>2, SessionAssumption DEF NothingCached
    <2>2. CASE ~ok
      BY <1>5, <2>2 DEF PredictRun, PredictFails, Reply, NothingCached
    <2> QED
      BY <2>1, <2>2
  <1>6. ASSUME NEW ok \in BOOLEAN, PredictRead(ok) PROVE NothingCached'
    BY <1>6 DEF PredictRead, PredictFails, Reply, NothingCached
  <1>7. ASSUME NEW name \in AskedNames, NEW shape \in AskedShapes,
               NEW payload \in Payloads, NEW ok \in BOOLEAN,
               SetInput(name, shape, payload, ok)
        PROVE  NothingCached'
    BY <1>7 DEF SetInput, Reply, NothingCached
  <1>8. ASSUME NEW names \in AskedRuns, NEW ok \in BOOLEAN, Run(names, ok)
        PROVE  NothingCached'
    <2>1. CASE ok
      BY <1>8, <2>1 DEF Run, Reply, NothingCached
    <2>2. CASE ~ok
      <3>1. CASE RunRefused(names)
        BY <1>8, <3>1 DEF Run, RunRefused, RunOp, Reply, NothingCached
      <3>2. CASE RunFails(names)
        BY <3>2 DEF RunFails, NothingCached
      <3> QED
        BY <1>8, <2>2, <3>1, <3>2 DEF Run, RunReturns
    <2> QED
      BY <2>1, <2>2
  <1>9. ASSUME NEW payload \in Payloads, PredictRefused(payload) PROVE NothingCached'
    BY <1>9 DEF PredictRefused, PredictFails, Reply, NothingCached
  <1>10. ASSUME NEW payload \in Payloads, NEW cap \in Caps, NEW ok \in BOOLEAN,
                NEW shape, PredictShaped(payload, shape, cap, ok)
         PROVE  NothingCached'
    <2>1. CASE ok
      <3>1. predicting' \in Predictions
        BY <1>10, <2>1 DEF PredictShaped, Predictions
      <3> QED
        BY <3>1, SessionAssumption DEF NothingCached
    <2>2. CASE ~ok
      BY <1>10, <2>2 DEF PredictShaped, PredictFails, Reply, NothingCached
    <2> QED
      BY <2>1, <2>2
  <1>11. ASSUME NEW payload \in Payloads, NEW cap \in Caps, NEW ok \in BOOLEAN,
                Predict(payload, cap, ok)
         PROVE  NothingCached'
    BY <1>10, <1>11 DEF Predict
  <1>12. CASE UNCHANGED vars
    BY <1>12 DEF vars, outputs, NothingCached
  <1> QED
    BY <1>2, <1>3, <1>4, <1>5, <1>6, <1>7, <1>8, <1>9, <1>10, <1>11, <1>12 DEF Next, NamedNext, PredictNext

(* A run for at most as many outputs as the model has that failed leaves     *)
(* nothing to retrieve, whichever of its checks or of ONNX Runtime's calls  *)
(* failed, and whatever was asked for before.                               *)
THEOREM FailedRunsLeaveNothing == Spec => []FailedFittingRunLeavesNoOutput
  <1>1. Init => NothingCached
    BY DEF Init, NothingCached
  <1>2. IInv /\ NothingCached /\ [Next]_vars => NothingCached'
    BY NothingCachedKept
  <1>3. NothingCached => FailedFittingRunLeavesNoOutput
    BY NothingFound DEF NothingCached, FailedFittingRunLeavesNoOutput
  <1> QED
    BY Invariance, <1>1, <1>2, <1>3, PTL DEF Spec

----------------------------------------------------------------------------
(* The generation identifies the outputs                                   *)

Identified ==
  live /\ live' /\ generation' = generation =>
    \A name \in AskedNames : OutputOf(name)' \in {OutputOf(name), Null}

(* While the cache and the tensors in it stay, every getter's answer stays. *)
LEMMA SameAnswer ==
  ASSUME Slots, UNCHANGED runOutputs, OutputsKept, NEW name
  PROVE  OutputOf(name)' = OutputOf(name)
  <1>1. FindRunOutput(name)' = FindRunOutput(name) /\ HasOutput(name)' = HasOutput(name)
    BY DEF FindRunOutput, HasOutput
  <1>2. CASE HasOutput(name)
    <2>1. PICK k \in DOMAIN runOutputs : FindRunOutput(name) = runOutputs[k].value
      BY <1>2, FoundOutput
    <2>2. heap'[FindRunOutput(name)] = heap[FindRunOutput(name)]
      BY <2>1 DEF OutputsKept
    <2> QED
      BY <1>1, <1>2, <2>2 DEF OutputOf
  <1>3. CASE ~HasOutput(name)
    BY <1>1, <1>3 DEF OutputOf
  <1> QED
    BY <1>2, <1>3

LEMMA SameAnswers ==
  ASSUME Slots, UNCHANGED runOutputs, OutputsKept
  PROVE  Identified
  BY SameAnswer DEF Identified

(* A step that leaves the cache and the whole heap alone.                   *)
LEMMA SameHeap ==
  ASSUME Slots, UNCHANGED <<runOutputs, heap>>
  PROVE  Identified
  BY SameAnswers DEF OutputsKept

LEMMA NothingFoundNext ==
  ASSUME runOutputs' = NoOutputs, NEW name
  PROVE  ~HasOutput(name)'
  <1> DEFINE o == FindTensor(OutputNames, name)
             indices == [j \in DOMAIN runOutputs' |-> runOutputs'[j].index]
  <1>1. DOMAIN indices = {}
    BY DEF NoOutputs
  <1> HIDE DEF indices
  <1>2. FindTensor(indices, o) = NoName
    BY <1>1 DEF FindTensor
  <1> QED
    BY <1>2 DEF HasOutput, FindRunOutput, indices

(* A run either leaves the outputs, or empties them, or counts.             *)
LEMMA RunIdentified ==
  ASSUME Slots, CallTypes, NEW names, NEW ok \in BOOLEAN, RunReturns(names, ok)
  PROVE  Identified
  <1>1. CASE RunRefused(names)
    BY <1>1, SameHeap DEF RunRefused, outputs
  <1>2. CASE RunFails(names)
    <2>1. runOutputs' = NoOutputs
      BY <1>2 DEF RunFails
    <2> QED
      BY <2>1, NothingFoundNext DEF Identified, OutputOf
  <1>3. CASE RunSucceeds(names)
    <2>1. generation' = generation + 1 /\ generation \in Nat
      BY <1>3 DEF RunSucceeds, Epoch, CallTypes
    <2> QED
      BY <2>1 DEF Identified
  <1> QED
    BY <1>1, <1>2, <1>3 DEF RunReturns

LEMMA StepIdentifies ==
  ASSUME IInv, Next
  PROVE  Identified
  <1>1. Slots /\ CallTypes /\ BoundTensorsFit
    BY IInvParts
  <1>2. ASSUME NEW profiled \in ProfileModes, Create(profiled) PROVE Identified
    BY <1>2 DEF Create, Identified
  <1>3. CASE CreateFails
    BY <1>1, <1>3, SameHeap DEF CreateFails, outputs
  <1>4. CASE Destroy
    BY <1>4 DEF Destroy, Identified
  <1>5. ASSUME NEW ok \in BOOLEAN, EndProfiling(ok) PROVE Identified
    BY <1>1, <1>5, SameHeap DEF EndProfiling, outputs
  <1>6. ASSUME NEW ok \in BOOLEAN, PredictRun(ok) PROVE Identified
    BY <1>1, <1>6, RunIdentified DEF PredictRun
  <1>7. ASSUME NEW ok \in BOOLEAN, PredictRead(ok) PROVE Identified
    BY <1>1, <1>7, SameHeap DEF PredictRead, outputs
  <1>8. ASSUME NEW name \in AskedNames, NEW shape \in AskedShapes,
               NEW payload \in Payloads, NEW ok \in BOOLEAN,
               SetInput(name, shape, payload, ok)
        PROVE  Identified
    <2>1. shape \in BoundShapes
      BY DEF BoundShapes
    <2>2. SetInputReturns(name, shape, payload, ok) /\ UNCHANGED outputs
      BY <1>8 DEF SetInput
    <2>3. OutputsKept
      BY <1>1, <2>1, <2>2, SetInputKeeps
    <2> QED
      BY <1>1, <2>2, <2>3, SameAnswers DEF outputs
  <1>9. ASSUME NEW names \in AskedRuns, NEW ok \in BOOLEAN, Run(names, ok)
        PROVE  Identified
    BY <1>1, <1>9, RunIdentified DEF Run
  <1>10. ASSUME NEW payload \in Payloads, PredictRefused(payload) PROVE Identified
    BY <1>1, <1>10, SameHeap DEF PredictRefused, outputs
  <1>11. ASSUME NEW payload \in Payloads, NEW cap \in Caps, NEW ok \in BOOLEAN,
                NEW shape \in BoundShapes, PredictShaped(payload, shape, cap, ok)
         PROVE  Identified
    <2>1. /\ SetInputReturns(InputNames[1], shape, payload, ok) /\ UNCHANGED outputs
      BY <1>11 DEF PredictShaped
    <2>2. OutputsKept
      BY <1>1, <2>1, SetInputKeeps
    <2> QED
      BY <1>1, <2>1, <2>2, SameAnswers DEF outputs
  <1>12. ASSUME NEW payload \in Payloads, NEW cap \in Caps, NEW ok \in BOOLEAN,
                Predict(payload, cap, ok)
         PROVE  Identified
    <2> DEFINE shape == ConcreteShape(InputDims[1])
    <2>1. shape \in BoundShapes
      BY Domains DEF BoundShapes
    <2>2. PredictShaped(payload, shape, cap, ok)
      BY <1>12 DEF Predict
    <2> HIDE DEF shape
    <2> QED
      BY <1>11, <2>1, <2>2
  <1> QED
    <2>1. \A shape \in AskedShapes : shape \in BoundShapes
      BY DEF BoundShapes
    <2> QED
      BY <1>2, <1>3, <1>4, <1>5, <1>6, <1>7, <1>8, <1>9, <1>10, <1>11, <1>12, <2>1 DEF Next, NamedNext, PredictNext

(* As long as the generation stays, an output may disappear but never        *)
(* appears or changes, however calls of set_input, run and predict follow   *)
(* each other.                                                              *)
THEOREM GenerationAlwaysIdentifies == Spec => GenerationIdentifiesOutputs
  <1>1. IInv /\ [Next]_vars => [Identified]_vars
    BY StepIdentifies
  <1>2. [Identified]_vars =>
          [live /\ live' /\ generation' = generation =>
             \A name \in AskedNames : OutputOf(name)' \in {OutputOf(name), Null}]_vars
    BY DEF Identified
  <1> QED
    BY Invariance, <1>1, <1>2, PTL DEF Spec, GenerationIdentifiesOutputs

----------------------------------------------------------------------------
(* A model with several inputs, of which predict is refused, takes some of  *)
(* the session's steps: what is proved of Spec is true of NamedSpec.        *)
LEMMA NamedSessionIsSession == NamedSpec => Spec
  <1>1. [NamedNext]_vars => [Next]_vars
    BY DEF Next
  <1> QED
    BY <1>1, PTL DEF NamedSpec, Spec
=============================================================================

-------------------------- MODULE IntrospectionProofs --------------------------
(***************************************************************************)
(* Proofs about Introspection, for any limits and any set of names, ranks  *)
(* and lengths of the stored names.                                        *)
(***************************************************************************)
EXTENDS Introspection, SequenceTheorems, WellFoundedInduction, TLAPS

(* What has been looked at so far, on each side: it was supported, and its  *)
(* name is stored in its place.                                            *)
Examined(s) ==
  /\ Len(stored[s]) <= Len(model[s])
  /\ \A i \in 1..Len(stored[s]) :
       /\ stored[s][i] = Cut[model[s][i].name]
       /\ model[s][i] \in Tensors
       /\ model[s][i].float /\ model[s][i].rank <= MaxRank

(* Where the two loops are.                                                 *)
LoopPlace ==
  /\ Len(stored[side]) < Len(model[side])
  /\ side = "outputs" => Len(stored["inputs"]) = Len(model["inputs"])
  /\ side = "inputs" => Len(stored["outputs"]) = 0

IInv ==
  /\ model \in Models
  /\ stored \in [Sides -> Seq(Names)]
  /\ side \in Sides
  /\ step \in {"count", "tensor", "ready", "refused", "ended"}
  /\ step = "count" => side = "inputs" /\ \A s \in Sides : Len(stored[s]) = 0
  /\ step \in {"tensor", "ready"} => \A s \in Sides : Len(model[s]) \in 1..IOMax
  /\ \A s \in Sides : Examined(s)
  /\ step = "tensor" => LoopPlace
  /\ step = "ready" => \A s \in Sides : Len(stored[s]) = Len(model[s])
  /\ step = "refused" /\ Supported => error = "ort"
  /\ step = "ended" => ~Supported

(* What the cast gives tells tensors from the rest.                         *)
LEMMA TensorsByCast ==
  ASSUME NEW v \in Values
  PROVE  v.tensor \in BOOLEAN /\ (v.tensor <=> v \in Tensors)
  BY DEF Values, Tensors, Others

----------------------------------------------------------------------------
(* Each side of a model is a sequence of values with different names.      *)
LEMMA SideOfModel ==
  ASSUME model \in Models, NEW s \in Sides
  PROVE  /\ model[s] \in Seq(Values)
         /\ DOMAIN model[s] = 1..Len(model[s]) /\ Len(model[s]) \in Nat
         /\ \A i, j \in DOMAIN model[s] : model[s][i].name = model[s][j].name => i = j
  <1>1. /\ \E n \in 0..IOMax + 1 : model[s] \in [1..n -> Values]
        /\ IsInjective([i \in DOMAIN model[s] |-> model[s][i].name])
    BY DEF Models
  <1>2. PICK n \in Nat : model[s] \in [1..n -> Values]
    BY <1>1, IntrospectionAssumption
  <1>3. model[s] \in Seq(Values)
    BY <1>2, SeqDef
  <1>4. DOMAIN model[s] = 1..Len(model[s]) /\ Len(model[s]) \in Nat
    BY <1>3, LenProperties
  <1>5. \A i, j \in DOMAIN model[s] : model[s][i].name = model[s][j].name => i = j
    BY <1>1 DEF IsInjective
  <1> QED
    BY <1>3, <1>4, <1>5

LEMMA InitIInv == Init => IInv
  <1> SUFFICES ASSUME Init PROVE IInv
    OBVIOUS
  <1>1. /\ model \in Models /\ step = "count" /\ side = "inputs" /\ error = "none"
        /\ stored = [s \in Sides |-> <<>>]
    BY DEF Init
  <1>2. \A s \in Sides : stored[s] = <<>> /\ Len(stored[s]) = 0
    BY <1>1
  <1>3. stored \in [Sides -> Seq(Names)]
    BY <1>1
  <1>4. \A s \in Sides : Examined(s)
    BY <1>1, <1>2, SideOfModel DEF Examined
  <1> QED
    BY <1>1, <1>2, <1>3, <1>4 DEF IInv, Sides

(* The tensor the loop has come to is one of the model's.                   *)
LEMMA CurrentIsDeclared ==
  ASSUME IInv, step = "tensor"
  PROVE  LET i == Len(stored[side]) + 1 IN
           /\ i \in DOMAIN model[side] /\ Current = model[side][i]
           /\ Current \in Values
  <1>1. side \in Sides /\ stored[side] \in Seq(Names) /\ Len(stored[side]) \in Nat
    BY LenProperties DEF IInv
  <1>2. Len(stored[side]) < Len(model[side])
    BY DEF IInv, LoopPlace
  <1>3. Len(stored[side]) + 1 \in DOMAIN model[side]
    BY <1>1, <1>2, SideOfModel DEF IInv
  <1>4. model[side] \in Seq(Values)
    BY <1>1, SideOfModel DEF IInv
  <1> QED
    BY <1>3, <1>4, ElementOfSeq, SideOfModel, <1>1 DEF Current, TensorAt, IInv

(* A step that stores nothing keeps what was examined.                      *)
LEMMA StoresNothing ==
  ASSUME IInv, UNCHANGED <<model, side, stored>>
  PROVE  \A s \in Sides : Examined(s)'
  BY DEF IInv, Examined

LEMMA CountKeeps ==
  ASSUME IInv, Count
  PROVE  IInv'
  <1>1. step = "count" /\ UNCHANGED <<model, side, stored>>
    BY DEF Count
  <1>2. \A s \in Sides : Examined(s)'
    BY <1>1, StoresNothing
  <1>3. CASE \A s \in Sides : CountFits(Len(model[s]))
    <2>1. step' = "tensor" /\ error' = error
      BY <1>3 DEF Count
    <2>2. \A s \in Sides : Len(model[s]) \in 1..IOMax
      BY <1>3 DEF CountFits
    <2>3. LoopPlace'
      BY <1>1, <2>2, IntrospectionAssumption DEF IInv, LoopPlace, Sides
    <2> QED
      BY <1>1, <1>2, <2>1, <2>2, <2>3 DEF IInv
  <1>4. CASE ~\A s \in Sides : CountFits(Len(model[s]))
    <2>1. step' = "refused"
      BY <1>4 DEF Count
    <2>2. ~Supported'
      BY <1>1, <1>4 DEF Supported, CountFits
    <2> QED
      BY <1>1, <1>2, <2>1, <2>2 DEF IInv
  <1> QED
    BY <1>3, <1>4

LEMMA RefusalKeeps ==
  ASSUME IInv, OrtFails \/ NotTensor \/ TooDeep \/ NotFloat
  PROVE  IInv'
  <1>1. step' \in {"refused", "ended"} /\ UNCHANGED <<model, side, stored>>
    BY DEF OrtFails, NotTensor, TooDeep, NotFloat
  <1>2. \A s \in Sides : Examined(s)'
    BY <1>1, StoresNothing
  <1>3. Supported' => step' = "refused" /\ error' = "ort"
    <2>1. CASE OrtFails
      BY <2>1 DEF OrtFails
    <2>2. CASE NotTensor \/ TooDeep \/ NotFloat
      <3>1. step = "tensor" /\ side \in Sides
        BY <2>2 DEF NotTensor, TooDeep, NotFloat, IInv
      <3>2. PICK i \in DOMAIN model[side] : Current = model[side][i] /\ Current \in Values
        BY <3>1, CurrentIsDeclared
      <3>3. ~Current.tensor \/ Current.rank \notin 0..MaxRank \/ ~Current.float
        <4>1. CASE TooDeep
          <5>1. Current \in Tensors /\ Current.rank > MaxRank
            BY <3>2, <4>1, TensorsByCast DEF TooDeep
          <5>2. Current.rank \in Nat
            BY <5>1, IntrospectionAssumption DEF Tensors
          <5> QED
            BY <5>1, <5>2, IntrospectionAssumption
        <4>2. CASE NotTensor \/ NotFloat
          BY <4>2 DEF NotTensor, NotFloat
        <4> QED
          BY <2>2, <4>1, <4>2
      <3>4. ~Supported
        BY <3>1, <3>2, <3>3 DEF Supported
      <3> QED
        BY <1>1, <3>4 DEF Supported
    <2> QED
      BY <2>1, <2>2
  <1> QED
    BY <1>1, <1>2, <1>3 DEF IInv

LEMMA StoreKeeps ==
  ASSUME IInv, Store
  PROVE  IInv'
  <1> DEFINE n == Len(stored[side])
             new == Append(stored[side], Cut[Current.name])
  <1>1. /\ step = "tensor" /\ Current.tensor /\ Current.rank <= MaxRank /\ Current.float
        /\ stored' = [stored EXCEPT ![side] = new]
        /\ UNCHANGED <<model, error>>
    BY DEF Store
  <1>2. /\ side \in Sides /\ stored \in [Sides -> Seq(Names)] /\ LoopPlace
        /\ \A s \in Sides : Examined(s) /\ Len(model[s]) \in 1..IOMax
    BY <1>1 DEF IInv
  <1>3. Current = model[side][n + 1] /\ Current \in Tensors /\ n \in Nat
    BY <1>1, <1>2, CurrentIsDeclared, TensorsByCast, LenProperties
  <1>4. Cut[Current.name] \in Names
    BY <1>3, IntrospectionAssumption DEF Tensors
  <1>5. /\ new \in Seq(Names) /\ Len(new) = n + 1
        /\ \A i \in 1..n : new[i] = stored[side][i]
        /\ new[n + 1] = Cut[Current.name]
    BY <1>2, <1>4, AppendProperties
  <1>6. stored'[side] = new /\ \A s \in Sides \ {side} : stored'[s] = stored[s]
    BY <1>1, <1>2
  <1>7. stored' \in [Sides -> Seq(Names)]
    BY <1>1, <1>2, <1>5
  <1>8. \A s \in Sides : Len(model[s]) \in Nat
    BY SideOfModel DEF IInv
  <1>9. \A s \in Sides : Examined(s)'
    <2>1. ASSUME NEW s \in Sides \ {side} PROVE Examined(s)'
      BY <1>1, <1>2, <1>6 DEF Examined
    <2>2. Examined(side) /\ Len(new) <= Len(model[side])
      BY <1>2, <1>3, <1>5, <1>8 DEF LoopPlace
    <2>3. \A i \in 1..(n + 1) : /\ new[i] = Cut[model[side][i].name]
                                /\ model[side][i] \in Tensors
                                /\ model[side][i].float /\ model[side][i].rank <= MaxRank
      <3> SUFFICES ASSUME NEW i \in 1..(n + 1)
                   PROVE  /\ new[i] = Cut[model[side][i].name]
                          /\ model[side][i] \in Tensors
                          /\ model[side][i].float /\ model[side][i].rank <= MaxRank
        OBVIOUS
      <3>1. CASE i = n + 1
        BY <1>1, <1>3, <1>5, <3>1
      <3>2. CASE i \in 1..n
        BY <1>5, <2>2, <3>2 DEF Examined
      <3> QED
        BY <1>3, <3>1, <3>2
    <2>4. \A s \in Sides : s = side => Examined(s)'
      BY <1>1, <1>5, <1>6, <2>2, <2>3 DEF Examined
    <2> QED
      BY <2>1, <2>4
  <1>10. CASE Len(stored'[side]) < Len(model[side])
    <2>1. UNCHANGED <<step, side>>
      BY <1>10 DEF Store
    <2>2. LoopPlace'
      BY <1>1, <1>2, <1>6, <1>10, <2>1 DEF LoopPlace, Sides
    <2> QED
      BY <1>1, <1>2, <1>7, <1>9, <2>1, <2>2 DEF IInv
  <1>11. CASE ~(Len(stored'[side]) < Len(model[side]))
    <2>1. side' = "outputs" /\ step' = IF side = "inputs" THEN "tensor" ELSE "ready"
      BY <1>11 DEF Store
    <2>2. Len(stored'[side]) = Len(model[side])
      BY <1>2, <1>3, <1>5, <1>6, <1>8, <1>11 DEF LoopPlace
    <2>3. CASE side = "inputs"
      <3>1. LoopPlace'
        BY <1>1, <1>2, <1>6, <2>1, <2>2, <2>3 DEF LoopPlace, Sides
      <3> QED
        BY <1>1, <1>2, <1>7, <1>9, <2>1, <2>3, <3>1 DEF IInv, Sides
    <2>4. CASE side = "outputs"
      <3>1. \A s \in Sides : Len(stored'[s]) = Len(model[s])
        BY <1>2, <1>6, <2>2, <2>4 DEF LoopPlace, Sides
      <3> QED
        BY <1>1, <1>2, <1>7, <1>9, <2>1, <2>4, <3>1 DEF IInv, Sides
    <2> QED
      BY <1>2, <2>3, <2>4 DEF Sides
  <1> QED
    BY <1>10, <1>11

(* The inductive invariant holds of every behaviour.                        *)
THEOREM Invariance == Spec => []IInv
  <1>1. IInv /\ [Next]_vars => IInv'
    <2> SUFFICES ASSUME IInv, [Next]_vars PROVE IInv'
      OBVIOUS
    <2>1. CASE UNCHANGED vars
      BY <2>1 DEF vars, IInv, Examined, LoopPlace, Supported
    <2> QED
      BY <2>1, CountKeeps, RefusalKeeps, StoreKeeps DEF Next
  <1> QED
    BY <1>1, InitIInv, PTL DEF Spec

(* A model is loaded when it is supported, and only then, whatever the      *)
(* limits, unless ONNX Runtime itself fails.                               *)
THEOREM SupportedModelsAccepted == Spec => []AcceptsSupported
  <1>1. IInv => AcceptsSupported
    <2> SUFFICES ASSUME IInv PROVE AcceptsSupported
      OBVIOUS
    <2>1. ASSUME step = "ready" PROVE Supported
      <3>1. ASSUME NEW s \in Sides, NEW i \in DOMAIN model[s]
            PROVE  /\ model[s][i].tensor /\ model[s][i].float
                   /\ model[s][i].rank \in 0..MaxRank
        <4>1. i \in 1..Len(stored[s]) /\ Examined(s)
          BY <2>1, SideOfModel DEF IInv
        <4>2. model[s][i] \in Tensors /\ model[s][i].tensor /\ model[s][i].rank \in Nat
          BY <4>1, IntrospectionAssumption DEF Tensors, Examined
        <4> QED
          BY <4>1, <4>2, IntrospectionAssumption DEF Examined
      <3> QED
        BY <2>1, <3>1 DEF IInv, Supported
    <2> QED
      BY <2>1 DEF IInv, AcceptsSupported
  <1> QED
    BY Invariance, <1>1, PTL

----------------------------------------------------------------------------
(* Finding a tensor by name                                                *)

(* A set of positions that is not empty has a first one.                    *)
LEMMA LeastIndex ==
  ASSUME NEW I \in SUBSET Nat, I # {}
  PROVE  \E i \in I : \A j \in I : i <= j
  <1>1. PICK x \in I : \A y \in I : ~(<<y, x>> \in OpToRel(<, Nat))
    BY NatLessThanWellFounded, WFMin
  <1>2. \A y \in I : ~(y < x)
    BY <1>1 DEF OpToRel
  <1>3. \A y \in I : x <= y
    BY <1>2
  <1> QED
    BY <1>3

LEMMA FindTensorFinds ==
  ASSUME NEW names \in Seq(Names), NEW i \in 1..Len(names)
  PROVE  /\ FindTensor(names, names[i]) \in 1..Len(names)
         /\ names[FindTensor(names, names[i])] = names[i]
  <1> DEFINE I == {j \in 1..Len(names) : names[j] = names[i]}
  <1>1. Len(names) \in Nat
    BY LenProperties
  <1>2. i \in I /\ I \in SUBSET Nat
    BY <1>1
  <1>3. \E j \in I : \A k \in I : j <= k
    BY <1>2, LeastIndex
  <1>4. Min(I) \in I
    BY <1>3 DEF Min
  <1>5. FindTensor(names, names[i]) = Min(I)
    BY <1>2 DEF FindTensor, SelectInSeq
  <1> QED
    BY <1>4, <1>5

(* A stored name leads back to a tensor it was cut from, and to the very    *)
(* tensor when the names of that side fit, whatever the names are.         *)
THEOREM NamesAlwaysAddress == Spec => []NamesAddress
  <1>1. IInv => NamesAddress
    <2> SUFFICES ASSUME IInv, step = "ready", NEW s \in Sides, NEW i \in DOMAIN model[s]
                 PROVE  LET found == FindTensor(stored[s], stored[s][i]) IN
                          /\ Cut[model[s][found].name] = stored[s][i]
                          /\ (\A j \in DOMAIN model[s] :
                                Cut[model[s][j].name] = model[s][j].name) =>
                               found = i /\ stored[s][i] = model[s][i].name
      BY DEF NamesAddress
    <2> DEFINE found == FindTensor(stored[s], stored[s][i])
    <2>1. /\ stored[s] \in Seq(Names) /\ Len(stored[s]) = Len(model[s])
          /\ DOMAIN model[s] = 1..Len(stored[s])
          /\ \A j \in DOMAIN model[s] : stored[s][j] = Cut[model[s][j].name]
      BY SideOfModel DEF IInv, Examined
    <2>2. found \in DOMAIN model[s] /\ stored[s][found] = stored[s][i]
      BY <2>1, FindTensorFinds
    <2>3. Cut[model[s][found].name] = stored[s][i]
      BY <2>1, <2>2
    <2>4. ASSUME \A j \in DOMAIN model[s] : Cut[model[s][j].name] = model[s][j].name
          PROVE  found = i /\ stored[s][i] = model[s][i].name
      <3>1. model[s][found].name = model[s][i].name
        BY <2>1, <2>2, <2>4
      <3> QED
        BY <2>1, <2>2, <2>4, <3>1, SideOfModel DEF IInv
    <2> QED
      BY <2>3, <2>4
  <1> QED
    BY Invariance, <1>1, PTL
=============================================================================

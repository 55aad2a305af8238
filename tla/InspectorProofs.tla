---------------------------- MODULE InspectorProofs ----------------------------
(***************************************************************************)
(* Proofs about Inspector, for any models, shapes, values and any number   *)
(* of calls in a press.                                                    *)
(***************************************************************************)
EXTENDS Inspector, WellFoundedInduction, TLAPS

(* The panels are those of the model, and so are the bindings.              *)
Panels(m) ==
  /\ DOMAIN editors = DOMAIN m.inputs /\ DOMAIN bound = DOMAIN m.inputs
  /\ outputNames = m.outputs /\ DOMAIN shown = m.outputs
  /\ \A o \in DOMAIN shown, part \in Parts :
       shown[o][part] # None => shown[o][part].model = m
  /\ \A o \in DOMAIN computed : computed[o].model = m

(* What the press under way bound so far is what the editors say, and what  *)
(* it computed last is what it will show.                                  *)
Progress ==
  /\ \A n \in DOMAIN editors \ press.left : session # None => bound[n] = Binding(editors[n])
  /\ press.at = "run" => press.left = {}
  /\ press.calls = 0 =>
       /\ press.at = "run" /\ session # None
       /\ computed = [o \in outputNames |-> Evaluate(o)]

IInv ==
  /\ session \in Models \cup {None}
  /\ DOMAIN editors \subseteq UNION {DOMAIN m.inputs : m \in Models}
  /\ bound = [n \in DOMAIN bound |-> bound[n]]
  /\ press \in Presses \cup {None}
  /\ session # None => Panels(session)
  /\ press # None => Progress

----------------------------------------------------------------------------
(* The steps outside a press                                               *)

(* The editors of an inspector that is not being pressed may change as they *)
(* like, as long as they are of the same inputs.                           *)
LEMMA EditsKeep ==
  ASSUME IInv, press = None, DOMAIN editors' = DOMAIN editors,
         UNCHANGED <<loader, outputNames, shown, press>>
  PROVE  IInv'
  BY DEF IInv, Panels, loader

LEMMA EditingKeeps ==
  ASSUME IInv, NEW name \in DOMAIN editors,
         \/ ApplyShape(name) \/ FillZeros(name)
         \/ \E shape \in TypedShapes : TypeShape(name, shape)
         \/ \E len \in TypedLengths, content \in Contents : TypeValues(name, len, content)
  PROVE  IInv' /\ (press # None => FALSE)
  <1>1. press = None /\ DOMAIN editors' = DOMAIN editors
        /\ UNCHANGED <<loader, outputNames, shown, press>>
    BY DEF ApplyShape, FillZeros, TypeShape, TypeValues
  <1> QED
    BY <1>1, EditsKeep

LEMMA LoadModelKeeps ==
  ASSUME IInv, NEW m \in Models, LoadModel(m)
  PROVE  IInv' /\ press = None
  <1>1. /\ press = None /\ press' = None /\ session' = m
        /\ bound' = [n \in DOMAIN m.inputs |-> None] /\ computed' = Nothing
        /\ editors' = [n \in DOMAIN m.inputs |-> Rebuilt(ConcreteShape(m.inputs[n]))]
        /\ outputNames' = m.outputs /\ shown' = [o \in m.outputs |-> Blank]
    BY DEF LoadModel
  <1>2. Panels(m)'
    BY <1>1 DEF Panels, Nothing, Blank
  <1> QED
    BY <1>1, <1>2 DEF IInv, Panels

LEMMA LoadModelFailsKeeps ==
  ASSUME IInv, LoadModelFails
  PROVE  IInv' /\ press = None
  BY DEF LoadModelFails, IInv, panels, Nothing

----------------------------------------------------------------------------
(* The steps of a press                                                    *)

LEMMA PressKeeps ==
  ASSUME IInv, NEW calls \in BatchCounts, Press(calls)
  PROVE  IInv' /\ press = None
  <1>1. /\ press = None /\ UNCHANGED <<loader, panels, status>>
        /\ press' = [at |-> "bind", left |-> DOMAIN editors, calls |-> calls]
    BY DEF Press
  <1>2. calls \in Nat /\ calls # 0
    BY InspectorAssumption
  <1>3. press' \in Presses
    BY <1>1, <1>2 DEF Presses, IInv
  <1>4. Progress'
    BY <1>1, <1>2 DEF Progress, panels
  <1> QED
    BY <1>1, <1>3, <1>4 DEF IInv, Panels, loader, panels

LEMMA NotNone == press \in Presses => press # None
  BY InspectorAssumption

LEMMA BindInputKeeps ==
  ASSUME IInv, NEW name \in DOMAIN editors, BindInput(name)
  PROVE  IInv' /\ press' # None
  <1> DEFINE e == editors[name]
  <1>1. /\ press # None /\ press.at = "bind" /\ name \in press.left
        /\ session # None /\ name \in DOMAIN session.inputs
        /\ bound' = [bound EXCEPT ![name] = Binding(e)]
        /\ press' = [press EXCEPT !.left = press.left \ {name}]
        /\ UNCHANGED <<session, computed, editors, outputNames, shown>>
    BY DEF BindInput, Accepts, panels
  <1>2. press \in Presses /\ Panels(session) /\ Progress
    BY <1>1 DEF IInv
  <1>3. /\ press' \in Presses /\ press'.at = press.at /\ press'.calls = press.calls
        /\ press'.left = press.left \ {name}
    BY <1>1, <1>2 DEF Presses
  <1>4. /\ bound' = [n \in DOMAIN bound' |-> bound'[n]] /\ DOMAIN bound' = DOMAIN bound
        /\ bound'[name] = Binding(e)
        /\ \A n \in DOMAIN bound \ {name} : bound'[n] = bound[n]
    BY <1>1, <1>2 DEF Panels, IInv
  <1>5. Panels(session)'
    BY <1>1, <1>2, <1>4 DEF Panels
  <1>6. Progress'
    <2>1. \A n \in DOMAIN editors \ press'.left : bound'[n] = Binding(editors[n])
      BY <1>1, <1>2, <1>3, <1>4 DEF Progress, Panels
    <2>2. press.calls # 0
      BY <1>1, <1>2 DEF Progress
    <2> QED
      BY <1>1, <1>3, <2>1, <2>2 DEF Progress, Binding
  <1> QED
    BY <1>1, <1>3, <1>4, <1>5, <1>6, InspectorAssumption DEF IInv

LEMMA StopsKeep ==
  ASSUME IInv, BindInputFails \/ RunFails
  PROVE  IInv' /\ status' # "ran"
  <1>1. CASE BindInputFails
    BY <1>1 DEF BindInputFails, Stops, IInv, Panels, loader, panels
  <1>2. CASE RunFails
    BY <1>2 DEF RunFails, Stops, IInv, Panels, panels, Nothing
  <1> QED
    BY <1>1, <1>2

LEMMA BindingDoneKeeps ==
  ASSUME IInv, BindingDone
  PROVE  IInv' /\ press' # None
  <1>1. /\ press # None /\ press.at = "bind" /\ press.left = {}
        /\ press' = [press EXCEPT !.at = "run"]
        /\ UNCHANGED <<session, bound, computed, editors, outputNames, shown>>
    BY DEF BindingDone, loader, panels
  <1>2. press \in Presses /\ Progress
    BY <1>1 DEF IInv
  <1>3. /\ press' \in Presses /\ press'.at = "run" /\ press'.calls = press.calls
        /\ press'.left = press.left
    BY <1>1, <1>2 DEF Presses
  <1>4. Progress'
    BY <1>1, <1>2, <1>3 DEF Progress
  <1>5. session # None => Panels(session)'
    BY <1>1 DEF IInv, Panels
  <1> QED
    BY <1>1, <1>3, <1>4, <1>5, InspectorAssumption DEF IInv

LEMMA RunOkKeeps ==
  ASSUME IInv, RunOk
  PROVE  IInv' /\ press' # None
  <1>1. /\ press # None /\ press.at = "run" /\ press.calls > 0 /\ session # None
        /\ computed' = [o \in outputNames |-> Evaluate(o)]
        /\ press' = [press EXCEPT !.calls = press.calls - 1]
        /\ UNCHANGED <<session, bound, editors, outputNames, shown>>
    BY DEF RunOk, panels
  <1>2. press \in Presses /\ Panels(session) /\ Progress
    BY <1>1 DEF IInv
  <1>3. press.calls - 1 \in Nat
    BY <1>1, <1>2 DEF Presses
  <1>4. /\ press' \in Presses /\ press'.at = "run" /\ press'.left = press.left
    BY <1>1, <1>2, <1>3 DEF Presses
  <1>5. \A o \in DOMAIN computed' : computed'[o].model = session
    BY <1>1 DEF Evaluate
  <1>6. Panels(session)'
    BY <1>1, <1>2, <1>5 DEF Panels
  <1>7. Progress'
    BY <1>1, <1>2, <1>4 DEF Progress, Evaluate
  <1> QED
    BY <1>1, <1>4, <1>6, <1>7, InspectorAssumption DEF IInv

(* Only a run that was made for the editors as they are gets this far.      *)
LEMMA ShowsEditors ==
  ASSUME IInv, ShowOutputs
  PROVE  /\ IInv'
         /\ session # None
         /\ \A o \in outputNames, part \in Parts :
              shown'[o][part] \in
                {None, [model |-> session, output |-> o,
                        inputs |-> [n \in DOMAIN session.inputs |-> Binding(editors[n])]]}
  <1>1. /\ press # None /\ press.at = "run" /\ press.calls = 0 /\ press' = None
        /\ UNCHANGED <<session, bound, computed, editors, outputNames>>
    BY DEF ShowOutputs, loader
  <1>2. /\ Progress /\ session # None /\ Panels(session)
        /\ computed = [o \in outputNames |-> Evaluate(o)] /\ press.left = {}
    BY <1>1 DEF IInv, Progress
  <1>3. bound = [n \in DOMAIN session.inputs |-> Binding(editors[n])]
    <2>1. bound = [n \in DOMAIN session.inputs |-> bound[n]]
      BY <1>2 DEF IInv, Panels
    <2>2. \A n \in DOMAIN session.inputs : bound[n] = Binding(editors[n])
      BY <1>2 DEF Progress, Panels
    <2> QED
      BY <2>1, <2>2
  <1>4. /\ DOMAIN shown' = outputNames
        /\ \A o \in outputNames, part \in Parts : shown'[o][part] \in {None, Evaluate(o)}
    <2>1. PICK answered :
            shown' = [o \in outputNames |-> [part \in Parts |->
                        IF <<o, part>> \in answered THEN computed[o] ELSE None]]
      BY DEF ShowOutputs
    <2>2. \A o \in outputNames, part \in Parts : shown'[o][part] \in {None, computed[o]}
      BY <2>1
    <2>3. \A o \in outputNames : computed[o] = Evaluate(o)
      BY <1>2
    <2> QED
      BY <2>1, <2>2, <2>3
  <1>5. Panels(session)'
    BY <1>1, <1>2, <1>4 DEF Panels, Evaluate
  <1>6. IInv'
    BY <1>1, <1>5 DEF IInv
  <1> QED
    BY <1>2, <1>3, <1>4, <1>6 DEF Evaluate

----------------------------------------------------------------------------
LEMMA InitIInv == Init => IInv
  BY DEF Init, IInv, Nothing

Shows ==
  press # None /\ status' = "ran" /\ press' = None =>
    /\ session # None
    /\ \A o \in outputNames, part \in Parts :
         shown'[o][part] \in
           {None, [model |-> session, output |-> o,
                   inputs |-> [n \in DOMAIN session.inputs |-> Binding(editors[n])]]}

LEMMA StepKeepsIInv ==
  ASSUME IInv, [Next]_vars
  PROVE  IInv' /\ [Shows]_vars
  <1>1. ASSUME NEW m \in Models, LoadModel(m) PROVE IInv' /\ Shows
    BY <1>1, LoadModelKeeps DEF Shows
  <1>2. ASSUME NEW name \in DOMAIN editors,
               \/ ApplyShape(name) \/ FillZeros(name)
               \/ \E shape \in TypedShapes : TypeShape(name, shape)
               \/ \E len \in TypedLengths, content \in Contents : TypeValues(name, len, content)
        PROVE  IInv' /\ Shows
    BY <1>2, EditingKeeps DEF Shows
  <1>3. ASSUME NEW name \in DOMAIN editors, BindInput(name) PROVE IInv' /\ Shows
    BY <1>3, BindInputKeeps DEF Shows
  <1>4. ASSUME NEW calls \in BatchCounts, Press(calls) PROVE IInv' /\ Shows
    BY <1>4, PressKeeps DEF Shows
  <1>5. CASE LoadModelFails
    BY <1>5, LoadModelFailsKeeps DEF Shows
  <1>6. CASE BindInputFails \/ RunFails
    BY <1>6, StopsKeep DEF Shows
  <1>7. CASE BindingDone \/ RunOk
    BY <1>7, BindingDoneKeeps, RunOkKeeps DEF Shows
  <1>8. CASE ShowOutputs
    BY <1>8, ShowsEditors DEF Shows
  <1>9. CASE UNCHANGED vars
    BY <1>9 DEF vars, loader, panels, IInv, Panels, Progress, Evaluate
  <1> QED
    BY <1>1, <1>2, <1>3, <1>4, <1>5, <1>6, <1>7, <1>8, <1>9 DEF Next

(* The inductive invariant holds of every behaviour.                        *)
THEOREM Invariance == Spec => []IInv
  BY InitIInv, StepKeepsIInv, PTL DEF Spec

(* While a model is loaded the panels are its panels, whatever loads failed *)
(* and whatever presses stopped halfway.                                   *)
THEOREM PanelsAlwaysMatchModel == Spec => []PanelsMatchModel
  <1>1. IInv => PanelsMatchModel
    BY DEF IInv, Panels, PanelsMatchModel
  <1> QED
    BY Invariance, <1>1, PTL

(* Whatever a press puts on display is the model loaded applied to what all *)
(* its editors say.                                                        *)
THEOREM ShownAlwaysAnswersEditors == Spec => ShownAnswersEditors
  <1>1. IInv /\ [Next]_vars => [Shows]_vars
    BY StepKeepsIInv
  <1>2. [Shows]_vars =>
          [press # None /\ status' = "ran" /\ press' = None =>
             /\ session # None
             /\ \A o \in outputNames, part \in Parts :
                  shown'[o][part] \in
                    {None, [model |-> session, output |-> o,
                            inputs |-> [n \in DOMAIN session.inputs |->
                                          Binding(editors[n])]]}]_vars
    BY DEF Shows
  <1> QED
    BY Invariance, <1>1, <1>2, PTL DEF Spec, ShownAnswersEditors

----------------------------------------------------------------------------
(* The element counts.  What the two products compute is proved by          *)
(* induction over the set of the lengths for which the claim holds.         *)

LEMMA NatSetInduction ==
  ASSUME NEW S, 0 \in S, \A n \in Nat : n \in S => n + 1 \in S
  PROVE  Nat \subseteq S
  <1> SUFFICES ASSUME NEW z \in Nat \ S PROVE FALSE
    OBVIOUS
  <1>1. PICK x \in Nat \ S : \A y \in Nat \ S : ~(<<y, x>> \in OpToRel(<, Nat))
    BY NatLessThanWellFounded, WFMin
  <1>2. \A y \in Nat \ S : ~(y < x)
    BY <1>1 DEF OpToRel
  <1>3. x # 0 /\ x - 1 \in Nat /\ x - 1 < x
    OBVIOUS
  <1>4. (x - 1) + 1 \in S
    BY <1>2, <1>3
  <1> QED
    BY <1>3, <1>4

(* g is what the first n steps F make of v0.                                *)
Steps(g, v0, F, n) == g[0] = v0 /\ \A i \in 1..n : g[i] = F[i][g[i - 1]]

(* A function defined step by step from v0 exists, whatever the steps are.  *)
LEMMA StepsExist ==
  ASSUME NEW V, NEW v0 \in V, NEW n \in Nat, NEW F \in [1..n -> [V -> V]]
  PROVE  \E g \in [0..n -> V] : Steps(g, v0, F, n)
  <1> USE DEF Steps
  <1> DEFINE S == {m \in Nat : m <= n => \E g \in [0..m -> V] : Steps(g, v0, F, m)}
  <1>1. 0 \in S
    <2>1. [i \in 0..0 |-> v0] \in [0..0 -> V] /\ Steps([i \in 0..0 |-> v0], v0, F, 0)
      OBVIOUS
    <2> QED
      BY <2>1
  <1>2. ASSUME NEW m \in Nat, m \in S PROVE m + 1 \in S
    <2> SUFFICES ASSUME m + 1 <= n PROVE \E g \in [0..m + 1 -> V] : Steps(g, v0, F, m + 1)
      OBVIOUS
    <2>1. PICK g \in [0..m -> V] : Steps(g, v0, F, m)
      BY <1>2
    <2> DEFINE h == [i \in 0..m + 1 |-> IF i <= m THEN g[i] ELSE F[m + 1][g[m]]]
    <2>2. g[m] \in V /\ F[m + 1] \in [V -> V]
      OBVIOUS
    <2>3. h \in [0..m + 1 -> V]
      BY <2>2
    <2>4. h[0] = v0
      BY <2>1
    <2>5. ASSUME NEW i \in 1..m + 1 PROVE h[i] = F[i][h[i - 1]]
      <3>1. h[i - 1] = g[i - 1]
        OBVIOUS
      <3>2. CASE i = m + 1
        BY <3>1, <3>2
      <3>3. CASE i # m + 1
        <4>1. i \in 1..m /\ h[i] = g[i]
          BY <3>3
        <4> QED
          BY <2>1, <3>1, <4>1
      <3> QED
        BY <3>2, <3>3
    <2> QED
      BY <2>3, <2>4, <2>5
  <1>3. n \in S
    <2> HIDE DEF S
    <2> QED
      BY <1>1, <1>2, NatSetInduction
  <1> QED
    BY <1>3

(* A product starts from 1 and stays among the integers.                    *)
LEMMA ProductExists ==
  ASSUME NEW n \in Nat, NEW F \in [1..n -> [Int -> Int]]
  PROVE  \E g \in [0..n -> Int] : Steps(g, 1, F, n)
  <1> DEFINE V == Int
             v0 == 1
  <1>1. v0 \in V /\ F \in [1..n -> [V -> V]]
    OBVIOUS
  <1>2. \E g \in [0..n -> V] : Steps(g, v0, F, n)
    <2> HIDE DEF V, v0
    <2> QED
      BY <1>1, StepsExist
  <1> QED
    BY <1>2

(* The two products, factor by factor.                                      *)
LEMMA CheckedUnfolds ==
  ASSUME NEW s \in Seq(Int)
  PROVE  \E c : /\ CheckedProduct(s) = c[Len(s)] /\ c[0] = 1
               /\ \A i \in 1..Len(s) : c[i] # NoSize => c[i - 1] # NoSize /\ c[i] = c[i - 1] * s[i]
  <1> DEFINE Body(v, i) == IF v = NoSize \/ s[i] <= 0 \/ v > Int32Max \div s[i]
                           THEN NoSize ELSE v * s[i]
             Eq(g) == g = [i \in 0..Len(s) |-> IF i = 0 THEN 1 ELSE Body(g[i - 1], i)]
             c == CHOOSE g : Eq(g)
  <1>1. PICK n \in Nat : n = Len(s) /\ \A i \in 1..n : s[i] \in Int
    <2>1. Len(s) \in Nat /\ \A i \in 1..Len(s) : s[i] \in Int
      OBVIOUS
    <2> QED
      BY <2>1
  <1>2. \A i \in 1..n, v \in Int : Body(v, i) \in Int
    BY <1>1 DEF NoSize
  <1> DEFINE F == [i \in 1..n |-> [v \in Int |-> Body(v, i)]]
  <1>3. F \in [1..n -> [Int -> Int]]
    BY <1>2
  <1>4. \A i \in 1..n, v \in Int : F[i][v] = Body(v, i)
    OBVIOUS
  <1> HIDE DEF F, Body
  <1>5. PICK g \in [0..n -> Int] : Steps(g, 1, F, n)
    BY <1>3, ProductExists
  <1>6. Eq(g)
    <2>1. ASSUME NEW i \in 0..n, i # 0 PROVE g[i] = Body(g[i - 1], i)
      <3>1. i \in 1..n /\ i - 1 \in 0..n
        BY <2>1
      <3> QED
        BY <1>4, <1>5, <3>1 DEF Steps
    <2> QED
      BY <1>1, <1>5, <2>1 DEF Steps
  <1>7. Eq(c)
    <2> HIDE DEF Eq
    <2> QED
      BY <1>6, Zenon
  <1>8. CheckedProduct(s) = c[n]
    BY <1>1 DEF CheckedProduct, Body
  <1> HIDE DEF c
  <1>9. c[0] = 1 /\ \A i \in 1..n : c[i] = Body(c[i - 1], i)
    <2>1. 0 \in 0..n /\ \A i \in 1..n : i \in 0..n /\ i # 0
      OBVIOUS
    <2> QED
      BY <1>1, <1>7, <2>1
  <1> QED
    BY <1>1, <1>8, <1>9 DEF Body

LEMMA ElementsUnfold ==
  ASSUME NEW s \in Seq(Int)
  PROVE  \E p : /\ ElementsOf(s) = p[Len(s)] /\ p[0] = 1
               /\ \A i \in 1..Len(s) : p[i] = p[i - 1] * s[i]
  <1> DEFINE Eq(g) == g = [i \in 0..Len(s) |-> IF i = 0 THEN 1 ELSE g[i - 1] * s[i]]
             p == CHOOSE g : Eq(g)
  <1>1. PICK n \in Nat : n = Len(s) /\ \A i \in 1..n : s[i] \in Int
    <2>1. Len(s) \in Nat /\ \A i \in 1..Len(s) : s[i] \in Int
      OBVIOUS
    <2> QED
      BY <2>1
  <1> DEFINE F == [i \in 1..n |-> [v \in Int |-> v * s[i]]]
  <1>2. F \in [1..n -> [Int -> Int]]
    BY <1>1
  <1>3. \A i \in 1..n, v \in Int : F[i][v] = v * s[i]
    OBVIOUS
  <1> HIDE DEF F
  <1>4. PICK g \in [0..n -> Int] : Steps(g, 1, F, n)
    BY <1>2, ProductExists
  <1>5. Eq(g)
    <2>1. ASSUME NEW i \in 0..n, i # 0 PROVE g[i] = g[i - 1] * s[i]
      <3>1. i \in 1..n /\ i - 1 \in 0..n
        BY <2>1
      <3> QED
        BY <1>3, <1>4, <3>1 DEF Steps
    <2> QED
      BY <1>1, <1>4, <2>1 DEF Steps
  <1>6. Eq(p)
    <2> HIDE DEF Eq
    <2> QED
      BY <1>5, Zenon
  <1>7. ElementsOf(s) = p[n]
    BY <1>1 DEF ElementsOf
  <1> HIDE DEF p
  <1>8. 0 \in 0..n /\ \A i \in 1..n : i \in 0..n /\ i # 0
    OBVIOUS
  <1> QED
    BY <1>1, <1>6, <1>7, <1>8

(* A guarded product that is a size at all is the product.                  *)
LEMMA SizesAreElements ==
  ASSUME NEW s \in Seq(Int), CheckedProduct(s) # NoSize
  PROVE  CheckedProduct(s) = ElementsOf(s)
  <1>1. PICK c : /\ CheckedProduct(s) = c[Len(s)] /\ c[0] = 1
                 /\ \A i \in 1..Len(s) :
                      c[i] # NoSize => c[i - 1] # NoSize /\ c[i] = c[i - 1] * s[i]
    BY CheckedUnfolds
  <1>2. PICK p : /\ ElementsOf(s) = p[Len(s)] /\ p[0] = 1
                 /\ \A i \in 1..Len(s) : p[i] = p[i - 1] * s[i]
    BY ElementsUnfold
  <1> DEFINE S == {k \in Nat : k <= Len(s) /\ c[k] # NoSize => c[k] = p[k]}
  <1>3. Len(s) \in Nat
    OBVIOUS
  <1>4. 0 \in S
    BY <1>1, <1>2
  <1>5. ASSUME NEW k \in Nat, k \in S PROVE k + 1 \in S
    <2> SUFFICES ASSUME k + 1 <= Len(s), c[k + 1] # NoSize PROVE c[k + 1] = p[k + 1]
      OBVIOUS
    <2>1. k + 1 \in 1..Len(s) /\ (k + 1) - 1 = k /\ k <= Len(s)
      BY <1>3
    <2>2. c[k] # NoSize /\ c[k + 1] = c[k] * s[k + 1]
      BY <1>1, <2>1
    <2>3. p[k + 1] = p[k] * s[k + 1]
      BY <1>2, <2>1
    <2>4. c[k] = p[k]
      BY <1>5, <2>1, <2>2
    <2> QED
      BY <2>2, <2>3, <2>4
  <1>6. Len(s) \in S
    <2> HIDE DEF S
    <2> QED
      BY <1>3, <1>4, <1>5, NatSetInduction
  <1> QED
    BY <1>1, <1>2, <1>6

----------------------------------------------------------------------------
(* Bindings are complete *)

(* An editor keeps its four fields, the shape integers wherever they come   *)
(* from; what is bound is as long as its shape says.                       *)
Editor(e) ==
  /\ e = [shape |-> e.shape, applied |-> e.applied, len |-> e.len, content |-> e.content]
  /\ e.shape \in Seq(Int)

Complete ==
  /\ \A n \in DOMAIN editors : Editor(editors[n])
  /\ BindingsComplete

LEMMA CompleteKept ==
  ASSUME Complete, UNCHANGED <<editors, bound>>
  PROVE  Complete'
  BY DEF Complete, BindingsComplete

LEMMA ConcreteIsInts ==
  ASSUME NEW s \in Seq(Int)
  PROVE  ConcreteShape(s) \in Seq(Int)
  <1>1. Len(s) \in Nat /\ DOMAIN s = 1..Len(s) /\ \A i \in 1..Len(s) : s[i] \in Int
    OBVIOUS
  <1>2. ConcreteShape(s) = [i \in 1..Len(s) |-> IF s[i] > 0 THEN s[i] ELSE 1]
    BY <1>1 DEF ConcreteShape
  <1> QED
    BY <1>1, <1>2

LEMMA EditsComplete ==
  ASSUME Complete, NEW name \in DOMAIN editors,
         \/ ApplyShape(name) \/ FillZeros(name)
         \/ \E shape \in TypedShapes : TypeShape(name, shape)
         \/ \E len \in TypedLengths, content \in Contents : TypeValues(name, len, content)
  PROVE  Complete'
  <1>1. UNCHANGED bound /\ DOMAIN editors' = DOMAIN editors
    BY DEF ApplyShape, FillZeros, TypeShape, TypeValues, loader
  <1>2. \A n \in DOMAIN editors : Editor(editors'[n])
    <2> SUFFICES ASSUME NEW n \in DOMAIN editors PROVE Editor(editors'[n])
      OBVIOUS
    <2>1. Editor(editors[n]) /\ Editor(editors[name])
      BY DEF Complete
    <2>2. CASE ApplyShape(name)
      <3>1. editors'[n] = IF n = name THEN Rebuilt(editors[name].shape) ELSE editors[n]
        BY <2>2 DEF ApplyShape
      <3> QED
        BY <2>1, <3>1 DEF Rebuilt, Editor
    <2>3. CASE FillZeros(name)
      <3>1. editors'[n] =
              IF n = name THEN [editors[name] EXCEPT !.len = editors[name].applied,
                                                     !.content = MadeUp]
              ELSE editors[n]
        BY <2>3 DEF FillZeros
      <3> QED
        BY <2>1, <3>1 DEF Editor
    <2>4. ASSUME NEW shape \in TypedShapes, TypeShape(name, shape)
          PROVE  Editor(editors'[n])
      <3>1. editors'[n] =
              IF n = name THEN [editors[name] EXCEPT !.shape = shape] ELSE editors[n]
        BY <2>4 DEF TypeShape
      <3>2. shape \in Seq(Int)
        BY InspectorAssumption
      <3> QED
        BY <2>1, <3>1, <3>2 DEF Editor
    <2>5. ASSUME NEW len \in TypedLengths, NEW content \in Contents,
                 TypeValues(name, len, content)
          PROVE  Editor(editors'[n])
      <3>1. editors'[n] =
              IF n = name THEN [editors[name] EXCEPT !.len = len, !.content = content]
              ELSE editors[n]
        BY <2>5 DEF TypeValues
      <3> QED
        BY <2>1, <3>1 DEF Editor
    <2> QED
      BY <2>2, <2>3, <2>4, <2>5
  <1> QED
    BY <1>1, <1>2 DEF Complete, BindingsComplete

LEMMA BindComplete ==
  ASSUME IInv, Complete, NEW name \in DOMAIN editors, BindInput(name)
  PROVE  Complete'
  <1> DEFINE e == editors[name]
  <1>1. /\ Accepts(name, e) /\ UNCHANGED editors
        /\ bound' = [bound EXCEPT ![name] = Binding(e)]
    BY DEF BindInput, panels
  <1>2. e.shape \in Seq(Int)
    BY DEF Complete, Editor
  <1>3. Binding(e).len = ElementsOf(Binding(e).shape)
    BY <1>1, <1>2, SizesAreElements DEF Accepts, ShapeFits, Binding
  <1> HIDE DEF e
  <1>4. ASSUME NEW n \in DOMAIN bound', bound'[n] # None
        PROVE  bound'[n].len = ElementsOf(bound'[n].shape)
    <2>1. n \in DOMAIN bound
      BY <1>1
    <2>2. CASE n = name
      BY <1>1, <1>3, <2>1, <2>2
    <2>3. CASE n # name
      BY <1>1, <1>4, <2>1, <2>3 DEF Complete, BindingsComplete
    <2> QED
      BY <2>2, <2>3
  <1> QED
    BY <1>1, <1>4 DEF Complete, BindingsComplete

LEMMA StepKeepsComplete ==
  ASSUME IInv, Complete, [Next]_vars
  PROVE  Complete'
  <1>1. ASSUME NEW m \in Models, LoadModel(m) PROVE Complete'
    <2>1. /\ bound' = [n \in DOMAIN m.inputs |-> None]
          /\ editors' = [n \in DOMAIN m.inputs |-> Rebuilt(ConcreteShape(m.inputs[n]))]
      BY <1>1 DEF LoadModel
    <2>2. \A n \in DOMAIN m.inputs : ConcreteShape(m.inputs[n]) \in Seq(Int)
      BY InspectorAssumption, ConcreteIsInts
    <2> QED
      BY <2>1, <2>2 DEF Complete, BindingsComplete, Rebuilt, Editor
  <1>2. CASE LoadModelFails
    BY <1>2 DEF LoadModelFails, panels, Nothing, Complete, BindingsComplete
  <1>3. CASE BindInputFails \/ BindingDone \/ RunOk \/ RunFails \/ ShowOutputs \/ UNCHANGED vars
    BY <1>3, CompleteKept DEF BindInputFails, BindingDone, RunOk, RunFails, ShowOutputs, Stops,
      vars, loader, panels
  <1>4. ASSUME NEW calls \in BatchCounts, Press(calls) PROVE Complete'
    BY <1>4, CompleteKept DEF Press, loader, panels
  <1> QED
    BY <1>1, <1>2, <1>3, <1>4, EditsComplete, BindComplete DEF Next

(* Although the inspector multiplies dimensions with no guard, no shape has *)
(* more or fewer elements than the values bound with it: what set_input     *)
(* counts itself is the product of any shape it lets pass.                  *)
THEOREM BindingsAlwaysComplete == Spec => []BindingsComplete
  <1>1. Init => Complete
    BY DEF Init, Nothing, Complete, BindingsComplete
  <1>2. IInv /\ Complete /\ [Next]_vars => Complete'
    BY StepKeepsComplete
  <1>3. Complete => BindingsComplete
    BY DEF Complete
  <1> QED
    BY Invariance, <1>1, <1>2, <1>3, PTL DEF Spec
=============================================================================

---------------------------- MODULE TensorContract ----------------------------
(***************************************************************************)
(* What README.md ("Outputs", "Thread ownership") promises the owner of an *)
(* OnnxLoader, without handles, reuse or release: a table of bindings, a   *)
(* table of outputs, a generation that says which run filled it, and what  *)
(* the owner was last told.                                                *)
(*                                                                         *)
(*   - a binding persists until it is replaced or the model is closed;     *)
(*   - a run needs every input bound; it fills the output table from the   *)
(*     bindings of that moment and starts a new generation;                *)
(*   - an owner told that a run failed has an empty output table and the   *)
(*     generation it had;                                                  *)
(*   - nothing else touches the output table.                              *)
(*                                                                         *)
(* One case is weaker than the words of README.md, as the code is: a run   *)
(* that asks for more outputs than the model has is refused and leaves the *)
(* table as it was (RunRefuse).                                            *)
(***************************************************************************)
EXTENDS Integers

CONSTANTS Inputs, Outputs,  \* the inputs and outputs of the model
          None              \* an empty entry of either table

VARIABLES open, binding, cache, generation,
          returned  \* what run told its caller; "other" after any other call,
                    \* the run within a predict included

vars == <<open, binding, cache, generation, returned>>

Empty(S) == [s \in S |-> None]

Init == /\ open = FALSE
        /\ binding = Empty(Inputs)
        /\ cache = Empty(Outputs)
        /\ generation = 0
        /\ returned = "other"

Reset == /\ binding' = Empty(Inputs)
         /\ cache' = Empty(Outputs)
         /\ generation' = 0
         /\ returned' = "other"

Open == ~open /\ open' = TRUE /\ Reset

Close == open /\ open' = FALSE /\ Reset

(* Another model is loaded in place of this one.                           *)
Replace == open /\ UNCHANGED open /\ Reset

Bind(i) ==
  /\ open
  /\ binding'[i] # None
  /\ binding' = [binding EXCEPT ![i] = binding'[i]]
  /\ returned' = "other"
  /\ UNCHANGED <<open, cache, generation>>

(* A tensor that is output o of the model applied to the bindings.         *)
Computed(o, tensor) == tensor.data = [output |-> o, inputs |-> binding]

RunOk ==
  /\ open
  /\ \A i \in Inputs : binding[i] # None
  /\ cache' # Empty(Outputs)
  /\ \A o \in Outputs : cache'[o] # None => Computed(o, cache'[o])
  /\ generation' = generation + 1
  /\ returned' \in {"ok", "other"}
  /\ UNCHANGED <<open, binding>>

RunFail ==
  /\ cache' = Empty(Outputs)
  /\ returned' \in {"failed", "other"}
  /\ UNCHANGED <<open, binding, generation>>

(* A run that asks for more outputs than there are.                        *)
RunRefuse ==
  /\ returned' = "refused"
  /\ UNCHANGED <<open, binding, cache, generation>>

(* A call that is no run and changes neither table.                        *)
Other ==
  /\ returned' = "other"
  /\ UNCHANGED <<open, binding, cache, generation>>

Next ==
  \/ Open \/ Close \/ RunOk \/ RunFail \/ RunRefuse \/ Other
  \/ \E i \in Inputs : Bind(i)

Spec == Init /\ [][Next]_vars

(* The owner of a loader sees one model after the other; the owner of a     *)
(* session sees one.                                                       *)
LoaderNext == Next \/ Replace
LoaderSpec == Init /\ [][LoaderNext]_vars
=============================================================================

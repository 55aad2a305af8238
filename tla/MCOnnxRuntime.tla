---------------------------- MODULE MCOnnxRuntime ----------------------------
(***************************************************************************)
(* Instance of OnnxRuntime: a model with two inputs and two outputs driven *)
(* through the named calls.  MCOnnxLoader has the model with one input.    *)
(***************************************************************************)
EXTENDS OnnxRuntime, TLC, SequencesExt

Handles == Permutations(OrtValues)

(* Two inputs: one with a dynamic batch, one fixed; two outputs.            *)
TwoInputNames  == <<"x", "mask">>
TwoInputDims   == << <<0, 2>>, <<2>> >>
TwoOutputNames == <<"y", "z">>
TwoAskedNames  == {"x", "mask", "y", "z"}
TwoAskedShapes == { <<1, 2>>, <<2, 2>>, <<2>> }
TwoAskedRuns   == { <<>>, <<"z">>, <<"z", "y">>, <<"y", "y">>, <<"y", "x">>,
                    <<"y", "z", "y">> }
TwoPayloads    == { [len |-> 2, values |-> "a"], [len |-> 2, values |-> "b"],
                    [len |-> 4, values |-> "a"] }

PairShape      == { <<2>> }
=============================================================================

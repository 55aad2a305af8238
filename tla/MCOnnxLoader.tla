---------------------------- MODULE MCOnnxLoader ----------------------------
(***************************************************************************)
(* Instance of OnnxLoader: a model with one input and one output, both with *)
(* a dynamic batch, loaded, replaced, unloaded and driven through the named *)
(* calls, predict and predict_shaped.                                      *)
(***************************************************************************)
EXTENDS OnnxLoader, TLC

Handles == Permutations(OrtValues)

MCInputNames  == <<"x">>
MCInputDims   == << <<0, 2>> >>
MCOutputNames == <<"y">>
MCOutputDims  == << <<0, 1>> >>
MCAskedNames  == {"x", "y"}
MCAskedShapes == { <<1, 2>>, <<2, 2>>, <<>>, <<1, 1, 2>> }
MCAskedRuns   == { <<>>, <<"x">>, <<"y", "y">>, <<"y", "y", "y">> }
MCPayloads    == { [len |-> 2, values |-> "a"], [len |-> 4, values |-> "a"] }
MCOutputShapes == { <<1, 1>>, <<2, 1>>, <<0, 1>> }
=============================================================================

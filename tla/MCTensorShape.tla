---------------------------- MODULE MCTensorShape ----------------------------
(***************************************************************************)
(* TensorShape against reference definitions, over every pair of a         *)
(* declared shape and a requested shape up to MaxRank.  A behaviour builds *)
(* the pair one dimension at a time; an element-count limit as small as    *)
(* the products makes the overflow guards bite on both sides of the limit. *)
(***************************************************************************)
EXTENDS TensorShape, SequencesExt

CONSTANT DimValues   \* the dimensions tried; some of them not positive

ASSUME DimAssumption == DimValues \subseteq Int   \* int64_t in the program

VARIABLES dims,      \* a declared shape (dynamic where not positive)
          shape      \* the shape a caller passes for it

vars == <<dims, shape>>

Init == dims = <<>> /\ shape = <<>>

Grow == /\ Len(dims) < MaxRank
        /\ \E d, s \in DimValues :
              /\ dims' = Append(dims, d)
              /\ shape' = Append(shape, s)

(* A model may produce a tensor of a rank no declaration could have: one   *)
(* that declares no rank at all.                                           *)
Exceed == /\ Len(shape) = MaxRank
          /\ \E s \in DimValues : shape' = Append(shape, s)
          /\ UNCHANGED dims

Restart == /\ Len(dims) = MaxRank
           /\ dims' = <<>>
           /\ shape' = <<>>

Next == Grow \/ Exceed \/ Restart

Spec == Init /\ [][Next]_vars

----------------------------------------------------------------------------
MCDimValues == -1..4

(* The product without any guard: what the arithmetic is meant to compute. *)
Product(s) == FoldLeft(LAMBDA n, d : n * d, 1, s)

Positive(s) == \A i \in DOMAIN s : s[i] > 0

(* The division guard neither lets a product past the limit through nor    *)
(* refuses one that fits (tensor_float_info, onnx_runtime_set_input_f32).  *)
CheckedProductExact ==
  CheckedProduct(shape) =
    IF Positive(shape) /\ Product(shape) <= Int32Max
    THEN Product(shape) ELSE NoSize

(* A flat size is reported exactly when only the batch dimension is        *)
(* dynamic and one batch fits the limit, and it is the size of one batch   *)
(* (get_input_size(), get_output_size()).                                  *)
FlatSizeExact ==
  LET inner == IF dims = <<>> THEN <<>> ELSE Tail(dims)
      batch == IF dims = <<>> \/ dims[1] <= 0 THEN 1 ELSE dims[1]
  IN  FlatSize(dims) =
        IF Positive(inner) /\ batch * Product(inner) <= Int32Max
        THEN batch * Product(inner) ELSE NoSize

(* Whenever a model has a flat size, the shape predict() makes up for an   *)
(* input of that size passes set_input's own check and needs exactly that  *)
(* many elements (onnx_runtime_predict feeding onnx_runtime_set_input_f32).*)
PredictShapeAccepted ==
  FlatSize(dims) # NoSize =>
    /\ ShapeFits(dims, ConcreteShape(dims))
    /\ CheckedProduct(ConcreteShape(dims)) = FlatSize(dims)

NotNegative(s) == \A i \in DOMAIN s : s[i] >= 0

(* get_output hands out the whole tensor whenever an array can hold it and  *)
(* its shape can be read, and nothing otherwise, zero dimensions anywhere   *)
(* in the shape included: the count it computes agrees with the one ONNX    *)
(* Runtime checks it against (OnnxLoader::get_output).                      *)
OutputHandedOutWhole ==
  NotNegative(shape) =>
    OutputLength(shape, Product(shape)) =
      IF /\ Product(shape) <= Int32Max
         /\ Len(shape) <= MaxRank \/ Product(shape) = 1
      THEN Product(shape) ELSE 0

(* The shape of a tensor there is: ONNX Runtime counts its elements in a    *)
(* size_t.                                                                 *)
Produced(s) == NotNegative(s) /\ Product(s) < SizeMod

(* The readers of an output agree but for its rank.  The slice of the whole *)
(* tensor is the tensor, as far as an int counts, and a scalar exists at    *)
(* every index of it and at no other, whatever the rank.  get_output hands  *)
(* out that same slice, of as many elements as get_output_shape announces,  *)
(* unless the rank is one there is no room for: of such an output it hands  *)
(* out nothing, a single element excepted, while slices and scalars go on   *)
(* reading it (get_output_shape, get_output, get_output_slice and           *)
(* get_output_scalar of OnnxLoader).                                        *)
ReadersAgree ==
  LET total == Product(shape)
      slice == SliceLength(0, total, total)
      whole == OutputLength(shape, total)
  IN  Produced(shape) =>
        /\ slice = IF total <= Int32Max THEN total ELSE 0
        /\ whole = IF Len(shape) <= MaxRank \/ total = 1 THEN slice ELSE 0
        /\ OutputShape(shape) # <<>> /\ total <= Int32Max =>
             whole = Product(OutputShape(shape))
        /\ \A index \in -1..Int32Max + 1 :
             SliceLength(index, 1, total) = 1
               <=> index \in 0..total - 1 /\ index <= Int32Max

(* A slice is granted exactly when all its elements exist: the unsigned    *)
(* subtraction never wraps into a grant (onnx_runtime_output_slice_f32).   *)
SliceInsideTensor ==
  LET total == CheckedProduct(shape) IN
    total # NoSize =>
      \A offset, count \in 0..Int32Max :
        SliceFits(offset, count, total) <=> offset + count <= total
=============================================================================

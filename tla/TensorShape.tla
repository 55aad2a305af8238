----------------------------- MODULE TensorShape -----------------------------
(***************************************************************************)
(* The shape arithmetic of the runtime wrapper (src/onnx_runtime.c).       *)
(*                                                                         *)
(* A model declares each tensor as a sequence of dimensions; a dimension   *)
(* that is not positive is dynamic.  The wrapper multiplies dimensions in  *)
(* three places, always guarding the product by a division before it       *)
(* multiplies: the flat size of a declared tensor (batch counted as 1),    *)
(* the element count of a shape a caller passes, and the room an output    *)
(* needs.  A fourth place subtracts: the bounds of a slice of an output.   *)
(***************************************************************************)
EXTENDS Integers, Sequences

CONSTANTS
  Int32Max,  \* the largest element count (INT32_MAX)
  SizeMod,   \* size_t wraps modulo this (2^64 in the program)
  MaxRank    \* ONNX_LOADER_MAX_RANK

ASSUME ShapeAssumption ==
  /\ Int32Max \in Nat \ {0}
  /\ SizeMod \in Nat /\ SizeMod > Int32Max
  /\ MaxRank \in Nat \ {0}

NoSize == -1   \* out_flat_or_neg1: the flat size of a dynamic tensor

----------------------------------------------------------------------------
(* Faulty variants, each defined before the operator it stands in for: the *)
(* properties of the runs must notice every one of them.                   *)
CheckedProductOffByOne(dims) ==      \* refuses products next to the limit
  LET p[i \in 0..Len(dims)] ==
        IF i = 0 THEN 1
        ELSE IF p[i - 1] = NoSize \/ dims[i] <= 0 \/ p[i - 1] >= Int32Max \div dims[i]
             THEN NoSize
             ELSE p[i - 1] * dims[i]
  IN  p[Len(dims)]

OutputCountOffByOne(shape) ==        \* refuses products next to the limit
  LET p[i \in 0..Len(shape)] ==
        IF i = 0 THEN 1
        ELSE IF \/ p[i - 1] = NoSize
                \/ shape[i] < 0
                \/ shape[i] # 0 /\ p[i - 1] >= Int32Max \div shape[i]
             THEN NoSize
             ELSE p[i - 1] * shape[i]
  IN  p[Len(shape)]

OutputShapeCut(shape) ==             \* keeps the dimensions there is room for
  SubSeq(shape, 1, IF Len(shape) < MaxRank THEN Len(shape) ELSE MaxRank)

SliceFitsUnordered(offset, count, total) ==  \* subtracts before it compares
  count <= (total - offset) % SizeMod

----------------------------------------------------------------------------
(* The guarded product: NoSize as soon as a factor is not positive or the  *)
(* next multiplication would exceed Int32Max.                              *)
CheckedProduct(dims) ==
  LET p[i \in 0..Len(dims)] ==
        IF i = 0 THEN 1
        ELSE IF \/ p[i - 1] = NoSize
                \/ dims[i] <= 0
                \/ p[i - 1] > Int32Max \div dims[i]
             THEN NoSize
             ELSE p[i - 1] * dims[i]
  IN  p[Len(dims)]

(* The shape predict() passes on: every dynamic dimension becomes 1.       *)
ConcreteShape(dims) ==
  [i \in DOMAIN dims |-> IF dims[i] > 0 THEN dims[i] ELSE 1]

FlatSizeAllDynamic(dims) ==          \* counts every dynamic dimension as 1
  CheckedProduct(ConcreteShape(dims))

(* The flat size introspection stores: only the batch dimension may be     *)
(* dynamic (it counts as 1).                                               *)
FlatSize(dims) ==
  IF \E i \in DOMAIN dims : i > 1 /\ dims[i] <= 0
  THEN NoSize
  ELSE CheckedProduct(ConcreteShape(dims))

ShapeFitsExactly(dims, shape) ==     \* fault: knows no dynamic dimension
  /\ Len(shape) = Len(dims)
  /\ \A i \in DOMAIN shape : shape[i] > 0 /\ dims[i] = shape[i]
  /\ CheckedProduct(shape) # NoSize

(* The shape a caller passes conforms to the declared dimensions.          *)
ShapeFits(dims, shape) ==
  /\ Len(shape) = Len(dims)
  /\ \A i \in DOMAIN shape :
        shape[i] > 0 /\ (dims[i] > 0 => dims[i] = shape[i])
  /\ CheckedProduct(shape) # NoSize

(* The shape get_output_shape answers with: there is room for MaxRank       *)
(* dimensions, and a tensor with more has none that can be read.           *)
OutputShape(shape) == IF Len(shape) <= MaxRank THEN shape ELSE <<>>

(* The array get_output makes room for: zero dimensions are allowed, as the *)
(* shapes are those of tensors ONNX Runtime produced.                      *)
OutputCount(shape) ==
  LET p[i \in 0..Len(shape)] ==
        IF i = 0 THEN 1
        ELSE IF \/ p[i - 1] = NoSize
                \/ shape[i] < 0
                \/ shape[i] # 0 /\ p[i - 1] > Int32Max \div shape[i]
             THEN NoSize
             ELSE p[i - 1] * shape[i]
  IN  p[Len(shape)]

(* The length of what get_output hands out for a tensor of total elements:  *)
(* all of them, or none when they do not fit the room made.                *)
OutputLength(shape, total) ==
  LET room == OutputCount(OutputShape(shape))
  IN  IF room # NoSize /\ total <= room THEN total ELSE 0

(* count elements from offset lie inside a tensor of total elements; the   *)
(* arguments are non-negative and the subtraction is size_t's.             *)
SliceFits(offset, count, total) ==
  /\ offset <= total
  /\ count <= (total - offset) % SizeMod

(* The length of what get_output_slice hands out; the arguments are a       *)
(* script's 64-bit integers.  get_output_scalar asks for one element.       *)
SliceLength(offset, count, total) ==
  IF /\ offset \in 0..Int32Max
     /\ count \in 0..Int32Max
     /\ SliceFits(offset, count, total)
  THEN count ELSE 0
=============================================================================

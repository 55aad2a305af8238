---------------------------- MODULE MetadataProofs ----------------------------
(***************************************************************************)
(* Proofs about Metadata, for models with any number of entries, buffers   *)
(* of any size and any failure.                                            *)
(***************************************************************************)
EXTENDS Metadata, FiniteSetTheorems, TLAPS

(* What is held at each step of a call.                                     *)
Held ==
  /\ step \in {"idle", "next", "meta"} => live = {}
  /\ step \in {"allocator", "ask"} => live = {<<"meta", 1>>}
  /\ step = "done" => live \subseteq {<<"meta", 1>>, <<"value", 1>>} \cup KeyObjects

(* A value was copied only for a key the model has.                         *)
Found == step = "done" /\ caller # "keys" /\ rc = 0 => key \in DOMAIN props

Steps == {"idle", "next", "meta", "allocator", "ask", "done"}

IInv == step \in Steps /\ Held /\ Found /\ EntriesAreTheModels

LEMMA ReturnAdds ==
  ASSUME IInv, Return
  PROVE  EntriesAreTheModels'
  <1>1. UNCHANGED props /\ step = "done"
    BY DEF Return, model
  <1>2. CASE Adds
    <2>1. key \in DOMAIN props /\ rc = 0
      BY <1>1, <1>2 DEF Adds, IInv, Found
    <2>2. dict' = [k \in DOMAIN dict \cup {Latin1[key]} |->
                     IF k # Latin1[key] THEN dict[k] ELSE Latin1[CutValue[props[key]]]]
      BY <1>2, <2>1 DEF Return, Value
    <2> SUFFICES ASSUME NEW k \in DOMAIN dict'
                 PROVE  \E m \in DOMAIN props :
                          k = Latin1[m] /\ dict'[k] = Latin1[CutValue[props[m]]]
      BY <1>1 DEF EntriesAreTheModels
    <2>3. CASE k = Latin1[key]
      BY <2>1, <2>2, <2>3
    <2>4. CASE k # Latin1[key]
      <3>1. k \in DOMAIN dict /\ dict'[k] = dict[k]
        BY <2>2, <2>4
      <3> QED
        BY <3>1 DEF IInv, EntriesAreTheModels
    <2> QED
      BY <2>3, <2>4
  <1>3. CASE ~Adds
    BY <1>1, <1>3 DEF Return, IInv, EntriesAreTheModels
  <1> QED
    BY <1>2, <1>3

LEMMA StepKeepsIInv ==
  ASSUME IInv, [Next]_vars
  PROVE  IInv'
  <1>1. CASE GetModelMetadata
    <2>1. EntriesAreTheModels'
      BY <1>1 DEF GetModelMetadata, Nothing, EntriesAreTheModels
    <2> QED
      BY <1>1, <2>1 DEF GetModelMetadata, IInv, Steps, Held, Found
  <1>2. CASE GetMetadataValue
    BY <1>2 DEF GetMetadataValue, model, listing, IInv, Steps, Held, Found, EntriesAreTheModels
  <1>3. CASE GetMeta \/ GetAllocator
    BY <1>3 DEF GetMeta, GetAllocator, model, listing, IInv, Steps, Held, Found,
      EntriesAreTheModels
  <1>4. CASE OrtFails
    BY <1>4 DEF OrtFails, model, listing, IInv, Steps, Held, Found, EntriesAreTheModels
  <1>5. CASE CopyKeys
    BY <1>5 DEF CopyKeys, KeyObjects, model, IInv, Steps, Held, Found, EntriesAreTheModels
  <1>6. CASE CopyValue
    BY <1>6 DEF CopyValue, model, listing, IInv, Steps, Held, Found, EntriesAreTheModels
  <1>7. CASE Return
    <2>1. step = "done" /\ step' \in {"idle", "next"} /\ live' = live \ Freed
      BY <1>7 DEF Return
    <2>2. live' = {}
      BY <2>1 DEF Freed, IInv, Held
    <2> QED
      BY <1>7, <2>1, <2>2, ReturnAdds DEF IInv, Steps, Held, Found
  <1>8. CASE SkipEmptyKey \/ NextEntry \/ Listed
    BY <1>8 DEF SkipEmptyKey, NextEntry, Listed, model, listing, IInv, Steps, Held, Found,
      EntriesAreTheModels
  <1>9. CASE UNCHANGED vars
    BY <1>9 DEF vars, model, listing, IInv, Steps, Held, KeyObjects, Found, EntriesAreTheModels
  <1> QED
    BY <1>1, <1>2, <1>3, <1>4, <1>5, <1>6, <1>7, <1>8, <1>9 DEF Next

LEMMA InitIInv == Init => IInv
  BY DEF Init, Nothing, IInv, Steps, Held, Found, EntriesAreTheModels

(* The inductive invariant holds of every behaviour.                        *)
THEOREM Invariance == Spec => []IInv
  BY InitIInv, StepKeepsIInv, PTL DEF Spec

(* Every object of ONNX Runtime a helper obtained is released once, however *)
(* many keys there are and whichever request failed.                       *)
THEOREM AlwaysReleasesExactly == Spec => []ReleaseExact
  <1>1. IInv => ReleaseExact
    BY DEF IInv, Held, Freed, ReleaseExact
  <1> QED
    BY Invariance, <1>1, PTL

(* No value is ever listed under the key of another entry.                  *)
THEOREM EntriesAlwaysAreTheModels == Spec => []EntriesAreTheModels
  <1>1. IInv => EntriesAreTheModels
    BY DEF IInv
  <1> QED
    BY Invariance, <1>1, PTL

----------------------------------------------------------------------------
(* A listing is complete                                                   *)

(* How ONNX Runtime lists the keys: each of them, in some order.            *)
OrderLists ==
  /\ order \in Seq(DOMAIN props) /\ DOMAIN props \subseteq Keys
  /\ \A k \in DOMAIN props : \E i \in DOMAIN order : order[i] = k
  /\ props = [k \in DOMAIN props |-> props[k]]

(* What is listed when the loop has come to entry n, that one excluded.     *)
Before(n) == {order[i] : i \in {j \in DOMAIN order : j < n}}
ListedBefore(n) == [k \in Before(n) |-> props[k]]

(* Where a listing is that no failure has disturbed, of a model that        *)
(* respects the buffers.                                                    *)
AskingKeys ==
  /\ dict = Nothing /\ next = 1
  /\ step \in {"meta", "allocator", "ask", "done"}
  /\ step = "done" => rc = 0 /\ keys = order

AtEntry ==
  /\ keys = order /\ next \in 1..(Len(order) + 1)
  /\ dict = ListedBefore(next)

InEntry ==
  /\ keys = order
  /\ \E n \in DOMAIN order : next = n + 1 /\ key = order[n] /\ dict = ListedBefore(n)
  /\ step = "done" => rc = 0

Progress ==
  WithinLimits /\ ~failed /\ caller # "value" =>
    CASE step = "idle" -> dict = props
      [] step = "next" -> AtEntry
      [] OTHER         -> IF caller = "keys" THEN AskingKeys ELSE InEntry

ListingInv ==
  /\ OrderLists /\ Progress
  /\ caller \in {"keys", "entry", "value"}
  /\ step = "next" => caller # "value"

(* The listing of no entries, and of all of them.                           *)
LEMMA ListingBounds ==
  ASSUME OrderLists
  PROVE  /\ Len(order) \in Nat /\ DOMAIN order = 1..Len(order)
         /\ ListedBefore(1) = Nothing
         /\ \A n : n \in Nat /\ n > Len(order) => ListedBefore(n) = props
  <1>1. Len(order) \in Nat /\ DOMAIN order = 1..Len(order)
    BY DEF OrderLists
  <1>2. Before(1) = {}
    BY <1>1 DEF Before
  <1>3. ListedBefore(1) = Nothing
    BY <1>2 DEF ListedBefore, Nothing
  <1>4. ASSUME NEW n \in Nat, n > Len(order)
        PROVE  ListedBefore(n) = props
    <2>1. \A i \in DOMAIN order : i < n
      BY <1>1, <1>4
    <2>2. \A i \in DOMAIN order : order[i] \in DOMAIN props
      BY <1>1 DEF OrderLists
    <2>3. \A k \in DOMAIN props : \E i \in DOMAIN order : order[i] = k
      BY DEF OrderLists
    <2>4. Before(n) = DOMAIN props
      BY <2>1, <2>2, <2>3 DEF Before
    <2>5. props = [k \in DOMAIN props |-> props[k]]
      BY DEF OrderLists
    <2> QED
      BY <2>4, <2>5 DEF ListedBefore
  <1> QED
    BY <1>1, <1>3, <1>4

(* An entry added to the listing of those before it.                        *)
LEMMA ListedNext ==
  ASSUME OrderLists, NEW n \in DOMAIN order
  PROVE  ListedBefore(n + 1) =
           [k \in DOMAIN ListedBefore(n) \cup {order[n]} |->
              IF k # order[n] THEN ListedBefore(n)[k] ELSE props[k]]
  <1>1. n \in Nat /\ DOMAIN order \subseteq Nat
    BY ListingBounds
  <1>2. {j \in DOMAIN order : j < n + 1} = {j \in DOMAIN order : j < n} \cup {n}
    BY <1>1
  <1>3. Before(n + 1) = Before(n) \cup {order[n]}
    BY <1>2 DEF Before
  <1> QED
    BY <1>3 DEF ListedBefore

(* The keys, when the buffers hold them, are copied as they are.            *)
LEMMA KeysCopied ==
  ASSUME OrderLists, WithinLimits
  PROVE  [i \in 1..(IF Len(order) > KeyCap THEN KeyCap ELSE Len(order)) |-> CutKey[order[i]]]
           = order
  <1>1. Len(order) \in Nat /\ DOMAIN order = 1..Len(order) /\ KeyCap \in Nat
        /\ \A i \in DOMAIN order : order[i] \in DOMAIN props
    BY ListingBounds, MetadataAssumption DEF OrderLists
  <1>2. ~(Len(order) > KeyCap)
    BY <1>1 DEF WithinLimits
  <1>3. \A i \in 1..Len(order) : CutKey[order[i]] = order[i]
    BY <1>1 DEF WithinLimits
  <1>4. order = [i \in 1..Len(order) |-> order[i]]
    BY DEF OrderLists
  <1> QED
    BY <1>2, <1>3, <1>4

(* A step that leaves the model and the listing where they are.             *)
LEMMA ListingKept ==
  ASSUME UNCHANGED model
  PROVE  /\ OrderLists' = OrderLists /\ WithinLimits' = WithinLimits
         /\ \A n : ListedBefore(n)' = ListedBefore(n)
  BY DEF model, OrderLists, WithinLimits, ListedBefore, Before

LEMMA ReturnLists ==
  ASSUME ListingInv, Return
  PROVE  ListingInv'
  <1>1. /\ UNCHANGED model /\ UNCHANGED <<caller, key, rc, keys, next, failed>>
        /\ step = "done" /\ step' = IF caller = "value" \/ (caller = "keys" /\ rc # 0)
                                    THEN "idle" ELSE "next"
    BY DEF Return
  <1>2. OrderLists' /\ caller' \in {"keys", "entry", "value"}
    BY <1>1, ListingKept DEF ListingInv
  <1> SUFFICES ASSUME WithinLimits, ~failed, caller # "value"
               PROVE  step' = "next" /\ AtEntry'
    BY <1>1, <1>2, ListingKept DEF ListingInv, Progress
  <1>3. CASE caller = "keys"
    <2>1. AskingKeys
      BY <1>1, <1>3 DEF ListingInv, Progress
    <2>2. rc = 0 /\ keys = order /\ dict = Nothing /\ next = 1
      BY <1>1, <2>1 DEF AskingKeys
    <2>3. dict' = dict
      BY <1>3 DEF Return, Adds
    <2>4. OrderLists /\ Len(order) \in Nat
      BY ListingBounds DEF ListingInv
    <2>5. dict' = ListedBefore(next)'
      BY <1>1, <2>2, <2>3, <2>4, ListingBounds, ListingKept
    <2> QED
      BY <1>1, <1>3, <2>2, <2>4, <2>5 DEF AtEntry, model
  <1>4. CASE caller = "entry"
    <2>1. InEntry
      BY <1>1, <1>4 DEF ListingInv, Progress
    <2>2. PICK n \in DOMAIN order : next = n + 1 /\ key = order[n] /\ dict = ListedBefore(n)
      BY <2>1 DEF InEntry
    <2>3. OrderLists /\ n \in 1..Len(order) /\ Len(order) \in Nat
      BY <2>2, ListingBounds DEF ListingInv
    <2>4. key \in DOMAIN props
      BY <2>2, <2>3 DEF OrderLists
    <2>5. Latin1[key] = key /\ Value = props[key] /\ rc = 0
      BY <1>1, <2>1, <2>4 DEF WithinLimits, Value, InEntry
    <2>6. dict' = [k \in DOMAIN dict \cup {key} |->
                     IF k # key THEN dict[k] ELSE props[k]]
      BY <1>4, <2>5 DEF Return, Adds
    <2>7. dict' = ListedBefore(n + 1)
      BY <2>2, <2>3, <2>6, ListedNext
    <2>8. dict' = ListedBefore(next)'
      BY <1>1, <2>2, <2>7, ListingKept
    <2>9. next \in 1..(Len(order) + 1) /\ keys = order
      BY <2>1, <2>2, <2>3 DEF InEntry
    <2> QED
      BY <1>1, <1>4, <2>8, <2>9 DEF AtEntry, model
  <1> QED
    BY <1>3, <1>4 DEF ListingInv

LEMMA StepLists ==
  ASSUME ListingInv, [Next]_vars
  PROVE  ListingInv'
  <1>1. UNCHANGED model /\ OrderLists /\ OrderLists'
    <2>1. UNCHANGED model
      BY DEF Next, GetModelMetadata, GetMetadataValue, GetMeta, GetAllocator, OrtFails,
        CopyKeys, CopyValue, Return, SkipEmptyKey, NextEntry, Listed, model, vars
    <2> QED
      BY <2>1, ListingKept DEF ListingInv
  <1>2. WithinLimits' = WithinLimits /\ order' = order
        /\ \A n : ListedBefore(n)' = ListedBefore(n)
    BY <1>1, ListingKept DEF model
  <1>3. CASE GetModelMetadata
    BY <1>1, <1>3 DEF GetModelMetadata, ListingInv, Progress, AskingKeys, Nothing
  <1>4. CASE GetMetadataValue
    BY <1>1, <1>4 DEF GetMetadataValue, ListingInv, Progress
  <1>5. CASE GetMeta \/ GetAllocator \/ CopyValue \/ OrtFails
    <2>1. /\ UNCHANGED <<caller, key, keys, next, dict>>
          /\ step \in {"meta", "allocator", "ask"} /\ step' \in {"allocator", "ask", "done"}
      BY <1>5 DEF GetMeta, GetAllocator, CopyValue, OrtFails, listing
    <2> SUFFICES ASSUME WithinLimits, ~failed', caller # "value"
                 PROVE  IF caller = "keys" THEN AskingKeys' ELSE InEntry'
      BY <1>1, <1>2, <2>1 DEF ListingInv, Progress
    <2>2. ~failed /\ (GetMeta \/ GetAllocator \/ CopyValue)
      BY <1>5 DEF GetMeta, GetAllocator, CopyValue, OrtFails
    <2>3. CASE caller = "keys"
      <3>1. AskingKeys /\ step' # "done"
        BY <2>1, <2>2, <2>3 DEF ListingInv, Progress, GetMeta, GetAllocator, CopyValue
      <3> QED
        BY <2>1, <2>3, <3>1 DEF AskingKeys, Nothing
    <2>4. CASE caller # "keys"
      <3>1. InEntry
        BY <2>1, <2>2, <2>4 DEF ListingInv, Progress
      <3>2. key \in DOMAIN props
        BY <1>1, <3>1 DEF InEntry, OrderLists
      <3>3. step' = "done" => rc' = 0
        BY <2>2, <3>2 DEF GetMeta, GetAllocator, CopyValue
      <3> QED
        BY <1>2, <2>1, <2>4, <3>1, <3>3 DEF InEntry
    <2> QED
      BY <2>3, <2>4
  <1>6. CASE CopyKeys
    <2>1. /\ caller = "keys" /\ caller' = caller /\ step = "ask" /\ step' = "done"
          /\ UNCHANGED <<next, dict, failed>> /\ rc' = 0
      BY <1>6 DEF CopyKeys
    <2>2. WithinLimits => keys' = order
      BY <1>1, <1>6, KeysCopied DEF CopyKeys
    <2>3. WithinLimits /\ ~failed => AskingKeys
      BY <2>1 DEF ListingInv, Progress
    <2> QED
      BY <1>1, <1>2, <2>1, <2>2, <2>3 DEF ListingInv, Progress, AskingKeys, Nothing
  <1>7. CASE Return
    BY <1>7, ReturnLists
  <1>8. CASE SkipEmptyKey \/ NextEntry
    <2>1. /\ step = "next" /\ next <= Len(keys) /\ next' = next + 1
          /\ UNCHANGED <<keys, dict, failed>> /\ caller # "value"
      BY <1>8 DEF SkipEmptyKey, NextEntry, ListingInv
    <2>2. ASSUME WithinLimits, ~failed
          PROVE  NextEntry /\ InEntry'
      <3>1. AtEntry
        BY <2>1, <2>2 DEF ListingInv, Progress
      <3>2. next \in DOMAIN order /\ keys = order /\ dict = ListedBefore(next)
        BY <1>1, <2>1, <3>1, ListingBounds DEF AtEntry
      <3>3. keys[next] # Empty
        BY <1>1, <2>2, <3>2, ListingBounds DEF OrderLists, WithinLimits
      <3>4. NextEntry
        BY <1>8, <3>3 DEF SkipEmptyKey
      <3>5. key' = order[next] /\ step' # "done"
        BY <3>2, <3>4 DEF NextEntry
      <3> QED
        BY <1>2, <2>1, <3>2, <3>4, <3>5 DEF InEntry
    <2>3. /\ caller' \in {"keys", "entry", "value"} /\ caller' # "value"
          /\ NextEntry => step' = "meta" /\ caller' = "entry"
      BY <1>8, <2>1 DEF SkipEmptyKey, NextEntry, ListingInv
    <2> QED
      BY <1>1, <1>2, <2>1, <2>2, <2>3 DEF ListingInv, Progress
  <1>9. CASE Listed
    <2>1. /\ step = "next" /\ step' = "idle" /\ next > Len(keys)
          /\ UNCHANGED <<caller, failed, dict>> /\ UNCHANGED props
      BY <1>1, <1>9 DEF Listed, listing, model
    <2>2. ASSUME WithinLimits, ~failed, caller # "value" PROVE dict = props
      <3>1. AtEntry
        BY <2>1, <2>2 DEF ListingInv, Progress
      <3> QED
        BY <1>1, <2>1, <3>1, ListingBounds DEF AtEntry
    <2> QED
      BY <1>1, <1>2, <2>1, <2>2 DEF ListingInv, Progress
  <1>10. CASE UNCHANGED vars
    BY <1>1, <1>2, <1>10 DEF vars, listing, model, ListingInv, Progress, AskingKeys, AtEntry, InEntry,
      Nothing
  <1> QED
    BY <1>3, <1>4, <1>5, <1>6, <1>7, <1>8, <1>9, <1>10 DEF Next

LEMMA InitLists == Init => ListingInv
  <1> SUFFICES ASSUME Init PROVE ListingInv
    OBVIOUS
  <1>1. PICK S \in SUBSET Keys :
          /\ IsFiniteSet(S)
          /\ props \in [S -> Values]
          /\ order \in Bijection(1..Cardinality(S), S)
    BY DEF Init
  <1> DEFINE n == Cardinality(S)
  <1>2. DOMAIN props = S /\ props = [k \in S |-> props[k]]
    BY <1>1
  <1>3. n \in Nat
    BY <1>1, FS_CardinalityType
  <1>4. order \in [1..n -> S] /\ \A k \in S : \E i \in 1..n : order[i] = k
    BY <1>1 DEF Bijection, Injection, Surjection
  <1> HIDE DEF n
  <1>5. order \in Seq(S) /\ DOMAIN order = 1..n
    BY <1>3, <1>4
  <1> QED
    BY <1>2, <1>4, <1>5 DEF OrderLists, ListingInv, Progress, Init

(* The metadata of a model that respects the sizes of the buffers and is    *)
(* plain text is listed as it is, in whatever order ONNX Runtime gives the  *)
(* keys and however many there are.                                         *)
THEOREM MetadataAlwaysExact == Spec => []MetadataExact
  <1>1. ListingInv => MetadataExact
    BY DEF ListingInv, Progress, Listing, MetadataExact
  <1> QED
    BY InitLists, StepLists, <1>1, PTL DEF Spec
=============================================================================

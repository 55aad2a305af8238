------------------------------- MODULE Metadata -------------------------------
(***************************************************************************)
(* Reading the metadata of a model (src/onnx_runtime.c:                    *)
(* onnx_runtime_metadata_keys, onnx_runtime_metadata_get;                  *)
(* src/OnnxLoader.cpp: get_model_metadata, get_metadata_value).            *)
(*                                                                         *)
(* A listing of all entries is one call for the keys and one per entry.    *)
(* Both helpers obtain objects of ONNX Runtime, copy into buffers of fixed *)
(* size and release what they obtained; each step of them may fail.        *)
(* Texts are members of a small set, with what a buffer leaves of them.    *)
(***************************************************************************)
EXTENDS Naturals, Sequences, FiniteSets, Functions

CONSTANTS
  Keys, Values,   \* texts that may be keys and values, cut ones included
  Empty,          \* the empty text
  KeyCap,         \* entries in the buffer of keys (128)
  CutKey,         \* what 127 bytes hold of a key
  CutValue,       \* what 65535 bytes hold of a value
  Latin1,         \* what String(const char *) makes of a text
  MaxEntries      \* bound: entries of a model

ASSUME MetadataAssumption ==
  /\ KeyCap \in Nat \ {0} /\ MaxEntries \in Nat
  /\ CutKey \in [Keys -> Keys] /\ CutValue \in [Values -> Values]
  /\ Keys \cup Values \subseteq DOMAIN Latin1

VARIABLES
  props,     \* the model's metadata_props
  order,     \* the order in which ONNX Runtime lists their keys
  step,      \* where the call is: see the actions
  caller,    \* what the helper under way is for: "keys", "entry" or "value"
  key,       \* the key looked up
  live,      \* the objects of ONNX Runtime obtained and not yet released
  rc,        \* the result of the helper
  keys,      \* keys_storage, as far as it was filled
  next,      \* the entry the listing has come to
  dict,      \* the dictionary listed so far
  answer,    \* the value of the latest get_metadata_value
  failed     \* ONNX Runtime failed during the latest call (history)

vars == <<props, order, step, caller, key, live, rc, keys, next, dict, answer, failed>>
model == <<props, order>>
listing == <<keys, next, dict>>

Nothing == [k \in {} |-> Empty]

Init ==
  /\ \E S \in SUBSET Keys :
       /\ IsFiniteSet(S) /\ Cardinality(S) <= MaxEntries
       /\ props \in [S -> Values]
       /\ order \in Bijection(1..Cardinality(S), S)
  /\ step = "idle" /\ caller = "value" /\ key = Empty
  /\ live = {} /\ rc = 1
  /\ keys = <<>> /\ next = 1 /\ dict = Nothing
  /\ answer = Empty /\ failed = FALSE

----------------------------------------------------------------------------
(* The calls of the script *)

GetModelMetadata ==
  /\ step = "idle" /\ step' = "meta"
  /\ caller' = "keys"
  /\ keys' = <<>> /\ next' = 1 /\ dict' = Nothing
  /\ failed' = FALSE
  /\ UNCHANGED <<model, key, live, rc, answer>>

GetMetadataValue ==
  /\ step = "idle" /\ step' = "meta"
  /\ caller' = "value"
  /\ key' \in Keys
  /\ failed' = FALSE
  /\ UNCHANGED <<model, live, rc, listing, answer>>

----------------------------------------------------------------------------
(* The helpers *)

(* SessionGetModelMetadata, GetAllocatorWithDefaultOptions.                 *)
GetMeta ==
  /\ step = "meta" /\ step' = "allocator"
  /\ live' = live \cup {<<"meta", 1>>}
  /\ UNCHANGED <<model, caller, key, rc, listing, answer, failed>>

GetAllocator ==
  /\ step = "allocator" /\ step' = "ask"
  /\ UNCHANGED <<model, caller, key, live, rc, listing, answer, failed>>

(* Any of the three requests fails: nothing was obtained by it.             *)
OrtFails ==
  /\ step \in {"meta", "allocator", "ask"} /\ step' = "done"
  /\ rc' = 1 /\ failed' = TRUE
  /\ UNCHANGED <<model, caller, key, live, listing, answer>>

(* The array of keys and each of them.                                      *)
KeyObjects == {<<"keys", 1>>} \cup {"key"} \X (1..Len(order))

(* ModelMetadataGetCustomMetadataMapKeys, and the copies of the keys.       *)
CopyKeys ==
  /\ caller = "keys"
  /\ step = "ask" /\ step' = "done"
  /\ live' = live \cup KeyObjects
  /\ keys' = [i \in 1..(IF Len(order) > KeyCap THEN KeyCap ELSE Len(order)) |-> CutKey[order[i]]]
  /\ rc' = 0
  /\ UNCHANGED <<model, caller, key, next, dict, answer, failed>>

(* ModelMetadataLookupCustomMetadataMap, and the copy of the value.  There  *)
(* is nothing to release and no value for a key the model does not have.   *)
CopyValue ==
  /\ caller # "keys"
  /\ step = "ask" /\ step' = "done"
  /\ IF key \in DOMAIN props
     THEN /\ live' = live \cup {<<"value", 1>>}
          /\ rc' = 0
     ELSE UNCHANGED live /\ rc' = 1
  /\ UNCHANGED <<model, caller, key, listing, answer, failed>>

FreedAsCopied ==   \* fault: releases only the keys there was room for
  live \cap ({"meta", "value", "keys", "key"} \X (1..KeyCap))

(* What the code after done releases: everything whose pointer is set.      *)
Freed == live \cap ({<<"meta", 1>>, <<"value", 1>>} \cup KeyObjects)

(* The buffer, as the caller reads it.                                      *)
Value == Latin1[CutValue[props[key]]]

AddsUnfound ==   \* fault: adds the key although no value was copied
  caller = "entry"

Adds == caller = "entry" /\ rc = 0

(* The helper returns; get_model_metadata goes on to the next entry, or     *)
(* gives up when it has no keys.                                           *)
Return ==
  /\ step = "done"
  /\ step' = IF caller = "value" \/ (caller = "keys" /\ rc # 0) THEN "idle" ELSE "next"
  /\ live' = live \ Freed
  /\ answer' = IF caller = "value" THEN (IF rc = 0 THEN Value ELSE Empty) ELSE answer
  /\ dict' = IF Adds
             THEN [k \in DOMAIN dict \cup {Latin1[key]} |->
                     IF k # Latin1[key] THEN dict[k]
                     ELSE IF rc = 0 THEN Value ELSE Empty]
             ELSE dict
  /\ UNCHANGED <<model, caller, key, rc, keys, next, failed>>

----------------------------------------------------------------------------
(* The loop of get_model_metadata *)

SkipEmptyKey ==
  /\ step = "next" /\ next <= Len(keys) /\ keys[next] = Empty
  /\ next' = next + 1
  /\ UNCHANGED <<model, step, caller, key, live, rc, keys, dict, answer, failed>>

NextEntry ==
  /\ step = "next" /\ next <= Len(keys) /\ keys[next] # Empty
  /\ step' = "meta"
  /\ caller' = "entry" /\ key' = keys[next]
  /\ next' = next + 1
  /\ UNCHANGED <<model, live, rc, keys, dict, answer, failed>>

ListedEarly ==   \* fault: an index off by one
  /\ step = "next" /\ next >= Len(keys)
  /\ step' = "idle"
  /\ UNCHANGED <<model, caller, key, live, rc, listing, answer, failed>>

Listed ==
  /\ step = "next" /\ next > Len(keys)
  /\ step' = "idle"
  /\ UNCHANGED <<model, caller, key, live, rc, listing, answer, failed>>

Next ==
  \/ GetModelMetadata \/ GetMetadataValue
  \/ GetMeta \/ GetAllocator \/ OrtFails \/ CopyKeys \/ CopyValue \/ Return
  \/ SkipEmptyKey \/ NextEntry \/ Listed

Spec == Init /\ [][Next]_vars

----------------------------------------------------------------------------
(* Properties *)

(* A listing that has come to its end, with ONNX Runtime answering.         *)
Listing == step = "idle" /\ caller # "value" /\ ~failed

(* Each helper releases exactly what it obtained, whichever step failed and *)
(* however many keys there was room for.                                   *)
ReleaseExact ==
  /\ step = "done" => Freed = live
  /\ step \in {"idle", "next"} => live = {}

(* Whatever is cut and whatever fails halfway, every entry listed is one of *)
(* the model: a value is never given under another entry's key, although   *)
(* it is looked up under what the buffer left of its own.                  *)
EntriesAreTheModels ==
  \A k \in DOMAIN dict :
    \E m \in DOMAIN props : k = Latin1[m] /\ dict[k] = Latin1[CutValue[props[m]]]

(* A model whose metadata is plain text under keys that are not empty, and  *)
(* respects the sizes of the buffers.                                      *)
WithinLimits ==
  /\ \A k \in DOMAIN props : k # Empty /\ Latin1[k] = k /\ Latin1[props[k]] = props[k]
  /\ Len(order) <= KeyCap
  /\ \A k \in DOMAIN props : CutKey[k] = k /\ CutValue[props[k]] = props[k]

(* The metadata of such a model is exposed unchanged ("The loader exposes   *)
(* metadata unchanged", README.md, which names no limits).                 *)
MetadataExact == Listing /\ WithinLimits => dict = props
=============================================================================

------------------------------ MODULE OrtLibrary ------------------------------
(***************************************************************************)
(* Finding, loading and reporting the ONNX Runtime library                 *)
(* (src/onnx_runtime.c: resolve_bundled_ort_path, ort_api,                 *)
(* onnx_runtime_ort_library_path and the tail of onnx_runtime_shutdown).   *)
(*                                                                         *)
(* A file is known by its rank in the order it is looked for: beside the   *)
(* extension, then in the demo's tree, then under ONNX_ORT_BIN.  Calls are *)
(* serialized, as README.md asks of creation and destruction; files come   *)
(* and go between them.                                                    *)
(***************************************************************************)
EXTENDS Naturals, FiniteSets

CONSTANTS
  Files,     \* how many places are looked at
  Written,   \* the places whose path is in the buffer before it is tested:
             \* all but the fixed relative paths, which are tested first
  Kinds      \* what a file may be, a subset of AllKinds

AllKinds == {"good",        \* an ONNX Runtime of the version asked for
             "unloadable",  \* dlopen refuses it
             "foreign",     \* it does not export OrtGetApiBase
             "outdated"}    \* OrtGetApiBase or GetApi answers null

ASSUME LibraryAssumption ==
  /\ Files \in Nat
  /\ Written \subseteq 1..Files
  /\ Kinds \subseteq AllKinds

VARIABLES
  readable,  \* the files that are there now
  kind,      \* what each of them is
  handle,    \* g_ort_dlhandle: the file loaded, or None
  api,       \* g_ort is set
  path,      \* g_ort_libpath: the file it names, or None when empty
  answer     \* what the latest call of ort_library_path named, None for "unknown"

vars == <<readable, kind, handle, api, path, answer>>

None == 0

(* The kind of a file that is not there is of no account: one value stands  *)
(* for any, which keeps the states few.                                    *)
Absent == CHOOSE k \in Kinds : TRUE

Init ==
  /\ readable \in SUBSET (1..Files)
  /\ kind \in [1..Files -> Kinds]
  /\ \A f \in 1..Files \ readable : kind[f] = Absent
  /\ handle = None /\ api = FALSE /\ path = None /\ answer = None

----------------------------------------------------------------------------
First(S) == CHOOSE f \in S : \A g \in S : f <= g
Last(S)  == CHOOSE f \in S : \A g \in S : f >= g

(* resolve_bundled_ort_path: the first file there is, or None.             *)
Resolve == IF readable # {} THEN First(readable) ELSE None

(* What the buffer holds after a search that found nothing.                *)
LeftBehind == IF Written # {} THEN Last(Written) ELSE None

(* ort_api: nothing to do once g_ort is set; otherwise search, open and ask *)
(* for the API.  A file that opens but has no usable API stays loaded and   *)
(* is asked again by the next call.                                        *)
OrtApi ==
  CASE api \/ handle # None -> UNCHANGED <<handle, api, path>>
    [] ~api /\ handle = None /\ Resolve = None ->
         path' = LeftBehind /\ UNCHANGED <<handle, api>>
    [] ~api /\ handle = None /\ Resolve # None ->
         IF kind[Resolve] \in {"unloadable", "foreign"}
         THEN path' = None /\ UNCHANGED <<handle, api>>
         ELSE /\ path' = Resolve /\ handle' = Resolve
              /\ api' = (kind[Resolve] = "good")

(* onnx_runtime_create, onnx_runtime_ort_version: ort_api and no more, as   *)
(* far as the library goes.                                                *)
UseOrt == OrtApi /\ UNCHANGED <<readable, kind, answer>>

(* onnx_runtime_ort_library_path                                           *)
LibraryPath ==
  /\ IF path # None \/ api THEN UNCHANGED <<handle, api, path>> ELSE OrtApi
  /\ answer' = IF path # None THEN path ELSE IF api' THEN path' ELSE None
  /\ UNCHANGED <<readable, kind>>

ShutdownKeepingHandle ==   \* fault: leaks the handle into the next load
  /\ api' = FALSE /\ path' = None
  /\ UNCHANGED <<readable, kind, handle, answer>>

Shutdown ==
  /\ api' = FALSE /\ handle' = None /\ path' = None
  /\ UNCHANGED <<readable, kind, answer>>

(* A file is installed, of whatever kind, or removed, be it loaded or not.  *)
Install ==
  /\ \E f \in 1..Files, k \in Kinds :
        /\ f \notin readable
        /\ readable' = readable \cup {f}
        /\ kind' = [kind EXCEPT ![f] = k]
  /\ UNCHANGED <<handle, api, path, answer>>

Remove ==
  /\ \E f \in readable :
        /\ readable' = readable \ {f}
        /\ kind' = [kind EXCEPT ![f] = Absent]
  /\ UNCHANGED <<handle, api, path, answer>>

Next == UseOrt \/ LibraryPath \/ Shutdown \/ Install \/ Remove

Spec == Init /\ [][Next]_vars

----------------------------------------------------------------------------
(* Properties *)

(* While a library is loaded the path recorded is its path, through failed  *)
(* attempts before it and terminations of the module in between.           *)
LoadedPathRecorded ==
  /\ handle # None => path = handle
  /\ api => handle # None

(* The library loaded is never one found after another that was there at    *)
(* the time: the bundle beside the extension comes before ONNX_ORT_BIN.     *)
BundlePreferred ==
  [][handle' # None /\ handle = None => \A f \in readable : handle' <= f]_vars
=============================================================================

-------------------------- MODULE OrtLibraryProofs ----------------------------
(***************************************************************************)
(* Proofs about OrtLibrary and OrtLibraryThreads, for any number of places *)
(* to look at, any choice of those whose path is written before it is      *)
(* tested, and any number of threads.  The first part is about whole       *)
(* calls; the second shows that the steps of ort_api amount to them, on    *)
(* any number of threads, as long as no two loads have overlapped.         *)
(***************************************************************************)
EXTENDS OrtLibraryThreads, WellFoundedInduction, TLAPS

(* The first file of a set is in the set, and no other comes before it.     *)
LEMMA FirstIsFirst ==
  ASSUME NEW S, S \subseteq 1..Files, S # {}
  PROVE  First(S) \in S /\ \A f \in S : First(S) <= f
  <1>1. PICK x \in S : \A y \in S : ~(<<y, x>> \in OpToRel(<, Nat))
    <2>1. S \subseteq Nat
      OBVIOUS
    <2> QED
      BY <2>1, NatLessThanWellFounded, WFMin
  <1>2. S \subseteq Nat
    BY LibraryAssumption
  <1>3. \A y \in S : ~(y < x)
    BY <1>1, <1>2 DEF OpToRel
  <1>4. \A y \in S : x <= y
    BY <1>2, <1>3
  <1> QED
    BY <1>4 DEF First

(* What is loaded was found, is recorded, and is in use only while loaded.  *)
IInv ==
  /\ readable \subseteq 1..Files
  /\ LoadedPathRecorded

(* A call of ort_api keeps the record and loads nothing but the first file. *)
LEMMA OrtApiLoadsFirst ==
  ASSUME IInv, OrtApi
  PROVE  /\ LoadedPathRecorded'
         /\ handle' # None /\ handle = None => \A f \in readable : handle' <= f
  <1>1. CASE api \/ handle # None
    BY <1>1 DEF OrtApi, IInv, LoadedPathRecorded
  <1>2. CASE ~api /\ handle = None /\ Resolve = None
    BY <1>2 DEF OrtApi, LoadedPathRecorded
  <1>3. CASE ~api /\ handle = None /\ Resolve # None
    <2>1. readable # {} /\ Resolve = First(readable)
      BY <1>3 DEF Resolve
    <2>2. \A f \in readable : Resolve <= f
      BY <2>1, FirstIsFirst DEF IInv
    <2>3. \/ UNCHANGED <<handle, api>>
          \/ path' = Resolve /\ handle' = Resolve
      BY <1>3 DEF OrtApi
    <2> QED
      BY <1>3, <2>2, <2>3 DEF IInv, LoadedPathRecorded
  <1> QED
    BY <1>1, <1>2, <1>3

Preferred ==
  handle' # None /\ handle = None => \A f \in readable : handle' <= f

LEMMA StepKeepsIInv ==
  ASSUME IInv, [Next]_vars
  PROVE  IInv' /\ Preferred
  <1>1. CASE UseOrt
    BY <1>1, OrtApiLoadsFirst DEF UseOrt, IInv, Preferred
  <1>2. CASE LibraryPath
    <2>1. CASE path # None \/ api
      BY <1>2, <2>1 DEF LibraryPath, IInv, LoadedPathRecorded, Preferred
    <2>2. CASE ~(path # None \/ api)
      BY <1>2, <2>2, OrtApiLoadsFirst DEF LibraryPath, IInv, Preferred
    <2> QED
      BY <2>1, <2>2
  <1>3. CASE Shutdown
    BY <1>3 DEF Shutdown, IInv, LoadedPathRecorded, Preferred
  <1>4. CASE Install \/ Remove
    <2>1. UNCHANGED <<handle, api, path>>
      BY <1>4 DEF Install, Remove
    <2>2. CASE Install
      <3>1. PICK f \in 1..Files : readable' = readable \cup {f}
        BY <2>2 DEF Install
      <3> QED
        BY <2>1, <3>1 DEF IInv, LoadedPathRecorded, Preferred
    <2>3. CASE Remove
      <3>1. PICK f \in readable : readable' = readable \ {f}
        BY <2>3 DEF Remove
      <3> QED
        BY <2>1, <3>1 DEF IInv, LoadedPathRecorded, Preferred
    <2> QED
      BY <1>4, <2>2, <2>3
  <1>5. CASE UNCHANGED vars
    BY <1>5 DEF vars, IInv, LoadedPathRecorded, Preferred
  <1> QED
    BY <1>1, <1>2, <1>3, <1>4, <1>5 DEF Next

LEMMA InitIInv == Init => IInv
  BY DEF Init, IInv, LoadedPathRecorded

(* The inductive invariant holds of every behaviour.                        *)
THEOREM Invariance == Spec => []IInv
  BY InitIInv, StepKeepsIInv, PTL DEF Spec

(* While a library is loaded, the path recorded is its path.                *)
THEOREM LoadedPathAlwaysRecorded == Spec => []LoadedPathRecorded
  <1>1. IInv => LoadedPathRecorded
    BY DEF IInv
  <1> QED
    BY Invariance, <1>1, PTL

(* The library loaded is the first one there in the order of the search.    *)
THEOREM BundleAlwaysPreferred == Spec => BundlePreferred
  <1>1. IInv /\ [Next]_vars => [Preferred]_vars
    BY StepKeepsIInv
  <1>2. [Preferred]_vars =>
          [handle' # None /\ handle = None => \A f \in readable : handle' <= f]_vars
    BY DEF Preferred
  <1> QED
    BY Invariance, <1>1, <1>2, PTL DEF Spec, BundlePreferred

----------------------------------------------------------------------------
(* The steps of ort_api, taken by threads                                  *)

Callers == {"create", "version", "path"}
Steps   == Loading \cup {"idle", "api", "report", "failed"}

(* Where ort_api may have changed the globals and not returned yet.         *)
Changing == Loading \ {"handle", "clear"}

NoChange == \A t \in Threads : step[t] \notin Changing

Types ==
  /\ readable \subseteq 1..Files
  /\ kind \in [1..Files -> Kinds]
  /\ api \in BOOLEAN
  /\ step \in [Threads -> Steps]
  /\ caller \in [Threads -> Callers]
  /\ place \in [Threads -> Nat \ {0}]
  /\ image \in AllKinds \cup {NoImage}
  /\ opened \in [Threads -> AllKinds \cup {NoImage}]
  /\ turn \in Threads \cup {Nobody}
  /\ alone \in BOOLEAN

(* Whom ort_api returns to, by where its caller is.                         *)
LocalOf(t) ==
  /\ step[t] = "report" => caller[t] = "version"
  /\ caller[t] = "path" => step[t] \in Loading \cup {"api"}

(* What holds whether loads overlap or not.                                 *)
Basics == Types /\ \A t \in Threads : LocalOf(t)

(* Nobody but t is inside a load.                                           *)
Sole(t) == \A u \in Threads \ {t} : ~Within(u)

Single == \A t, u \in Threads : Within(t) /\ Within(u) => t = u

(* Who is about to load for ort_library_path found neither path nor API.    *)
Asked == \A t \in Threads : caller[t] = "path" => settled.path = None /\ ~settled.api

(* The globals when nobody changes them: what is loaded is recorded, and in *)
(* use when it is good.                                                    *)
Sound ==
  /\ handle # None => path = handle /\ image \in {"good", "outdated"}
  /\ api <=> handle # None /\ image = "good"

AtRest == NoChange => settled = Settled(handle, api, path) /\ Sound

(* The globals while t loads.  A search has ruled out the places before its *)
(* own, and left in the buffer the last of them it wrote.                   *)
FirstThere(f) == f \in readable /\ \A g \in readable : f <= g

LastWrittenBefore(n) ==
  \/ path = None /\ \A g \in Written : g >= n
  \/ path \in Written /\ path < n /\ \A g \in Written : g < n => g <= path

Ruled(n) == \A f \in readable : f >= n

FreshlyOpened ==
  /\ settled.handle = None
  /\ FirstThere(handle) /\ path = handle
  /\ image = kind[handle] /\ image # "unloadable"

KeptOpen ==
  /\ settled.handle = handle /\ settled.path = path
  /\ handle # None /\ path = handle /\ image = "outdated"

LoadOf(t) ==
  /\ step[t] \in Loading => ~api /\ settled.api = FALSE
  /\ step[t] \in {"clear", "write", "test", "open"} => handle = None /\ settled.handle = None
  /\ step[t] \in {"write", "test"} => Ruled(place[t])
  /\ step[t] = "write" => LastWrittenBefore(place[t])
  /\ step[t] = "test" => path = place[t] /\ path \in Written
  /\ step[t] = "open" => FirstThere(path)
  /\ step[t] = "base" => FreshlyOpened
  /\ step[t] = "again" => KeptOpen
  /\ step[t] = "ask" => /\ FreshlyOpened \/ KeptOpen
                        /\ image # "foreign" /\ opened[t] = image

Loads == \A t \in Threads : LoadOf(t)

(* What holds as long as no two loads have overlapped.                      *)
Undisturbed == Single /\ Asked /\ AtRest /\ Loads

TInv == Basics /\ (alone => Undisturbed)

----------------------------------------------------------------------------
(* What holds in any case                                                  *)

(* A step of t from one place in ort_api to another.                        *)
LEMMA MoveBasics ==
  ASSUME Basics, NEW t \in Threads, NEW to \in Loading, step' = [step EXCEPT ![t] = to],
         UNCHANGED <<readable, kind, api, caller, turn>>,
         place' \in [Threads -> Nat \ {0}],
         image' \in AllKinds \cup {NoImage},
         opened' \in [Threads -> AllKinds \cup {NoImage}],
         alone' \in BOOLEAN
  PROVE  Basics'
  <1>1. Types /\ to \in Steps
    BY DEF Basics, Steps
  <1>2. Types'
    BY <1>1 DEF Types
  <1>3. \A u \in Threads : step'[u] = IF u = t THEN to ELSE step[u]
    BY <1>1 DEF Types
  <1>4. to # "report"
    BY DEF Loading
  <1>5. ASSUME NEW u \in Threads PROVE LocalOf(u)'
    BY <1>3, <1>4 DEF Basics, LocalOf
  <1> QED
    BY <1>2, <1>5 DEF Basics

(* A step of t outside of ort_api.                                          *)
LEMMA OutsideBasics ==
  ASSUME Basics, NEW t \in Threads,
         NEW to \in Steps, step' = [step EXCEPT ![t] = to],
         NEW c \in Callers, caller' = [caller EXCEPT ![t] = c],
         to = "report" => c = "version", c = "path" => to \in Loading \cup {"api"},
         UNCHANGED <<readable, kind, api, image, opened>>,
         place' \in [Threads -> Nat \ {0}],
         turn' \in Threads \cup {Nobody}, alone' \in BOOLEAN
  PROVE  Basics'
  <1>1. Types
    BY DEF Basics
  <1>2. Types'
    BY <1>1 DEF Types
  <1>3. \A u \in Threads : /\ step'[u] = IF u = t THEN to ELSE step[u]
                           /\ caller'[u] = IF u = t THEN c ELSE caller[u]
    BY <1>1 DEF Types
  <1>4. ASSUME NEW u \in Threads PROVE LocalOf(u)'
    BY <1>3 DEF Basics, LocalOf
  <1> QED
    BY <1>2, <1>4 DEF Basics

(* Where a return of ort_api leads.                                         *)
LEMMA ReturnsTo ==
  ASSUME Basics, NEW t \in Threads, NEW from, NEW ok \in BOOLEAN, Returns(t, from, ok)
  PROVE  /\ step[t] = from /\ alone' = alone
         /\ settled' = IF alone THEN Settled(handle', api', path') ELSE settled
         /\ place' = [place EXCEPT ![t] = 1]
         /\ turn' \in Threads \cup {Nobody}
         /\ \E to \in {"idle", "failed", "report"}, c \in {"create", "version"} :
              /\ step' = [step EXCEPT ![t] = to] /\ caller' = [caller EXCEPT ![t] = c]
              /\ to = "report" => c = "version"
  <1>1. Types
    BY DEF Basics
  <1>2. step[t] = from /\ alone' = alone /\ place' = [place EXCEPT ![t] = 1]
        /\ settled' = IF alone THEN Settled(handle', api', path') ELSE settled
    BY DEF Returns, Goto, Forget
  <1>3. turn' = turn \/ turn' = Nobody
    BY DEF Returns, LeaveTurn
  <1>4. caller = [caller EXCEPT ![t] = caller[t]]
    BY <1>1 DEF Types
  <1>5. \/ /\ caller[t] = "create" /\ caller' = caller
           /\ step' = [step EXCEPT ![t] = "idle"] \/ step' = [step EXCEPT ![t] = "failed"]
        \/ /\ caller[t] = "version" /\ caller' = caller
           /\ step' = [step EXCEPT ![t] = "report"]
        \/ /\ caller' = [caller EXCEPT ![t] = "create"]
           /\ step' = [step EXCEPT ![t] = "idle"]
    BY DEF Returns, Goto, Forget
  <1> QED
    BY <1>1, <1>2, <1>3, <1>4, <1>5 DEF Types

LEMMA ReturnsOutside ==
  ASSUME Basics, NEW t \in Threads, NEW from, NEW ok \in BOOLEAN, Returns(t, from, ok)
  PROVE  /\ step'[t] \notin Loading /\ caller'[t] # "path"
         /\ \A u \in Threads \ {t} : step'[u] = step[u] /\ caller'[u] = caller[u]
  <1>1. PICK to \in {"idle", "failed", "report"}, c \in {"create", "version"} :
          /\ step' = [step EXCEPT ![t] = to] /\ caller' = [caller EXCEPT ![t] = c]
          /\ to = "report" => c = "version"
    BY ReturnsTo
  <1> QED
    BY <1>1 DEF Basics, Types, Loading

LEMMA ReturnsBasics ==
  ASSUME Basics, NEW t \in Threads, NEW from, NEW ok \in BOOLEAN, Returns(t, from, ok),
         UNCHANGED <<readable, kind, image>>, api' \in BOOLEAN,
         opened' \in [Threads -> AllKinds \cup {NoImage}]
  PROVE  Basics'
  <1>1. Types
    BY DEF Basics
  <1>2. PICK to \in {"idle", "failed", "report"}, c \in {"create", "version"} :
          /\ step' = [step EXCEPT ![t] = to] /\ caller' = [caller EXCEPT ![t] = c]
          /\ to = "report" => c = "version"
    BY ReturnsTo
  <1>3. /\ alone' = alone /\ place' = [place EXCEPT ![t] = 1]
        /\ turn' \in Threads \cup {Nobody}
    BY ReturnsTo
  <1>4. to \in Steps /\ c \in Callers
    BY DEF Steps, Callers
  <1>5. Types'
    BY <1>1, <1>2, <1>3, <1>4 DEF Types
  <1>6. \A u \in Threads : /\ step'[u] = IF u = t THEN to ELSE step[u]
                           /\ caller'[u] = IF u = t THEN c ELSE caller[u]
    BY <1>1, <1>2 DEF Types
  <1>7. ASSUME NEW u \in Threads PROVE LocalOf(u)'
    BY <1>2, <1>6 DEF Basics, LocalOf
  <1> QED
    BY <1>5, <1>7 DEF Basics

LEMMA SearchBasics ==
  ASSUME Basics, NEW t \in Threads, MustLoad(t) \/ UseHandle(t) \/ Search(t)
  PROVE  Basics'
  <1>1. Types
    BY DEF Basics
  <1>2. [place EXCEPT ![t] = 1] \in [Threads -> Nat \ {0}]
        /\ [place EXCEPT ![t] = place[t] + 1] \in [Threads -> Nat \ {0}]
    BY <1>1 DEF Types
  <1>3. CASE MustLoad(t)
    <2>1. /\ step' = [step EXCEPT ![t] = "handle"] /\ alone' \in BOOLEAN
          /\ UNCHANGED <<readable, kind, api, caller, turn, place, image, opened>>
      BY <1>3 DEF MustLoad, Goto, Disturbs, files, globals, libs
    <2> QED
      BY <1>1, <2>1, MoveBasics DEF Types, Loading
  <1>4. CASE UseHandle(t)
    <2>1. /\ step' = [step EXCEPT ![t] = "again"]
          /\ UNCHANGED <<readable, kind, api, caller, turn, place, image, opened, alone>>
      BY <1>4 DEF UseHandle, Goto, files, globals, libs, history
    <2> QED
      BY <1>1, <2>1, MoveBasics DEF Types, Loading
  <1>5. CASE BeginSearch(t)
    <2>1. /\ step' = [step EXCEPT ![t] = "clear"]
          /\ UNCHANGED <<readable, kind, api, caller, turn, place, image, opened, alone>>
      BY <1>5 DEF BeginSearch, Goto, files, globals, libs, history
    <2> QED
      BY <1>1, <2>1, MoveBasics DEF Types, Loading
  <1>6. CASE ClearBuffer(t)
    <2>1. /\ step' = [step EXCEPT ![t] = "write"] /\ place' = [place EXCEPT ![t] = 1]
          /\ UNCHANGED <<readable, kind, api, caller, turn, image, opened, alone>>
      BY <1>6 DEF ClearBuffer, Goto, files, libs, history
    <2> QED
      BY <1>1, <1>2, <2>1, MoveBasics DEF Types, Loading
  <1>7. CASE WriteCandidate(t)
    <2>1. /\ step' = [step EXCEPT ![t] = "test"]
          /\ UNCHANGED <<readable, kind, api, caller, turn, place, image, opened, alone>>
      BY <1>7 DEF WriteCandidate, Goto, files, libs, history
    <2> QED
      BY <1>1, <2>1, MoveBasics DEF Types, Loading
  <1>8. CASE TestFixed(t) \/ TestBuffer(t)
    <2>1. /\ \/ step' = [step EXCEPT ![t] = "open"] /\ place' = [place EXCEPT ![t] = 1]
             \/ /\ step' = [step EXCEPT ![t] = "write"]
                /\ place' = [place EXCEPT ![t] = place[t] + 1]
          /\ UNCHANGED <<readable, kind, api, caller, turn, image, opened, alone>>
      BY <1>8 DEF TestFixed, TestBuffer, Goto, Forget, files, globals, libs, history
    <2>2. /\ place' \in [Threads -> Nat \ {0}] /\ image' \in AllKinds \cup {NoImage}
          /\ opened' \in [Threads -> AllKinds \cup {NoImage}] /\ alone' \in BOOLEAN
      BY <1>1, <1>2, <2>1 DEF Types
    <2>3. "open" \in Loading /\ "write" \in Loading
      BY DEF Loading
    <2> QED
      BY <2>1, <2>2, <2>3, MoveBasics
  <1>9. CASE SearchFails(t)
    <2>1. /\ Returns(t, "write", FALSE)
          /\ UNCHANGED <<readable, kind, api, image, opened>>
      BY <1>9 DEF SearchFails, files, globals, libs
    <2> QED
      BY <1>1, <2>1, ReturnsBasics DEF Types
  <1> QED
    BY <1>3, <1>4, <1>5, <1>6, <1>7, <1>8, <1>9 DEF Search

LEMMA LoadBasics ==
  ASSUME Basics, NEW t \in Threads, Load(t)
  PROVE  Basics'
  <1>1. Types
    BY DEF Basics
  <1>2. CASE OpenLibrary(t)
    <2>1. /\ path \in readable /\ image' = kind[path]
          /\ step' = [step EXCEPT ![t] = "base"]
          /\ UNCHANGED <<readable, kind, api, caller, turn, place, opened, alone>>
      BY <1>2 DEF OpenLibrary, Openable, Goto, files, history
    <2>2. image' \in AllKinds
      BY <1>1, <2>1, LibraryAssumption DEF Types
    <2> QED
      BY <1>1, <2>1, <2>2, MoveBasics DEF Types, Loading
  <1>3. CASE OpenLibraryFails(t)
    <2>1. /\ Returns(t, "open", FALSE)
          /\ UNCHANGED <<readable, kind, api, image, opened>>
      BY <1>3 DEF OpenLibraryFails, files, libs
    <2> QED
      BY <1>1, <2>1, ReturnsBasics DEF Types
  <1>4. CASE FindBase(t)
    <2>1. /\ step' = [step EXCEPT ![t] = "ask"] /\ opened' = [opened EXCEPT ![t] = image]
          /\ UNCHANGED <<readable, kind, api, caller, turn, place, image, alone>>
      BY <1>4 DEF FindBase, Goto, files, globals, history
    <2>2. opened' \in [Threads -> AllKinds \cup {NoImage}]
      BY <1>1, <2>1 DEF Types
    <2> QED
      BY <1>1, <2>1, <2>2, MoveBasics DEF Types, Loading
  <1>5. CASE NoBase(t)
    <2>1. /\ Returns(t, step[t], FALSE)
          /\ UNCHANGED <<readable, kind, api, image, opened>>
      BY <1>5 DEF NoBase, files, libs
    <2> QED
      BY <1>1, <2>1, ReturnsBasics DEF Types
  <1>6. CASE GetApi(t)
    <2>1. /\ Returns(t, "ask", api') /\ api' = (opened[t] = "good")
          /\ opened' = [opened EXCEPT ![t] = NoImage]
          /\ UNCHANGED <<readable, kind, image>>
      BY <1>6 DEF GetApi, Forget, files
    <2>2. api' \in BOOLEAN /\ opened' \in [Threads -> AllKinds \cup {NoImage}]
      BY <1>1, <2>1 DEF Types
    <2> QED
      BY <2>1, <2>2, ReturnsBasics
  <1> QED
    BY <1>2, <1>3, <1>4, <1>5, <1>6 DEF Load

LEMMA CallBasics ==
  ASSUME Basics, NEW t \in Threads,
         \/ BeginCreate(t) \/ BeginDiagnostics(t) \/ CreateReturnsNull(t)
         \/ AlreadySet(t) \/ Report(t) \/ ReportLoading(t)
  PROVE  Basics'
  <1>1. Types
    BY DEF Basics
  <1>2. CASE BeginCreate(t) \/ BeginDiagnostics(t)
    <2>1. /\ step' = [step EXCEPT ![t] = "api"]
          /\ \/ caller' = [caller EXCEPT ![t] = "create"]
             \/ caller' = [caller EXCEPT ![t] = "version"]
          /\ turn' = turn \/ turn' = t
          /\ UNCHANGED <<readable, kind, api, image, opened, place, alone>>
      BY <1>2 DEF BeginCreate, BeginDiagnostics, Goto, files, globals, libs, history
    <2>2. /\ place' \in [Threads -> Nat \ {0}] /\ turn' \in Threads \cup {Nobody}
          /\ alone' \in BOOLEAN
      BY <1>1, <2>1 DEF Types
    <2>3. "api" \in Steps /\ "create" \in Callers /\ "version" \in Callers
      BY DEF Steps, Callers
    <2> QED
      BY <2>1, <2>2, <2>3, OutsideBasics
  <1>3. CASE CreateReturnsNull(t)
    <2>1. /\ step[t] = "failed" /\ step' = [step EXCEPT ![t] = "idle"] /\ caller' = caller
          /\ turn' = turn \/ turn' = Nobody
          /\ UNCHANGED <<readable, kind, api, image, opened, place, alone>>
      BY <1>3 DEF CreateReturnsNull, LeaveTurn, Goto, files, globals, libs, history
    <2>2. caller[t] # "path" /\ caller[t] \in Callers
      BY <1>1, <2>1 DEF Basics, LocalOf, Loading, Types
    <2>3. caller' = [caller EXCEPT ![t] = caller[t]]
      BY <1>1, <2>1 DEF Types
    <2>4. /\ place' \in [Threads -> Nat \ {0}] /\ turn' \in Threads \cup {Nobody}
          /\ alone' \in BOOLEAN
      BY <1>1, <2>1 DEF Types
    <2>5. "idle" \in Steps
      BY DEF Steps, Callers
    <2> QED
      BY <2>1, <2>2, <2>3, <2>4, <2>5, OutsideBasics
  <1>4. CASE AlreadySet(t)
    <2>1. /\ Returns(t, "api", TRUE)
          /\ UNCHANGED <<readable, kind, api, image, opened>>
      BY <1>4 DEF AlreadySet, files, globals, libs
    <2> QED
      BY <1>1, <2>1, ReturnsBasics DEF Types
  <1>5. CASE Report(t)
    <2>1. /\ step' = [step EXCEPT ![t] = "idle"] /\ caller' = [caller EXCEPT ![t] = "create"]
          /\ alone' \in BOOLEAN
          /\ UNCHANGED <<readable, kind, api, image, opened, place, turn>>
      BY <1>5 DEF Report, Goto, Disturbs, Forget, files, globals, libs
    <2>2. /\ place' \in [Threads -> Nat \ {0}] /\ turn' \in Threads \cup {Nobody}
          /\ alone' \in BOOLEAN
      BY <1>1, <2>1 DEF Types
    <2>3. "idle" \in Steps /\ "create" \in Callers
      BY DEF Steps, Callers
    <2> QED
      BY <2>1, <2>2, <2>3, OutsideBasics
  <1>6. CASE ReportLoading(t)
    <2>1. /\ step' = [step EXCEPT ![t] = "api"] /\ caller' = [caller EXCEPT ![t] = "path"]
          /\ alone' \in BOOLEAN
          /\ UNCHANGED <<readable, kind, api, image, opened, place, turn>>
      BY <1>6 DEF ReportLoading, Goto, Disturbs, files, globals, libs
    <2>2. /\ place' \in [Threads -> Nat \ {0}] /\ turn' \in Threads \cup {Nobody}
          /\ alone' \in BOOLEAN
      BY <1>1, <2>1 DEF Types
    <2>3. "api" \in Steps /\ "path" \in Callers
      BY DEF Steps, Callers
    <2> QED
      BY <2>1, <2>2, <2>3, OutsideBasics
  <1> QED
    BY <1>2, <1>3, <1>4, <1>5, <1>6

----------------------------------------------------------------------------
(* Threads do not disturb each other                                       *)

(* Whoever is inside a load is the only one.                                *)
LEMMA WithinSole ==
  ASSUME Undisturbed, NEW t \in Threads, Within(t)
  PROVE  Sole(t)
  BY DEF Undisturbed, Single, Sole

(* Who finds nobody else inside a load, and changes nothing yet, sees the   *)
(* globals at rest.                                                        *)
LEMMA SoleAtRest ==
  ASSUME Undisturbed, NEW t \in Threads, Sole(t), step[t] \notin Changing
  PROVE  settled = Settled(handle, api, path) /\ Sound
  <1>1. \A u \in Threads \ {t} : step[u] \notin Changing
    BY DEF Sole, Within, Changing
  <1> QED
    BY <1>1 DEF Undisturbed, AtRest, NoChange

(* A step outside of any load leaves a load of another thread where it is.  *)
LEMMA AsideKeeps ==
  ASSUME Undisturbed, NEW t \in Threads, ~Within(t), ~Within(t)',
         \A u \in Threads \ {t} : step'[u] = step[u] /\ caller'[u] = caller[u],
         UNCHANGED <<readable, kind, handle, api, path, place, image, opened, settled>>
  PROVE  Undisturbed'
  <1>1. step[t] \notin Loading /\ step'[t] \notin Loading /\ caller'[t] # "path"
    BY DEF Within
  <1>2. \A u \in Threads : Within(u)' => u # t /\ Within(u)
    BY DEF Within
  <1>3. Single' /\ Asked'
    BY <1>1, <1>2 DEF Undisturbed, Single, Asked
  <1>4. ASSUME NoChange' PROVE NoChange
    BY <1>1, <1>4 DEF NoChange, Changing
  <1>5. AtRest'
    BY <1>4 DEF Undisturbed, AtRest, Sound
  <1>6. ASSUME NEW u \in Threads PROVE LoadOf(u)'
    <2>1. CASE u = t
      BY <1>1, <2>1 DEF LoadOf, Loading
    <2>2. CASE u # t
      BY <2>2 DEF Undisturbed, Loads, LoadOf, Ruled, LastWrittenBefore, FirstThere,
                  FreshlyOpened, KeptOpen
    <2> QED
      BY <2>1, <2>2
  <1> QED
    BY <1>3, <1>5, <1>6 DEF Undisturbed, Loads

(* A step of t while nobody else is inside a load, from what it does to t.  *)
LEMMA SoleKeeps ==
  ASSUME NEW t \in Threads, Sole(t),
         \A u \in Threads \ {t} : step'[u] = step[u] /\ caller'[u] = caller[u],
         LoadOf(t)',
         caller'[t] = "path" => settled'.path = None /\ ~settled'.api,
         step'[t] \notin Changing => settled' = Settled(handle', api', path') /\ Sound'
  PROVE  Undisturbed'
  <1>1. \A u \in Threads \ {t} : step'[u] \notin Loading /\ caller'[u] # "path"
    BY DEF Sole, Within
  <1>2. Single' /\ Asked'
    BY <1>1 DEF Single, Asked, Within
  <1>3. AtRest'
    BY DEF AtRest, NoChange
  <1>4. ASSUME NEW u \in Threads PROVE LoadOf(u)'
    <2>1. CASE u = t
      BY <2>1
    <2>2. CASE u # t
      BY <1>1, <2>2 DEF LoadOf, Loading
    <2> QED
      BY <2>1, <2>2
  <1> QED
    BY <1>2, <1>3, <1>4 DEF Undisturbed, Loads

(* ort_api returns, leaving sound globals.                                  *)
LEMMA ReturnsKeeps ==
  ASSUME Basics, alone, NEW t \in Threads, Sole(t), NEW from, NEW ok \in BOOLEAN,
         Returns(t, from, ok), Sound'
  PROVE  Undisturbed'
  <1>1. settled' = Settled(handle', api', path')
    BY ReturnsTo
  <1>2. /\ step'[t] \notin Loading /\ caller'[t] # "path"
        /\ \A u \in Threads \ {t} : step'[u] = step[u] /\ caller'[u] = caller[u]
    BY ReturnsOutside
  <1>3. LoadOf(t)'
    BY <1>2 DEF LoadOf, Loading
  <1> QED
    BY <1>1, <1>2, <1>3, SoleKeeps

----------------------------------------------------------------------------
(* Calls begin and end                                                     *)

LEMMA BeginKeeps ==
  ASSUME Basics, Undisturbed, NEW t \in Threads,
         BeginCreate(t) \/ BeginDiagnostics(t) \/ CreateReturnsNull(t)
  PROVE  Undisturbed'
  <1>1. /\ \/ step[t] = "idle" /\ step' = [step EXCEPT ![t] = "api"]
           \/ step[t] = "failed" /\ step' = [step EXCEPT ![t] = "idle"]
        /\ UNCHANGED <<readable, kind, handle, api, path, place, image, opened, settled>>
        /\ \/ caller' = [caller EXCEPT ![t] = "create"]
           \/ caller' = [caller EXCEPT ![t] = "version"]
           \/ caller' = caller
    BY DEF BeginCreate, BeginDiagnostics, CreateReturnsNull, Goto, files, globals, libs, history
  <1>2. Types /\ LocalOf(t)
    BY DEF Basics
  <1>3. \A u \in Threads \ {t} : step'[u] = step[u] /\ caller'[u] = caller[u]
    BY <1>1, <1>2 DEF Types
  <1>4. caller[t] # "path" /\ ~Within(t)
    BY <1>1, <1>2 DEF LocalOf, Within, Loading
  <1>5. step'[t] \in {"api", "idle"} /\ caller'[t] # "path"
    BY <1>1, <1>2, <1>4 DEF Types
  <1>6. ~Within(t)'
    BY <1>5 DEF Within, Loading
  <1> QED
    BY <1>1, <1>3, <1>4, <1>6, AsideKeeps

(* Once the library is in use nobody is inside a load.                      *)
LEMMA InUse ==
  ASSUME Basics, Undisturbed, api, NEW t \in Threads
  PROVE  ~Within(t)
  <1>1. \A u \in Threads : step[u] \notin Loading
    BY DEF Undisturbed, Loads, LoadOf
  <1>2. settled = Settled(handle, api, path)
    BY <1>1 DEF Undisturbed, AtRest, NoChange, Changing
  <1>3. settled.api = api
    BY <1>2 DEF Settled
  <1>4. caller[t] # "path"
    BY <1>3 DEF Undisturbed, Asked
  <1> QED
    BY <1>1, <1>4 DEF Within

LEMMA AlreadySetKeeps ==
  ASSUME Basics, alone, Undisturbed, NEW t \in Threads, AlreadySet(t)
  PROVE  Undisturbed' /\ settled' = settled /\ answer' = answer
  <1>1. /\ api /\ UNCHANGED <<readable, kind, handle, api, path, image, opened>>
        /\ Returns(t, "api", TRUE) /\ step[t] = "api"
    BY DEF AlreadySet, files, globals, libs, Returns, Goto
  <1>2. Sole(t) /\ ~Within(t)
    BY <1>1, InUse DEF Sole
  <1>3. settled = Settled(handle, api, path) /\ Sound
    BY <1>1, <1>2, SoleAtRest DEF Changing, Loading
  <1>4. Sound' /\ settled' = settled
    BY <1>1, <1>3, ReturnsTo DEF Sound
  <1>5. answer' = answer
    BY <1>1, <1>2 DEF Returns, Within
  <1>6. Undisturbed'
    BY <1>1, <1>2, <1>4, ReturnsKeeps
  <1> QED
    BY <1>4, <1>5, <1>6

----------------------------------------------------------------------------
(* Loading: steps inside ort_api                                           *)

(* A step of t, the only one to load, from one place in ort_api to another. *)
LEMMA LoadingStep ==
  ASSUME Basics, Undisturbed, NEW t \in Threads, Sole(t),
         NEW to \in Loading, step' = [step EXCEPT ![t] = to],
         UNCHANGED <<caller, settled>>,
         to \in Changing \/ (Sound /\ settled = Settled(handle, api, path)
                             /\ UNCHANGED <<handle, api, path, image>>),
         LoadOf(t)'
  PROVE  Undisturbed'
  <1>1. step'[t] = to /\ \A u \in Threads \ {t} : step'[u] = step[u]
    BY DEF Basics, Types
  <1>2. caller'[t] = "path" => settled'.path = None /\ ~settled'.api
    BY DEF Undisturbed, Asked
  <1>3. step'[t] \notin Changing => settled' = Settled(handle', api', path') /\ Sound'
    BY <1>1 DEF Sound
  <1> QED
    BY <1>1, <1>2, <1>3, SoleKeeps

LEMMA MustLoadKeeps ==
  ASSUME Basics, Undisturbed, NEW t \in Threads, MustLoad(t), alone'
  PROVE  Undisturbed'
  <1>1. /\ ~api /\ step[t] = "api" /\ step' = [step EXCEPT ![t] = "handle"]
        /\ UNCHANGED <<readable, kind, handle, api, path, caller, place, image, opened, settled>>
    BY DEF MustLoad, Goto, files, globals, libs
  <1>2. Sole(t)
    BY DEF MustLoad, Disturbs, Sole
  <1>3. settled = Settled(handle, api, path) /\ Sound
    BY <1>1, <1>2, SoleAtRest DEF Changing, Loading
  <1>4. settled.api = FALSE
    BY <1>1, <1>3 DEF Settled, Basics, Types
  <1>5. step'[t] = "handle"
    BY <1>1 DEF Basics, Types
  <1>6. LoadOf(t)'
    BY <1>1, <1>4, <1>5 DEF LoadOf
  <1>7. "handle" \in Loading
    BY DEF Loading
  <1> QED
    BY <1>1, <1>2, <1>3, <1>6, <1>7, LoadingStep

LEMMA UseHandleKeeps ==
  ASSUME Basics, Undisturbed, NEW t \in Threads, UseHandle(t)
  PROVE  Undisturbed'
  <1>1. /\ handle # None
        /\ step[t] = "handle" /\ step' = [step EXCEPT ![t] = "again"]
        /\ UNCHANGED <<readable, kind, handle, api, path, caller, place, image, opened, settled>>
    BY DEF UseHandle, Goto, files, globals, libs, history
  <1>2. Sole(t)
    BY <1>1, WithinSole DEF Within, Loading
  <1>3. settled = Settled(handle, api, path) /\ Sound
    BY <1>1, <1>2, SoleAtRest DEF Changing, Loading
  <1>4. ~api /\ settled.api = FALSE
    BY <1>1 DEF Undisturbed, Loads, LoadOf, Loading
  <1>5. step'[t] = "again"
    BY <1>1 DEF Basics, Types
  <1>6. KeptOpen'
    BY <1>1, <1>3, <1>4 DEF Settled, Sound, KeptOpen
  <1>7. LoadOf(t)'
    BY <1>1, <1>4, <1>5, <1>6 DEF LoadOf
  <1>8. "again" \in Loading /\ "again" \in Changing
    BY DEF Loading, Changing
  <1> QED
    BY <1>1, <1>2, <1>7, <1>8, LoadingStep

LEMMA BeginSearchKeeps ==
  ASSUME Basics, Undisturbed, NEW t \in Threads, BeginSearch(t)
  PROVE  Undisturbed'
  <1>1. /\ handle = None
        /\ step[t] = "handle" /\ step' = [step EXCEPT ![t] = "clear"]
        /\ UNCHANGED <<readable, kind, handle, api, path, caller, place, image, opened, settled>>
    BY DEF BeginSearch, Goto, files, globals, libs, history
  <1>2. Sole(t)
    BY <1>1, WithinSole DEF Within, Loading
  <1>3. settled = Settled(handle, api, path) /\ Sound
    BY <1>1, <1>2, SoleAtRest DEF Changing, Loading
  <1>4. ~api /\ settled.api = FALSE /\ settled.handle = None
    BY <1>1, <1>3 DEF Undisturbed, Loads, LoadOf, Loading, Settled
  <1>5. step'[t] = "clear"
    BY <1>1 DEF Basics, Types
  <1>6. LoadOf(t)'
    BY <1>1, <1>4, <1>5 DEF LoadOf
  <1>7. "clear" \in Loading
    BY DEF Loading
  <1> QED
    BY <1>1, <1>2, <1>3, <1>6, <1>7, LoadingStep

LEMMA ClearBufferKeeps ==
  ASSUME Basics, Undisturbed, NEW t \in Threads, ClearBuffer(t)
  PROVE  Undisturbed'
  <1>1. /\ path' = None /\ place' = [place EXCEPT ![t] = 1]
        /\ step[t] = "clear" /\ step' = [step EXCEPT ![t] = "write"]
        /\ UNCHANGED <<readable, kind, handle, api, caller, image, opened, settled>>
    BY DEF ClearBuffer, Goto, files, libs, history
  <1>2. Sole(t)
    BY <1>1, WithinSole DEF Within, Loading
  <1>3. ~api /\ settled.api = FALSE /\ handle = None /\ settled.handle = None
    BY <1>1 DEF Undisturbed, Loads, LoadOf, Loading
  <1>4. step'[t] = "write" /\ place'[t] = 1
    BY <1>1 DEF Basics, Types
  <1>5. Ruled(1)' /\ LastWrittenBefore(1)'
    BY <1>1, LibraryAssumption DEF Basics, Types, Ruled, LastWrittenBefore
  <1>6. Ruled(place[t])' /\ LastWrittenBefore(place[t])'
    BY <1>4, <1>5 DEF Ruled, LastWrittenBefore
  <1>7. LoadOf(t)'
    BY <1>1, <1>3, <1>4, <1>6 DEF LoadOf
  <1>8. "write" \in Loading /\ "write" \in Changing
    BY DEF Loading, Changing
  <1> QED
    BY <1>1, <1>2, <1>7, <1>8, LoadingStep

LEMMA WriteCandidateKeeps ==
  ASSUME Basics, Undisturbed, NEW t \in Threads, WriteCandidate(t)
  PROVE  Undisturbed'
  <1>1. /\ place[t] \in Written /\ path' = place[t]
        /\ step[t] = "write" /\ step' = [step EXCEPT ![t] = "test"]
        /\ UNCHANGED <<readable, kind, handle, api, caller, place, image, opened, settled>>
    BY DEF WriteCandidate, Goto, files, libs, history
  <1>2. Types /\ LoadOf(t) /\ Sole(t)
    BY <1>1, WithinSole DEF Basics, Undisturbed, Loads, Within, Loading
  <1>3. step'[t] = "test"
    BY <1>1, <1>2 DEF Types
  <1>4. Ruled(place[t])'
    BY <1>1, <1>2 DEF LoadOf, Ruled
  <1>5. LoadOf(t)'
    BY <1>1, <1>2, <1>3, <1>4 DEF LoadOf, Loading
  <1>6. "test" \in Loading /\ "test" \in Changing
    BY DEF Loading, Changing
  <1> QED
    BY <1>1, <1>2, <1>5, <1>6, LoadingStep

(* A place where there is nothing is ruled out, written or not.             *)
LEMMA NextPlace ==
  ASSUME NEW n \in Nat, readable \subseteq Nat, Written \subseteq Nat,
         Ruled(n), n \notin readable,
         \/ LastWrittenBefore(n) /\ n \notin Written
         \/ path = n /\ n \in Written
  PROVE  Ruled(n + 1) /\ LastWrittenBefore(n + 1)
  <1>1. Ruled(n + 1)
    <2> SUFFICES ASSUME NEW f \in readable PROVE f >= n + 1
      BY DEF Ruled
    <2>1. f \in Nat /\ f >= n /\ f # n
      BY DEF Ruled
    <2> QED
      BY <2>1
  <1>2. CASE LastWrittenBefore(n) /\ n \notin Written
    <2>1. \A g \in Written : g \in Nat /\ g # n
      BY <1>2
    <2>2. CASE path = None /\ \A g \in Written : g >= n
      <3>1. \A g \in Written : g >= n + 1
        BY <2>1, <2>2
      <3> QED
        BY <1>1, <2>2, <3>1 DEF LastWrittenBefore
    <2>3. CASE path \in Written /\ path < n /\ \A g \in Written : g < n => g <= path
      <3>1. path < n + 1 /\ \A g \in Written : g < n + 1 => g <= path
        BY <2>1, <2>3
      <3> QED
        BY <1>1, <2>3, <3>1 DEF LastWrittenBefore
    <2> QED
      BY <1>2, <2>2, <2>3 DEF LastWrittenBefore
  <1>3. CASE path = n /\ n \in Written
    <2>1. n < n + 1 /\ \A g \in Written : g < n + 1 => g <= n
      <3> SUFFICES ASSUME NEW g \in Written, g < n + 1 PROVE g <= n
        OBVIOUS
      <3>1. g \in Nat
        OBVIOUS
      <3> QED
        BY <3>1
    <2> QED
      BY <1>1, <1>3, <2>1 DEF LastWrittenBefore
  <1> QED
    BY <1>1, <1>2, <1>3

(* A candidate that is there is the first that is.                          *)
LEMMA TestFixedKeeps ==
  ASSUME Basics, Undisturbed, NEW t \in Threads, TestFixed(t)
  PROVE  Undisturbed'
  <1>1. /\ place[t] \in 1..Files \ Written /\ step[t] = "write"
        /\ UNCHANGED <<readable, kind, handle, api, caller, image, opened, settled>>
    BY DEF TestFixed, Goto, files, libs, history
  <1>2. Types /\ LoadOf(t) /\ Sole(t)
    BY <1>1, WithinSole DEF Basics, Undisturbed, Loads, Within, Loading
  <1>3. Ruled(place[t]) /\ LastWrittenBefore(place[t])
    BY <1>1, <1>2 DEF LoadOf
  <1>4. CASE place[t] \in readable
    <2>1. step' = [step EXCEPT ![t] = "open"] /\ path' = place[t]
      BY <1>4 DEF TestFixed, Goto
    <2>2. step'[t] = "open"
      BY <1>2, <2>1 DEF Types
    <2>3. FirstThere(path)'
      BY <1>1, <1>3, <1>4, <2>1 DEF FirstThere, Ruled
    <2>4. LoadOf(t)'
      BY <1>1, <1>2, <2>2, <2>3 DEF LoadOf, Loading
    <2>5. "open" \in Loading /\ "open" \in Changing
      BY DEF Loading, Changing
    <2> QED
      BY <1>1, <1>2, <2>1, <2>4, <2>5, LoadingStep
  <1>5. CASE place[t] \notin readable
    <2>1. /\ step' = [step EXCEPT ![t] = "write"] /\ path' = path
          /\ place' = [place EXCEPT ![t] = place[t] + 1]
      BY <1>5 DEF TestFixed, Goto
    <2>2. step'[t] = "write" /\ place'[t] = place[t] + 1
      BY <1>2, <2>1 DEF Types
    <2>3. Written \subseteq Nat /\ readable \subseteq Nat /\ place[t] \in Nat
      BY <1>1, <1>2, LibraryAssumption DEF Types
    <2>4. Ruled(place[t] + 1) /\ LastWrittenBefore(place[t] + 1)
      BY <1>1, <1>3, <1>5, <2>3, NextPlace
    <2>5. Ruled(place[t])' /\ LastWrittenBefore(place[t])'
      BY <1>1, <2>1, <2>2, <2>4 DEF Ruled, LastWrittenBefore
    <2>6. LoadOf(t)'
      BY <1>1, <1>2, <2>2, <2>5 DEF LoadOf, Loading
    <2>7. "write" \in Loading /\ "write" \in Changing
      BY DEF Loading, Changing
    <2> QED
      BY <1>1, <1>2, <2>1, <2>6, <2>7, LoadingStep
  <1> QED
    BY <1>4, <1>5

LEMMA TestBufferKeeps ==
  ASSUME Basics, Undisturbed, NEW t \in Threads, TestBuffer(t)
  PROVE  Undisturbed'
  <1>1. /\ step[t] = "test"
        /\ UNCHANGED <<readable, kind, handle, api, path, caller, image, opened, settled>>
    BY DEF TestBuffer, Goto, files, globals, libs, history
  <1>2. Types /\ LoadOf(t) /\ Sole(t)
    BY <1>1, WithinSole DEF Basics, Undisturbed, Loads, Within, Loading
  <1>3. Ruled(place[t]) /\ path = place[t] /\ path \in Written
    BY <1>1, <1>2 DEF LoadOf
  <1>4. CASE path \in readable
    <2>1. step' = [step EXCEPT ![t] = "open"]
      BY <1>4 DEF TestBuffer, Goto
    <2>2. step'[t] = "open"
      BY <1>2, <2>1 DEF Types
    <2>3. FirstThere(path)'
      BY <1>1, <1>3, <1>4 DEF FirstThere, Ruled
    <2>4. LoadOf(t)'
      BY <1>1, <1>2, <2>2, <2>3 DEF LoadOf, Loading
    <2>5. "open" \in Loading /\ "open" \in Changing
      BY DEF Loading, Changing
    <2> QED
      BY <1>1, <1>2, <2>1, <2>4, <2>5, LoadingStep
  <1>5. CASE path \notin readable
    <2>1. step' = [step EXCEPT ![t] = "write"] /\ place' = [place EXCEPT ![t] = place[t] + 1]
      BY <1>5 DEF TestBuffer, Goto
    <2>2. step'[t] = "write" /\ place'[t] = place[t] + 1
      BY <1>2, <2>1 DEF Types
    <2>3. Written \subseteq Nat /\ readable \subseteq Nat /\ place[t] \in Nat
      BY <1>2, LibraryAssumption DEF Types
    <2>4. Ruled(place[t] + 1) /\ LastWrittenBefore(place[t] + 1)
      BY <1>3, <1>5, <2>3, NextPlace
    <2>5. Ruled(place[t])' /\ LastWrittenBefore(place[t])'
      BY <1>1, <2>2, <2>4 DEF Ruled, LastWrittenBefore
    <2>6. LoadOf(t)'
      BY <1>1, <1>2, <2>2, <2>5 DEF LoadOf, Loading
    <2>7. "write" \in Loading /\ "write" \in Changing
      BY DEF Loading, Changing
    <2> QED
      BY <1>1, <1>2, <2>1, <2>6, <2>7, LoadingStep
  <1> QED
    BY <1>4, <1>5

LEMMA OpenLibraryKeeps ==
  ASSUME Basics, Undisturbed, NEW t \in Threads, OpenLibrary(t)
  PROVE  Undisturbed'
  <1>1. /\ Openable /\ handle' = path /\ image' = kind[path]
        /\ step[t] = "open" /\ step' = [step EXCEPT ![t] = "base"]
        /\ UNCHANGED <<readable, kind, api, path, caller, place, opened, settled>>
    BY DEF OpenLibrary, Goto, files, history
  <1>2. Types /\ LoadOf(t) /\ Sole(t)
    BY <1>1, WithinSole DEF Basics, Undisturbed, Loads, Within, Loading
  <1>3. step'[t] = "base"
    BY <1>1, <1>2 DEF Types
  <1>4. FirstThere(path) /\ settled.handle = None
    BY <1>1, <1>2 DEF LoadOf
  <1>5. FreshlyOpened'
    BY <1>1, <1>4 DEF FreshlyOpened, FirstThere, Openable
  <1>6. LoadOf(t)'
    BY <1>1, <1>2, <1>3, <1>5 DEF LoadOf, Loading
  <1>7. "base" \in Loading /\ "base" \in Changing
    BY DEF Loading, Changing
  <1> QED
    BY <1>1, <1>2, <1>6, <1>7, LoadingStep

LEMMA FindBaseKeeps ==
  ASSUME Basics, Undisturbed, NEW t \in Threads, FindBase(t)
  PROVE  Undisturbed'
  <1>1. /\ HasBase /\ opened' = [opened EXCEPT ![t] = image]
        /\ step[t] \in {"base", "again"} /\ step' = [step EXCEPT ![t] = "ask"]
        /\ UNCHANGED <<readable, kind, handle, api, path, caller, place, image, settled>>
    BY DEF FindBase, Goto, files, globals, history
  <1>2. Types /\ LoadOf(t) /\ Sole(t)
    BY <1>1, WithinSole DEF Basics, Undisturbed, Loads, Within, Loading
  <1>3. FreshlyOpened \/ KeptOpen
    BY <1>1, <1>2 DEF LoadOf
  <1>4. step'[t] = "ask" /\ opened'[t] = image
    BY <1>1, <1>2 DEF Types
  <1>5. FreshlyOpened' \/ KeptOpen'
    BY <1>1, <1>3 DEF FreshlyOpened, FirstThere, KeptOpen
  <1>6. LoadOf(t)'
    BY <1>1, <1>2, <1>4, <1>5 DEF LoadOf, Loading, HasBase
  <1>7. "ask" \in Loading /\ "ask" \in Changing
    BY DEF Loading, Changing
  <1> QED
    BY <1>1, <1>2, <1>6, <1>7, LoadingStep

----------------------------------------------------------------------------
(* What a load amounts to                                                  *)

(* The first file there is, is the one OrtLibrary resolves to.              *)
LEMMA FirstResolves ==
  ASSUME Types, NEW f, FirstThere(f)
  PROVE  f # None /\ Library!Resolve = f
  <1>1. readable \subseteq Nat \ {0} /\ f \in readable
    BY LibraryAssumption DEF Types, FirstThere
  <1>2. \A x \in readable : (\A g \in readable : x <= g) => x = f
    BY <1>1 DEF FirstThere
  <1> QED
    BY <1>1, <1>2 DEF FirstThere, Library!Resolve, Library!First, None

(* A search that came to its end found no file, and left in the buffer the  *)
(* last path it wrote.                                                     *)
LEMMA SearchedAll ==
  ASSUME Types, NEW n \in Nat, n > Files, Ruled(n), LastWrittenBefore(n)
  PROVE  Library!Resolve = None /\ path = Library!LeftBehind
  <1>1. readable \subseteq 1..Files /\ Written \subseteq 1..Files /\ Files \in Nat
    BY LibraryAssumption DEF Types
  <1>2. readable = {}
    <2> SUFFICES ASSUME NEW f \in readable PROVE FALSE
      OBVIOUS
    <2>1. f \in Nat /\ f <= Files /\ f >= n
      BY <1>1 DEF Ruled
    <2> QED
      BY <1>1, <2>1
  <1>3. \A g \in Written : g \in Nat /\ g < n
    BY <1>1
  <1>4. CASE path = None /\ \A g \in Written : g >= n
    <2>1. Written = {}
      <3> SUFFICES ASSUME NEW g \in Written PROVE FALSE
        OBVIOUS
      <3> QED
        BY <1>3, <1>4
    <2> QED
      BY <1>2, <1>4, <2>1 DEF Library!Resolve, Library!LeftBehind, Library!None, None
  <1>5. CASE path \in Written /\ path < n /\ \A g \in Written : g < n => g <= path
    <2>1. \A g \in Written : path >= g
      <3> SUFFICES ASSUME NEW g \in Written PROVE path >= g
        OBVIOUS
      <3>1. g \in Nat /\ path \in Nat /\ g <= path
        BY <1>3, <1>5
      <3> QED
        BY <3>1
    <2>2. \A x \in Written : (\A g \in Written : x >= g) => x = path
      <3> SUFFICES ASSUME NEW x \in Written, \A g \in Written : x >= g PROVE x = path
        OBVIOUS
      <3>1. x >= path /\ path >= x /\ x \in Nat /\ path \in Nat
        BY <1>3, <1>5, <2>1
      <3> QED
        BY <3>1
    <2> QED
      BY <1>2, <1>5, <2>1, <2>2
      DEF Library!Resolve, Library!LeftBehind, Library!Last, Library!None, None
  <1> QED
    BY <1>4, <1>5 DEF LastWrittenBefore

(* A load that does to the globals what OrtLibrary's does is a call of      *)
(* OrtLibrary, whoever asked for it.                                       *)
LEMMA ReturnsMaps ==
  ASSUME Basics, alone, Undisturbed, NEW t \in Threads, NEW from, NEW ok \in BOOLEAN,
         Returns(t, from, ok), UNCHANGED <<readable, kind>>,
         Library!OrtApi, ok = api', Sound'
  PROVE  Library!Next
  <1>1. settled' = Settled(handle', api', path') /\ alone'
    BY ReturnsTo
  <1>2. CASE caller[t] \in {"create", "version"}
    <2>1. answer' = answer
      BY <1>2 DEF Returns
    <2> QED
      BY <2>1 DEF Library!Next, Library!UseOrt
  <1>3. CASE caller[t] = "path"
    <2>1. settled.path = None /\ ~settled.api
      BY <1>3 DEF Undisturbed, Asked
    <2>2. answer' = IF ok THEN Named(handle', TRUE, path') ELSE None
      BY <1>1, <1>3 DEF Returns, Answers
    <2>3. settled'.api = api' /\ settled'.path = path' /\ (ok => path' # None)
      BY <1>1 DEF Sound, Settled
    <2>4. answer' = IF settled'.api THEN settled'.path ELSE None
      BY <2>2, <2>3 DEF Named
    <2> QED
      BY <2>1, <2>4 DEF Library!Next, Library!LibraryPath, Library!None, None
  <1> QED
    BY <1>2, <1>3 DEF Basics, Types, Callers

LEMMA SearchFailsKeeps ==
  ASSUME Basics, alone, Undisturbed, NEW t \in Threads, SearchFails(t)
  PROVE  Undisturbed' /\ Library!Next
  <1>1. /\ place[t] > Files /\ step[t] = "write" /\ Returns(t, "write", FALSE)
        /\ UNCHANGED <<readable, kind, handle, api, path, image, opened>>
    BY DEF SearchFails, files, globals, libs, Returns, Goto
  <1>2. Types /\ LoadOf(t) /\ Sole(t) /\ place[t] \in Nat
    BY <1>1, WithinSole DEF Basics, Undisturbed, Loads, Within, Loading, Types
  <1>3. /\ ~api /\ settled.api = FALSE /\ handle = None /\ settled.handle = None
        /\ Ruled(place[t]) /\ LastWrittenBefore(place[t])
    BY <1>1, <1>2 DEF LoadOf, Loading
  <1>4. Library!Resolve = None /\ path = Library!LeftBehind
    BY <1>1, <1>2, <1>3, SearchedAll
  <1>5. Sound' /\ api' = FALSE /\ api \in BOOLEAN
    BY <1>1, <1>2, <1>3 DEF Sound, Types
  <1>6. settled' = Settled(handle', api', path')
    BY <1>1, ReturnsTo
  <1>7. /\ settled'.api = settled.api /\ settled'.handle = settled.handle
        /\ settled'.path = path
    BY <1>1, <1>3, <1>5, <1>6 DEF Settled
  <1>8. Library!OrtApi
    BY <1>3, <1>4, <1>7 DEF Library!OrtApi, Library!None, None
  <1>9. Undisturbed'
    BY <1>1, <1>2, <1>5, ReturnsKeeps
  <1>10. Library!Next
    BY <1>1, <1>5, <1>8, ReturnsMaps
  <1> QED
    BY <1>9, <1>10

LEMMA OpenLibraryFailsKeeps ==
  ASSUME Basics, alone, Undisturbed, NEW t \in Threads, OpenLibraryFails(t)
  PROVE  Undisturbed' /\ Library!Next
  <1>1. /\ ~Openable /\ step[t] = "open" /\ Returns(t, "open", FALSE) /\ path' = None
        /\ UNCHANGED <<readable, kind, handle, api, image, opened>>
    BY DEF OpenLibraryFails, files, libs, Returns, Goto
  <1>2. Types /\ LoadOf(t) /\ Sole(t)
    BY <1>1, WithinSole DEF Basics, Undisturbed, Loads, Within, Loading
  <1>3. /\ ~api /\ settled.api = FALSE /\ handle = None /\ settled.handle = None
        /\ FirstThere(path)
    BY <1>1, <1>2 DEF LoadOf, Loading
  <1>4. Library!Resolve = path /\ path # None /\ kind[path] = "unloadable"
    BY <1>1, <1>2, <1>3, FirstResolves DEF FirstThere, Openable
  <1>5. Sound' /\ api' = FALSE /\ api \in BOOLEAN
    BY <1>1, <1>2, <1>3 DEF Sound, Types
  <1>6. settled' = Settled(handle', api', path')
    BY <1>1, ReturnsTo
  <1>7. /\ settled'.api = settled.api /\ settled'.handle = settled.handle
        /\ settled'.path = None
    BY <1>1, <1>3, <1>5, <1>6 DEF Settled
  <1>8. Library!OrtApi
    BY <1>3, <1>4, <1>7 DEF Library!OrtApi, Library!None, None
  <1>9. Undisturbed'
    BY <1>1, <1>2, <1>5, ReturnsKeeps
  <1>10. Library!Next
    BY <1>1, <1>5, <1>8, ReturnsMaps
  <1> QED
    BY <1>9, <1>10

(* A library kept open has the entry point: it is not closed twice.         *)
LEMMA NoBaseKeeps ==
  ASSUME Basics, alone, Undisturbed, NEW t \in Threads, NoBase(t)
  PROVE  Undisturbed' /\ Library!Next
  <1>1. /\ ~HasBase /\ step[t] \in {"base", "again"} /\ Returns(t, step[t], FALSE)
        /\ UNCHANGED <<readable, kind, api, image, opened>>
    BY DEF NoBase, files, libs
  <1>2. Types /\ LoadOf(t) /\ Sole(t)
    BY <1>1, WithinSole DEF Basics, Undisturbed, Loads, Within, Loading
  <1>3. ~api /\ settled.api = FALSE
    BY <1>1, <1>2 DEF LoadOf, Loading
  <1>4. step[t] = "base"
    BY <1>1, <1>2 DEF LoadOf, KeptOpen, HasBase
  <1>5. handle' = None /\ path' = None
    BY <1>4 DEF NoBase
  <1>6. FirstThere(handle) /\ image = kind[handle] /\ settled.handle = None
    BY <1>2, <1>4 DEF LoadOf, FreshlyOpened
  <1>7. Library!Resolve = handle /\ handle # None /\ kind[handle] = "foreign"
    BY <1>1, <1>2, <1>6, FirstResolves DEF HasBase
  <1>8. Sound' /\ api' = FALSE /\ api \in BOOLEAN
    BY <1>1, <1>2, <1>3, <1>5 DEF Sound, Types
  <1>9. settled' = Settled(handle', api', path')
    BY <1>1, ReturnsTo
  <1>10. /\ settled'.api = settled.api /\ settled'.handle = settled.handle
         /\ settled'.path = None
    BY <1>1, <1>3, <1>5, <1>6, <1>8, <1>9 DEF Settled
  <1>11. Library!OrtApi
    BY <1>3, <1>6, <1>7, <1>10 DEF Library!OrtApi, Library!None, None
  <1>12. Undisturbed'
    BY <1>1, <1>2, <1>8, ReturnsKeeps
  <1>13. Library!Next
    BY <1>1, <1>8, <1>11, ReturnsMaps
  <1> QED
    BY <1>12, <1>13

LEMMA GetApiKeeps ==
  ASSUME Basics, alone, Undisturbed, NEW t \in Threads, GetApi(t)
  PROVE  Undisturbed' /\ Library!Next
  <1>1. /\ step[t] = "ask" /\ Returns(t, "ask", api') /\ api' = (opened[t] = "good")
        /\ UNCHANGED <<readable, kind, handle, path, image>>
    BY DEF GetApi, files
  <1>2. Types /\ LoadOf(t) /\ Sole(t)
    BY <1>1, WithinSole DEF Basics, Undisturbed, Loads, Within, Loading
  <1>3. /\ ~api /\ settled.api = FALSE
        /\ image # "foreign" /\ opened[t] = image
        /\ FreshlyOpened \/ KeptOpen
    BY <1>1, <1>2 DEF LoadOf, Loading
  <1>4. api' \in BOOLEAN
    BY <1>1
  <1>5. settled' = Settled(handle', api', path')
    BY <1>1, <1>4, ReturnsTo
  <1>6. settled'.handle = handle /\ settled'.path = path /\ settled'.api = api'
    BY <1>1, <1>5 DEF Settled
  <1>7. Sound' /\ Library!OrtApi
    <2>1. CASE KeptOpen
      <3>1. /\ handle # None /\ path = handle /\ image = "outdated"
            /\ settled.handle = handle /\ settled.path = path
        BY <2>1 DEF KeptOpen
      <3>2. api' = FALSE
        BY <1>1, <1>3, <3>1
      <3>3. Sound'
        BY <1>1, <3>1, <3>2 DEF Sound
      <3> QED
        BY <1>3, <1>6, <3>1, <3>2, <3>3 DEF Library!OrtApi, Library!None, None
    <2>2. CASE FreshlyOpened
      <3>1. /\ FirstThere(handle) /\ path = handle /\ settled.handle = None
            /\ image = kind[handle] /\ image # "unloadable"
        BY <2>2 DEF FreshlyOpened
      <3>2. handle # None /\ Library!Resolve = handle
        BY <1>2, <3>1, FirstResolves
      <3>3. image \in {"good", "outdated"}
        BY <1>2, <1>3, <3>1, LibraryAssumption DEF Types, FirstThere, AllKinds
      <3>4. Sound'
        BY <1>1, <1>3, <3>1, <3>2, <3>3 DEF Sound
      <3>5. api' = (kind[Library!Resolve] = "good")
        BY <1>1, <1>3, <3>1, <3>2
      <3>6. kind[Library!Resolve] \notin {"unloadable", "foreign"}
        BY <3>1, <3>2, <3>3
      <3>7. Library!OrtApi
        BY <1>3, <1>6, <3>1, <3>2, <3>5, <3>6 DEF Library!OrtApi, Library!None, None
      <3> QED
        BY <3>4, <3>7
    <2> QED
      BY <1>3, <2>1, <2>2
  <1>8. Undisturbed'
    BY <1>1, <1>2, <1>4, <1>7, ReturnsKeeps
  <1>9. Library!Next
    BY <1>1, <1>4, <1>7, ReturnsMaps
  <1> QED
    BY <1>8, <1>9

----------------------------------------------------------------------------
(* Reports, and what happens between calls                                 *)

LEMMA ReportKeeps ==
  ASSUME Basics, Undisturbed, NEW t \in Threads, Report(t), alone'
  PROVE  Undisturbed' /\ Library!Next
  <1>1. /\ path # None \/ api
        /\ step[t] = "report" /\ step' = [step EXCEPT ![t] = "idle"]
        /\ answer' = Named(handle, api, path)
        /\ caller' = [caller EXCEPT ![t] = "create"]
        /\ UNCHANGED <<readable, kind, handle, api, path, place, image, opened, settled>>
    BY DEF Report, Goto, Answers, Forget, files, globals, libs
  <1>2. Sole(t) /\ Types
    BY DEF Report, Disturbs, Sole, Basics
  <1>3. settled = Settled(handle, api, path) /\ Sound
    BY <1>1, <1>2, SoleAtRest DEF Changing, Loading
  <1>4. /\ step'[t] = "idle" /\ caller'[t] = "create"
        /\ \A u \in Threads \ {t} : step'[u] = step[u] /\ caller'[u] = caller[u]
    BY <1>1, <1>2 DEF Types
  <1>5. LoadOf(t)'
    BY <1>4 DEF LoadOf, Loading
  <1>6. settled' = Settled(handle', api', path') /\ Sound'
    BY <1>1, <1>3 DEF Sound
  <1>7. Undisturbed'
    BY <1>2, <1>4, <1>5, <1>6, SoleKeeps
  <1>8. answer' = IF path # None THEN path ELSE IF api THEN path ELSE None
    BY <1>1, <1>3 DEF Named, Sound
  <1>9. settled.handle = handle /\ settled.api = api /\ settled.path = path
    BY <1>3 DEF Settled
  <1>10. Library!LibraryPath
    BY <1>1, <1>8, <1>9 DEF Library!LibraryPath, Library!None, None
  <1> QED
    BY <1>7, <1>10 DEF Library!Next

LEMMA ReportLoadingKeeps ==
  ASSUME Basics, Undisturbed, NEW t \in Threads, ReportLoading(t), alone'
  PROVE  Undisturbed'
  <1>1. /\ path = None /\ ~api
        /\ step[t] = "report" /\ step' = [step EXCEPT ![t] = "api"]
        /\ caller' = [caller EXCEPT ![t] = "path"]
        /\ UNCHANGED <<readable, kind, handle, api, path, place, image, opened, settled>>
    BY DEF ReportLoading, Goto, files, globals, libs
  <1>2. Sole(t) /\ Types
    BY DEF ReportLoading, Disturbs, Sole, Basics
  <1>3. settled = Settled(handle, api, path) /\ Sound
    BY <1>1, <1>2, SoleAtRest DEF Changing, Loading
  <1>4. /\ step'[t] = "api"
        /\ \A u \in Threads \ {t} : step'[u] = step[u] /\ caller'[u] = caller[u]
    BY <1>1, <1>2 DEF Types
  <1>5. settled'.path = None /\ ~settled'.api
    BY <1>1, <1>3 DEF Settled
  <1>6. LoadOf(t)'
    BY <1>4 DEF LoadOf, Loading
  <1>7. settled' = Settled(handle', api', path') /\ Sound'
    BY <1>1, <1>3 DEF Sound
  <1> QED
    BY <1>2, <1>4, <1>5, <1>6, <1>7, SoleKeeps

(* Between calls nobody is inside a load.                                   *)
LEMMA IdleKeeps ==
  ASSUME Basics, Idle, UNCHANGED <<step, caller>>,
         settled' = Settled(handle', api', path'), Sound'
  PROVE  Undisturbed'
  <1>1. \A t \in Threads : step'[t] = "idle" /\ caller'[t] # "path"
    BY DEF Idle, Basics, LocalOf, Loading
  <1>2. Single' /\ Asked' /\ Loads'
    BY <1>1 DEF Single, Within, Asked, Loads, LoadOf, Loading
  <1> QED
    BY <1>2 DEF Undisturbed, AtRest

(* A termination makes good whatever overlapping loads have done.           *)
LEMMA ShutdownKeeps ==
  ASSUME TInv, ShutdownIdle
  PROVE  TInv' /\ Library!Next
  <1>1. /\ Idle /\ handle' = None /\ api' = FALSE /\ path' = None
        /\ settled' = Settled(None, FALSE, None) /\ alone' = TRUE /\ image' = NoImage
        /\ UNCHANGED <<readable, kind, answer, step, caller, place, opened, turn>>
    BY DEF ShutdownIdle, Shutdown
  <1>2. Basics' /\ Sound'
    BY <1>1 DEF TInv, Basics, Types, LocalOf, Sound
  <1>3. Undisturbed'
    BY <1>1, <1>2, IdleKeeps DEF TInv
  <1>4. Library!Shutdown
    BY <1>1 DEF Library!Shutdown, Library!None, None, Settled
  <1> QED
    BY <1>2, <1>3, <1>4 DEF TInv, Library!Next

LEMMA FilesChangeKeeps ==
  ASSUME TInv, FilesChange
  PROVE  TInv' /\ Library!Next
  <1>1. /\ Idle /\ (Install \/ Remove)
        /\ UNCHANGED <<handle, api, path, answer, step, caller, place, image, opened,
                       turn, alone, settled>>
    BY DEF FilesChange, libs, history, Install, Remove
  <1>2. Types
    BY DEF TInv, Basics
  <1>3. readable' \subseteq 1..Files /\ kind' \in [1..Files -> Kinds]
    <2>1. CASE Install
      BY <1>2, <2>1 DEF Types, Install
    <2>2. CASE Remove
      <3>1. PICK f \in readable : readable' = readable \ {f} /\ kind' = [kind EXCEPT ![f] = Absent]
        BY <2>2 DEF Remove
      <3>2. kind[f] \in Kinds
        BY <1>2 DEF Types
      <3>3. Absent \in Kinds
        BY <3>2 DEF Absent
      <3> QED
        BY <1>2, <3>1, <3>3 DEF Types
    <2> QED
      BY <1>1, <2>1, <2>2
  <1>4. Basics'
    BY <1>1, <1>2, <1>3 DEF TInv, Basics, Types, LocalOf
  <1>5. ASSUME alone PROVE Undisturbed'
    <2>1. NoChange
      BY <1>1 DEF NoChange, Idle, Changing, Loading
    <2>2. settled = Settled(handle, api, path) /\ Sound
      BY <1>5, <2>1 DEF TInv, Undisturbed, AtRest
    <2>3. settled' = Settled(handle', api', path') /\ Sound'
      BY <1>1, <2>2 DEF Sound
    <2> QED
      BY <1>1, <2>3, IdleKeeps DEF TInv
  <1>6. Library!Install \/ Library!Remove
    BY <1>1 DEF Install, Remove, Library!Install, Library!Remove, Absent, Library!Absent
  <1> QED
    BY <1>1, <1>4, <1>5, <1>6 DEF TInv, Library!Next

----------------------------------------------------------------------------
(* The refinement                                                          *)

LEMMA InitMaps == ThreadsInit => TInv /\ Library!Init
  <1> SUFFICES ASSUME ThreadsInit PROVE TInv /\ Library!Init
    OBVIOUS
  <1>1. /\ readable \in SUBSET (1..Files) /\ kind \in [1..Files -> Kinds]
        /\ \A f \in 1..Files \ readable : kind[f] = Absent
        /\ handle = None /\ api = FALSE /\ path = None /\ answer = None
        /\ step = [t \in Threads |-> "idle"]
        /\ caller = [t \in Threads |-> "create"]
        /\ place = [t \in Threads |-> 1]
        /\ opened = [t \in Threads |-> NoImage] /\ image = NoImage
        /\ turn = Nobody /\ alone = TRUE /\ settled = Settled(None, FALSE, None)
    BY DEF ThreadsInit, Init
  <1>2. Types
    <2>1. step \in [Threads -> Steps] /\ place \in [Threads -> Nat \ {0}]
      BY <1>1 DEF Steps
    <2>2. /\ caller \in [Threads -> Callers]
          /\ opened \in [Threads -> AllKinds \cup {NoImage}]
      BY <1>1 DEF Callers
    <2> QED
      BY <1>1, <2>1, <2>2 DEF Types
  <1>3. Basics /\ Single /\ Asked /\ Loads
    BY <1>1, <1>2 DEF Basics, LocalOf, Single, Within, Asked, Loads, LoadOf, Loading
  <1>4. AtRest
    BY <1>1 DEF AtRest, Sound
  <1>5. Library!Init
    BY <1>1 DEF Library!Init, Library!None, None, Settled, Absent, Library!Absent
  <1> QED
    BY <1>3, <1>4, <1>5 DEF TInv, Undisturbed

(* What threads do, terminations and files left aside.                      *)
ThreadStep(t) ==
  \/ BeginCreate(t) \/ BeginDiagnostics(t) \/ CreateReturnsNull(t)
  \/ AlreadySet(t) \/ MustLoad(t) \/ UseHandle(t) \/ Search(t) \/ Load(t)
  \/ Report(t) \/ ReportLoading(t)

(* A thread never unsays that loads have overlapped, and changes no file.   *)
LEMMA ThreadStepHistory ==
  ASSUME NEW t \in Threads, ThreadStep(t)
  PROVE  (alone' => alone) /\ UNCHANGED <<readable, kind>>
  <1>1. UNCHANGED alone \/ Disturbs(t)
    BY DEF ThreadStep, BeginCreate, BeginDiagnostics, CreateReturnsNull, AlreadySet, MustLoad,
           UseHandle, Search, BeginSearch, ClearBuffer, WriteCandidate, TestFixed, TestBuffer,
           SearchFails, Load, OpenLibrary, OpenLibraryFails, FindBase, NoBase, GetApi, Report,
           ReportLoading, Returns, history
  <1>2. UNCHANGED files
    BY DEF ThreadStep, BeginCreate, BeginDiagnostics, CreateReturnsNull, AlreadySet, MustLoad,
           UseHandle, Search, BeginSearch, ClearBuffer, WriteCandidate, TestFixed, TestBuffer,
           SearchFails, Load, OpenLibrary, OpenLibraryFails, FindBase, NoBase, GetApi, Report,
           ReportLoading
  <1>3. alone' => alone
    <2>1. CASE UNCHANGED alone
      BY <2>1
    <2>2. CASE Disturbs(t)
      BY <2>2, Zenon DEF Disturbs
    <2> QED
      BY <1>1, <2>1, <2>2
  <1> QED
    BY <1>2, <1>3 DEF files

(* Once they have, nothing of what ort_api does is taken for a call of      *)
(* OrtLibrary.                                                             *)
LEMMA OverlapsHidden ==
  ASSUME NEW t \in Threads, ThreadStep(t), ~alone'
  PROVE  UNCHANGED Library!vars
  <1>1. UNCHANGED <<settled, answer>>
    BY DEF ThreadStep, BeginCreate, BeginDiagnostics, CreateReturnsNull, AlreadySet, MustLoad,
           UseHandle, Search, BeginSearch, ClearBuffer, WriteCandidate, TestFixed, TestBuffer,
           SearchFails, Load, OpenLibrary, OpenLibraryFails, FindBase, NoBase, GetApi, Report,
           ReportLoading, Returns, Answers, history
  <1> QED
    BY <1>1, ThreadStepHistory DEF Library!vars

(* Each step of a load nobody disturbs is a call of OrtLibrary, or none of  *)
(* its business.                                                           *)
LEMMA ThreadStepMaps ==
  ASSUME Basics, alone, Undisturbed, NEW t \in Threads, ThreadStep(t), alone'
  PROVE  Undisturbed' /\ [Library!Next]_(Library!vars)
  <1>1. CASE BeginCreate(t) \/ BeginDiagnostics(t) \/ CreateReturnsNull(t)
    <2>1. UNCHANGED Library!vars
      BY <1>1 DEF BeginCreate, BeginDiagnostics, CreateReturnsNull, Library!vars, files, history
    <2> QED
      BY <1>1, <2>1, BeginKeeps
  <1>2. CASE AlreadySet(t)
    BY <1>2, AlreadySetKeeps DEF AlreadySet, Library!vars, files
  <1>3. CASE MustLoad(t)
    BY <1>3, MustLoadKeeps DEF MustLoad, Library!vars, files
  <1>4. CASE UseHandle(t)
    BY <1>4, UseHandleKeeps DEF UseHandle, Library!vars, files, history
  <1>5. CASE Search(t)
    <2>1. CASE BeginSearch(t)
      BY <2>1, BeginSearchKeeps DEF BeginSearch, Library!vars, files, history
    <2>2. CASE ClearBuffer(t)
      BY <2>2, ClearBufferKeeps DEF ClearBuffer, Library!vars, files, history
    <2>3. CASE WriteCandidate(t)
      BY <2>3, WriteCandidateKeeps DEF WriteCandidate, Library!vars, files, history
    <2>4. CASE TestFixed(t)
      BY <2>4, TestFixedKeeps DEF TestFixed, Library!vars, files, history
    <2>5. CASE TestBuffer(t)
      BY <2>5, TestBufferKeeps DEF TestBuffer, Library!vars, files, history
    <2>6. CASE SearchFails(t)
      BY <2>6, SearchFailsKeeps
    <2> QED
      BY <1>5, <2>1, <2>2, <2>3, <2>4, <2>5, <2>6 DEF Search
  <1>6. CASE Load(t)
    <2>1. CASE OpenLibrary(t)
      BY <2>1, OpenLibraryKeeps DEF OpenLibrary, Library!vars, files, history
    <2>2. CASE FindBase(t)
      BY <2>2, FindBaseKeeps DEF FindBase, Library!vars, files, history
    <2> QED
      BY <1>6, <2>1, <2>2, OpenLibraryFailsKeeps, NoBaseKeeps, GetApiKeeps DEF Load
  <1>7. CASE Report(t)
    BY <1>7, ReportKeeps
  <1>8. CASE ReportLoading(t)
    BY <1>8, ReportLoadingKeeps DEF ReportLoading, Library!vars, files
  <1> QED
    BY <1>1, <1>2, <1>3, <1>4, <1>5, <1>6, <1>7, <1>8 DEF ThreadStep

LEMMA StepMaps ==
  ASSUME TInv, [ThreadsNext]_threadVars
  PROVE  TInv' /\ [Library!Next]_(Library!vars)
  <1>1. ASSUME NEW t \in Threads, ThreadStep(t)
        PROVE  TInv' /\ [Library!Next]_(Library!vars)
    <2>1. Basics'
      BY <1>1, SearchBasics, LoadBasics, CallBasics DEF TInv, ThreadStep
    <2>2. CASE ~alone'
      BY <1>1, <2>1, <2>2, OverlapsHidden DEF TInv
    <2>3. CASE alone'
      <3>1. alone /\ Undisturbed
        BY <1>1, <2>3, ThreadStepHistory DEF TInv
      <3> QED
        BY <1>1, <2>1, <2>3, <3>1, ThreadStepMaps DEF TInv
    <2> QED
      BY <2>2, <2>3
  <1>2. ASSUME UNCHANGED threadVars
        PROVE  TInv' /\ UNCHANGED Library!vars
    <2>1. UNCHANGED <<readable, kind, handle, api, path, answer, step, caller, place,
                      image, opened, turn, alone, settled>>
      BY <1>2 DEF threadVars, files, globals, libs, history
    <2>2. Basics'
      BY <2>1 DEF TInv, Basics, Types, LocalOf
    <2>3. ASSUME Undisturbed PROVE Undisturbed'
      BY <2>1, <2>3
      DEF Undisturbed, Single, Within, Asked, AtRest, NoChange, Sound, Loads, LoadOf, Ruled,
          LastWrittenBefore, FirstThere, FreshlyOpened, KeptOpen
    <2> QED
      BY <2>1, <2>2, <2>3 DEF TInv, Library!vars
  <1>3. CASE ShutdownIdle
    BY <1>3, ShutdownKeeps
  <1>4. CASE FilesChange
    BY <1>4, FilesChangeKeeps
  <1> QED
    BY <1>1, <1>2, <1>3, <1>4 DEF ThreadsNext, ThreadStep

(* As long as no load has disturbed another, what the threads' steps do to  *)
(* the library, to the path recorded for it and to the answers of          *)
(* ort_library_path is what the single steps of OrtLibrary do; a           *)
(* termination starts afresh.                                              *)
THEOREM SerializedLoadsImplementLibrary == ThreadsSpec => ImplementsLibrary
  <1>1. ThreadsInit => TInv /\ Library!Init
    BY InitMaps
  <1>2. TInv /\ [ThreadsNext]_threadVars => TInv' /\ [Library!Next]_(Library!vars)
    BY StepMaps
  <1> QED
    BY <1>1, <1>2, PTL DEF ThreadsSpec, ImplementsLibrary, Library!Spec

----------------------------------------------------------------------------
(* The properties of the runs, for any number of threads                   *)

(* TInv holds at every step, of any number of threads, overlapping or not.  *)
THEOREM ThreadsInvariance == ThreadsSpec => []TInv
  <1>1. ThreadsInit => TInv
    BY InitMaps
  <1>2. TInv /\ [ThreadsNext]_threadVars => TInv'
    BY StepMaps
  <1> QED
    BY <1>1, <1>2, PTL DEF ThreadsSpec

(* At every step of a load that no other has overlapped, the path recorded  *)
(* is that of the library whose handle is kept.                            *)
THEOREM PathRecordedAtEveryStep == ThreadsSpec => []PathRecordedAlone
  <1>1. TInv => PathRecordedAlone
    <2> SUFFICES ASSUME Undisturbed PROVE LoadedPathRecorded
      BY DEF TInv, PathRecordedAlone
    <2>1. CASE NoChange
      BY <2>1 DEF Undisturbed, AtRest, Sound, LoadedPathRecorded
    <2>2. ASSUME NEW t \in Threads, step[t] \in Changing PROVE LoadedPathRecorded
      BY <2>2 DEF Undisturbed, Loads, LoadOf, Changing, Loading, FreshlyOpened, KeptOpen,
                  LoadedPathRecorded
    <2> QED
      BY <2>1, <2>2 DEF NoChange
  <1> QED
    BY <1>1, ThreadsInvariance, PTL

(* Only one step opens a library, and it opens the first there is.          *)
LEMMA OnlyFirstOpened ==
  ASSUME TInv, [ThreadsNext]_threadVars, alone, handle' # None, handle = None
  PROVE  \A f \in readable : handle' <= f
  <1>1. PICK t \in Threads : OpenLibrary(t)
    BY DEF ThreadsNext, threadVars, globals, BeginCreate, BeginDiagnostics, CreateReturnsNull,
           AlreadySet, MustLoad, UseHandle, Search, BeginSearch, ClearBuffer, WriteCandidate,
           TestFixed, TestBuffer, SearchFails, Load, OpenLibraryFails, FindBase, NoBase, GetApi,
           Report, ReportLoading, ShutdownIdle, Shutdown, FilesChange, Install, Remove
  <1>2. FirstThere(path) /\ handle' = path
    BY <1>1 DEF OpenLibrary, Goto, TInv, Undisturbed, Loads, LoadOf
  <1> QED
    BY <1>2 DEF FirstThere

(* The first library there is, is the one opened, by a load that no other   *)
(* has overlapped.                                                         *)
THEOREM BundlePreferredAmongThreads == ThreadsSpec => BundlePreferredAlone
  <1>1. TInv /\ [ThreadsNext]_threadVars
        => [alone /\ handle = None /\ handle' # None =>
              \A f \in readable : handle' <= f]_threadVars
    BY OnlyFirstOpened
  <1> QED
    BY <1>1, ThreadsInvariance, PTL DEF BundlePreferredAlone, ThreadsSpec

----------------------------------------------------------------------------
(* Why a load fails                                                        *)

Excused ==
  \/ Resolve = None
  \/ kind[Resolve] # "good"
  \/ handle # None /\ image = "outdated"

Failed(t) == step[t] = "failed"

(* A load that gives up leaves an excuse behind.                            *)
LEMMA FailsForAReason ==
  ASSUME Basics, Undisturbed, NEW t \in Threads, Search(t) \/ Load(t), Failed(t)'
  PROVE  Excused'
  <1>1. Types /\ LoadOf(t)
    BY DEF Basics, Undisturbed, Loads
  <1>2. SearchFails(t) \/ OpenLibraryFails(t) \/ NoBase(t) \/ GetApi(t)
    BY <1>1 DEF Search, Load, BeginSearch, ClearBuffer, WriteCandidate, TestFixed, TestBuffer,
                OpenLibrary, FindBase, Goto, Failed, Types
  <1>3. CASE SearchFails(t)
    <2>1. /\ place[t] > Files /\ place[t] \in Nat /\ readable' = readable
          /\ Ruled(place[t]) /\ LastWrittenBefore(place[t])
      BY <1>1, <1>3 DEF SearchFails, Returns, Goto, LoadOf, Types, files
    <2>2. Library!Resolve = None
      BY <1>1, <2>1, SearchedAll
    <2>3. Resolve' = None
      BY <2>1, <2>2 DEF Resolve, Library!Resolve, First, Library!First, Library!None, None
    <2> QED
      BY <2>3 DEF Excused
  <1>4. CASE OpenLibraryFails(t)
    <2>1. ~Openable /\ FirstThere(path) /\ UNCHANGED <<readable, kind>>
      BY <1>1, <1>4 DEF OpenLibraryFails, Returns, Goto, LoadOf, files
    <2>2. Library!Resolve = path
      BY <1>1, <2>1, FirstResolves
    <2>3. Resolve' = path
      BY <2>1, <2>2 DEF Resolve, Library!Resolve, First, Library!First, Library!None, None
    <2>4. kind[path] = "unloadable"
      BY <2>1 DEF Openable, FirstThere
    <2> QED
      BY <2>1, <2>3, <2>4 DEF Excused
  <1>5. CASE NoBase(t)
    <2>1. ~HasBase /\ step[t] \in {"base", "again"} /\ UNCHANGED <<readable, kind>>
      BY <1>5 DEF NoBase, files
    <2>2. FreshlyOpened
      BY <1>1, <2>1 DEF LoadOf, KeptOpen, HasBase
    <2>3. handle # None /\ Library!Resolve = handle
      BY <1>1, <2>2, FirstResolves DEF FreshlyOpened
    <2>4. kind[handle] = "foreign"
      BY <2>1, <2>2, <2>3 DEF HasBase, FreshlyOpened
    <2>5. Resolve' = handle
      BY <2>1, <2>3 DEF Resolve, Library!Resolve, First, Library!First, Library!None, None
    <2> QED
      BY <2>1, <2>4, <2>5 DEF Excused
  <1>6. CASE GetApi(t)
    <2>1. /\ step[t] = "ask" /\ api' = (opened[t] = "good")
          /\ UNCHANGED <<handle, image>>
      BY <1>6 DEF GetApi
    <2>2. ~api'
      BY <1>1, <1>6, <2>1 DEF GetApi, Returns, Goto, Failed, Types
    <2>3. /\ image # "foreign" /\ opened[t] = image
          /\ FreshlyOpened \/ KeptOpen
      BY <1>1, <2>1 DEF LoadOf
    <2>4. image # "good"
      BY <2>1, <2>2, <2>3
    <2>5. CASE FreshlyOpened
      <3>1. handle # None /\ image = kind[handle] /\ image # "unloadable" /\ FirstThere(handle)
        BY <1>1, <2>5, FirstResolves DEF FreshlyOpened
      <3>2. image = "outdated"
        BY <1>1, <2>3, <2>4, <3>1, LibraryAssumption DEF Types, FirstThere, AllKinds
      <3> QED
        BY <2>1, <3>1, <3>2 DEF Excused
    <2>6. CASE KeptOpen
      BY <2>1, <2>6 DEF KeptOpen, Excused
    <2> QED
      BY <2>3, <2>5, <2>6
  <1> QED
    BY <1>2, <1>3, <1>4, <1>5, <1>6

(* While a failure waits to be reported, nobody disturbs its excuse: files  *)
(* do not change, and a library kept open is neither replaced nor closed.   *)
LEMMA ExcuseStands ==
  ASSUME Basics, Undisturbed, [ThreadsNext]_threadVars, NEW t \in Threads, Failed(t), Excused
  PROVE  Excused'
  <1>1. ~Idle
    BY DEF Idle, Failed
  <1>2. UNCHANGED <<readable, kind>>
    BY <1>1, ThreadStepHistory
    DEF ThreadsNext, ThreadStep, threadVars, files, ShutdownIdle, FilesChange
  <1>3. ASSUME handle # None, image = "outdated"
        PROVE  UNCHANGED <<handle, image>>
    <2>1. ASSUME NEW u \in Threads PROVE ~OpenLibrary(u)
      BY <1>3, <2>1 DEF OpenLibrary, Goto, Undisturbed, Loads, LoadOf
    <2>2. ASSUME NEW u \in Threads PROVE ~NoBase(u)
      BY <1>3, <2>2 DEF NoBase, HasBase
    <2> QED
      BY <1>1, <2>1, <2>2 DEF ThreadsNext, threadVars, globals, libs, BeginCreate,
         BeginDiagnostics, CreateReturnsNull, AlreadySet, MustLoad, UseHandle, Search,
         BeginSearch, ClearBuffer, WriteCandidate, TestFixed, TestBuffer, SearchFails, Load,
         OpenLibraryFails, FindBase, GetApi, Report, ReportLoading, ShutdownIdle, FilesChange
  <1> QED
    BY <1>2, <1>3 DEF Excused, Resolve

(* Only a load that gives up makes a thread failed.                         *)
LEMMA OnlyLoadsFail ==
  ASSUME Basics, [ThreadsNext]_threadVars, NEW t \in Threads, ~Failed(t), Failed(t)'
  PROVE  Search(t) \/ Load(t)
  <1>1. step \in [Threads -> Steps]
    BY DEF Basics, Types
  <1>2. PICK u \in Threads : ThreadStep(u)
    BY DEF ThreadsNext, ThreadStep, threadVars, ShutdownIdle, FilesChange, Failed
  <1>3. step' = [step EXCEPT ![u] = step'[u]]
    BY <1>1, <1>2 DEF ThreadStep, BeginCreate, BeginDiagnostics, CreateReturnsNull, AlreadySet,
           MustLoad, UseHandle, Search, BeginSearch, ClearBuffer, WriteCandidate, TestFixed,
           TestBuffer, SearchFails, Load, OpenLibrary, OpenLibraryFails, FindBase, NoBase,
           GetApi, Report, ReportLoading, Goto, Returns
  <1>4. u = t
    BY <1>1, <1>3 DEF Failed
  <1> QED
    BY <1>1, <1>2, <1>4 DEF ThreadStep, BeginCreate, BeginDiagnostics, CreateReturnsNull,
           AlreadySet, MustLoad, UseHandle, Report, ReportLoading, Goto, Returns, Failed

(* A load that no other has overlapped never fails without a reason.        *)
THEOREM GoodLibrariesAlwaysLoad == ThreadsSpec => []GoodLibraryLoadsAlone
  <1>1. GoodLibraryLoadsAlone <=> (alone => \A t \in Threads : Failed(t) => Excused)
    BY DEF GoodLibraryLoadsAlone, Failed, Excused
  <1>2. ThreadsInit => GoodLibraryLoadsAlone
    BY DEF ThreadsInit, GoodLibraryLoadsAlone
  <1>3. TInv /\ GoodLibraryLoadsAlone /\ [ThreadsNext]_threadVars => GoodLibraryLoadsAlone'
    <2> SUFFICES ASSUME TInv, GoodLibraryLoadsAlone, [ThreadsNext]_threadVars, alone',
                        NEW t \in Threads, Failed(t)'
                 PROVE  Excused'
      BY DEF GoodLibraryLoadsAlone, Failed, Excused
    <2>1. ~ShutdownIdle
      BY DEF ShutdownIdle, Idle, Failed
    <2>2. alone
      BY <2>1, ThreadStepHistory
      DEF ThreadsNext, ThreadStep, FilesChange, threadVars, history
    <2>3. Basics /\ Undisturbed
      BY <2>2 DEF TInv
    <2>4. CASE Failed(t)
      BY <1>1, <2>2, <2>3, <2>4, ExcuseStands
    <2>5. CASE ~Failed(t)
      BY <2>3, <2>5, OnlyLoadsFail, FailsForAReason
    <2> QED
      BY <2>4, <2>5
  <1> QED
    BY <1>2, <1>3, ThreadsInvariance, PTL DEF ThreadsSpec
=============================================================================

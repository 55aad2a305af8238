--------------------------- MODULE OrtLibraryThreads ---------------------------
(***************************************************************************)
(* ort_api step by step, on several threads (src/onnx_runtime.c: ort_api,  *)
(* resolve_bundled_ort_path, onnx_runtime_ort_version,                     *)
(* onnx_runtime_ort_library_path; src/OnnxLoader.cpp: get_diagnostics).    *)
(*                                                                         *)
(* g_ort, g_ort_dlhandle and g_ort_libpath are globals without a lock, and *)
(* the buffer of the path is also the scratch space of the search.         *)
(* README.md asks applications to serialize creation and destruction, the  *)
(* variable turn; get_diagnostics, which loads the library when it has to, *)
(* is neither and may come at any moment.  Files come and go between the   *)
(* calls; a library in use stays what it was, whatever becomes of its file.*)
(*                                                                         *)
(* Nothing is promised once two loads have overlapped: the history         *)
(* variable alone tells whether they have, since the module was started or *)
(* last terminated.                                                        *)
(***************************************************************************)
EXTENDS OrtLibrary

CONSTANTS
  Threads,
  Nobody    \* the turn when no creation is under way

ASSUME ThreadsAssumption == Nobody \notin Threads

VARIABLES
  step,    \* where each thread is: see the actions
  caller,  \* whom ort_api will return to: "create", "version" or "path"
  place,   \* the candidate a search has come to
  image,   \* what the library behind the handle is
  opened,  \* what the library is whose OrtGetApiBase a thread has in hand
  turn,    \* the thread that is creating a session
  alone,   \* no load was disturbed by another thread's (history)
  settled  \* handle, api and path when an undisturbed ort_api last returned
           \* (history)

globals == <<handle, api, path>>
files == <<readable, kind>>
libs == <<image, opened>>
history == <<alone, settled>>
threadVars == <<files, globals, answer, step, caller, place, libs, turn, history>>

NoImage == "none"

Settled(h, a, p) == [handle |-> h, api |-> a, path |-> p]

ThreadsInit ==
  /\ Init
  /\ step = [t \in Threads |-> "idle"]
  /\ caller = [t \in Threads |-> "create"]
  /\ place = [t \in Threads |-> 1]
  /\ image = NoImage
  /\ opened = [t \in Threads |-> NoImage]
  /\ turn = Nobody
  /\ alone = TRUE
  /\ settled = Settled(None, FALSE, None)

Goto(t, from, to) == step[t] = from /\ step' = [step EXCEPT ![t] = to]

LeaveTurn(t) == turn' = IF turn = t THEN Nobody ELSE turn

(* Where ort_api has found g_ort null and not returned yet.                 *)
Loading == {"handle", "clear", "write", "test", "open", "base", "again", "ask"}

(* t is inside ort_api, or on its way there from ort_library_path, which    *)
(* found neither a path nor an API.                                        *)
Within(t) == step[t] \in Loading \/ caller[t] = "path"

(* t starts to load, or reads the buffer of the path: history, not code.    *)
Disturbs(t) == alone' = (alone /\ \A u \in Threads \ {t} : ~Within(u))

(* What ort_library_path answers, as long as loads do not disturb each      *)
(* other; what it answers afterwards is not kept.                          *)
Answers(file) == answer' = IF alone' THEN file ELSE answer

(* What onnx_runtime_ort_library_path answers once it need not load: the    *)
(* buffer, or what dladdr says of the library in use.                      *)
Named(h, a, p) == IF p # None THEN p ELSE IF a THEN h ELSE None

(* A local that is not read again goes back to what it was at first: a       *)
(* reduction of the states, not something the code does.                    *)
Forget(local, t, value) == [local EXCEPT ![t] = value]

(* ort_api returns to its caller, with the globals as they are now.         *)
Returns(t, from, ok) ==
  /\ UNCHANGED alone
  /\ settled' = IF alone THEN Settled(handle', api', path') ELSE settled
  /\ place' = Forget(place, t, 1)
  /\ \/ /\ caller[t] = "create"
        /\ Goto(t, from, IF ok THEN "idle" ELSE "failed")
        /\ IF ok THEN LeaveTurn(t) ELSE UNCHANGED turn
        /\ UNCHANGED <<answer, caller>>
     \/ /\ caller[t] = "version"
        /\ Goto(t, from, "report")
        /\ UNCHANGED <<answer, turn, caller>>
     \/ /\ caller[t] = "path"
        /\ Goto(t, from, "idle")
        /\ caller' = Forget(caller, t, "create")
        /\ Answers(IF ok THEN Named(handle', TRUE, path') ELSE None)
        /\ UNCHANGED turn

----------------------------------------------------------------------------
BeginCreate(t) ==
  /\ turn = Nobody /\ turn' = t
  /\ Goto(t, "idle", "api")
  /\ caller' = [caller EXCEPT ![t] = "create"]
  /\ UNCHANGED <<files, globals, answer, place, libs, history>>

(* get_diagnostics, which asks for the version first, out of any turn.      *)
BeginDiagnostics(t) ==
  /\ Goto(t, "idle", "api")
  /\ caller' = [caller EXCEPT ![t] = "version"]
  /\ UNCHANGED <<files, globals, answer, place, libs, turn, history>>

(* create gives up: the caller is told "failed".                            *)
CreateReturnsNull(t) ==
  /\ Goto(t, "failed", "idle") /\ LeaveTurn(t)
  /\ UNCHANGED <<files, globals, answer, caller, place, libs, history>>

(* ort_api: g_ort is read.                                                  *)

AlreadySet(t) ==
  /\ api
  /\ UNCHANGED <<files, globals, libs>>
  /\ Returns(t, "api", TRUE)

MustLoad(t) ==
  /\ ~api
  /\ Goto(t, "api", "handle")
  /\ Disturbs(t)
  /\ UNCHANGED <<files, globals, answer, caller, place, libs, turn, settled>>

(* g_ort_dlhandle is read.                                                  *)

UseHandle(t) ==
  /\ handle # None
  /\ Goto(t, "handle", "again")
  /\ UNCHANGED <<files, globals, answer, caller, place, libs, turn, history>>

BeginSearch(t) ==
  /\ handle = None
  /\ Goto(t, "handle", "clear")
  /\ UNCHANGED <<files, globals, answer, caller, place, libs, turn, history>>

(* The search begins with an empty buffer.                                  *)
ClearBuffer(t) ==
  /\ Goto(t, "clear", "write")
  /\ path' = None
  /\ place' = [place EXCEPT ![t] = 1]
  /\ UNCHANGED <<files, handle, api, answer, caller, libs, turn, history>>

WriteCandidateBackwards(t) ==   \* fault: begins with ONNX_ORT_BIN
  /\ place[t] \in Written
  /\ Goto(t, "write", "test")
  /\ path' = Files + 1 - place[t]
  /\ UNCHANGED <<files, handle, api, answer, caller, place, libs, turn, history>>

(* A candidate is written to the buffer, to be tested there.                *)
WriteCandidate(t) ==
  /\ place[t] \in Written
  /\ Goto(t, "write", "test")
  /\ path' = place[t]
  /\ UNCHANGED <<files, handle, api, answer, caller, place, libs, turn, history>>

(* The fixed relative paths are tested by themselves, and then written.     *)
TestFixed(t) ==
  /\ place[t] \in 1..Files \ Written
  /\ IF place[t] \in readable
     THEN /\ Goto(t, "write", "open")
          /\ path' = place[t]
          /\ place' = Forget(place, t, 1)
     ELSE /\ Goto(t, "write", "write")
          /\ place' = [place EXCEPT ![t] = @ + 1]
          /\ UNCHANGED path
  /\ UNCHANGED <<files, handle, api, answer, caller, libs, turn, history>>

TestBuffer(t) ==
  /\ IF path \in readable
     THEN Goto(t, "test", "open") /\ place' = Forget(place, t, 1)
     ELSE Goto(t, "test", "write") /\ place' = [place EXCEPT ![t] = @ + 1]
  /\ UNCHANGED <<files, globals, answer, caller, libs, turn, history>>

SearchFailsEarly(t) ==   \* fault: one candidate short
  /\ place[t] >= Files
  /\ UNCHANGED <<files, globals, libs>>
  /\ Returns(t, "write", FALSE)

SearchFails(t) ==
  /\ place[t] > Files
  /\ UNCHANGED <<files, globals, libs>>
  /\ Returns(t, "write", FALSE)

(* dlopen reads the buffer.  An empty or a half written path opens no ONNX  *)
(* Runtime either.                                                         *)
Openable == path \in readable /\ kind[path] # "unloadable"

OpenLibrary(t) ==
  /\ Openable
  /\ Goto(t, "open", "base")
  /\ handle' = path /\ image' = kind[path]
  /\ UNCHANGED <<files, api, path, answer, caller, place, opened, turn, history>>

OpenLibraryFails(t) ==
  /\ ~Openable
  /\ path' = None
  /\ UNCHANGED <<files, handle, api, libs>>
  /\ Returns(t, "open", FALSE)

HasBase == handle # None /\ image # "foreign"

FindBase(t) ==
  /\ HasBase
  /\ Goto(t, "base", "ask") \/ Goto(t, "again", "ask")
  /\ opened' = [opened EXCEPT ![t] = image]
  /\ UNCHANGED <<files, globals, answer, caller, place, image, turn, history>>

NoBaseKeepingPath(t) ==   \* fault: the library is closed, its path stays
  /\ ~HasBase
  /\ step[t] \in {"base", "again"}
  /\ handle' = IF step[t] = "base" THEN None ELSE handle
  /\ UNCHANGED <<files, api, path, libs>>
  /\ Returns(t, step[t], FALSE)

(* The thread that opened the library closes it again.                      *)
NoBase(t) ==
  /\ ~HasBase
  /\ step[t] \in {"base", "again"}
  /\ IF step[t] = "base"
     THEN handle' = None /\ path' = None
     ELSE UNCHANGED <<handle, path>>
  /\ UNCHANGED <<files, api, libs>>
  /\ Returns(t, step[t], FALSE)

(* GetApi, for the version asked for.                                       *)
GetApi(t) ==
  /\ step[t] = "ask"
  /\ api' = (opened[t] = "good")
  /\ opened' = Forget(opened, t, NoImage)
  /\ UNCHANGED <<files, handle, path, image>>
  /\ Returns(t, "ask", api')

(* onnx_runtime_ort_library_path, which may have to load after all.         *)
Report(t) ==
  /\ path # None \/ api
  /\ Goto(t, "report", "idle")
  /\ Disturbs(t)
  /\ Answers(Named(handle, api, path))
  /\ caller' = Forget(caller, t, "create")
  /\ UNCHANGED <<files, globals, place, libs, turn, settled>>

ReportLoading(t) ==
  /\ path = None /\ ~api
  /\ Goto(t, "report", "api")
  /\ Disturbs(t)
  /\ caller' = [caller EXCEPT ![t] = "path"]
  /\ UNCHANGED <<files, globals, answer, place, libs, turn, settled>>

Idle == \A t \in Threads : step[t] = "idle"

(* The module is terminated once its threads have stopped.                  *)
ShutdownIdle ==
  /\ Idle /\ Shutdown
  /\ alone' = TRUE
  /\ settled' = Settled(None, FALSE, None)
  /\ image' = NoImage
  /\ UNCHANGED <<step, caller, place, opened, turn>>

(* Files come and go between the calls.                                     *)
FilesChange ==
  /\ Idle /\ (Install \/ Remove)
  /\ UNCHANGED <<step, caller, place, libs, turn, history>>

Search(t) ==
  \/ BeginSearch(t) \/ ClearBuffer(t) \/ WriteCandidate(t) \/ TestFixed(t) \/ TestBuffer(t)
  \/ SearchFails(t)

Load(t) ==
  \/ OpenLibrary(t) \/ OpenLibraryFails(t)
  \/ FindBase(t) \/ NoBase(t) \/ GetApi(t)

ThreadsNext ==
  \/ \E t \in Threads :
       \/ BeginCreate(t) \/ BeginDiagnostics(t) \/ CreateReturnsNull(t)
       \/ AlreadySet(t) \/ MustLoad(t) \/ UseHandle(t) \/ Search(t) \/ Load(t)
       \/ Report(t) \/ ReportLoading(t)
  \/ ShutdownIdle \/ FilesChange

ThreadsSpec == ThreadsInit /\ [][ThreadsNext]_threadVars

----------------------------------------------------------------------------
(* Properties *)

(* A creation whose load nobody disturbed fails in ort_api for one of three *)
(* reasons only: there is no library, the first one there is not a usable   *)
(* ONNX Runtime, or one that is not was loaded before and is kept (ort_api  *)
(* never lets go of it).  Diagnostics that other threads are asking for     *)
(* meanwhile are no reason, as long as they do not load as well.           *)
GoodLibraryLoadsAlone ==
  alone => \A t \in Threads : step[t] = "failed" =>
    \/ Resolve = None
    \/ kind[Resolve] # "good"
    \/ handle # None /\ image = "outdated"

(* As long as loads do not overlap, the path recorded is at every step that *)
(* of the library whose handle is kept, and an API in use has its library   *)
(* (g_ort_libpath, g_ort_dlhandle, g_ort).                                 *)
PathRecordedAlone == alone => LoadedPathRecorded

(* As long as loads do not overlap, the library opened is the first one     *)
(* there is (resolve_bundled_ort_path).                                    *)
BundlePreferredAlone ==
  [][alone /\ handle = None /\ handle' # None => \A f \in readable : handle' <= f]_threadVars

(* The search takes ONNX_ORT_BIN, the last place, as "a last-resort         *)
(* override" (the comment in resolve_bundled_ort_path): it is loaded only   *)
(* when no other library is there.  A get_diagnostics that loads while      *)
(* another thread does breaks this: one search empties the buffer the other *)
(* is testing, which then passes over the library beside the extension.     *)
OverrideIsLastResort ==
  [][handle = None /\ handle' = Files => readable = {Files}]_threadVars

(* As long as loads do not overlap, the steps of ort_api, on whichever      *)
(* threads, amount to single steps of OrtLibrary, and ort_library_path      *)
(* answers as it does there.                                               *)
Library == INSTANCE OrtLibrary WITH
  handle <- settled.handle, api <- settled.api, path <- settled.path

ImplementsLibrary == Library!Spec
=============================================================================

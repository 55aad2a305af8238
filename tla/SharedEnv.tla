------------------------------- MODULE SharedEnv -------------------------------
(***************************************************************************)
(* The ONNX Runtime environment all sessions of a process share            *)
(* (src/onnx_runtime.c: g_env, g_env_users, ort_env_use, ort_env_unuse,    *)
(* onnx_runtime_create, onnx_runtime_destroy, onnx_runtime_shutdown).      *)
(*                                                                         *)
(* The reference count has no lock of its own: README.md asks applications *)
(* to serialize creation and destruction, which is the variable turn.      *)
(* Sessions that are ready run at any moment, whoever has the turn.  Every *)
(* call is a sequence of steps, one per effect on the shared state, and    *)
(* each step that can fail does.                                           *)
(***************************************************************************)
EXTENDS Integers, FiniteSets

CONSTANTS
  Loaders,       \* OnnxLoader instances, each with its own owner
  Nobody,        \* the turn when no creation or destruction is under way
  SkipTo,        \* what ONNX_LOADER_SKIP_SESSION_RELEASE may be switched to
                 \* while the process runs; it starts off, or as one of these
  MaxEnvs        \* bound: environments created in one process

ASSUME SharedEnvAssumption ==
  /\ IsFiniteSet(Loaders)
  /\ Nobody \notin Loaders
  /\ SkipTo \subseteq BOOLEAN
  /\ MaxEnvs \in Nat

VARIABLES
  ort,         \* g_ort is set
  env,         \* g_env: the latest environment, or NoEnv
  users,       \* g_env_users
  created,     \* environments created so far; they are numbered from 1
  liveEnvs,    \* those not yet released
  step,        \* where each loader is: see the actions
  sessionEnv,  \* the environment a loader's session was created in, or NoEnv
  leaked,      \* environments of sessions that were abandoned, not released
  turn,        \* the loader that is creating or destroying
  skip,        \* ONNX_LOADER_SKIP_SESSION_RELEASE=1 in the environment now
  orderly      \* the module was only terminated once every loader was gone (history)

vars == <<ort, env, users, created, liveEnvs, step, sessionEnv, leaked, turn, skip, orderly>>
shared == <<ort, env, users, created, liveEnvs>>

NoEnv == 0

Init ==
  /\ ort = FALSE
  /\ env = NoEnv /\ users = 0 /\ created = 0
  /\ liveEnvs = {} /\ leaked = {}
  /\ step = [l \in Loaders |-> "idle"]
  /\ sessionEnv = [l \in Loaders |-> NoEnv]
  /\ turn = Nobody
  /\ skip \in {FALSE} \cup SkipTo
  /\ orderly = TRUE

(* l, which is at step from, goes on to step to; no call writes the         *)
(* environment of the process.                                             *)
Goto(l, from, to) ==
  /\ step[l] = from /\ step' = [step EXCEPT ![l] = to]
  /\ UNCHANGED <<skip, orderly>>

(* The same, and with it the call ends.                                     *)
Return(l, from, to) == Goto(l, from, to) /\ turn' = Nobody

----------------------------------------------------------------------------
(* onnx_runtime_create *)

BeginCreate(l) ==
  /\ turn = Nobody /\ turn' = l
  /\ Goto(l, "idle", "api")
  /\ UNCHANGED <<shared, sessionEnv, leaked>>

(* ort_api, called by create and again, to no effect, by ort_env_use.       *)
LoadApi(l) ==
  /\ ort' = TRUE
  /\ Goto(l, "api", "env")
  /\ UNCHANGED <<env, users, created, liveEnvs, sessionEnv, leaked, turn>>

LoadApiFails(l) ==
  /\ ~ort
  /\ Return(l, "api", "idle")
  /\ UNCHANGED <<shared, sessionEnv, leaked>>

(* ort_env_use: the first user creates the environment.                     *)
CreateEnv(l) ==
  /\ users = 0
  /\ created < MaxEnvs
  /\ created' = created + 1
  /\ env' = created + 1
  /\ liveEnvs' = liveEnvs \cup {created + 1}
  /\ Goto(l, "env", "count")
  /\ UNCHANGED <<ort, users, sessionEnv, leaked, turn>>

(* Nothing was counted yet: create frees its record and returns.            *)
CreateEnvFails(l) ==
  /\ users = 0
  /\ Return(l, "env", "idle")
  /\ UNCHANGED <<shared, sessionEnv, leaked>>

ShareEnvUncounted(l) ==   \* fault: joins the environment without counting
  /\ users # 0
  /\ Goto(l, "env", "open")
  /\ UNCHANGED <<shared, sessionEnv, leaked, turn>>

ShareEnv(l) ==
  /\ users # 0
  /\ Goto(l, "env", "count")
  /\ UNCHANGED <<shared, sessionEnv, leaked, turn>>

CountUser(l) ==
  /\ users' = users + 1
  /\ Goto(l, "count", "open")
  /\ UNCHANGED <<ort, env, created, liveEnvs, sessionEnv, leaked, turn>>

(* CreateSessionFromArray.                                                  *)
CreateSession(l) ==
  /\ sessionEnv' = [sessionEnv EXCEPT ![l] = env]
  /\ Goto(l, "open", "inspect")
  /\ UNCHANGED <<shared, leaked, turn>>

OpenFailsForgettingUser(l) ==   \* fault: frees the record, destroys nothing
  /\ Return(l, "open", "idle")
  /\ UNCHANGED <<shared, sessionEnv, leaked>>

(* Options, profiling, the model file or the session itself: destroy runs   *)
(* on a record that has no session.                                         *)
OpenFails(l) ==
  /\ Goto(l, "open", "unuse")
  /\ UNCHANGED <<shared, sessionEnv, leaked, turn>>

Inspect(l) ==
  /\ Return(l, "inspect", "ready")
  /\ UNCHANGED <<shared, sessionEnv, leaked>>

InspectFailsKeepingSession(l) ==   \* fault: gives up the user, not the session
  /\ Goto(l, "inspect", "unuse")
  /\ UNCHANGED <<shared, sessionEnv, leaked, turn>>

InspectFailsRetrying(l) ==   \* fault: opens the model again, and again
  /\ sessionEnv' = [sessionEnv EXCEPT ![l] = NoEnv]
  /\ Goto(l, "inspect", "open")
  /\ UNCHANGED <<shared, leaked, turn>>

(* Introspection refuses the model: destroy runs on a complete session.     *)
InspectFails(l) ==
  /\ Goto(l, "inspect", "release")
  /\ UNCHANGED <<shared, sessionEnv, leaked, turn>>

----------------------------------------------------------------------------
(* onnx_runtime_run, as far as the environment is concerned *)

BeginRun(l) ==
  /\ Goto(l, "ready", "running")
  /\ UNCHANGED <<shared, sessionEnv, leaked, turn>>

EndRun(l) ==
  /\ Goto(l, "running", "ready")
  /\ UNCHANGED <<shared, sessionEnv, leaked, turn>>

----------------------------------------------------------------------------
(* onnx_runtime_destroy *)

BeginDestroy(l) ==
  /\ turn = Nobody /\ turn' = l
  /\ Goto(l, "ready", "release")
  /\ UNCHANGED <<shared, sessionEnv, leaked>>

(* ReleaseSession, or with skip on only forgetting the pointer.         *)
ReleaseSession(l) ==
  /\ leaked' = IF skip THEN leaked \cup {sessionEnv[l]} ELSE leaked
  /\ sessionEnv' = [sessionEnv EXCEPT ![l] = NoEnv]
  /\ Goto(l, "release", "unuse")
  /\ UNCHANGED <<shared, turn>>

UncountUserUnguarded(l) ==   \* fault: decrements whatever the count
  /\ users' = users - 1
  /\ IF users = 1 /\ ort /\ env # NoEnv
     THEN Goto(l, "unuse", "free") /\ UNCHANGED turn
     ELSE Return(l, "unuse", "idle")
  /\ UNCHANGED <<ort, env, created, liveEnvs, sessionEnv, leaked>>

UncountUserTestingFirst(l) ==   \* fault: tests the count before it decrements
  /\ users' = IF users > 0 THEN users - 1 ELSE users
  /\ IF users = 0 /\ ort /\ env # NoEnv
     THEN Goto(l, "unuse", "free") /\ UNCHANGED turn
     ELSE Return(l, "unuse", "idle")
  /\ UNCHANGED <<ort, env, created, liveEnvs, sessionEnv, leaked>>

(* ort_env_unuse: a user less, unless there is none.                        *)
UncountUser(l) ==
  /\ users' = IF users > 0 THEN users - 1 ELSE users
  /\ IF users = 1 /\ ort /\ env # NoEnv
     THEN Goto(l, "unuse", "free") /\ UNCHANGED turn
     ELSE Return(l, "unuse", "idle")
  /\ UNCHANGED <<ort, env, created, liveEnvs, sessionEnv, leaked>>

(* The last user releases the environment, or with skip on keeps it for *)
(* the sessions that were abandoned.                                        *)
ReleaseEnv(l) ==
  /\ IF skip
     THEN UNCHANGED <<env, liveEnvs>>
     ELSE env' = NoEnv /\ liveEnvs' = liveEnvs \ {env}
  /\ Return(l, "free", "idle")
  /\ UNCHANGED <<ort, users, created, sessionEnv, leaked>>

----------------------------------------------------------------------------
(* onnx_runtime_shutdown, from the terminator of the extension module       *)

Gone == \A l \in Loaders : step[l] = "idle"

Shutdown ==
  /\ turn = Nobody
  /\ orderly' = (orderly /\ Gone)
  /\ liveEnvs' = IF ort /\ ~skip THEN liveEnvs \ {env} ELSE liveEnvs
  /\ env' = IF ort THEN NoEnv ELSE env
  /\ users' = 0
  /\ ort' = FALSE
  /\ UNCHANGED <<created, step, sessionEnv, leaked, turn, skip>>

----------------------------------------------------------------------------
(* skip_session_release asks the environment anew each time, and a script   *)
(* may change it (OS.set_environment), between calls or from another thread *)
(* in the middle of one.                                                   *)
SwitchSkip ==
  /\ skip' \in SkipTo
  /\ UNCHANGED <<shared, step, sessionEnv, leaked, turn, orderly>>

----------------------------------------------------------------------------
(* The steps of a call that has begun: straight-line code.                  *)
Continue(l) ==
  \/ LoadApi(l) \/ LoadApiFails(l)
  \/ CreateEnv(l) \/ CreateEnvFails(l) \/ ShareEnv(l) \/ CountUser(l)
  \/ CreateSession(l) \/ OpenFails(l)
  \/ Inspect(l) \/ InspectFails(l)
  \/ ReleaseSession(l) \/ UncountUser(l) \/ ReleaseEnv(l)
  \/ EndRun(l)

Next ==
  \/ \E l \in Loaders : BeginCreate(l) \/ BeginRun(l) \/ BeginDestroy(l) \/ Continue(l)
  \/ Shutdown
  \/ SwitchSkip

(* A call that has begun goes on; the application need not begin one.       *)
Fairness == \A l \in Loaders : WF_vars(Continue(l))

Spec == Init /\ [][Next]_vars /\ Fairness

----------------------------------------------------------------------------
(* Properties *)

Steps == {"idle", "api", "env", "count", "open", "inspect", "ready", "running",
          "release", "unuse", "free"}

(* Every variable keeps its type; in particular the count of users never     *)
(* goes below zero, even when the module is terminated under live sessions. *)
TypeOK ==
  /\ ort \in BOOLEAN
  /\ env \in Nat /\ users \in Nat /\ created \in Nat
  /\ liveEnvs \subseteq 1..created /\ leaked \subseteq 1..created
  /\ step \in [Loaders -> Steps]
  /\ sessionEnv \in [Loaders -> 0..created]
  /\ turn \in Loaders \cup {Nobody}
  /\ skip \in BOOLEAN /\ orderly \in BOOLEAN

(* The environments some session, running, ready, half built or abandoned,  *)
(* still points into.                                                       *)
NeededEnvs == ({sessionEnv[l] : l \in Loaders} \cup leaked) \ {NoEnv}

(* No session outlives its environment (the comment in ort_env_unuse).      *)
EnvOutlivesSessions == NeededEnvs \subseteq liveEnvs

(* It does not, as long as the module is terminated last: through failures  *)
(* of create, abandoned sessions and terminations with nobody there.        *)
SessionsHaveEnv == orderly => EnvOutlivesSessions

(* The loaders that have counted themselves and not yet uncounted.          *)
CountedSteps == {"open", "inspect", "ready", "running", "release", "unuse"}
Counted == {l \in Loaders : step[l] \in CountedSteps}

(* g_env_users counts exactly the records that will decrement it once more, *)
(* through every failure path of create.                                    *)
UsersExact == orderly => users = Cardinality(Counted)

(* When the module may be terminated under live sessions the count may fall *)
(* short, and the environment be released too early, but it never counts    *)
(* anyone who is not there: no environment waits for a user that is gone.   *)
UsersNeverOver == users <= Cardinality(Counted)

(* Every environment is released: at most one is alive, and none once the   *)
(* last loader is gone, unless sessions were abandoned on purpose.          *)
NoEnvLeaked ==
  ~skip =>
    /\ liveEnvs = {env} \ {NoEnv}
    /\ Gone => liveEnvs = {}

(* Nobody runs a model inside an environment whose release another loader   *)
(* has decided: when the count reaches zero no other session is left.       *)
FreeMeansUnused ==
  orderly =>
    \A l \in Loaders : step[l] = "free" =>
      \A m \in Loaders : sessionEnv[m] = NoEnv

(* A destroy or a create that began comes to its end, whatever fails.       *)
CallsReturn == \A l \in Loaders : turn = l ~> turn # l
=============================================================================

---------------------------- MODULE SharedEnvProofs ----------------------------
(***************************************************************************)
(* Proofs about SharedEnv, for any number of loaders.                      *)
(***************************************************************************)
EXTENDS SharedEnv, FiniteSetTheorems, TLAPS

(* Creation and destruction are serialized: only the loader that has the   *)
(* turn is between two steps of a call.                                    *)
TurnExclusive ==
  \A l \in Loaders :
    step[l] \notin {"idle", "ready", "running"} => turn = l

(* Which steps have a session, and that it belongs to the environment of   *)
(* the moment.                                                             *)
SessionPlaces ==
  \A l \in Loaders :
    IF step[l] \in {"inspect", "ready", "running", "release"}
    THEN sessionEnv[l] = env
    ELSE sessionEnv[l] = NoEnv

(* While somebody is counted, or about to be, there is an environment; and *)
(* once the count has dropped to zero there is only the one to be freed.   *)
EnvPlaces ==
  /\ \A l \in Loaders : step[l] \in {"count", "free"} => env # NoEnv
  /\ \A l \in Loaders : step[l] = "free" => users = 0
  /\ \A l \in Loaders : step[l] = "env" => ort
  /\ users > 0 => env # NoEnv
  /\ env # NoEnv => ort /\ env \in liveEnvs
  /\ users = 0 /\ ~skip =>
        env = NoEnv \/ \E l \in Loaders : step[l] \in {"count", "free"}
  /\ env \in 0..created

OnlyEnv == ~skip => liveEnvs = {env} \ {NoEnv}
LeakedEnvs == IF skip THEN leaked \subseteq liveEnvs ELSE leaked = {}

Inner == TypeOK /\ TurnExclusive /\ SessionPlaces /\ EnvPlaces /\ OnlyEnv /\ LeakedEnvs

Exact == users = Cardinality(Counted)

IInv == Inner /\ Exact

----------------------------------------------------------------------------
(* A step of one loader moves that loader only, and adds it to or removes  *)
(* it from the counted ones according to where it arrives.                 *)
LEMMA GotoMoves ==
  ASSUME TypeOK, NEW l \in Loaders, NEW from \in Steps, NEW to \in Steps,
         Goto(l, from, to)
  PROVE  /\ step' \in [Loaders -> Steps]
         /\ step[l] = from /\ step'[l] = to
         /\ \A m \in Loaders \ {l} : step'[m] = step[m]
         /\ Counted' = IF to \in CountedSteps THEN Counted \cup {l} ELSE Counted \ {l}
  BY DEF TypeOK, Goto, Counted

(* The set of counted loaders is finite, so the lemmas on cardinality      *)
(* apply to it.                                                            *)
LEMMA CountedFinite ==
  /\ IsFiniteSet(Counted)
  /\ Cardinality(Counted) \in Nat
  /\ Cardinality(Counted) = 0 <=> Counted = {}
  <1>1. Counted \in SUBSET Loaders
    BY DEF Counted
  <1>2. IsFiniteSet(Counted)
    BY <1>1, FS_Subset, SharedEnvAssumption
  <1> QED
    BY <1>2, FS_CardinalityType, FS_EmptySet

(* A step between two places that count alike leaves the count alone.      *)
LEMMA SameCount ==
  ASSUME IInv, NEW l \in Loaders, NEW from \in Steps, NEW to \in Steps,
         Goto(l, from, to), from \in CountedSteps <=> to \in CountedSteps,
         users' = users
  PROVE  Exact'
  <1>1. Counted' = Counted
    BY GotoMoves DEF IInv, Inner, Counted
  <1> QED
    BY <1>1 DEF IInv, Exact

LEMMA OneMore ==
  ASSUME IInv, NEW l \in Loaders, Goto(l, "count", "open"), users' = users + 1
  PROVE  Exact'
  <1>1. "count" \in Steps /\ "open" \in Steps /\ "open" \in CountedSteps
        /\ "count" \notin CountedSteps
    BY DEF Steps, CountedSteps
  <1>2. Counted' = Counted \cup {l} /\ l \notin Counted
    BY <1>1, GotoMoves DEF IInv, Inner, Counted
  <1>3. Cardinality(Counted \cup {l}) = Cardinality(Counted) + 1
    BY <1>2, CountedFinite, FS_AddElement
  <1> QED
    BY <1>2, <1>3 DEF IInv, Exact

LEMMA OneLess ==
  ASSUME IInv, NEW l \in Loaders, NEW to \in Steps, to \notin CountedSteps,
         Goto(l, "unuse", to)
  PROVE  users > 0 /\ (users' = users - 1 => Exact')
  <1>1. "unuse" \in Steps /\ "unuse" \in CountedSteps
    BY DEF Steps, CountedSteps
  <1>2. Counted' = Counted \ {l} /\ l \in Counted
    BY <1>1, GotoMoves DEF IInv, Inner, Counted
  <1>3. Cardinality(Counted \ {l}) = Cardinality(Counted) - 1
    BY <1>2, CountedFinite, FS_RemoveElement
  <1>4. users > 0
    BY <1>2, CountedFinite DEF IInv, Exact
  <1> QED
    BY <1>2, <1>3, <1>4 DEF IInv, Exact

----------------------------------------------------------------------------
(* When nobody is counted no loader has a session.                         *)
LEMMA NoUsersNoSessions ==
  ASSUME IInv, users = 0
  PROVE  \A l \in Loaders : step[l] \notin CountedSteps /\ sessionEnv[l] = NoEnv
  <1>1. Counted = {}
    BY CountedFinite DEF IInv, Exact
  <1> QED
    BY <1>1 DEF IInv, Inner, SessionPlaces, Counted, CountedSteps

(* The strengthened invariant is inductive, one action at a time: the      *)
(* bookkeeping first, then the count.                                      *)
LEMMA StepKeepsIInv ==
  ASSUME IInv, orderly', FALSE \notin SkipTo, [Next]_vars
  PROVE  IInv'
  <1>1. ASSUME NEW l \in Loaders, BeginCreate(l)
        PROVE  IInv'
    <2>1. Inner'
      BY <1>1, SharedEnvAssumption
         DEF IInv, Inner, TypeOK, TurnExclusive, SessionPlaces, EnvPlaces, OnlyEnv, LeakedEnvs,
             Goto, Return, Steps, shared, NoEnv, BeginCreate
    <2>2. Exact'
      BY <1>1, SameCount DEF BeginCreate, Return, shared, Steps, CountedSteps
    <2> QED
      BY <2>1, <2>2 DEF IInv
  <1>2. ASSUME NEW l \in Loaders, LoadApi(l)
        PROVE  IInv'
    <2>1. Inner'
      BY <1>2, SharedEnvAssumption
         DEF IInv, Inner, TypeOK, TurnExclusive, SessionPlaces, EnvPlaces, OnlyEnv, LeakedEnvs,
             Goto, Return, Steps, shared, NoEnv, LoadApi
    <2>2. Exact'
      BY <1>2, SameCount DEF LoadApi, Return, shared, Steps, CountedSteps
    <2> QED
      BY <2>1, <2>2 DEF IInv
  <1>3. ASSUME NEW l \in Loaders, LoadApiFails(l)
        PROVE  IInv'
    <2>1. Inner'
      BY <1>3, SharedEnvAssumption
         DEF IInv, Inner, TypeOK, TurnExclusive, SessionPlaces, EnvPlaces, OnlyEnv, LeakedEnvs,
             Goto, Return, Steps, shared, NoEnv, LoadApiFails
    <2>2. Exact'
      BY <1>3, SameCount DEF LoadApiFails, Return, shared, Steps, CountedSteps
    <2> QED
      BY <2>1, <2>2 DEF IInv
  <1>4. ASSUME NEW l \in Loaders, CreateEnv(l)
        PROVE  IInv'
    <2>1. Inner'
      <3>1. \A m \in Loaders : step[m] \notin CountedSteps /\ sessionEnv[m] = NoEnv
        BY <1>4, NoUsersNoSessions DEF CreateEnv
      <3>2. ~skip => env = NoEnv
        BY <1>4 DEF IInv, Inner, TurnExclusive, EnvPlaces, CreateEnv, Goto
      <3>3. TypeOK'
        BY <1>4, <3>1, <3>2, SharedEnvAssumption DEF IInv, Inner, TypeOK, NoEnv, Steps, Goto, Return, shared, CreateEnv, CountedSteps
      <3>4. TurnExclusive'
        BY <1>4, <3>1, <3>2, SharedEnvAssumption DEF IInv, Inner, TypeOK, TurnExclusive, Goto, Return, CreateEnv, CountedSteps
      <3>5. SessionPlaces'
        BY <1>4, <3>1, <3>2, SharedEnvAssumption DEF IInv, Inner, TypeOK, SessionPlaces, Goto, Return, shared, NoEnv, CreateEnv, CountedSteps
      <3>6. EnvPlaces'
        BY <1>4, <3>1, <3>2, SharedEnvAssumption DEF IInv, Inner, TypeOK, TurnExclusive, EnvPlaces, Goto, Return, NoEnv, shared, CreateEnv, CountedSteps
      <3>7. OnlyEnv'
        BY <1>4, <3>1, <3>2, SharedEnvAssumption DEF IInv, Inner, TypeOK, OnlyEnv, EnvPlaces, NoEnv, Goto, Return, shared, CreateEnv, CountedSteps
      <3>8. LeakedEnvs'
        BY <1>4, <3>1, <3>2, SharedEnvAssumption DEF IInv, Inner, TypeOK, LeakedEnvs, Goto, Return, shared, CreateEnv, CountedSteps
      <3> QED
        BY <3>3, <3>4, <3>5, <3>6, <3>7, <3>8 DEF Inner
    <2>2. Exact'
      BY <1>4, SameCount DEF CreateEnv, Return, shared, Steps, CountedSteps
    <2> QED
      BY <2>1, <2>2 DEF IInv
  <1>5. ASSUME NEW l \in Loaders, CreateEnvFails(l)
        PROVE  IInv'
    <2>1. Inner'
      BY <1>5, SharedEnvAssumption
         DEF IInv, Inner, TypeOK, TurnExclusive, SessionPlaces, EnvPlaces, OnlyEnv, LeakedEnvs,
             Goto, Return, Steps, shared, NoEnv, CreateEnvFails
    <2>2. Exact'
      BY <1>5, SameCount DEF CreateEnvFails, Return, shared, Steps, CountedSteps
    <2> QED
      BY <2>1, <2>2 DEF IInv
  <1>6. ASSUME NEW l \in Loaders, ShareEnv(l)
        PROVE  IInv'
    <2>1. Inner'
      BY <1>6, SharedEnvAssumption
         DEF IInv, Inner, TypeOK, TurnExclusive, SessionPlaces, EnvPlaces, OnlyEnv, LeakedEnvs,
             Goto, Return, Steps, shared, NoEnv, ShareEnv
    <2>2. Exact'
      BY <1>6, SameCount DEF ShareEnv, Return, shared, Steps, CountedSteps
    <2> QED
      BY <2>1, <2>2 DEF IInv
  <1>7. ASSUME NEW l \in Loaders, CountUser(l)
        PROVE  IInv'
    <2>1. Inner'
      BY <1>7, SharedEnvAssumption
         DEF IInv, Inner, TypeOK, TurnExclusive, SessionPlaces, EnvPlaces, OnlyEnv, LeakedEnvs,
             Goto, Return, Steps, shared, NoEnv, CountUser
    <2>2. Exact'
      BY <1>7, OneMore DEF CountUser, Return, shared, Steps, CountedSteps
    <2> QED
      BY <2>1, <2>2 DEF IInv
  <1>8. ASSUME NEW l \in Loaders, CreateSession(l)
        PROVE  IInv'
    <2>1. Inner'
      BY <1>8, SharedEnvAssumption
         DEF IInv, Inner, TypeOK, TurnExclusive, SessionPlaces, EnvPlaces, OnlyEnv, LeakedEnvs,
             Goto, Return, Steps, shared, NoEnv, CreateSession
    <2>2. Exact'
      BY <1>8, SameCount DEF CreateSession, Return, shared, Steps, CountedSteps
    <2> QED
      BY <2>1, <2>2 DEF IInv
  <1>9. ASSUME NEW l \in Loaders, OpenFails(l)
        PROVE  IInv'
    <2>1. Inner'
      BY <1>9, SharedEnvAssumption
         DEF IInv, Inner, TypeOK, TurnExclusive, SessionPlaces, EnvPlaces, OnlyEnv, LeakedEnvs,
             Goto, Return, Steps, shared, NoEnv, OpenFails
    <2>2. Exact'
      BY <1>9, SameCount DEF OpenFails, Return, shared, Steps, CountedSteps
    <2> QED
      BY <2>1, <2>2 DEF IInv
  <1>10. ASSUME NEW l \in Loaders, Inspect(l)
        PROVE  IInv'
    <2>1. Inner'
      BY <1>10, SharedEnvAssumption
         DEF IInv, Inner, TypeOK, TurnExclusive, SessionPlaces, EnvPlaces, OnlyEnv, LeakedEnvs,
             Goto, Return, Steps, shared, NoEnv, Inspect
    <2>2. Exact'
      BY <1>10, SameCount DEF Inspect, Return, shared, Steps, CountedSteps
    <2> QED
      BY <2>1, <2>2 DEF IInv
  <1>11. ASSUME NEW l \in Loaders, InspectFails(l)
        PROVE  IInv'
    <2>1. Inner'
      BY <1>11, SharedEnvAssumption
         DEF IInv, Inner, TypeOK, TurnExclusive, SessionPlaces, EnvPlaces, OnlyEnv, LeakedEnvs,
             Goto, Return, Steps, shared, NoEnv, InspectFails
    <2>2. Exact'
      BY <1>11, SameCount DEF InspectFails, Return, shared, Steps, CountedSteps
    <2> QED
      BY <2>1, <2>2 DEF IInv
  <1>12. ASSUME NEW l \in Loaders, BeginRun(l)
        PROVE  IInv'
    <2>1. Inner'
      BY <1>12, SharedEnvAssumption
         DEF IInv, Inner, TypeOK, TurnExclusive, SessionPlaces, EnvPlaces, OnlyEnv, LeakedEnvs,
             Goto, Return, Steps, shared, NoEnv, BeginRun
    <2>2. Exact'
      BY <1>12, SameCount DEF BeginRun, Return, shared, Steps, CountedSteps
    <2> QED
      BY <2>1, <2>2 DEF IInv
  <1>13. ASSUME NEW l \in Loaders, EndRun(l)
        PROVE  IInv'
    <2>1. Inner'
      BY <1>13, SharedEnvAssumption
         DEF IInv, Inner, TypeOK, TurnExclusive, SessionPlaces, EnvPlaces, OnlyEnv, LeakedEnvs,
             Goto, Return, Steps, shared, NoEnv, EndRun
    <2>2. Exact'
      BY <1>13, SameCount DEF EndRun, Return, shared, Steps, CountedSteps
    <2> QED
      BY <2>1, <2>2 DEF IInv
  <1>14. ASSUME NEW l \in Loaders, BeginDestroy(l)
        PROVE  IInv'
    <2>1. Inner'
      BY <1>14, SharedEnvAssumption
         DEF IInv, Inner, TypeOK, TurnExclusive, SessionPlaces, EnvPlaces, OnlyEnv, LeakedEnvs,
             Goto, Return, Steps, shared, NoEnv, BeginDestroy
    <2>2. Exact'
      BY <1>14, SameCount DEF BeginDestroy, Return, shared, Steps, CountedSteps
    <2> QED
      BY <2>1, <2>2 DEF IInv
  <1>15. ASSUME NEW l \in Loaders, ReleaseSession(l)
        PROVE  IInv'
    <2>1. Inner'
      <3>1. users > 0
        <4>1. l \in Counted
          BY <1>15 DEF ReleaseSession, Goto, Counted, CountedSteps
        <4> QED
          BY <4>1, CountedFinite DEF IInv, Exact
      <3>2. sessionEnv[l] = env /\ env # NoEnv /\ env \in liveEnvs
        BY <1>15, <3>1 DEF IInv, Inner, SessionPlaces, EnvPlaces, ReleaseSession, Goto
      <3>3. TypeOK'
        BY <1>15, <3>1, <3>2, SharedEnvAssumption DEF IInv, Inner, TypeOK, NoEnv, Steps, Goto, Return, shared, ReleaseSession
      <3>4. TurnExclusive'
        BY <1>15, <3>1, <3>2, SharedEnvAssumption DEF IInv, Inner, TypeOK, TurnExclusive, Goto, Return, ReleaseSession
      <3>5. SessionPlaces'
        BY <1>15, <3>1, <3>2, SharedEnvAssumption DEF IInv, Inner, TypeOK, SessionPlaces, Goto, Return, shared, NoEnv, ReleaseSession
      <3>6. EnvPlaces'
        BY <1>15, <3>1, <3>2, SharedEnvAssumption DEF IInv, Inner, TypeOK, TurnExclusive, EnvPlaces, Goto, Return, NoEnv, shared, ReleaseSession
      <3>7. OnlyEnv'
        BY <1>15, <3>1, <3>2, SharedEnvAssumption DEF IInv, Inner, TypeOK, OnlyEnv, EnvPlaces, NoEnv, Goto, Return, shared, ReleaseSession
      <3>8. LeakedEnvs'
        BY <1>15, <3>1, <3>2, SharedEnvAssumption DEF IInv, Inner, TypeOK, LeakedEnvs, Goto, Return, shared, ReleaseSession
      <3> QED
        BY <3>3, <3>4, <3>5, <3>6, <3>7, <3>8 DEF Inner
    <2>2. Exact'
      BY <1>15, SameCount DEF ReleaseSession, Return, shared, Steps, CountedSteps
    <2> QED
      BY <2>1, <2>2 DEF IInv
  <1>16. ASSUME NEW l \in Loaders, ReleaseEnv(l)
        PROVE  IInv'
    <2>1. Inner'
      <3>1. users = 0 /\ env # NoEnv /\ step[l] = "free" /\ ort
        BY <1>16 DEF IInv, Inner, EnvPlaces, ReleaseEnv, Return, Goto
      <3>2. \A m \in Loaders : step[m] \notin CountedSteps /\ sessionEnv[m] = NoEnv
        BY <3>1, NoUsersNoSessions
      <3>3. TypeOK'
        BY <1>16, <3>1, <3>2, SharedEnvAssumption DEF IInv, Inner, TypeOK, NoEnv, Steps, Goto, Return, shared, ReleaseEnv, CountedSteps
      <3>4. TurnExclusive'
        BY <1>16, <3>1, <3>2, SharedEnvAssumption DEF IInv, Inner, TypeOK, TurnExclusive, Goto, Return, ReleaseEnv, CountedSteps
      <3>5. SessionPlaces'
        BY <1>16, <3>1, <3>2, SharedEnvAssumption DEF IInv, Inner, TypeOK, SessionPlaces, Goto, Return, shared, NoEnv, ReleaseEnv, CountedSteps
      <3>6. EnvPlaces'
        BY <1>16, <3>1, <3>2, SharedEnvAssumption DEF IInv, Inner, TypeOK, TurnExclusive, EnvPlaces, Goto, Return, NoEnv, shared, ReleaseEnv, CountedSteps
      <3>7. OnlyEnv'
        BY <1>16, <3>1, <3>2, SharedEnvAssumption DEF IInv, Inner, TypeOK, OnlyEnv, EnvPlaces, NoEnv, Goto, Return, shared, ReleaseEnv, CountedSteps
      <3>8. LeakedEnvs'
        BY <1>16, <3>1, <3>2, SharedEnvAssumption DEF IInv, Inner, TypeOK, LeakedEnvs, Goto, Return, shared, ReleaseEnv, CountedSteps
      <3> QED
        BY <3>3, <3>4, <3>5, <3>6, <3>7, <3>8 DEF Inner
    <2>2. Exact'
      BY <1>16, SameCount DEF ReleaseEnv, Return, shared, Steps, CountedSteps
    <2> QED
      BY <2>1, <2>2 DEF IInv
  <1>17. ASSUME NEW l \in Loaders, UncountUser(l)
        PROVE  IInv'
    <2>1. users > 0 /\ users' = users - 1 /\ Exact'
      BY <1>17, OneLess DEF UncountUser, Return, Steps, CountedSteps
    <2>2. Inner'
      <3>0. /\ TypeOK /\ TurnExclusive /\ EnvPlaces
            /\ users \in Nat /\ users > 0 /\ ort /\ env # NoEnv
            /\ users' \in Nat
        BY <2>1 DEF IInv, Inner, TypeOK, EnvPlaces
      <3>1. TypeOK'
        <4>1. step' \in [Loaders -> Steps] /\ turn' \in Loaders \cup {Nobody}
              /\ skip' = skip /\ orderly' = orderly
          BY <1>17, <3>0 DEF TypeOK, Goto, Return, Steps, UncountUser
        <4> QED
          BY <1>17, <3>0, <4>1 DEF TypeOK, UncountUser
      <3>2. TurnExclusive'
        BY <1>17, <2>1, SharedEnvAssumption
           DEF IInv, Inner, TypeOK, TurnExclusive, Goto, Return, UncountUser
      <3>3. SessionPlaces'
        BY <1>17, <2>1, SharedEnvAssumption
           DEF IInv, Inner, TypeOK, SessionPlaces, Goto, Return, NoEnv, UncountUser
      <3>4. EnvPlaces'
        <4>1. CASE users = 1
          <5>1. users' = 0 /\ step' = [step EXCEPT ![l] = "free"] /\ step'[l] = "free"
            BY <1>17, <2>1, <3>0, <4>1 DEF UncountUser, Goto, TypeOK
          <5> QED
            BY <1>17, <3>0, <5>1 DEF EnvPlaces, TypeOK, UncountUser
        <4>2. CASE users # 1
          <5>1. users' > 0 /\ step' = [step EXCEPT ![l] = "idle"]
            BY <1>17, <2>1, <3>0, <4>2 DEF UncountUser, Return, Goto
          <5> QED
            BY <1>17, <3>0, <5>1 DEF EnvPlaces, TypeOK, UncountUser
        <4> QED
          BY <4>1, <4>2
      <3>5. OnlyEnv' /\ LeakedEnvs'
        BY <1>17, <2>1, SharedEnvAssumption
           DEF IInv, Inner, TypeOK, OnlyEnv, LeakedEnvs, Goto, Return, NoEnv, UncountUser
      <3> QED
        BY <3>1, <3>2, <3>3, <3>4, <3>5 DEF Inner
    <2> QED
      BY <2>1, <2>2 DEF IInv
  <1>18. CASE Shutdown
    <2>1. Gone /\ Counted = {} /\ users = 0
      <3>1. Gone
        BY <1>18 DEF Shutdown
      <3>2. Counted = {}
        BY <3>1 DEF Gone, Counted, CountedSteps
      <3> QED
        BY <3>1, <3>2, CountedFinite DEF IInv, Exact
    <2>2. Exact'
      BY <1>18, <2>1 DEF Shutdown, Exact, Counted, IInv
    <2>3. Inner'
      <3>1. TypeOK'
        BY <1>18, <2>1, SharedEnvAssumption DEF IInv, Inner, TypeOK, NoEnv, Steps, Goto, Return, shared, Gone, Shutdown
      <3>2. TurnExclusive'
        BY <1>18, <2>1, SharedEnvAssumption DEF IInv, Inner, TypeOK, TurnExclusive, Goto, Return, Gone, Shutdown
      <3>3. SessionPlaces'
        BY <1>18, <2>1, SharedEnvAssumption DEF IInv, Inner, TypeOK, SessionPlaces, Goto, Return, shared, NoEnv, Gone, Shutdown
      <3>4. EnvPlaces'
        BY <1>18, <2>1, SharedEnvAssumption DEF IInv, Inner, TypeOK, TurnExclusive, EnvPlaces, Goto, Return, NoEnv, shared, Gone, Shutdown
      <3>5. OnlyEnv'
        BY <1>18, <2>1, SharedEnvAssumption DEF IInv, Inner, TypeOK, OnlyEnv, EnvPlaces, NoEnv, Goto, Return, shared, Gone, Shutdown
      <3>6. LeakedEnvs'
        BY <1>18, <2>1, SharedEnvAssumption DEF IInv, Inner, TypeOK, LeakedEnvs, Goto, Return, shared, Gone, Shutdown
      <3> QED
        BY <3>1, <3>2, <3>3, <3>4, <3>5, <3>6 DEF Inner
    <2> QED
      BY <2>2, <2>3 DEF IInv
  <1>18a. CASE SwitchSkip
    <2>1. skip' = TRUE
      BY <1>18a, SharedEnvAssumption DEF SwitchSkip
    <2>2. Inner'
      BY <1>18a, <2>1 DEF IInv, Inner, TypeOK, TurnExclusive, SessionPlaces, EnvPlaces, OnlyEnv,
        LeakedEnvs, SwitchSkip, shared
    <2>3. Exact'
      BY <1>18a DEF IInv, Exact, Counted, SwitchSkip, shared
    <2> QED
      BY <2>2, <2>3 DEF IInv
  <1>19. CASE UNCHANGED vars
    BY <1>19 DEF IInv, Inner, TypeOK, TurnExclusive, SessionPlaces, EnvPlaces, OnlyEnv, LeakedEnvs,
             Goto, Return, Steps, shared, NoEnv,
       vars, Exact, Counted
  <1> QED
    BY <1>1, <1>2, <1>3, <1>4, <1>5, <1>6, <1>7, <1>8, <1>9, <1>10, <1>11, <1>12, <1>13, <1>14, <1>15, <1>16, <1>17, <1>18, <1>18a, <1>19 DEF Next, Continue

LEMMA InitIInv == Init => IInv
  <1> SUFFICES ASSUME Init PROVE IInv
    OBVIOUS
  <1>1. Inner
    <2>1. TypeOK
      <3>1. step \in [Loaders -> Steps]
        BY DEF Init, Steps
      <3>2. sessionEnv \in [Loaders -> 0..created]
        BY DEF Init, NoEnv
      <3>3. liveEnvs \subseteq 1..created /\ leaked \subseteq 1..created
        BY DEF Init
      <3>4. ort \in BOOLEAN /\ env \in Nat /\ users \in Nat /\ created \in Nat
        BY DEF Init, NoEnv
      <3> QED
        BY <3>1, <3>2, <3>3, <3>4, SharedEnvAssumption DEF Init, TypeOK
    <2>2. TurnExclusive /\ SessionPlaces
      BY DEF Init, TurnExclusive, SessionPlaces
    <2>3. EnvPlaces /\ OnlyEnv /\ LeakedEnvs
      BY DEF Init, EnvPlaces, OnlyEnv, LeakedEnvs, NoEnv
    <2> QED
      BY <2>1, <2>2, <2>3 DEF Inner
  <1>2. Counted = {}
    BY DEF Init, Counted, CountedSteps
  <1>3. Exact
    BY <1>2, FS_EmptySet DEF Init, Exact
  <1> QED
    BY <1>1, <1>3 DEF IInv

----------------------------------------------------------------------------
(* What the invariant gives: when the module is terminated only after its  *)
(* loaders, no session outlives its environment, whether or not sessions   *)
(* are abandoned.                                                          *)
LEMMA IInvEnvOutlivesSessions == IInv => EnvOutlivesSessions
  <1> SUFFICES ASSUME IInv PROVE EnvOutlivesSessions
    OBVIOUS
  <1>1. ASSUME NEW l \in Loaders, sessionEnv[l] # NoEnv
        PROVE  sessionEnv[l] \in liveEnvs
    <2>1. sessionEnv[l] = env
      BY <1>1 DEF IInv, Inner, SessionPlaces
    <2> QED
      BY <1>1, <2>1 DEF IInv, Inner, EnvPlaces
  <1>2. leaked \subseteq liveEnvs
    BY DEF IInv, Inner, LeakedEnvs
  <1> QED
    BY <1>1, <1>2 DEF EnvOutlivesSessions, NeededEnvs

LEMMA IInvFreeMeansUnused == IInv => FreeMeansUnused
  BY NoUsersNoSessions DEF IInv, Inner, EnvPlaces, FreeMeansUnused

(* Once the module was terminated under a live loader, it was.              *)
LEMMA StaysDisorderly == [Next]_vars /\ orderly' => orderly
  <1> SUFFICES ASSUME [Next]_vars, orderly' PROVE orderly
    OBVIOUS
  <1> USE DEF Goto, Return
  <1>1. ASSUME NEW l \in Loaders, BeginCreate(l) \/ BeginRun(l) \/ BeginDestroy(l)
        PROVE  orderly
    BY <1>1 DEF BeginCreate, BeginRun, BeginDestroy
  <1>2. ASSUME NEW l \in Loaders, LoadApi(l) \/ LoadApiFails(l) \/ CreateEnv(l)
                 \/ CreateEnvFails(l) \/ ShareEnv(l) \/ CountUser(l)
        PROVE  orderly
    BY <1>2 DEF LoadApi, LoadApiFails, CreateEnv, CreateEnvFails, ShareEnv, CountUser
  <1>3. ASSUME NEW l \in Loaders, CreateSession(l) \/ OpenFails(l) \/ Inspect(l)
                 \/ InspectFails(l) \/ EndRun(l)
        PROVE  orderly
    BY <1>3 DEF CreateSession, OpenFails, Inspect, InspectFails, EndRun
  <1>4. ASSUME NEW l \in Loaders, ReleaseSession(l) \/ UncountUser(l) \/ ReleaseEnv(l)
        PROVE  orderly
    BY <1>4 DEF ReleaseSession, UncountUser, ReleaseEnv
  <1>5. CASE Shutdown \/ SwitchSkip \/ UNCHANGED vars
    BY <1>5 DEF Shutdown, SwitchSkip, vars
  <1> QED
    BY <1>1, <1>2, <1>3, <1>4, <1>5 DEF Next, Continue

(* The inductive invariant holds for as long as the module is terminated    *)
(* last.                                                                   *)
THEOREM Invariance == FALSE \notin SkipTo => (Spec => [](orderly => IInv))
  <1> SUFFICES ASSUME FALSE \notin SkipTo PROVE Spec => [](orderly => IInv)
    OBVIOUS
  <1>1. (orderly => IInv) /\ [Next]_vars => (orderly => IInv)'
    BY StepKeepsIInv, StaysDisorderly
  <1>2. Init => (orderly => IInv)
    BY InitIInv
  <1> QED
    BY <1>1, <1>2, PTL DEF Spec

(* No session outlives its environment.                                    *)
THEOREM SessionsAlwaysHaveEnv == FALSE \notin SkipTo => (Spec => []SessionsHaveEnv)
  <1> SUFFICES ASSUME FALSE \notin SkipTo PROVE Spec => []SessionsHaveEnv
    OBVIOUS
  <1>1. (orderly => IInv) => SessionsHaveEnv
    BY IInvEnvOutlivesSessions DEF SessionsHaveEnv
  <1> QED
    BY Invariance, <1>1, PTL

(* The user count is exact through every failure path of create.           *)
THEOREM UsersAlwaysExact == FALSE \notin SkipTo => (Spec => []UsersExact)
  <1> SUFFICES ASSUME FALSE \notin SkipTo PROVE Spec => []UsersExact
    OBVIOUS
  <1>1. (orderly => IInv) => UsersExact
    BY DEF IInv, Exact, UsersExact
  <1> QED
    BY Invariance, <1>1, PTL

(* The environment is freed only when no session is left in it.            *)
THEOREM FreedOnlyUnused == FALSE \notin SkipTo => (Spec => []FreeMeansUnused)
  <1> SUFFICES ASSUME FALSE \notin SkipTo PROVE Spec => []FreeMeansUnused
    OBVIOUS
  <1>1. (orderly => IInv) => FreeMeansUnused
    BY IInvFreeMeansUnused DEF FreeMeansUnused
  <1> QED
    BY Invariance, <1>1, PTL

----------------------------------------------------------------------------
(* What survives a termination of the module under live sessions: not the   *)
(* exactness of the count, but its sign and the shape of every variable.    *)
HaveEnv ==
  /\ env \in 0..created
  /\ users # 0 => env # NoEnv
  /\ \A l \in Loaders :
       /\ step[l] \in {"count", "open"} => env # NoEnv
       /\ step[l] \in {"inspect", "ready", "running", "release"} => sessionEnv[l] # NoEnv
       /\ step[l] = "free" => users = 0

Anytime == TypeOK /\ TurnExclusive /\ HaveEnv

LEMMA StepKeepsAnytime ==
  ASSUME Anytime, [Next]_vars
  PROVE  Anytime'
  <1>1. ASSUME NEW l \in Loaders, BeginCreate(l) PROVE Anytime'
    BY <1>1, SharedEnvAssumption
       DEF Anytime, TypeOK, TurnExclusive, HaveEnv, Goto, Return, Steps, shared, NoEnv, BeginCreate
  <1>2. ASSUME NEW l \in Loaders, LoadApi(l) PROVE Anytime'
    BY <1>2, SharedEnvAssumption
       DEF Anytime, TypeOK, TurnExclusive, HaveEnv, Goto, Return, Steps, shared, NoEnv, LoadApi
  <1>3. ASSUME NEW l \in Loaders, LoadApiFails(l) PROVE Anytime'
    BY <1>3, SharedEnvAssumption
       DEF Anytime, TypeOK, TurnExclusive, HaveEnv, Goto, Return, Steps, shared, NoEnv, LoadApiFails
  <1>4. ASSUME NEW l \in Loaders, CreateEnv(l) PROVE Anytime'
    BY <1>4, SharedEnvAssumption
       DEF Anytime, TypeOK, TurnExclusive, HaveEnv, Goto, Return, Steps, shared, NoEnv, CreateEnv
  <1>5. ASSUME NEW l \in Loaders, CreateEnvFails(l) PROVE Anytime'
    BY <1>5, SharedEnvAssumption
       DEF Anytime, TypeOK, TurnExclusive, HaveEnv, Goto, Return, Steps, shared, NoEnv, CreateEnvFails
  <1>6. ASSUME NEW l \in Loaders, ShareEnv(l) PROVE Anytime'
    BY <1>6, SharedEnvAssumption
       DEF Anytime, TypeOK, TurnExclusive, HaveEnv, Goto, Return, Steps, shared, NoEnv, ShareEnv
  <1>7. ASSUME NEW l \in Loaders, CountUser(l) PROVE Anytime'
    BY <1>7, SharedEnvAssumption
       DEF Anytime, TypeOK, TurnExclusive, HaveEnv, Goto, Return, Steps, shared, NoEnv, CountUser
  <1>8. ASSUME NEW l \in Loaders, CreateSession(l) PROVE Anytime'
    BY <1>8, SharedEnvAssumption
       DEF Anytime, TypeOK, TurnExclusive, HaveEnv, Goto, Return, Steps, shared, NoEnv, CreateSession
  <1>9. ASSUME NEW l \in Loaders, OpenFails(l) PROVE Anytime'
    BY <1>9, SharedEnvAssumption
       DEF Anytime, TypeOK, TurnExclusive, HaveEnv, Goto, Return, Steps, shared, NoEnv, OpenFails
  <1>10. ASSUME NEW l \in Loaders, Inspect(l) PROVE Anytime'
    BY <1>10, SharedEnvAssumption
       DEF Anytime, TypeOK, TurnExclusive, HaveEnv, Goto, Return, Steps, shared, NoEnv, Inspect
  <1>11. ASSUME NEW l \in Loaders, InspectFails(l) PROVE Anytime'
    BY <1>11, SharedEnvAssumption
       DEF Anytime, TypeOK, TurnExclusive, HaveEnv, Goto, Return, Steps, shared, NoEnv, InspectFails
  <1>12. ASSUME NEW l \in Loaders, BeginRun(l) PROVE Anytime'
    BY <1>12, SharedEnvAssumption
       DEF Anytime, TypeOK, TurnExclusive, HaveEnv, Goto, Return, Steps, shared, NoEnv, BeginRun
  <1>13. ASSUME NEW l \in Loaders, EndRun(l) PROVE Anytime'
    BY <1>13, SharedEnvAssumption
       DEF Anytime, TypeOK, TurnExclusive, HaveEnv, Goto, Return, Steps, shared, NoEnv, EndRun
  <1>14. ASSUME NEW l \in Loaders, BeginDestroy(l) PROVE Anytime'
    BY <1>14, SharedEnvAssumption
       DEF Anytime, TypeOK, TurnExclusive, HaveEnv, Goto, Return, Steps, shared, NoEnv, BeginDestroy
  <1>15. ASSUME NEW l \in Loaders, ReleaseSession(l) PROVE Anytime'
    <2>1. TypeOK'
      <3>1. sessionEnv[l] \in 1..created
        BY <1>15 DEF Anytime, TypeOK, HaveEnv, ReleaseSession, Goto, NoEnv
      <3>2. leaked' \subseteq 1..created
        BY <1>15, <3>1 DEF Anytime, TypeOK, ReleaseSession
      <3>3. sessionEnv' \in [Loaders -> 0..created] /\ step' \in [Loaders -> Steps]
        BY <1>15 DEF Anytime, TypeOK, ReleaseSession, Goto, Steps, NoEnv
      <3> QED
        BY <1>15, <3>2, <3>3 DEF Anytime, TypeOK, ReleaseSession, Goto, shared
    <2>2. TurnExclusive'
      BY <1>15, SharedEnvAssumption DEF Anytime, TypeOK, TurnExclusive, Goto, Return, ReleaseSession
    <2>3. HaveEnv'
      BY <1>15, SharedEnvAssumption
         DEF Anytime, TypeOK, TurnExclusive, HaveEnv, Goto, Return, shared, NoEnv, ReleaseSession
    <2> QED
      BY <2>1, <2>2, <2>3 DEF Anytime
  <1>16. ASSUME NEW l \in Loaders, UncountUser(l) PROVE Anytime'
    BY <1>16, SharedEnvAssumption
       DEF Anytime, TypeOK, TurnExclusive, HaveEnv, Goto, Return, Steps, shared, NoEnv, UncountUser
  <1>17. ASSUME NEW l \in Loaders, ReleaseEnv(l) PROVE Anytime'
    <2>1. TypeOK'
      BY <1>17, SharedEnvAssumption DEF Anytime, TypeOK, HaveEnv, Goto, Return, Steps, shared, NoEnv, ReleaseEnv
    <2>2. TurnExclusive'
      BY <1>17, SharedEnvAssumption DEF Anytime, TypeOK, TurnExclusive, Goto, Return, ReleaseEnv
    <2>3. HaveEnv'
      BY <1>17, SharedEnvAssumption
         DEF Anytime, TypeOK, TurnExclusive, HaveEnv, Goto, Return, shared, NoEnv, ReleaseEnv
    <2> QED
      BY <2>1, <2>2, <2>3 DEF Anytime
  <1>18. CASE Shutdown
    <2>1. TypeOK'
      BY <1>18, SharedEnvAssumption DEF Anytime, TypeOK, HaveEnv, Steps, shared, NoEnv, Shutdown
    <2>2. TurnExclusive'
      BY <1>18, SharedEnvAssumption DEF Anytime, TypeOK, TurnExclusive, Shutdown
    <2>3. HaveEnv'
      BY <1>18, SharedEnvAssumption
         DEF Anytime, TypeOK, TurnExclusive, HaveEnv, shared, NoEnv, Shutdown
    <2> QED
      BY <2>1, <2>2, <2>3 DEF Anytime
  <1>18a. CASE SwitchSkip
    BY <1>18a, SharedEnvAssumption DEF Anytime, TypeOK, TurnExclusive, HaveEnv, SwitchSkip, shared
  <1>19. CASE UNCHANGED vars
    BY <1>19 DEF Anytime, TypeOK, TurnExclusive, HaveEnv, vars
  <1> QED
    BY <1>1, <1>2, <1>3, <1>4, <1>5, <1>6, <1>7, <1>8, <1>9, <1>10, <1>11, <1>12, <1>13, <1>14, <1>15, <1>16, <1>17, <1>18, <1>18a, <1>19 DEF Next, Continue

(* Every variable keeps its type, whenever the module is terminated: a      *)
(* destroy that comes after the shutdown never takes the count below zero.  *)
THEOREM TypesAlwaysOK == Spec => []TypeOK
  <1>1. Init => Anytime
    <2> SUFFICES ASSUME Init PROVE Anytime
      OBVIOUS
    <2>1. TypeOK /\ TurnExclusive
      BY InitIInv DEF IInv, Inner
    <2>2. HaveEnv
      BY DEF Init, HaveEnv, NoEnv
    <2> QED
      BY <2>1, <2>2 DEF Anytime
  <1>2. Anytime => TypeOK
    BY DEF Anytime
  <1> QED
    BY <1>1, <1>2, StepKeepsAnytime, PTL DEF Spec
----------------------------------------------------------------------------
(* Whenever the module is terminated: no user is counted who is not there,  *)
(* and no environment is forgotten.  A termination empties the count and the       *)
(* environment together, so that whoever counts from then on is there.     *)
Kept == EnvPlaces /\ OnlyEnv

IInvAnytime == TypeOK /\ TurnExclusive /\ Kept /\ UsersNeverOver

(* The counted loaders change by at most the one that moves.               *)
LEMMA CountedMoves ==
  ASSUME TypeOK, NEW l \in Loaders, NEW from \in Steps, NEW to \in Steps,
         Goto(l, from, to)
  PROVE  /\ (from \in CountedSteps <=> to \in CountedSteps) => Counted' = Counted
         /\ from \in CountedSteps /\ to \notin CountedSteps =>
              Cardinality(Counted') = Cardinality(Counted) - 1
         /\ from \notin CountedSteps /\ to \in CountedSteps =>
              Cardinality(Counted') = Cardinality(Counted) + 1
  <1>1. Counted' = IF to \in CountedSteps THEN Counted \cup {l} ELSE Counted \ {l}
    BY GotoMoves
  <1>2. l \in Counted <=> from \in CountedSteps
    BY DEF Counted, Goto
  <1>3. l \in Counted => Cardinality(Counted \ {l}) = Cardinality(Counted) - 1
    BY CountedFinite, FS_RemoveElement
  <1>4. l \notin Counted => Cardinality(Counted \cup {l}) = Cardinality(Counted) + 1
    BY CountedFinite, FS_AddElement
  <1> QED
    BY <1>1, <1>2, <1>3, <1>4

LEMMA StepKeepsNeverOver ==
  ASSUME IInvAnytime, [Next]_vars
  PROVE  UsersNeverOver'
  <1> USE DEF Steps, CountedSteps
  <1>0. users <= Cardinality(Counted) /\ Cardinality(Counted) \in Nat /\ users \in Nat
    BY CountedFinite DEF IInvAnytime, UsersNeverOver, TypeOK
  <1>1. ASSUME NEW l \in Loaders, BeginCreate(l) PROVE UsersNeverOver'
    BY <1>0, <1>1, CountedMoves DEF IInvAnytime, UsersNeverOver, BeginCreate, Return, shared
  <1>2. ASSUME NEW l \in Loaders, LoadApi(l) PROVE UsersNeverOver'
    BY <1>0, <1>2, CountedMoves DEF IInvAnytime, UsersNeverOver, LoadApi, Return, shared
  <1>3. ASSUME NEW l \in Loaders, LoadApiFails(l) PROVE UsersNeverOver'
    BY <1>0, <1>3, CountedMoves DEF IInvAnytime, UsersNeverOver, LoadApiFails, Return, shared
  <1>4. ASSUME NEW l \in Loaders, CreateEnv(l) PROVE UsersNeverOver'
    BY <1>0, <1>4, CountedMoves DEF IInvAnytime, UsersNeverOver, CreateEnv, Return, shared
  <1>5. ASSUME NEW l \in Loaders, CreateEnvFails(l) PROVE UsersNeverOver'
    BY <1>0, <1>5, CountedMoves DEF IInvAnytime, UsersNeverOver, CreateEnvFails, Return, shared
  <1>6. ASSUME NEW l \in Loaders, ShareEnv(l) PROVE UsersNeverOver'
    BY <1>0, <1>6, CountedMoves DEF IInvAnytime, UsersNeverOver, ShareEnv, Return, shared
  <1>7. ASSUME NEW l \in Loaders, CreateSession(l) PROVE UsersNeverOver'
    BY <1>0, <1>7, CountedMoves DEF IInvAnytime, UsersNeverOver, CreateSession, Return, shared
  <1>8. ASSUME NEW l \in Loaders, OpenFails(l) PROVE UsersNeverOver'
    BY <1>0, <1>8, CountedMoves DEF IInvAnytime, UsersNeverOver, OpenFails, Return, shared
  <1>9. ASSUME NEW l \in Loaders, Inspect(l) PROVE UsersNeverOver'
    BY <1>0, <1>9, CountedMoves DEF IInvAnytime, UsersNeverOver, Inspect, Return, shared
  <1>10. ASSUME NEW l \in Loaders, InspectFails(l) PROVE UsersNeverOver'
    BY <1>0, <1>10, CountedMoves DEF IInvAnytime, UsersNeverOver, InspectFails, Return, shared
  <1>11. ASSUME NEW l \in Loaders, BeginRun(l) PROVE UsersNeverOver'
    BY <1>0, <1>11, CountedMoves DEF IInvAnytime, UsersNeverOver, BeginRun, Return, shared
  <1>12. ASSUME NEW l \in Loaders, EndRun(l) PROVE UsersNeverOver'
    BY <1>0, <1>12, CountedMoves DEF IInvAnytime, UsersNeverOver, EndRun, Return, shared
  <1>13. ASSUME NEW l \in Loaders, BeginDestroy(l) PROVE UsersNeverOver'
    BY <1>0, <1>13, CountedMoves DEF IInvAnytime, UsersNeverOver, BeginDestroy, Return, shared
  <1>14. ASSUME NEW l \in Loaders, ReleaseSession(l) PROVE UsersNeverOver'
    BY <1>0, <1>14, CountedMoves DEF IInvAnytime, UsersNeverOver, ReleaseSession, Return, shared
  <1>15. ASSUME NEW l \in Loaders, ReleaseEnv(l) PROVE UsersNeverOver'
    BY <1>0, <1>15, CountedMoves DEF IInvAnytime, UsersNeverOver, ReleaseEnv, Return, shared
  <1>16. ASSUME NEW l \in Loaders, CountUser(l) PROVE UsersNeverOver'
    <2>1. Cardinality(Counted') = Cardinality(Counted) + 1
      BY <1>16, CountedMoves DEF IInvAnytime, CountUser
    <2> QED
      BY <1>0, <1>16, <2>1 DEF UsersNeverOver, CountUser
  <1>17. ASSUME NEW l \in Loaders, UncountUser(l) PROVE UsersNeverOver'
    <2>1. Cardinality(Counted') = Cardinality(Counted) - 1
      BY <1>17, CountedMoves DEF IInvAnytime, UncountUser, Return
    <2>2. l \in Counted
      BY <1>17 DEF UncountUser, Return, Goto, Counted
    <2>3. Cardinality(Counted) # 0
      BY <2>2, CountedFinite
    <2> QED
      BY <1>0, <1>17, <2>1, <2>3 DEF UsersNeverOver, UncountUser
  <1>18. CASE Shutdown
    <2>1. Counted' = Counted
      BY <1>18 DEF Shutdown, Counted
    <2> QED
      BY <1>0, <1>18, <2>1 DEF UsersNeverOver, Shutdown
  <1>19. CASE SwitchSkip \/ UNCHANGED vars
    <2>1. Counted' = Counted /\ users' = users
      BY <1>19 DEF SwitchSkip, vars, shared, Counted
    <2> QED
      BY <1>0, <2>1 DEF UsersNeverOver
  <1> QED
    BY <1>1, <1>2, <1>3, <1>4, <1>5, <1>6, <1>7, <1>8, <1>9, <1>10, <1>11, <1>12, <1>13, <1>14, <1>15, <1>16, <1>17, <1>18, <1>19 DEF Next, Continue

LEMMA StepKeepsTurn ==
  ASSUME TypeOK, TurnExclusive, [Next]_vars
  PROVE  TurnExclusive'
  <1> USE SharedEnvAssumption DEF TypeOK, TurnExclusive, Goto, Return
  <1>1. ASSUME NEW l \in Loaders, BeginCreate(l) \/ BeginRun(l) \/ BeginDestroy(l)
        PROVE  TurnExclusive'
    BY <1>1 DEF BeginCreate, BeginRun, BeginDestroy
  <1>2. ASSUME NEW l \in Loaders, LoadApi(l) \/ LoadApiFails(l) \/ CreateEnv(l)
                 \/ CreateEnvFails(l) \/ ShareEnv(l) \/ CountUser(l)
        PROVE  TurnExclusive'
    BY <1>2 DEF LoadApi, LoadApiFails, CreateEnv, CreateEnvFails, ShareEnv, CountUser
  <1>3. ASSUME NEW l \in Loaders, CreateSession(l) \/ OpenFails(l) \/ Inspect(l)
                 \/ InspectFails(l) \/ EndRun(l)
        PROVE  TurnExclusive'
    BY <1>3 DEF CreateSession, OpenFails, Inspect, InspectFails, EndRun
  <1>4. ASSUME NEW l \in Loaders, ReleaseSession(l) \/ UncountUser(l) \/ ReleaseEnv(l)
        PROVE  TurnExclusive'
    BY <1>4 DEF ReleaseSession, UncountUser, ReleaseEnv
  <1>5. CASE Shutdown \/ SwitchSkip \/ UNCHANGED vars
    BY <1>5 DEF Shutdown, SwitchSkip, vars
  <1> QED
    BY <1>1, <1>2, <1>3, <1>4, <1>5 DEF Next, Continue

LEMMA StepKeepsKept ==
  ASSUME TypeOK, TypeOK', TurnExclusive, Kept, UsersNeverOver, FALSE \notin SkipTo, [Next]_vars
  PROVE  Kept'
  <1> USE DEF NoEnv
  <1>1. ASSUME NEW l \in Loaders, BeginCreate(l) PROVE Kept'
    BY <1>1, SharedEnvAssumption
       DEF TypeOK, TurnExclusive, Kept, EnvPlaces, OnlyEnv, Goto, Return, Steps, shared, BeginCreate
  <1>2. ASSUME NEW l \in Loaders, LoadApi(l) PROVE Kept'
    BY <1>2, SharedEnvAssumption
       DEF TypeOK, TurnExclusive, Kept, EnvPlaces, OnlyEnv, Goto, Return, Steps, shared, LoadApi
  <1>3. ASSUME NEW l \in Loaders, LoadApiFails(l) PROVE Kept'
    BY <1>3, SharedEnvAssumption
       DEF TypeOK, TurnExclusive, Kept, EnvPlaces, OnlyEnv, Goto, Return, Steps, shared, LoadApiFails
  <1>4. ASSUME NEW l \in Loaders, CreateEnv(l) PROVE Kept'
    BY <1>4, SharedEnvAssumption
       DEF TypeOK, TurnExclusive, Kept, EnvPlaces, OnlyEnv, Goto, Return, Steps, shared, CreateEnv
  <1>5. ASSUME NEW l \in Loaders, CreateEnvFails(l) PROVE Kept'
    BY <1>5, SharedEnvAssumption
       DEF TypeOK, TurnExclusive, Kept, EnvPlaces, OnlyEnv, Goto, Return, Steps, shared, CreateEnvFails
  <1>6. ASSUME NEW l \in Loaders, ShareEnv(l) PROVE Kept'
    BY <1>6, SharedEnvAssumption
       DEF TypeOK, TurnExclusive, Kept, EnvPlaces, OnlyEnv, Goto, Return, Steps, shared, ShareEnv
  <1>7. ASSUME NEW l \in Loaders, CountUser(l) PROVE Kept'
    BY <1>7, SharedEnvAssumption
       DEF TypeOK, TurnExclusive, Kept, EnvPlaces, OnlyEnv, Goto, Return, Steps, shared, CountUser
  <1>8. ASSUME NEW l \in Loaders, CreateSession(l) PROVE Kept'
    BY <1>8, SharedEnvAssumption
       DEF TypeOK, TurnExclusive, Kept, EnvPlaces, OnlyEnv, Goto, Return, Steps, shared, CreateSession
  <1>9. ASSUME NEW l \in Loaders, OpenFails(l) PROVE Kept'
    BY <1>9, SharedEnvAssumption
       DEF TypeOK, TurnExclusive, Kept, EnvPlaces, OnlyEnv, Goto, Return, Steps, shared, OpenFails
  <1>10. ASSUME NEW l \in Loaders, Inspect(l) PROVE Kept'
    BY <1>10, SharedEnvAssumption
       DEF TypeOK, TurnExclusive, Kept, EnvPlaces, OnlyEnv, Goto, Return, Steps, shared, Inspect
  <1>11. ASSUME NEW l \in Loaders, InspectFails(l) PROVE Kept'
    BY <1>11, SharedEnvAssumption
       DEF TypeOK, TurnExclusive, Kept, EnvPlaces, OnlyEnv, Goto, Return, Steps, shared, InspectFails
  <1>12. ASSUME NEW l \in Loaders, BeginRun(l) PROVE Kept'
    BY <1>12, SharedEnvAssumption
       DEF TypeOK, TurnExclusive, Kept, EnvPlaces, OnlyEnv, Goto, Return, Steps, shared, BeginRun
  <1>13. ASSUME NEW l \in Loaders, EndRun(l) PROVE Kept'
    BY <1>13, SharedEnvAssumption
       DEF TypeOK, TurnExclusive, Kept, EnvPlaces, OnlyEnv, Goto, Return, Steps, shared, EndRun
  <1>14. ASSUME NEW l \in Loaders, BeginDestroy(l) PROVE Kept'
    BY <1>14, SharedEnvAssumption
       DEF TypeOK, TurnExclusive, Kept, EnvPlaces, OnlyEnv, Goto, Return, Steps, shared, BeginDestroy
  <1>15. ASSUME NEW l \in Loaders, ReleaseSession(l) PROVE Kept'
    BY <1>15, SharedEnvAssumption
       DEF TypeOK, TurnExclusive, Kept, EnvPlaces, OnlyEnv, Goto, Return, Steps, shared, ReleaseSession
  <1>16. ASSUME NEW l \in Loaders, ReleaseEnv(l) PROVE Kept'
    BY <1>16, SharedEnvAssumption
       DEF TypeOK, TurnExclusive, Kept, EnvPlaces, OnlyEnv, Goto, Return, Steps, shared, ReleaseEnv
  <1>17. ASSUME NEW l \in Loaders, UncountUser(l) PROVE Kept'
    BY <1>17, SharedEnvAssumption
       DEF TypeOK, TurnExclusive, Kept, EnvPlaces, OnlyEnv, Goto, Return, Steps, shared, UncountUser
  <1>18. CASE Shutdown
    BY <1>18, SharedEnvAssumption
       DEF TypeOK, TurnExclusive, Kept, EnvPlaces, OnlyEnv, Shutdown
  <1>19. CASE SwitchSkip
    <2>1. skip' = TRUE
      BY <1>19, SharedEnvAssumption DEF SwitchSkip
    <2> QED
      BY <1>19, <2>1 DEF Kept, EnvPlaces, OnlyEnv, SwitchSkip, shared
  <1>20. CASE UNCHANGED vars
    BY <1>20 DEF vars, Kept, EnvPlaces, OnlyEnv
  <1> QED
    BY <1>1, <1>2, <1>3, <1>4, <1>5, <1>6, <1>7, <1>8, <1>9, <1>10, <1>11, <1>12, <1>13, <1>14, <1>15, <1>16, <1>17, <1>18, <1>19, <1>20 DEF Next, Continue

(* When every loader is gone nobody is counted, so the count is zero and    *)
(* the environment was released.                                           *)
LEMMA KeptNoEnvLeaked == IInvAnytime => NoEnvLeaked
  <1> SUFFICES ASSUME IInvAnytime, ~skip PROVE NoEnvLeaked
    BY DEF NoEnvLeaked
  <1>1. liveEnvs = {env} \ {NoEnv}
    BY DEF IInvAnytime, Kept, OnlyEnv
  <1>2. Gone => env = NoEnv
    <2>1. Gone => Counted = {}
      BY DEF Gone, Counted, CountedSteps
    <2>2. Gone => users = 0
      BY <2>1, CountedFinite DEF IInvAnytime, TypeOK, UsersNeverOver
    <2> QED
      BY <2>2 DEF IInvAnytime, Kept, EnvPlaces, Gone
  <1> QED
    BY <1>1, <1>2 DEF NoEnvLeaked

THEOREM InvarianceAnytime == FALSE \notin SkipTo => (Spec => []IInvAnytime)
  <1> SUFFICES ASSUME FALSE \notin SkipTo PROVE Spec => []IInvAnytime
    OBVIOUS
  <1>1. Init => IInvAnytime
    <2> SUFFICES ASSUME Init PROVE IInvAnytime
      OBVIOUS
    <2>1. Inner /\ Exact
      BY InitIInv DEF IInv
    <2> QED
      BY <2>1, CountedFinite DEF Inner, IInvAnytime, Kept, Exact, UsersNeverOver
  <1>2. IInvAnytime /\ TypeOK' /\ [Next]_vars => IInvAnytime'
    <2>1. IInvAnytime /\ [Next]_vars => UsersNeverOver'
      BY StepKeepsNeverOver
    <2>2. IInvAnytime /\ TypeOK' /\ [Next]_vars => Kept'
      BY StepKeepsKept DEF IInvAnytime
    <2>3. IInvAnytime /\ [Next]_vars => TurnExclusive'
      BY StepKeepsTurn DEF IInvAnytime
    <2> QED
      BY <2>1, <2>2, <2>3 DEF IInvAnytime
  <1> QED
    BY <1>1, <1>2, TypesAlwaysOK, PTL DEF Spec

(* The count of users never exceeds those who will uncount themselves,      *)
(* whenever the module is terminated.                                      *)
THEOREM UsersAreNeverOver == FALSE \notin SkipTo => (Spec => []UsersNeverOver)
  <1> SUFFICES ASSUME FALSE \notin SkipTo PROVE Spec => []UsersNeverOver
    OBVIOUS
  <1>1. IInvAnytime => UsersNeverOver
    BY DEF IInvAnytime
  <1> QED
    BY InvarianceAnytime, <1>1, PTL

(* No environment is leaked, whenever the module is terminated.             *)
THEOREM EnvNeverLeaked == FALSE \notin SkipTo => (Spec => []NoEnvLeaked)
  <1> SUFFICES ASSUME FALSE \notin SkipTo PROVE Spec => []NoEnvLeaked
    OBVIOUS
  <1> QED
    BY InvarianceAnytime, KeptNoEnvLeaked, PTL
=============================================================================

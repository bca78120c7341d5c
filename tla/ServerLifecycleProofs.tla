----------------------- MODULE ServerLifecycleProofs -----------------------
(***************************************************************************)
(* The safety invariants of ServerLifecycle, for every set of requests and *)
(* every pair of limits.  None of them is inductive: what each goroutine   *)
(* may do depends on how far the others have come, which LifecycleInv      *)
(* states, one conjunct for each pair of goroutines.                       *)
(***************************************************************************)
EXTENDS ServerLifecycle, TLAPS

\* The listener runs from the time main spawns it, and not before.
SpawnInv == listener = "off" <=> main \in {"init", "insecure", "assigned"}

\* Only a shutdown stops the listener, and only its end lets main return.
StopInv ==
    /\ listener = "stopped" => ShuttingDown
    /\ main = "returned" => listener = "stopped"

\* Only a served request leaves "new".
AcceptInv == listener \in {"off", "starting"} => \A r \in Requests : reqs[r] = "new"

\* Each way the process ends, and what it tells of the goroutine that ended it.
EndInv ==
    /\ process = "exit0" => ShuttingDown
    /\ process = "panic" => ~ServersAssigned
    /\ process = "fatal" => \/ listener = "failed" /\ portTaken
                            \/ main = "awake" /\ PingExpired

LifecycleInv == TypeOK /\ SpawnInv /\ StopInv /\ AcceptInv /\ EndInv

-----------------------------------------------------------------------------
(***************************************************************************)
(* A clock that is bounded by its limit stays so.                          *)
(***************************************************************************)
LEMMA ElapsedInRange ==
    ASSUME NEW limit \in Nat, NEW t \in 0 .. limit
    PROVE  Elapsed(t, limit) \in 0 .. limit
  BY DEF Elapsed

(***************************************************************************)
(* The initial state satisfies the invariant.                              *)
(***************************************************************************)
LEMMA InitLifecycle == Init => LifecycleInv
  BY LimitsAssumption DEF Init, LifecycleInv, TypeOK, SpawnInv, StopInv, AcceptInv, EndInv

(***************************************************************************)
(* Every step of a goroutine, of a request or of the clock keeps it.       *)
(***************************************************************************)
LEMMA StepLifecycle == LifecycleInv /\ [Next]_vars => LifecycleInv'
  <1> SUFFICES ASSUME LifecycleInv, [Next]_vars
               PROVE  LifecycleInv'
    OBVIOUS
  <1> USE LimitsAssumption
      DEF LifecycleInv, TypeOK, SpawnInv, StopInv, AcceptInv, EndInv, Up, settings,
          ShuttingDown, ServersAssigned, PingExpired
  <1>1. CASE AssignInsecure
    BY <1>1 DEF AssignInsecure
  <1>2. CASE AssignSecure
    BY <1>2 DEF AssignSecure
  <1>3. CASE SpawnListener
    BY <1>3 DEF SpawnListener
  <1>4. CASE Ping
    BY <1>4 DEF Ping
  <1>5. CASE PingCheck
    BY <1>5 DEF PingCheck
  <1>6. CASE MainReturns
    BY <1>6 DEF MainReturns
  <1>7. CASE Listen
    BY <1>7 DEF Listen, ListenError, ServerClosed
  <1>8. CASE ListenerStops
    BY <1>8 DEF ListenerStops, ServerClosed
  <1>9. CASE ReceiveSignal
    BY <1>9 DEF ReceiveSignal
  <1>10. CASE CloseStore
    BY <1>10 DEF CloseStore
  <1>11. CASE BeginDrain
    BY <1>11 DEF BeginDrain
  <1>12. CASE EndDrain
    BY <1>12 DEF EndDrain
  <1>13. CASE ExitAfterDrain
    BY <1>13 DEF ExitAfterDrain
  <1>14. CASE \E r \in Requests : RequestStep(r)
    <2>1. PICK r \in Requests : RequestStep(r)
      BY <1>14
    <2>2. CASE AcceptRequest(r)
      BY <2>2 DEF AcceptRequest
    <2>3. CASE Statement(r)
      BY <2>3 DEF Statement
    <2>4. CASE AnswerRequest(r)
      BY <2>4 DEF AnswerRequest
    <2> QED
      BY <2>1, <2>2, <2>3, <2>4 DEF RequestStep
  <1>15. CASE Second
    <2>1. pingTime' \in 0 .. PingLimit /\ drainTime' \in 0 .. DrainLimit
      BY <1>15, ElapsedInRange DEF Second
    <2> QED
      BY <1>15, <2>1 DEF Second
  <1>16. CASE Gone \/ UNCHANGED vars
    BY <1>16 DEF Gone, vars
  <1> QED
    BY <1>1, <1>2, <1>3, <1>4, <1>5, <1>6, <1>7, <1>8, <1>9, <1>10, <1>11,
       <1>12, <1>13, <1>14, <1>15, <1>16
       DEF Next, MainStep, ListenerStep, ShutdownStep

(***************************************************************************)
(* The invariant holds throughout the life of the process.                 *)
(***************************************************************************)
THEOREM LifecycleInvariance == Spec => []LifecycleInv
  <1>1. Init => LifecycleInv
    BY InitLifecycle
  <1>2. LifecycleInv /\ [Next]_vars => LifecycleInv'
    BY StepLifecycle
  <1> QED
    BY <1>1, <1>2, PTL DEF Spec

(***************************************************************************)
(* Type correctness, of which the bounded clocks are the interesting part. *)
(***************************************************************************)
THEOREM LifecycleTypeCorrect == Spec => []TypeOK
  <1>1. LifecycleInv => TypeOK
    BY DEF LifecycleInv
  <1> QED
    BY <1>1, LifecycleInvariance, PTL

(***************************************************************************)
(* Exit code 0 is never given without a signal (genericapiserver.go:161).  *)
(***************************************************************************)
THEOREM ZeroMeansSignal == Spec => []ExitZeroOnlyOnSignal
  <1>1. LifecycleInv => ExitZeroOnlyOnSignal
    BY DEF LifecycleInv, EndInv, ShuttingDown, ExitZeroOnlyOnSignal
  <1> QED
    BY <1>1, LifecycleInvariance, PTL

(***************************************************************************)
(* The nil servers of an early signal crash no process that served a       *)
(* request (genericapiserver.go:213).                                      *)
(***************************************************************************)
THEOREM PanicBeforeServing == Spec => []PanicOnlyBeforeServing
  <1>1. LifecycleInv => PanicOnlyBeforeServing
    BY DEF LifecycleInv, EndInv, SpawnInv, AcceptInv, ServersAssigned,
           PanicOnlyBeforeServing
  <1> QED
    BY <1>1, LifecycleInvariance, PTL

(***************************************************************************)
(* A shutdown is not reported as a failure (genericapiserver.go:160).      *)
(***************************************************************************)
THEOREM ShutdownNoFailure == Spec => []ShutdownIsNoFailure
  <1>1. LifecycleInv => ShutdownIsNoFailure
    BY DEF LifecycleInv, EndInv, PingExpired, ShutdownIsNoFailure
  <1> QED
    BY <1>1, LifecycleInvariance, PTL
=============================================================================

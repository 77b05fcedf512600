--------------------------- MODULE Service_proofs ---------------------------
(***************************************************************************)
(* Proofs about Service, for every set of connections, of probes and of    *)
(* policies.  The steps of the HTTP server, of dependency.Run and of main  *)
(* each preserve the invariant of ServiceInv; the safety properties of     *)
(* Service, and its refinement of ServiceContract, follow from it.         *)
(***************************************************************************)
EXTENDS ServiceInv, TLAPS

-----------------------------------------------------------------------------
(* The initial states *)

\* The invariant holds before main has loaded its configuration.
LEMMA InitInv == Init => Inv
<1> SUFFICES ASSUME Init PROVE Inv
  OBVIOUS
<1> USE DEF Init
<1>1. HttpTypeOK
  BY DEF HttpInit, HttpTypeOK, ServerPcs, AcceptPcs, ConnStates, ServeResults
<1>2. DepTypeOK
  <2> USE DEF DepInit
  <2>1. depGauge \in [Probes -> BOOLEAN] /\ depUp \in [Probes -> BOOLEAN]
    OBVIOUS
  <2>2. probe \in [Probes -> {"idle", "ping"} \cup Finished]
    OBVIOUS
  <2>3. serveChan \in ServeResults /\ runReturn \in RunResults
    BY DEF ServeResults, RunResults
  <2>4. runPc \in RunPcs /\ setReadyNext \in RunPcs
    BY DEF RunPcs
  <2>5. /\ policy \in Policies
        /\ signalled \in BOOLEAN
        /\ startupExpired \in BOOLEAN
        /\ setReadyArg \in BOOLEAN
        /\ gauge \in BOOLEAN
    OBVIOUS
  <2>6. retryDelay \in Int
    OBVIOUS
  <2> QED
    BY <2>1, <2>2, <2>3, <2>4, <2>5, <2>6 DEF DepTypeOK
<1>3. TypeOK
  BY <1>1, <1>2 DEF TypeOK, MainPcs, Resources
<1>4. HttpInv
  BY DEF HttpInit, HttpInv, NoneActive
<1>5. RunInv
  BY DEF HttpInit, DepInit, RunInv, PcAfterSetReady, BeforeCancel
<1>6. RoundInv /\ RetryInv
  BY DEF DepInit, RoundInv, RetryInv, PcAfterSetReady, Finished
<1>7. MainInv
  BY DEF DepInit, MainInv
<1> QED
  BY <1>3, <1>4, <1>5, <1>6, <1>7 DEF Inv

-----------------------------------------------------------------------------
(* Steps of the HTTP server and its handlers *)

\* Every step of httpserver.Serve, of net/http's accept loop and of a handler
\* preserves the server's own part of the invariant, which needs no other.
LEMMA HttpStepInv ==
  ASSUME HttpTypeOK, HttpInv, HttpNext
  PROVE  HttpTypeOK' /\ HttpInv'
<1> USE DEF HttpTypeOK, ServerPcs, AcceptPcs, ConnStates, ServeResults, httpEnvVars,
            ServerReturns, AcceptReturns
<1>1. CASE ListenFails
  <2>1. HttpTypeOK'
    BY <1>1 DEF ListenFails
  <2>2. HttpInv'
    BY <1>1 DEF ListenFails, HttpInv, NoneActive
  <2> QED
    BY <2>1, <2>2
<1>2. CASE ListenSucceeds
  <2>1. HttpTypeOK'
    BY <1>2 DEF ListenSucceeds
  <2>2. HttpInv'
    BY <1>2 DEF ListenSucceeds, HttpInv, NoneActive
  <2> QED
    BY <2>1, <2>2
<1>3. CASE SelectServeResult
  <2>1. HttpTypeOK'
    BY <1>3 DEF SelectServeResult
  <2>2. HttpInv'
    BY <1>3 DEF SelectServeResult, HttpInv, NoneActive
  <2> QED
    BY <2>1, <2>2
<1>4. CASE SelectContextDone
  <2>1. HttpTypeOK'
    BY <1>4 DEF SelectContextDone
  <2>2. HttpInv'
    BY <1>4 DEF SelectContextDone, HttpInv, NoneActive
  <2> QED
    BY <2>1, <2>2
<1>5. CASE ShutdownBegins
  <2>1. HttpTypeOK'
    BY <1>5 DEF ShutdownBegins
  <2>2. HttpInv'
    BY <1>5 DEF ShutdownBegins, HttpInv, NoneActive
  <2> QED
    BY <2>1, <2>2
<1>6. CASE ShutdownFirstPoll
  <2>1. HttpTypeOK'
    BY <1>6 DEF ShutdownFirstPoll
  <2>2. HttpInv'
    BY <1>6 DEF ShutdownFirstPoll, HttpInv, NoneActive
  <2> QED
    BY <2>1, <2>2
<1>7. CASE ShutdownDrained
  <2>1. HttpTypeOK'
    BY <1>7 DEF ShutdownDrained
  <2>2. HttpInv'
    BY <1>7 DEF ShutdownDrained, HttpInv, NoneActive
  <2> QED
    BY <2>1, <2>2
<1>8. CASE ShutdownExpires
  <2>1. HttpTypeOK'
    BY <1>8 DEF ShutdownExpires
  <2>2. HttpInv'
    BY <1>8 DEF ShutdownExpires, HttpInv, NoneActive
  <2> QED
    BY <2>1, <2>2
<1>9. CASE CloseWaited
  <2>1. HttpTypeOK'
    BY <1>9 DEF CloseWaited
  <2>2. HttpInv'
    BY <1>9 DEF CloseWaited, HttpInv, NoneActive
  <2> QED
    BY <2>1, <2>2
<1>10. CASE ResultAwaited
  <2>1. HttpTypeOK'
    BY <1>10 DEF ResultAwaited
  <2>2. HttpInv'
    BY <1>10 DEF ResultAwaited, HttpInv, NoneActive
  <2> QED
    BY <2>1, <2>2
<1>11. CASE GraceExpires
  <2>1. HttpTypeOK'
    BY <1>11 DEF GraceExpires
  <2>2. HttpInv'
    BY <1>11 DEF GraceExpires, HttpInv, NoneActive
  <2> QED
    BY <2>1, <2>2
<1>12. CASE AcceptStarts
  <2>1. HttpTypeOK'
    BY <1>12 DEF AcceptStarts
  <2>2. HttpInv'
    BY <1>12 DEF AcceptStarts, HttpInv, NoneActive
  <2> QED
    BY <2>1, <2>2
<1>13. CASE AcceptStops
  <2>1. HttpTypeOK'
    BY <1>13 DEF AcceptStops
  <2>2. HttpInv'
    BY <1>13 DEF AcceptStops, HttpInv, NoneActive
  <2> QED
    BY <2>1, <2>2
<1>14. ASSUME NEW c \in Conns, AcceptConn(c)
      PROVE  HttpTypeOK' /\ HttpInv'
  <2>1. HttpTypeOK'
    BY <1>14 DEF AcceptConn
  <2>2. HttpInv'
    BY <1>14 DEF AcceptConn, HttpInv, NoneActive
  <2> QED
    BY <2>1, <2>2
<1>15. ASSUME NEW c \in Conns, Answer(c)
      PROVE  HttpTypeOK' /\ HttpInv'
  <2>1. HttpTypeOK'
    BY <1>15 DEF Answer
  <2>2. HttpInv'
    BY <1>15 DEF Answer, HttpInv, NoneActive
  <2> QED
    BY <2>1, <2>2
<1>16. ASSUME NEW c \in Conns, OrphanEnds(c)
      PROVE  HttpTypeOK' /\ HttpInv'
  <2>1. HttpTypeOK'
    BY <1>16 DEF OrphanEnds
  <2>2. HttpInv'
    BY <1>16 DEF OrphanEnds, HttpInv, NoneActive
  <2> QED
    BY <2>1, <2>2
<1> QED
  BY <1>1, <1>2, <1>3, <1>4, <1>5, <1>6, <1>7, <1>8, <1>9, <1>10, <1>11, <1>12, <1>13,
     <1>14, <1>15, <1>16
     DEF HttpNext, ServerStep

\* What the server does to the rest: it takes no result and sets no readiness,
\* and it never goes back to idle or on to gone.
LEMMA HttpStepFrame ==
  ASSUME HttpTypeOK, HttpNext
  PROVE  /\ UNCHANGED <<serveCtxDone, healthReady>>
         /\ serverPc' = serverPc \/ (serverPc \notin {"idle", "returned", "gone"}
                                     /\ serverPc' \notin {"idle", "gone"})
         /\ serveReturn' = serveReturn \/ serverPc \notin {"idle", "returned", "gone"}
  BY DEF HttpTypeOK, HttpNext, ServerStep, ListenFails, ListenSucceeds, SelectServeResult,
         SelectContextDone, ShutdownBegins, ShutdownFirstPoll, ShutdownDrained,
         ShutdownExpires, CloseWaited, ResultAwaited, GraceExpires, AcceptStarts,
         AcceptStops, AcceptConn, Answer, OrphanEnds, ServerReturns, httpEnvVars

\* The server's steps preserve the whole invariant.
LEMMA ServerStepInv ==
  ASSUME Inv, HttpNext, UNCHANGED <<depVars, mainVars>>
  PROVE  Inv'
<1>1. HttpTypeOK' /\ HttpInv'
  BY HttpStepInv DEF Inv, TypeOK
<1>2. TypeOK'
  BY <1>1 DEF Inv, TypeOK, DepTypeOK, depVars, mainVars
<1>3. RunInv'
  BY HttpStepFrame DEF Inv, TypeOK, HttpInv, RunInv, PcAfterSetReady, depVars
<1>4. RoundInv' /\ RetryInv'
  BY HttpStepFrame DEF Inv, TypeOK, RoundInv, RetryInv, PcAfterSetReady, RoundFinished,
                       NoneFailed, ValidPolicy, depVars
<1>5. MainInv'
  BY DEF Inv, MainInv, depVars, mainVars
<1> QED
  BY <1>1, <1>2, <1>3, <1>4, <1>5 DEF Inv

-----------------------------------------------------------------------------
(* Steps of dependency.Run, its probes, its timers and the dependencies *)

\* Every step of dependency.Run, of its probe goroutines and of the goroutine
\* around the server preserves the invariant.
LEMMA RunStepInv ==
  ASSUME Inv, RunNext, UNCHANGED mainVars
  PROVE  Inv'
<1> USE DEF runEnvVars, serverVars, httpVars, mainVars, SetReady, TakeServeResult,
            LaunchProbes
<1>1. CASE StoreGauge
  <2>1. HttpTypeOK'
    BY <1>1 DEF StoreGauge, Inv, TypeOK, HttpTypeOK, ServerPcs
  <2>2. DepTypeOK'
    BY <1>1 DEF StoreGauge, Inv, TypeOK, DepTypeOK, RunPcs, RunResults, ServeResults
  <2>3. HttpInv'
    BY <1>1 DEF StoreGauge, Inv, HttpInv, RunInv, NoneActive, PcAfterSetReady
  <2>4. RunInv'
    BY <1>1 DEF StoreGauge, Inv, TypeOK, DepTypeOK, HttpTypeOK, HttpInv, RunInv, RunPcs, BeforeCancel,
                 ServeResults, PcAfterSetReady
  <2>5. RoundInv'
    BY <1>1 DEF StoreGauge, Inv, TypeOK, DepTypeOK, RunInv, RoundInv, RoundFinished, NoneFailed,
                 Finished, PcAfterSetReady
  <2>6. RetryInv'
    BY <1>1 DEF StoreGauge, Inv, RunInv, RetryInv, ValidPolicy, PcAfterSetReady
  <2>7. MainInv'
    BY <1>1 DEF StoreGauge, Inv, TypeOK, DepTypeOK, RunInv, MainInv, RunPcs, MainPcs
  <2> QED
    BY <2>1, <2>2, <2>3, <2>4, <2>5, <2>6, <2>7 DEF Inv, TypeOK
<1>2. CASE RejectPolicy
  <2>1. HttpTypeOK'
    BY <1>2 DEF RejectPolicy, Inv, TypeOK, HttpTypeOK, ServerPcs
  <2>2. DepTypeOK'
    BY <1>2 DEF RejectPolicy, Inv, TypeOK, DepTypeOK, RunPcs, RunResults, ServeResults
  <2>3. HttpInv'
    BY <1>2 DEF RejectPolicy, Inv, HttpInv, RunInv, NoneActive, PcAfterSetReady
  <2>4. RunInv'
    BY <1>2 DEF RejectPolicy, Inv, TypeOK, DepTypeOK, HttpTypeOK, HttpInv, RunInv, RunPcs, BeforeCancel,
                 ServeResults, PcAfterSetReady
  <2>5. RoundInv'
    BY <1>2 DEF RejectPolicy, Inv, TypeOK, DepTypeOK, RunInv, RoundInv, RoundFinished, NoneFailed,
                 Finished, PcAfterSetReady
  <2>6. RetryInv'
    BY <1>2 DEF RejectPolicy, Inv, RunInv, RetryInv, ValidPolicy, PcAfterSetReady
  <2>7. MainInv'
    BY <1>2 DEF RejectPolicy, Inv, TypeOK, DepTypeOK, RunInv, MainInv, RunPcs, MainPcs
  <2> QED
    BY <2>1, <2>2, <2>3, <2>4, <2>5, <2>6, <2>7 DEF Inv, TypeOK
<1>3. CASE EnterRun
  <2>1. HttpTypeOK'
    <3>1. healthReady' \in BOOLEAN
      BY <1>3 DEF EnterRun, NoneFailed
    <3> QED
      BY <1>3, <3>1 DEF EnterRun, Inv, TypeOK, HttpTypeOK
  <2>2. DepTypeOK'
    BY <1>3 DEF EnterRun, Inv, TypeOK, DepTypeOK, RunPcs, RunResults, ServeResults
  <2>3. HttpInv'
    BY <1>3 DEF EnterRun, Inv, HttpInv, RunInv, NoneActive, PcAfterSetReady
  <2>4. RunInv'
    BY <1>3 DEF EnterRun, Inv, TypeOK, DepTypeOK, HttpTypeOK, HttpInv, RunInv, RunPcs, BeforeCancel,
                 ServeResults, PcAfterSetReady
  <2>5. RoundInv'
    BY <1>3 DEF EnterRun, Inv, TypeOK, DepTypeOK, RunInv, RoundInv, RoundFinished, NoneFailed,
                 Finished, PcAfterSetReady
  <2>6. RetryInv'
    BY <1>3 DEF EnterRun, Inv, RunInv, RetryInv, ValidPolicy, PcAfterSetReady
  <2>7. MainInv'
    BY <1>3 DEF EnterRun, Inv, TypeOK, DepTypeOK, RunInv, MainInv, RunPcs, MainPcs
  <2> QED
    BY <2>1, <2>2, <2>3, <2>4, <2>5, <2>6, <2>7 DEF Inv, TypeOK
<1>4. CASE SpawnServe
  <2>1. HttpTypeOK'
    BY <1>4 DEF SpawnServe, Inv, TypeOK, HttpTypeOK, ServerPcs
  <2>2. DepTypeOK'
    BY <1>4, PoliciesAssumption DEF SpawnServe, Inv, TypeOK, DepTypeOK, RunPcs, MinInt
  <2>3. HttpInv'
    BY <1>4 DEF SpawnServe, Inv, HttpInv, RunInv, NoneActive, PcAfterSetReady
  <2>4. RunInv'
    BY <1>4 DEF SpawnServe, Inv, TypeOK, DepTypeOK, HttpTypeOK, HttpInv, RunInv, RunPcs, BeforeCancel,
                 ServeResults, PcAfterSetReady
  <2>5. RoundInv'
    BY <1>4 DEF SpawnServe, Inv, TypeOK, DepTypeOK, RunInv, RoundInv, RoundFinished, NoneFailed,
                 Finished, PcAfterSetReady
  <2>6. RetryInv'
    <3>1. policy.retryMinimum \in Int /\ policy.retryMaximum \in Int
      BY PoliciesAssumption DEF Inv, TypeOK, DepTypeOK
    <3>2. retryDelay \in Int
      BY DEF Inv, TypeOK, DepTypeOK
    <3> QED
      BY <1>4, <3>1, <3>2 DEF SpawnServe, Inv, RetryInv, ValidPolicy, MinInt, PcAfterSetReady
  <2>7. MainInv'
    BY <1>4 DEF SpawnServe, Inv, TypeOK, DepTypeOK, RunInv, MainInv, RunPcs, MainPcs
  <2> QED
    BY <2>1, <2>2, <2>3, <2>4, <2>5, <2>6, <2>7 DEF Inv, TypeOK
<1>5. CASE StartupSucceeds
  <2>1. HttpTypeOK'
    <3>1. healthReady' \in BOOLEAN
      BY <1>5 DEF StartupSucceeds, NoneFailed
    <3> QED
      BY <1>5, <3>1 DEF StartupSucceeds, Inv, TypeOK, HttpTypeOK
  <2>2. DepTypeOK'
    BY <1>5 DEF StartupSucceeds, Inv, TypeOK, DepTypeOK, RunPcs, RunResults, ServeResults
  <2>3. HttpInv'
    BY <1>5 DEF StartupSucceeds, Inv, HttpInv, RunInv, NoneActive, PcAfterSetReady
  <2>4. RunInv'
    BY <1>5 DEF StartupSucceeds, Inv, TypeOK, DepTypeOK, HttpTypeOK, HttpInv, RunInv, RunPcs, BeforeCancel,
                 ServeResults, PcAfterSetReady
  <2>5. RoundInv'
    BY <1>5 DEF StartupSucceeds, Inv, TypeOK, DepTypeOK, RunInv, RoundInv, RoundFinished, NoneFailed,
                 Finished, PcAfterSetReady
  <2>6. RetryInv'
    BY <1>5 DEF StartupSucceeds, Inv, RunInv, RetryInv, ValidPolicy, PcAfterSetReady
  <2>7. MainInv'
    BY <1>5 DEF StartupSucceeds, Inv, TypeOK, DepTypeOK, RunInv, MainInv, RunPcs, MainPcs
  <2> QED
    BY <2>1, <2>2, <2>3, <2>4, <2>5, <2>6, <2>7 DEF Inv, TypeOK
<1>6. CASE StartupRoundFails
  <2>1. HttpTypeOK'
    BY <1>6 DEF StartupRoundFails, Inv, TypeOK, HttpTypeOK, ServerPcs
  <2>2. DepTypeOK'
    BY <1>6 DEF StartupRoundFails, Inv, TypeOK, DepTypeOK, RunPcs, RunResults, ServeResults
  <2>3. HttpInv'
    BY <1>6 DEF StartupRoundFails, Inv, HttpInv, RunInv, NoneActive, PcAfterSetReady
  <2>4. RunInv'
    BY <1>6 DEF StartupRoundFails, Inv, TypeOK, DepTypeOK, HttpTypeOK, HttpInv, RunInv, RunPcs, BeforeCancel,
                 ServeResults, PcAfterSetReady
  <2>5. RoundInv'
    BY <1>6 DEF StartupRoundFails, Inv, TypeOK, DepTypeOK, RunInv, RoundInv, RoundFinished, NoneFailed,
                 Finished, PcAfterSetReady
  <2>6. RetryInv'
    BY <1>6 DEF StartupRoundFails, Inv, RunInv, RetryInv, ValidPolicy, PcAfterSetReady
  <2>7. MainInv'
    BY <1>6 DEF StartupRoundFails, Inv, TypeOK, DepTypeOK, RunInv, MainInv, RunPcs, MainPcs
  <2> QED
    BY <2>1, <2>2, <2>3, <2>4, <2>5, <2>6, <2>7 DEF Inv, TypeOK
<1>7. CASE StartupAwaitServe
  <2>1. HttpTypeOK'
    BY <1>7 DEF StartupAwaitServe, Inv, TypeOK, HttpTypeOK, ServerPcs
  <2>2. DepTypeOK'
    BY <1>7 DEF StartupAwaitServe, Inv, TypeOK, DepTypeOK, RunPcs, RunResults, ServeResults
  <2>3. HttpInv'
    BY <1>7 DEF StartupAwaitServe, Inv, HttpInv, RunInv, NoneActive, PcAfterSetReady
  <2>4. RunInv'
    BY <1>7 DEF StartupAwaitServe, Inv, TypeOK, DepTypeOK, HttpTypeOK, HttpInv, RunInv, RunPcs, BeforeCancel,
                 ServeResults, PcAfterSetReady
  <2>5. RoundInv'
    BY <1>7 DEF StartupAwaitServe, Inv, TypeOK, DepTypeOK, RunInv, RoundInv, RoundFinished, NoneFailed,
                 Finished, PcAfterSetReady
  <2>6. RetryInv'
    BY <1>7 DEF StartupAwaitServe, Inv, RunInv, RetryInv, ValidPolicy, PcAfterSetReady
  <2>7. MainInv'
    BY <1>7 DEF StartupAwaitServe, Inv, TypeOK, DepTypeOK, RunInv, MainInv, RunPcs, MainPcs
  <2> QED
    BY <2>1, <2>2, <2>3, <2>4, <2>5, <2>6, <2>7 DEF Inv, TypeOK
<1>8. CASE CancelServe
  <2>1. HttpTypeOK'
    BY <1>8 DEF CancelServe, Inv, TypeOK, HttpTypeOK, ServerPcs
  <2>2. DepTypeOK'
    BY <1>8 DEF CancelServe, Inv, TypeOK, DepTypeOK, RunPcs, RunResults, ServeResults
  <2>3. HttpInv'
    BY <1>8 DEF CancelServe, Inv, HttpInv, RunInv, NoneActive, PcAfterSetReady
  <2>4. RunInv'
    BY <1>8 DEF CancelServe, Inv, TypeOK, DepTypeOK, HttpTypeOK, HttpInv, RunInv, RunPcs, BeforeCancel,
                 ServeResults, PcAfterSetReady
  <2>5. RoundInv'
    BY <1>8 DEF CancelServe, Inv, TypeOK, DepTypeOK, RunInv, RoundInv, RoundFinished, NoneFailed,
                 Finished, PcAfterSetReady
  <2>6. RetryInv'
    BY <1>8 DEF CancelServe, Inv, RunInv, RetryInv, ValidPolicy, PcAfterSetReady
  <2>7. MainInv'
    BY <1>8 DEF CancelServe, Inv, TypeOK, DepTypeOK, RunInv, MainInv, RunPcs, MainPcs
  <2> QED
    BY <2>1, <2>2, <2>3, <2>4, <2>5, <2>6, <2>7 DEF Inv, TypeOK
<1>9. CASE AwaitServe
  <2>1. HttpTypeOK'
    BY <1>9 DEF AwaitServe, Inv, TypeOK, HttpTypeOK, ServerPcs
  <2>2. DepTypeOK'
    BY <1>9 DEF AwaitServe, Inv, TypeOK, DepTypeOK, RunPcs, RunResults, ServeResults
  <2>3. HttpInv'
    BY <1>9 DEF AwaitServe, Inv, HttpInv, RunInv, NoneActive, PcAfterSetReady
  <2>4. RunInv'
    BY <1>9 DEF AwaitServe, Inv, TypeOK, DepTypeOK, HttpTypeOK, HttpInv, RunInv, RunPcs, BeforeCancel,
                 ServeResults, PcAfterSetReady
  <2>5. RoundInv'
    BY <1>9 DEF AwaitServe, Inv, TypeOK, DepTypeOK, RunInv, RoundInv, RoundFinished, NoneFailed,
                 Finished, PcAfterSetReady
  <2>6. RetryInv'
    BY <1>9 DEF AwaitServe, Inv, RunInv, RetryInv, ValidPolicy, PcAfterSetReady
  <2>7. MainInv'
    BY <1>9 DEF AwaitServe, Inv, TypeOK, DepTypeOK, RunInv, MainInv, RunPcs, MainPcs
  <2> QED
    BY <2>1, <2>2, <2>3, <2>4, <2>5, <2>6, <2>7 DEF Inv, TypeOK
<1>10. CASE TickRoundEnds
  <2>1. HttpTypeOK'
    <3>1. healthReady' \in BOOLEAN
      BY <1>10 DEF TickRoundEnds, NoneFailed
    <3> QED
      BY <1>10, <3>1 DEF TickRoundEnds, Inv, TypeOK, HttpTypeOK
  <2>2. DepTypeOK'
    <3>1. setReadyArg' \in BOOLEAN
      BY <1>10 DEF TickRoundEnds, NoneFailed
    <3> QED
      BY <1>10, <3>1 DEF TickRoundEnds, Inv, TypeOK, DepTypeOK, RunPcs
  <2>3. HttpInv'
    BY <1>10 DEF TickRoundEnds, Inv, HttpInv, RunInv, NoneActive, PcAfterSetReady
  <2>4. RunInv'
    BY <1>10 DEF TickRoundEnds, Inv, TypeOK, DepTypeOK, HttpTypeOK, HttpInv, RunInv, RunPcs, BeforeCancel,
                 ServeResults, PcAfterSetReady
  <2>5. RoundInv'
    BY <1>10 DEF TickRoundEnds, Inv, TypeOK, DepTypeOK, RunInv, RoundInv, RoundFinished, NoneFailed,
                 Finished, PcAfterSetReady
  <2>6. RetryInv'
    BY <1>10 DEF TickRoundEnds, Inv, RunInv, RetryInv, ValidPolicy, PcAfterSetReady
  <2>7. MainInv'
    BY <1>10 DEF TickRoundEnds, Inv, TypeOK, DepTypeOK, RunInv, MainInv, RunPcs, MainPcs
  <2> QED
    BY <2>1, <2>2, <2>3, <2>4, <2>5, <2>6, <2>7 DEF Inv, TypeOK
<1>11. CASE DeferredCancelServe
  <2>1. HttpTypeOK'
    BY <1>11 DEF DeferredCancelServe, Inv, TypeOK, HttpTypeOK, ServerPcs
  <2>2. DepTypeOK'
    BY <1>11 DEF DeferredCancelServe, Inv, TypeOK, DepTypeOK, RunPcs, RunResults, ServeResults
  <2>3. HttpInv'
    BY <1>11 DEF DeferredCancelServe, Inv, HttpInv, RunInv, NoneActive, PcAfterSetReady
  <2>4. RunInv'
    BY <1>11 DEF DeferredCancelServe, Inv, TypeOK, DepTypeOK, HttpTypeOK, HttpInv, RunInv, RunPcs, BeforeCancel,
                 ServeResults, PcAfterSetReady
  <2>5. RoundInv'
    BY <1>11 DEF DeferredCancelServe, Inv, TypeOK, DepTypeOK, RunInv, RoundInv, RoundFinished, NoneFailed,
                 Finished, PcAfterSetReady
  <2>6. RetryInv'
    BY <1>11 DEF DeferredCancelServe, Inv, RunInv, RetryInv, ValidPolicy, PcAfterSetReady
  <2>7. MainInv'
    BY <1>11 DEF DeferredCancelServe, Inv, TypeOK, DepTypeOK, RunInv, MainInv, RunPcs, MainPcs
  <2> QED
    BY <2>1, <2>2, <2>3, <2>4, <2>5, <2>6, <2>7 DEF Inv, TypeOK
<1>12. CASE DeferredSetReady
  <2>1. HttpTypeOK'
    <3>1. healthReady' \in BOOLEAN
      BY <1>12 DEF DeferredSetReady, NoneFailed
    <3> QED
      BY <1>12, <3>1 DEF DeferredSetReady, Inv, TypeOK, HttpTypeOK
  <2>2. DepTypeOK'
    BY <1>12 DEF DeferredSetReady, Inv, TypeOK, DepTypeOK, RunPcs, RunResults, ServeResults
  <2>3. HttpInv'
    BY <1>12 DEF DeferredSetReady, Inv, HttpInv, RunInv, NoneActive, PcAfterSetReady
  <2>4. RunInv'
    BY <1>12 DEF DeferredSetReady, Inv, TypeOK, DepTypeOK, HttpTypeOK, HttpInv, RunInv, RunPcs, BeforeCancel,
                 ServeResults, PcAfterSetReady
  <2>5. RoundInv'
    BY <1>12 DEF DeferredSetReady, Inv, TypeOK, DepTypeOK, RunInv, RoundInv, RoundFinished, NoneFailed,
                 Finished, PcAfterSetReady
  <2>6. RetryInv'
    BY <1>12 DEF DeferredSetReady, Inv, RunInv, RetryInv, ValidPolicy, PcAfterSetReady
  <2>7. MainInv'
    BY <1>12 DEF DeferredSetReady, Inv, TypeOK, DepTypeOK, RunInv, MainInv, RunPcs, MainPcs
  <2> QED
    BY <2>1, <2>2, <2>3, <2>4, <2>5, <2>6, <2>7 DEF Inv, TypeOK
<1>13. CASE StartupSelectServeResult
  <2>1. HttpTypeOK'
    BY <1>13 DEF StartupSelectServeResult, Inv, TypeOK, HttpTypeOK, ServerPcs
  <2>2. DepTypeOK'
    BY <1>13 DEF StartupSelectServeResult, Inv, TypeOK, DepTypeOK, RunPcs, RunResults, ServeResults
  <2>3. HttpInv'
    BY <1>13 DEF StartupSelectServeResult, Inv, HttpInv, RunInv, NoneActive, PcAfterSetReady
  <2>4. RunInv'
    BY <1>13 DEF StartupSelectServeResult, Inv, TypeOK, DepTypeOK, HttpTypeOK, HttpInv, RunInv, RunPcs, BeforeCancel,
                 ServeResults, PcAfterSetReady
  <2>5. RoundInv'
    BY <1>13 DEF StartupSelectServeResult, Inv, TypeOK, DepTypeOK, RunInv, RoundInv, RoundFinished, NoneFailed,
                 Finished, PcAfterSetReady
  <2>6. RetryInv'
    BY <1>13 DEF StartupSelectServeResult, Inv, RunInv, RetryInv, ValidPolicy, PcAfterSetReady
  <2>7. MainInv'
    BY <1>13 DEF StartupSelectServeResult, Inv, TypeOK, DepTypeOK, RunInv, MainInv, RunPcs, MainPcs
  <2> QED
    BY <2>1, <2>2, <2>3, <2>4, <2>5, <2>6, <2>7 DEF Inv, TypeOK
<1>14. CASE StartupSelectDone
  <2>1. HttpTypeOK'
    BY <1>14 DEF StartupSelectDone, Inv, TypeOK, HttpTypeOK, ServerPcs
  <2>2. DepTypeOK'
    BY <1>14 DEF StartupSelectDone, Inv, TypeOK, DepTypeOK, RunPcs, RunResults, ServeResults
  <2>3. HttpInv'
    BY <1>14 DEF StartupSelectDone, Inv, HttpInv, RunInv, NoneActive, PcAfterSetReady
  <2>4. RunInv'
    BY <1>14 DEF StartupSelectDone, Inv, TypeOK, DepTypeOK, HttpTypeOK, HttpInv, RunInv, RunPcs, BeforeCancel,
                 ServeResults, PcAfterSetReady
  <2>5. RoundInv'
    BY <1>14 DEF StartupSelectDone, Inv, TypeOK, DepTypeOK, RunInv, RoundInv, RoundFinished, NoneFailed,
                 Finished, PcAfterSetReady
  <2>6. RetryInv'
    BY <1>14 DEF StartupSelectDone, Inv, RunInv, RetryInv, ValidPolicy, PcAfterSetReady
  <2>7. MainInv'
    BY <1>14 DEF StartupSelectDone, Inv, TypeOK, DepTypeOK, RunInv, MainInv, RunPcs, MainPcs
  <2> QED
    BY <2>1, <2>2, <2>3, <2>4, <2>5, <2>6, <2>7 DEF Inv, TypeOK
<1>15. CASE StartupSelectTimer
  <2>1. HttpTypeOK'
    BY <1>15 DEF StartupSelectTimer, Inv, TypeOK, HttpTypeOK, ServerPcs
  <2>2. DepTypeOK'
    BY <1>15, PoliciesAssumption DEF StartupSelectTimer, Inv, TypeOK, DepTypeOK, RunPcs, MinInt
  <2>3. HttpInv'
    BY <1>15 DEF StartupSelectTimer, Inv, HttpInv, RunInv, NoneActive, PcAfterSetReady
  <2>4. RunInv'
    BY <1>15 DEF StartupSelectTimer, Inv, TypeOK, DepTypeOK, HttpTypeOK, HttpInv, RunInv, RunPcs, BeforeCancel,
                 ServeResults, PcAfterSetReady
  <2>5. RoundInv'
    BY <1>15 DEF StartupSelectTimer, Inv, TypeOK, DepTypeOK, RunInv, RoundInv, RoundFinished, NoneFailed,
                 Finished, PcAfterSetReady
  <2>6. RetryInv'
    <3>1. policy.retryMinimum \in Int /\ policy.retryMaximum \in Int
      BY PoliciesAssumption DEF Inv, TypeOK, DepTypeOK
    <3>2. retryDelay \in Int
      BY DEF Inv, TypeOK, DepTypeOK
    <3> QED
      BY <1>15, <3>1, <3>2 DEF StartupSelectTimer, Inv, RetryInv, ValidPolicy, MinInt, PcAfterSetReady
  <2>7. MainInv'
    BY <1>15 DEF StartupSelectTimer, Inv, TypeOK, DepTypeOK, RunInv, MainInv, RunPcs, MainPcs
  <2> QED
    BY <2>1, <2>2, <2>3, <2>4, <2>5, <2>6, <2>7 DEF Inv, TypeOK
<1>16. CASE SteadyServeResult
  <2>1. HttpTypeOK'
    BY <1>16 DEF SteadyServeResult, Inv, TypeOK, HttpTypeOK, ServerPcs
  <2>2. DepTypeOK'
    BY <1>16 DEF SteadyServeResult, Inv, TypeOK, DepTypeOK, RunPcs, RunResults, ServeResults
  <2>3. HttpInv'
    BY <1>16 DEF SteadyServeResult, Inv, HttpInv, RunInv, NoneActive, PcAfterSetReady
  <2>4. RunInv'
    BY <1>16 DEF SteadyServeResult, Inv, TypeOK, DepTypeOK, HttpTypeOK, HttpInv, RunInv, RunPcs, BeforeCancel,
                 ServeResults, PcAfterSetReady
  <2>5. RoundInv'
    BY <1>16 DEF SteadyServeResult, Inv, TypeOK, DepTypeOK, RunInv, RoundInv, RoundFinished, NoneFailed,
                 Finished, PcAfterSetReady
  <2>6. RetryInv'
    BY <1>16 DEF SteadyServeResult, Inv, RunInv, RetryInv, ValidPolicy, PcAfterSetReady
  <2>7. MainInv'
    BY <1>16 DEF SteadyServeResult, Inv, TypeOK, DepTypeOK, RunInv, MainInv, RunPcs, MainPcs
  <2> QED
    BY <2>1, <2>2, <2>3, <2>4, <2>5, <2>6, <2>7 DEF Inv, TypeOK
<1>17. CASE SteadySignal
  <2>1. HttpTypeOK'
    <3>1. healthReady' \in BOOLEAN
      BY <1>17 DEF SteadySignal, NoneFailed
    <3> QED
      BY <1>17, <3>1 DEF SteadySignal, Inv, TypeOK, HttpTypeOK
  <2>2. DepTypeOK'
    BY <1>17 DEF SteadySignal, Inv, TypeOK, DepTypeOK, RunPcs, RunResults, ServeResults
  <2>3. HttpInv'
    BY <1>17 DEF SteadySignal, Inv, HttpInv, RunInv, NoneActive, PcAfterSetReady
  <2>4. RunInv'
    BY <1>17 DEF SteadySignal, Inv, TypeOK, DepTypeOK, HttpTypeOK, HttpInv, RunInv, RunPcs, BeforeCancel,
                 ServeResults, PcAfterSetReady
  <2>5. RoundInv'
    BY <1>17 DEF SteadySignal, Inv, TypeOK, DepTypeOK, RunInv, RoundInv, RoundFinished, NoneFailed,
                 Finished, PcAfterSetReady
  <2>6. RetryInv'
    BY <1>17 DEF SteadySignal, Inv, RunInv, RetryInv, ValidPolicy, PcAfterSetReady
  <2>7. MainInv'
    BY <1>17 DEF SteadySignal, Inv, TypeOK, DepTypeOK, RunInv, MainInv, RunPcs, MainPcs
  <2> QED
    BY <2>1, <2>2, <2>3, <2>4, <2>5, <2>6, <2>7 DEF Inv, TypeOK
<1>18. CASE SteadyTick
  <2>1. HttpTypeOK'
    BY <1>18 DEF SteadyTick, Inv, TypeOK, HttpTypeOK, ServerPcs
  <2>2. DepTypeOK'
    BY <1>18 DEF SteadyTick, Inv, TypeOK, DepTypeOK, RunPcs, RunResults, ServeResults
  <2>3. HttpInv'
    BY <1>18 DEF SteadyTick, Inv, HttpInv, RunInv, NoneActive, PcAfterSetReady
  <2>4. RunInv'
    BY <1>18 DEF SteadyTick, Inv, TypeOK, DepTypeOK, HttpTypeOK, HttpInv, RunInv, RunPcs, BeforeCancel,
                 ServeResults, PcAfterSetReady
  <2>5. RoundInv'
    BY <1>18 DEF SteadyTick, Inv, TypeOK, DepTypeOK, RunInv, RoundInv, RoundFinished, NoneFailed,
                 Finished, PcAfterSetReady
  <2>6. RetryInv'
    BY <1>18 DEF SteadyTick, Inv, RunInv, RetryInv, ValidPolicy, PcAfterSetReady
  <2>7. MainInv'
    BY <1>18 DEF SteadyTick, Inv, TypeOK, DepTypeOK, RunInv, MainInv, RunPcs, MainPcs
  <2> QED
    BY <2>1, <2>2, <2>3, <2>4, <2>5, <2>6, <2>7 DEF Inv, TypeOK
<1>19. CASE ServeGoroutineSends
  <2>1. HttpTypeOK'
    BY <1>19 DEF ServeGoroutineSends, Inv, TypeOK, HttpTypeOK, ServerPcs
  <2>2. DepTypeOK'
    BY <1>19 DEF ServeGoroutineSends, Inv, TypeOK, DepTypeOK, HttpTypeOK
  <2>3. HttpInv'
    BY <1>19 DEF ServeGoroutineSends, Inv, HttpInv, RunInv, NoneActive, PcAfterSetReady
  <2>4. RunInv'
    BY <1>19 DEF ServeGoroutineSends, Inv, TypeOK, DepTypeOK, HttpTypeOK, HttpInv, RunInv, RunPcs, BeforeCancel,
                 ServeResults, PcAfterSetReady
  <2>5. RoundInv'
    BY <1>19 DEF ServeGoroutineSends, Inv, TypeOK, DepTypeOK, RunInv, RoundInv, RoundFinished, NoneFailed,
                 Finished, PcAfterSetReady
  <2>6. RetryInv'
    BY <1>19 DEF ServeGoroutineSends, Inv, RunInv, RetryInv, ValidPolicy, PcAfterSetReady
  <2>7. MainInv'
    BY <1>19 DEF ServeGoroutineSends, Inv, TypeOK, DepTypeOK, RunInv, MainInv, RunPcs, MainPcs
  <2> QED
    BY <2>1, <2>2, <2>3, <2>4, <2>5, <2>6, <2>7 DEF Inv, TypeOK
<1>20. CASE StartupTimerExpires
  <2>1. HttpTypeOK'
    BY <1>20 DEF StartupTimerExpires, Inv, TypeOK, HttpTypeOK, ServerPcs
  <2>2. DepTypeOK'
    BY <1>20 DEF StartupTimerExpires, Inv, TypeOK, DepTypeOK, RunPcs, RunResults, ServeResults
  <2>3. HttpInv'
    BY <1>20 DEF StartupTimerExpires, Inv, HttpInv, RunInv, NoneActive, PcAfterSetReady
  <2>4. RunInv'
    BY <1>20 DEF StartupTimerExpires, Inv, TypeOK, DepTypeOK, HttpTypeOK, HttpInv, RunInv, RunPcs, BeforeCancel,
                 ServeResults, PcAfterSetReady
  <2>5. RoundInv'
    BY <1>20 DEF StartupTimerExpires, Inv, TypeOK, DepTypeOK, RunInv, RoundInv, RoundFinished, NoneFailed,
                 Finished, PcAfterSetReady
  <2>6. RetryInv'
    BY <1>20 DEF StartupTimerExpires, Inv, RunInv, RetryInv, ValidPolicy, PcAfterSetReady
  <2>7. MainInv'
    BY <1>20 DEF StartupTimerExpires, Inv, TypeOK, DepTypeOK, RunInv, MainInv, RunPcs, MainPcs
  <2> QED
    BY <2>1, <2>2, <2>3, <2>4, <2>5, <2>6, <2>7 DEF Inv, TypeOK
<1>21. ASSUME NEW p \in Probes, PingEnds(p)
      PROVE  Inv'
  <2>1. HttpTypeOK'
    BY <1>21 DEF PingEnds, Inv, TypeOK, HttpTypeOK, ServerPcs
  <2>2. DepTypeOK'
    <3>1. depGauge' \in [Probes -> BOOLEAN]
      BY <1>21 DEF PingEnds, Inv, TypeOK, DepTypeOK
    <3>2. probe' \in [Probes -> {"idle", "ping"} \cup Finished]
      BY <1>21 DEF PingEnds, Inv, TypeOK, DepTypeOK, Finished
    <3> QED
      BY <1>21, <3>1, <3>2 DEF PingEnds, Inv, TypeOK, DepTypeOK
  <2>3. HttpInv'
    BY <1>21 DEF PingEnds, Inv, HttpInv, RunInv, NoneActive, PcAfterSetReady
  <2>4. RunInv'
    BY <1>21 DEF PingEnds, Inv, TypeOK, DepTypeOK, HttpTypeOK, HttpInv, RunInv, RunPcs, BeforeCancel,
                 ServeResults, PcAfterSetReady
  <2>5. RoundInv'
    BY <1>21 DEF PingEnds, Inv, TypeOK, DepTypeOK, RunInv, RoundInv, RoundFinished, NoneFailed,
                 Finished, PcAfterSetReady
  <2>6. RetryInv'
    BY <1>21 DEF PingEnds, Inv, RunInv, RetryInv, ValidPolicy, PcAfterSetReady
  <2>7. MainInv'
    BY <1>21 DEF PingEnds, Inv, TypeOK, DepTypeOK, RunInv, MainInv, RunPcs, MainPcs
  <2> QED
    BY <2>1, <2>2, <2>3, <2>4, <2>5, <2>6, <2>7 DEF Inv, TypeOK
<1>22. ASSUME NEW p \in Probes, DependencyChanges(p)
      PROVE  Inv'
  <2>1. HttpTypeOK'
    BY <1>22 DEF DependencyChanges, Inv, TypeOK, HttpTypeOK, ServerPcs
  <2>2. DepTypeOK'
    BY <1>22 DEF DependencyChanges, Inv, TypeOK, DepTypeOK, RunPcs, RunResults, ServeResults
  <2>3. HttpInv'
    BY <1>22 DEF DependencyChanges, Inv, HttpInv, RunInv, NoneActive, PcAfterSetReady
  <2>4. RunInv'
    BY <1>22 DEF DependencyChanges, Inv, TypeOK, DepTypeOK, HttpTypeOK, HttpInv, RunInv, RunPcs, BeforeCancel,
                 ServeResults, PcAfterSetReady
  <2>5. RoundInv'
    BY <1>22 DEF DependencyChanges, Inv, TypeOK, DepTypeOK, RunInv, RoundInv, RoundFinished, NoneFailed,
                 Finished, PcAfterSetReady
  <2>6. RetryInv'
    BY <1>22 DEF DependencyChanges, Inv, RunInv, RetryInv, ValidPolicy, PcAfterSetReady
  <2>7. MainInv'
    BY <1>22 DEF DependencyChanges, Inv, TypeOK, DepTypeOK, RunInv, MainInv, RunPcs, MainPcs
  <2> QED
    BY <2>1, <2>2, <2>3, <2>4, <2>5, <2>6, <2>7 DEF Inv, TypeOK
<1> QED
  BY <1>1, <1>2, <1>3, <1>4, <1>5, <1>6, <1>7, <1>8, <1>9, <1>10, <1>11, <1>12, <1>13,
     <1>14, <1>15, <1>16, <1>17, <1>18, <1>19, <1>20, <1>21, <1>22
     DEF RunNext, RunStep, StartupSelect, SteadySelect

-----------------------------------------------------------------------------
(* Steps of main, and signals *)

\* Every step of main preserves the invariant.
LEMMA MainStepInv ==
  ASSUME Inv, MainStep
  PROVE  Inv'
<1>1. CASE LoadConfig
  <2>1. TypeOK'
    BY <1>1 DEF LoadConfig, Fails, Inv, TypeOK, HttpTypeOK, DepTypeOK, MainPcs, Resources, Clients,
                 httpVars, depVars, RunPcs
  <2>2. HttpInv' /\ RoundInv' /\ RetryInv'
    BY <1>1 DEF LoadConfig, Fails, Inv, HttpInv, RunInv, RoundInv, RetryInv, MainInv, NoneActive, RoundFinished,
                 NoneFailed, ValidPolicy, PcAfterSetReady, httpVars, depVars
  <2>3. RunInv'
    BY <1>1 DEF LoadConfig, Fails, Inv, RunInv, MainInv, PcAfterSetReady, BeforeCancel, httpVars, depVars
  <2>4. MainInv'
    BY <1>1 DEF LoadConfig, Fails, Inv, RunInv, MainInv, Resources, Clients, httpVars, depVars
  <2> QED
    BY <2>1, <2>2, <2>3, <2>4 DEF Inv
<1>2. CASE NewTelemetry
  <2>1. TypeOK'
    <3>1. resources' \in SUBSET Resources
      BY <1>2 DEF NewTelemetry, Fails, Inv, TypeOK, Resources, Clients
    <3>2. exitCode' \in {"none", "0", "1"} /\ mainPc' \in MainPcs
      BY <1>2 DEF NewTelemetry, Fails, Inv, TypeOK, MainPcs
    <3>3. HttpTypeOK' /\ DepTypeOK'
      BY <1>2 DEF NewTelemetry, Fails, Inv, TypeOK, HttpTypeOK, DepTypeOK, RunPcs, httpVars, depVars
    <3> QED
      BY <3>1, <3>2, <3>3 DEF TypeOK
  <2>2. HttpInv' /\ RoundInv' /\ RetryInv'
    BY <1>2 DEF NewTelemetry, Fails, Inv, HttpInv, RunInv, RoundInv, RetryInv, MainInv, NoneActive, RoundFinished,
                 NoneFailed, ValidPolicy, PcAfterSetReady, httpVars, depVars
  <2>3. RunInv'
    BY <1>2 DEF NewTelemetry, Fails, Inv, RunInv, MainInv, PcAfterSetReady, BeforeCancel, httpVars, depVars
  <2>4. MainInv'
    BY <1>2 DEF NewTelemetry, Fails, Inv, RunInv, MainInv, Resources, Clients, httpVars, depVars
  <2> QED
    BY <2>1, <2>2, <2>3, <2>4 DEF Inv
<1>3. CASE OpenPostgreSQL
  <2>1. TypeOK'
    <3>1. resources' \in SUBSET Resources
      BY <1>3 DEF OpenPostgreSQL, Fails, Inv, TypeOK, Resources, Clients
    <3>2. exitCode' \in {"none", "0", "1"} /\ mainPc' \in MainPcs
      BY <1>3 DEF OpenPostgreSQL, Fails, Inv, TypeOK, MainPcs
    <3>3. HttpTypeOK' /\ DepTypeOK'
      BY <1>3 DEF OpenPostgreSQL, Fails, Inv, TypeOK, HttpTypeOK, DepTypeOK, RunPcs, httpVars, depVars
    <3> QED
      BY <3>1, <3>2, <3>3 DEF TypeOK
  <2>2. HttpInv' /\ RoundInv' /\ RetryInv'
    BY <1>3 DEF OpenPostgreSQL, Fails, Inv, HttpInv, RunInv, RoundInv, RetryInv, MainInv, NoneActive, RoundFinished,
                 NoneFailed, ValidPolicy, PcAfterSetReady, httpVars, depVars
  <2>3. RunInv'
    BY <1>3 DEF OpenPostgreSQL, Fails, Inv, RunInv, MainInv, PcAfterSetReady, BeforeCancel, httpVars, depVars
  <2>4. MainInv'
    BY <1>3 DEF OpenPostgreSQL, Fails, Inv, RunInv, MainInv, Resources, Clients, httpVars, depVars
  <2> QED
    BY <2>1, <2>2, <2>3, <2>4 DEF Inv
<1>4. CASE OpenRedis
  <2>1. TypeOK'
    <3>1. resources' \in SUBSET Resources
      BY <1>4 DEF OpenRedis, Fails, Inv, TypeOK, Resources, Clients
    <3>2. exitCode' \in {"none", "0", "1"} /\ mainPc' \in MainPcs
      BY <1>4 DEF OpenRedis, Fails, Inv, TypeOK, MainPcs
    <3>3. HttpTypeOK' /\ DepTypeOK'
      BY <1>4 DEF OpenRedis, Fails, Inv, TypeOK, HttpTypeOK, DepTypeOK, RunPcs, httpVars, depVars
    <3> QED
      BY <3>1, <3>2, <3>3 DEF TypeOK
  <2>2. HttpInv' /\ RoundInv' /\ RetryInv'
    BY <1>4 DEF OpenRedis, Fails, Inv, HttpInv, RunInv, RoundInv, RetryInv, MainInv, NoneActive, RoundFinished,
                 NoneFailed, ValidPolicy, PcAfterSetReady, httpVars, depVars
  <2>3. RunInv'
    BY <1>4 DEF OpenRedis, Fails, Inv, RunInv, MainInv, PcAfterSetReady, BeforeCancel, httpVars, depVars
  <2>4. MainInv'
    BY <1>4 DEF OpenRedis, Fails, Inv, RunInv, MainInv, Resources, Clients, httpVars, depVars
  <2> QED
    BY <2>1, <2>2, <2>3, <2>4 DEF Inv
<1>5. CASE RunEnded
  <2>1. TypeOK'
    BY <1>5 DEF RunEnded, Inv, TypeOK, HttpTypeOK, DepTypeOK, MainPcs, Resources, Clients,
                 httpVars, depVars, RunPcs
  <2>2. HttpInv' /\ RoundInv' /\ RetryInv'
    BY <1>5 DEF RunEnded, Inv, HttpInv, RunInv, RoundInv, RetryInv, MainInv, NoneActive, RoundFinished,
                 NoneFailed, ValidPolicy, PcAfterSetReady, httpVars, depVars
  <2>3. RunInv'
    BY <1>5 DEF RunEnded, Inv, RunInv, MainInv, PcAfterSetReady, BeforeCancel, httpVars, depVars
  <2>4. MainInv'
    BY <1>5 DEF RunEnded, Inv, RunInv, MainInv, Resources, Clients, httpVars, depVars
  <2> QED
    BY <2>1, <2>2, <2>3, <2>4 DEF Inv
<1>6. CASE CloseRedis
  <2>1. TypeOK'
    BY <1>6 DEF CloseRedis, CloseStep, Inv, TypeOK, HttpTypeOK, DepTypeOK, MainPcs, Resources, Clients,
                 httpVars, depVars, RunPcs
  <2>2. HttpInv' /\ RoundInv' /\ RetryInv'
    BY <1>6 DEF CloseRedis, CloseStep, Inv, HttpInv, RunInv, RoundInv, RetryInv, MainInv, NoneActive, RoundFinished,
                 NoneFailed, ValidPolicy, PcAfterSetReady, httpVars, depVars
  <2>3. RunInv'
    BY <1>6 DEF CloseRedis, CloseStep, Inv, RunInv, MainInv, PcAfterSetReady, BeforeCancel, httpVars, depVars
  <2>4. MainInv'
    BY <1>6 DEF CloseRedis, CloseStep, Inv, RunInv, MainInv, Resources, Clients, httpVars, depVars
  <2> QED
    BY <2>1, <2>2, <2>3, <2>4 DEF Inv
<1>7. CASE ClosePostgreSQL
  <2>1. TypeOK'
    BY <1>7 DEF ClosePostgreSQL, CloseStep, Inv, TypeOK, HttpTypeOK, DepTypeOK, MainPcs, Resources, Clients,
                 httpVars, depVars, RunPcs
  <2>2. HttpInv' /\ RoundInv' /\ RetryInv'
    BY <1>7 DEF ClosePostgreSQL, CloseStep, Inv, HttpInv, RunInv, RoundInv, RetryInv, MainInv, NoneActive, RoundFinished,
                 NoneFailed, ValidPolicy, PcAfterSetReady, httpVars, depVars
  <2>3. RunInv'
    BY <1>7 DEF ClosePostgreSQL, CloseStep, Inv, RunInv, MainInv, PcAfterSetReady, BeforeCancel, httpVars, depVars
  <2>4. MainInv'
    BY <1>7 DEF ClosePostgreSQL, CloseStep, Inv, RunInv, MainInv, Resources, Clients, httpVars, depVars
  <2> QED
    BY <2>1, <2>2, <2>3, <2>4 DEF Inv
<1>8. CASE ShutdownTelemetry
  <2>1. TypeOK'
    BY <1>8 DEF ShutdownTelemetry, CloseStep, Inv, TypeOK, HttpTypeOK, DepTypeOK, MainPcs, Resources, Clients,
                 httpVars, depVars, RunPcs
  <2>2. HttpInv' /\ RoundInv' /\ RetryInv'
    BY <1>8 DEF ShutdownTelemetry, CloseStep, Inv, HttpInv, RunInv, RoundInv, RetryInv, MainInv, NoneActive, RoundFinished,
                 NoneFailed, ValidPolicy, PcAfterSetReady, httpVars, depVars
  <2>3. RunInv'
    BY <1>8 DEF ShutdownTelemetry, CloseStep, Inv, RunInv, MainInv, PcAfterSetReady, BeforeCancel, httpVars, depVars
  <2>4. MainInv'
    BY <1>8 DEF ShutdownTelemetry, CloseStep, Inv, RunInv, MainInv, Resources, Clients, httpVars, depVars
  <2> QED
    BY <2>1, <2>2, <2>3, <2>4 DEF Inv
<1> QED
  BY <1>1, <1>2, <1>3, <1>4, <1>5, <1>6, <1>7, <1>8 DEF MainStep

\* The invariant survives a signal at any point.
LEMMA SignalInv ==
  ASSUME Inv, Signal
  PROVE  Inv'
<1>1. TypeOK'
  BY DEF Signal, Inv, TypeOK, HttpTypeOK, DepTypeOK, httpVars, mainVars
<1>2. HttpInv' /\ RoundInv'
  BY DEF Signal, Inv, HttpInv, RoundInv, NoneActive, RoundFinished, NoneFailed,
         PcAfterSetReady, httpVars
<1>3. RunInv'
  BY DEF Signal, Inv, RunInv, PcAfterSetReady, httpVars
<1>4. RetryInv'
  BY DEF Signal, Inv, RetryInv, ValidPolicy, PcAfterSetReady
<1>5. MainInv'
  BY DEF Signal, Inv, MainInv, mainVars
<1> QED
  BY <1>1, <1>2, <1>3, <1>4, <1>5 DEF Inv

\* A step that changes nothing preserves the invariant.
LEMMA StutterInv ==
  ASSUME Inv, UNCHANGED vars
  PROVE  Inv'
<1> USE DEF vars, httpVars, depVars, mainVars, Inv
<1>1. TypeOK'
  BY DEF TypeOK, HttpTypeOK, DepTypeOK
<1>2. HttpInv' /\ RoundInv'
  BY DEF HttpInv, RoundInv, NoneActive, RoundFinished, NoneFailed, PcAfterSetReady
<1>3. RunInv'
  BY DEF RunInv, PcAfterSetReady
<1>4. RetryInv'
  BY DEF RetryInv, ValidPolicy, PcAfterSetReady
<1>5. MainInv'
  BY DEF MainInv
<1> QED
  BY <1>1, <1>2, <1>3, <1>4, <1>5

-----------------------------------------------------------------------------
(* Theorems *)

\* The invariant of ServiceInv holds in every state of every behaviour of a
\* service (main.go, readiness.go, server.go).
THEOREM Invariance == Spec => []Inv
<1>1. Inv /\ [Next]_vars => Inv'
  BY ServerStepInv, RunStepInv, MainStepInv, SignalInv, StutterInv DEF Next, Exited
<1> QED
  BY InitInv, <1>1, PTL DEF Spec

\* Type correctness of the composed service.
THEOREM TypeCorrectness == Spec => []TypeOK
  BY Invariance, PTL DEF Inv

\* Readiness is withdrawn before the HTTP server starts to drain, and is not
\* given again while it drains (readiness.go:65-67,86-88,108-110).
THEOREM ReadinessWithdrawnFirst == Spec => []NotReadyWhileDraining
<1>1. Inv => NotReadyWhileDraining
  BY DEF Inv, RunInv, TypeOK, DepTypeOK, RunPcs, NotReadyWhileDraining, ServerRuns,
         PcAfterSetReady, BeforeCancel
<1> QED
  BY Invariance, <1>1, PTL

\* Neither a probe goroutine nor the HTTP server outlives the clients and the
\* telemetry it uses (main.go:42-52).
THEOREM ResourcesOutliveUsers == Spec => []NoUseAfterClose
<1>1. Inv => NoUseAfterClose
  <2> SUFFICES ASSUME Inv, (\E p \in Probes : probe[p] = "ping") \/ ServerRuns
               PROVE  Resources \subseteq resources
    BY DEF NoUseAfterClose
  <2>1. runPc \notin {"idle", "done"}
    BY DEF Inv, RunInv, RoundInv, ServerRuns, PcAfterSetReady
  <2>2. mainPc = "run"
    BY <2>1 DEF Inv, TypeOK, MainPcs, MainInv
  <2> QED
    BY <2>2 DEF Inv, MainInv, Resources, Clients
<1> QED
  BY Invariance, <1>1, PTL

\* Status 0 means a signal was received and every request was answered
\* (main.go:23-26, readiness.go:90-96, server.go:53-61).
THEOREM SuccessMeansDrained == Spec => []ExitZeroMeansDrained
<1>1. Inv => ExitZeroMeansDrained
  <2> SUFFICES ASSUME Inv, exitCode = "0", NEW c \in Conns
               PROVE  signalled /\ ~HandlerRuns(c)
    BY DEF ExitZeroMeansDrained, Inv, MainInv, RunInv
  <2>1. runReturn = "nil"
    BY DEF Inv, MainInv
  <2>2. signalled /\ serveReturn = "nil" /\ serverPc = "gone"
    BY <2>1 DEF Inv, RunInv
  <2> QED
    BY <2>2 DEF Inv, HttpInv, NoneActive, HandlerRuns
<1> QED
  BY Invariance, <1>1, PTL

\* Between rounds /health/ready, the service gauge and the dependency gauges
\* agree (readiness.go:113,129-131, main.go:51).
THEOREM ReadinessSignalsAgree == Spec => []MetricsAgree
<1>1. Inv => MetricsAgree
  <2> SUFFICES ASSUME Inv, runPc = "steady"
               PROVE  gauge = healthReady /\ healthReady = \A p \in Probes : depGauge[p]
    BY DEF MetricsAgree
  <2>1. gauge = healthReady
    BY DEF Inv, RoundInv
  <2>2. RoundFinished /\ healthReady = NoneFailed
    BY DEF Inv, RoundInv, PcAfterSetReady
  <2>3. NoneFailed <=> \A p \in Probes : depGauge[p]
    BY <2>2 DEF Inv, RoundInv, RoundFinished, NoneFailed
  <2> QED
    BY <2>1, <2>2, <2>3 DEF NoneFailed
<1> QED
  BY Invariance, <1>1, PTL

\* However the process ends, it leaves nothing open, nothing running and
\* nothing ready (main.go:42-52, dependency.go:35, readiness.go:65-67).
THEOREM ExitIsClean == Spec => []ExitReleasesEverything
<1>1. Inv => ExitReleasesEverything
  <2> SUFFICES ASSUME Inv, mainPc = "exit"
               PROVE  ExitReleasesEverything
    BY DEF ExitReleasesEverything
  <2>1. resources = {}
    BY DEF Inv, TypeOK, MainInv, Resources, Clients
  <2>2. runPc \in {"idle", "done"}
    BY DEF Inv, MainInv
  <2>3. ~healthReady /\ ~gauge
    BY <2>2 DEF Inv, RunInv, PcAfterSetReady
  <2>4. serverPc \in {"idle", "gone"}
    BY <2>2 DEF Inv, RunInv, PcAfterSetReady
  <2>5. acceptPc \in {"none", "returned"} /\ ~listenerOpen
    BY <2>4 DEF Inv, HttpInv
  <2>6. \A p \in Probes : probe[p] # "ping"
    BY <2>2 DEF Inv, RoundInv
  <2> QED
    BY <2>1, <2>3, <2>4, <2>5, <2>6 DEF ExitReleasesEverything
<1> QED
  BY Invariance, <1>1, PTL

\* The startup delay never leaves the policy's limits (readiness.go:73,99).
THEOREM RetryDelayBounded == Spec => []RetryDelayWithinPolicy
<1>1. Inv => RetryDelayWithinPolicy
  BY DEF Inv, RetryInv, RetryDelayWithinPolicy
<1> QED
  BY Invariance, <1>1, PTL

\* Type correctness of the HTTP server inside the service (server.go:28-62).
THEOREM ServerTypeCorrectness == Spec => []HttpTypeOK
<1>1. Inv => HttpTypeOK
  BY DEF Inv, TypeOK, DepTypeOK
<1> QED
  BY Invariance, <1>1, PTL

\* Server.Run never returns with its port taken or its accept goroutine alive,
\* and returns nil only after a cancellation and a complete drain, whatever
\* the order of the accept loop's end, the grace period and the requests
\* (server.go:36-62).
THEOREM ServerStopsCleanly == Spec => []ReturnMeansStopped
<1>1. Inv => ReturnMeansStopped
  <2> SUFFICES ASSUME Inv, serverPc \in {"returned", "gone"}
               PROVE  /\ ~listenerOpen
                      /\ acceptPc \in {"none", "returned"}
                      /\ serveReturn = "nil" => serveCtxDone /\ \A c \in Conns : ~HandlerRuns(c)
    BY DEF ReturnMeansStopped
  <2>1. ~listenerOpen /\ acceptPc \in {"none", "returned"}
    BY DEF Inv, HttpInv
  <2>2. ASSUME serveReturn = "nil"
        PROVE  serveCtxDone /\ \A c \in Conns : ~HandlerRuns(c)
    <3>1. serverPc # "closeWait" /\ NoneActive /\ serveCtxDone
      BY <2>2 DEF Inv, HttpInv
    <3>2. \A c \in Conns : conn[c] # "orphan"
      BY <2>2, <3>1 DEF Inv, HttpInv
    <3> QED
      BY <3>1, <3>2 DEF HandlerRuns, NoneActive
  <2> QED
    BY <2>1, <2>2
<1> QED
  BY Invariance, <1>1, PTL

-----------------------------------------------------------------------------
(* The safety half of the refinement: every behaviour of Service is, seen *)
(* through Phase, a behaviour of ServiceContract.                         *)

\* A service that is starting satisfies the contract's initial condition.
LEMMA ContractInit == Init => Contract!Init
  BY DEF Init, HttpInit, DepInit, Contract!Init, Phase, ServerBroke, PcAfterSetReady

\* Run is called by main only: while it is under way nothing is decided.
LEMMA UndecidedWhileRunning ==
  ASSUME Inv, runPc \notin {"idle", "done"}
  PROVE  mainPc = "run" /\ exitCode = "none"
  BY DEF Inv, TypeOK, MainPcs, MainInv

\* Every step of dependency.Run, its probes and timers is a step of the
\* contract or leaves it alone.
LEMMA RunStepContract ==
  ASSUME Inv, Inv', RunNext, UNCHANGED mainVars
  PROVE  [Contract!Next]_(Contract!contractVars)
<1> USE DEF runEnvVars, serverVars, httpVars, mainVars, SetReady, TakeServeResult,
            BeforeCancel, Phase, ServerBroke, PcAfterSetReady
<1>1. CASE StoreGauge
  BY <1>1 DEF StoreGauge, Inv, TypeOK, HttpTypeOK, DepTypeOK, HttpInv, RunInv, RunPcs,
                   ServeResults, Contract!contractVars
<1>2. CASE RejectPolicy
  BY <1>2 DEF RejectPolicy, Inv, TypeOK, HttpTypeOK, DepTypeOK, HttpInv, RunInv, RunPcs,
                   ServeResults, Contract!contractVars
<1>3. CASE EnterRun
  BY <1>3 DEF EnterRun, Inv, TypeOK, HttpTypeOK, DepTypeOK, HttpInv, RunInv, RunPcs,
                   ServeResults, Contract!contractVars
<1>4. CASE SpawnServe
  BY <1>4 DEF SpawnServe, Inv, TypeOK, HttpTypeOK, DepTypeOK, HttpInv, RunInv, RunPcs,
                   ServeResults, Contract!contractVars
<1>5. CASE StartupSucceeds
  <2>1. exitCode = "none" /\ exitCode' = exitCode
    BY <1>5, UndecidedWhileRunning DEF StartupSucceeds
  <2>2. ~serveCtxDone
    BY <1>5 DEF StartupSucceeds, Inv, RunInv
  <2>3. \/ Phase = "starting" /\ Phase' = "serving"
        \/ Phase = "broken" /\ Phase' = "broken"
    BY <1>5, <2>1, <2>2 DEF StartupSucceeds
  <2>4. healthReady' = TRUE
    BY <1>5 DEF StartupSucceeds
  <2> QED
    BY ONLY <2>1, <2>3, <2>4 DEF Contract!Next, Contract!BeginServing, Contract!Break
<1>6. CASE StartupRoundFails
  BY <1>6 DEF StartupRoundFails, Inv, TypeOK, HttpTypeOK, DepTypeOK, HttpInv, RunInv, RunPcs,
                   ServeResults, Contract!contractVars
<1>7. CASE StartupAwaitServe
  BY <1>7 DEF StartupAwaitServe, Inv, TypeOK, HttpTypeOK, DepTypeOK, HttpInv, RunInv, RunPcs,
                   ServeResults, Contract!contractVars
<1>8. CASE CancelServe
  BY <1>8 DEF CancelServe, Inv, TypeOK, HttpTypeOK, DepTypeOK, HttpInv, RunInv, RunPcs,
                   ServeResults, Contract!Next, Contract!contractVars,
                   Contract!BeginDraining
<1>9. CASE AwaitServe
  BY <1>9 DEF AwaitServe, Inv, TypeOK, HttpTypeOK, DepTypeOK, HttpInv, RunInv, RunPcs,
                   ServeResults, Contract!contractVars
<1>10. CASE TickRoundEnds
  <2>1. Phase' = Phase /\ Phase \in {"serving", "broken"} /\ exitCode' = exitCode
    BY <1>10, UndecidedWhileRunning
       DEF TickRoundEnds, Inv, RunInv
  <2>2. healthReady' \in BOOLEAN
    BY DEF Inv, TypeOK, HttpTypeOK
  <2> QED
    BY ONLY <2>1, <2>2 DEF Contract!Next, Contract!ChangeReadiness, Contract!Break
<1>11. CASE DeferredCancelServe
  BY <1>11 DEF DeferredCancelServe, Inv, TypeOK, HttpTypeOK, DepTypeOK, HttpInv, RunInv, RunPcs,
                   ServeResults, Contract!Next, Contract!contractVars,
                   Contract!BeginDraining
<1>12. CASE DeferredSetReady
  <2>1. Phase' = Phase /\ exitCode' = exitCode
    BY <1>12 DEF DeferredSetReady, Inv, RunInv
  <2>2. healthReady' = FALSE
    BY <1>12 DEF DeferredSetReady
  <2>3. ~healthReady \/ Phase = "broken"
    BY <1>12, UndecidedWhileRunning DEF DeferredSetReady, Inv, RunInv
  <2>4. healthReady \in BOOLEAN
    BY DEF Inv, TypeOK, HttpTypeOK
  <2> QED
    BY ONLY <2>1, <2>2, <2>3, <2>4
       DEF Contract!Next, Contract!contractVars, Contract!Break
<1>13. CASE StartupSelectServeResult
  BY <1>13 DEF StartupSelectServeResult, Inv, TypeOK, HttpTypeOK, DepTypeOK, HttpInv, RunInv, RunPcs,
                   ServeResults, Contract!contractVars
<1>14. CASE StartupSelectDone
  BY <1>14 DEF StartupSelectDone, Inv, TypeOK, HttpTypeOK, DepTypeOK, HttpInv, RunInv, RunPcs,
                   ServeResults, Contract!Next, Contract!contractVars,
                   Contract!BeginDraining
<1>15. CASE StartupSelectTimer
  BY <1>15 DEF StartupSelectTimer, Inv, TypeOK, HttpTypeOK, DepTypeOK, HttpInv, RunInv, RunPcs,
                   ServeResults, Contract!contractVars
<1>16. CASE SteadyServeResult
  BY <1>16 DEF SteadyServeResult, Inv, TypeOK, HttpTypeOK, DepTypeOK, HttpInv, RunInv, RunPcs,
                   ServeResults, Contract!contractVars
<1>17. CASE SteadySignal
  <2>1. Phase' = Phase /\ Phase \in {"serving", "broken"} /\ exitCode' = exitCode
    BY <1>17, UndecidedWhileRunning
       DEF SteadySignal, Inv, RunInv
  <2>2. healthReady' \in BOOLEAN
    BY DEF Inv, TypeOK, HttpTypeOK
  <2> QED
    BY ONLY <2>1, <2>2 DEF Contract!Next, Contract!ChangeReadiness, Contract!Break
<1>18. CASE SteadyTick
  BY <1>18 DEF SteadyTick, Inv, TypeOK, HttpTypeOK, DepTypeOK, HttpInv, RunInv, RunPcs,
                   ServeResults, Contract!contractVars
<1>19. CASE ServeGoroutineSends
  BY <1>19 DEF ServeGoroutineSends, Inv, TypeOK, HttpTypeOK, DepTypeOK, HttpInv, RunInv, RunPcs,
                   ServeResults, Contract!contractVars
<1>20. CASE StartupTimerExpires
  BY <1>20 DEF StartupTimerExpires, Inv, TypeOK, HttpTypeOK, DepTypeOK, HttpInv, RunInv, RunPcs,
                   ServeResults, Contract!contractVars
<1>21. ASSUME NEW p \in Probes, PingEnds(p)
      PROVE  [Contract!Next]_(Contract!contractVars)
  BY <1>21 DEF PingEnds, Contract!contractVars
<1>22. ASSUME NEW p \in Probes, DependencyChanges(p)
      PROVE  [Contract!Next]_(Contract!contractVars)
  BY <1>22 DEF DependencyChanges, Contract!contractVars
<1> QED
  BY <1>1, <1>2, <1>3, <1>4, <1>5, <1>6, <1>7, <1>8, <1>9, <1>10, <1>11, <1>12, <1>13,
     <1>14, <1>15, <1>16, <1>17, <1>18, <1>19, <1>20, <1>21, <1>22
     DEF RunNext, RunStep, StartupSelect, SteadySelect

\* A step of the HTTP server breaks the transport or leaves the contract alone.
LEMMA ServerStepContract ==
  ASSUME Inv, Inv', HttpNext, UNCHANGED <<depVars, mainVars>>
  PROVE  [Contract!Next]_(Contract!contractVars)
<1>1. serveCtxDone' = serveCtxDone /\ healthReady' = healthReady
  BY HttpStepFrame DEF Inv, TypeOK
<1>2. Phase' = Phase \/ Phase' = "broken"
  BY <1>1, HttpStepFrame
     DEF Inv, TypeOK, HttpInv, Phase, ServerBroke, PcAfterSetReady, depVars, mainVars
<1>3. CASE Phase' = Phase
  BY <1>1, <1>3 DEF Contract!contractVars, mainVars
<1>4. CASE Phase' = "broken" /\ Phase' # Phase
  <2>1. Phase # "stopped"
    BY <1>4 DEF Phase, mainVars
  <2>2. Phase \in {"starting", "serving", "draining", "broken"}
    BY <2>1 DEF Phase
  <2>3. healthReady' \in BOOLEAN
    BY DEF Inv, TypeOK, HttpTypeOK
  <2> QED
    BY <2>2, <2>3, <1>4 DEF Contract!Next, Contract!Break, mainVars
<1> QED
  BY <1>2, <1>3, <1>4

\* A step of main stops the service or leaves the contract alone.
LEMMA MainStepContract ==
  ASSUME Inv, Inv', MainStep
  PROVE  [Contract!Next]_(Contract!contractVars)
<1> USE DEF Contract!Next, Contract!contractVars, Contract!Stop, Phase, ServerBroke,
            PcAfterSetReady
<1>1. CASE LoadConfig
  BY <1>1 DEF LoadConfig, Fails, Inv, TypeOK, HttpTypeOK, ServeResults, HttpInv,
            RunInv, MainInv, httpVars, depVars
<1>2. CASE NewTelemetry
  BY <1>2 DEF NewTelemetry, Fails, Inv, TypeOK, HttpTypeOK, ServeResults, HttpInv,
            RunInv, MainInv, httpVars, depVars
<1>3. CASE OpenPostgreSQL
  BY <1>3 DEF OpenPostgreSQL, Fails, Inv, TypeOK, HttpTypeOK, ServeResults, HttpInv,
            RunInv, MainInv, httpVars, depVars
<1>4. CASE OpenRedis
  BY <1>4 DEF OpenRedis, Fails, Inv, TypeOK, HttpTypeOK, ServeResults, HttpInv,
            RunInv, MainInv, httpVars, depVars
<1>5. CASE RunEnded
  BY <1>5 DEF RunEnded, Inv, TypeOK, HttpTypeOK, ServeResults, HttpInv,
            RunInv, MainInv, httpVars, depVars
<1>6. CASE CloseRedis
  BY <1>6 DEF CloseRedis, CloseStep, Inv, TypeOK, HttpTypeOK, ServeResults, HttpInv,
            RunInv, MainInv, httpVars, depVars
<1>7. CASE ClosePostgreSQL
  BY <1>7 DEF ClosePostgreSQL, CloseStep, Inv, TypeOK, HttpTypeOK, ServeResults, HttpInv,
            RunInv, MainInv, httpVars, depVars
<1>8. CASE ShutdownTelemetry
  BY <1>8 DEF ShutdownTelemetry, CloseStep, Inv, TypeOK, HttpTypeOK, ServeResults, HttpInv,
            RunInv, MainInv, httpVars, depVars
<1> QED
  BY <1>1, <1>2, <1>3, <1>4, <1>5, <1>6, <1>7, <1>8 DEF MainStep

\* Every step of a service is allowed by its contract: it is ready only while it
\* serves, drains only with readiness withdrawn, and reports success only
\* from a drain (readiness.go:51-116, server.go:36-62, main.go:23-53).
THEOREM ServiceImplementsContract == Spec => ContractSafety
<1>1. ASSUME Inv, Inv', [Next]_vars
      PROVE  [Contract!Next]_(Contract!contractVars)
  <2>1. CASE Signal \/ Exited \/ UNCHANGED vars
    BY <2>1 DEF Signal, Exited, vars, httpVars, depVars, mainVars, Contract!contractVars,
                Phase, ServerBroke, PcAfterSetReady
  <2> QED
    BY <1>1, <2>1, RunStepContract, ServerStepContract, MainStepContract DEF Next
<1> QED
  BY ContractInit, Invariance, <1>1, PTL DEF Spec, ContractSafety
=============================================================================

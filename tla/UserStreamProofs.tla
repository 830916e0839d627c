-------------------------- MODULE UserStreamProofs --------------------------
(***************************************************************************)
(* The safety properties of the user stream, for every number of keys and  *)
(* tolerated failures and whatever happens around the two tasks.  IInv is  *)
(* proved in four parts, each of which takes the steps one by one.         *)
(***************************************************************************)
EXTENDS UserStream, TLAPS

USE DEF stopVars, taskVars, keepVars, keyVars, flagVars, accountVars, started

\* Both tasks run at the start, and nothing has been given up.
LEMMA InitEstablishes == Init => IInv
  <1> SUFFICES ASSUME Init PROVE IInv
    OBVIOUS
  <1> USE DEF Init
  <1>1. FlagTypes
    BY DEF FlagTypes
  <1>2. ControlTypes
    BY DEF ControlTypes, Alive, UserLabel, KeepLabel
  <1>3. DataTypes /\ AccountTypes
    BY UserStreamAssumption DEF DataTypes, AccountTypes
  <1>4. FailuresLeft
    BY UserStreamAssumption DEF FailuresLeft
  <1>5. GivesUpTogether /\ NeverSilent /\ KeptTrackOf /\ Reasons
    BY DEF GivesUpTogether, NeverSilent, KeptTrackOf, Reasons, Alive
  <1>6. HealthyIsUp
    BY DEF HealthyIsUp
  <1>. QED
    BY <1>1, <1>2, <1>3, <1>4, <1>5, <1>6 DEF IInv, TypeOK

\* Flags stay flags.
LEMMA FlagsKept == IInv /\ [Next]_vars => FlagTypes'
  <1> SUFFICES ASSUME IInv, [Next]_vars PROVE FlagTypes'
    OBVIOUS
  <1> USE DEF IInv, TypeOK, FlagTypes
  <1>1. CASE AccountChanges
    BY <1>1 DEF AccountChanges
  <1>2. CASE KeyExpires
    BY <1>2 DEF KeyExpires
  <1>3. CASE AbandonedCloses
    BY <1>3 DEF AbandonedCloses
  <1>4. CASE Connects
    BY <1>4 DEF Connects, NewKey
  <1>5. CASE KeyRefused
    BY <1>5 DEF KeyRefused, UserGivesUp, AfterFailure
  <1>6. CASE ConnectFails
    BY <1>6 DEF ConnectFails, NewKey, AfterFailure, keyVars
  <1>7. CASE Disconnects
    BY <1>7 DEF Disconnects, AfterFailure, Lost
  <1>8. CASE TakesEvent
    BY <1>8 DEF TakesEvent, Lost
  <1>9. CASE EventHandled
    BY <1>9 DEF EventHandled
  <1>10. CASE ExpiryHandled
    BY <1>10 DEF ExpiryHandled, Reconcile
  <1>11. CASE GapReconciled
    BY <1>11 DEF GapReconciled, Reconcile
  <1>12. CASE RestartDelayOver
    BY <1>12 DEF RestartDelayOver, NewAttempt
  <1>13. CASE KeepStopped
    BY <1>13 DEF KeepStopped
  <1>14. CASE UserFarewell
    BY <1>14 DEF UserFarewell, Reconcile
  <1>15. CASE UserCancelled
    BY <1>15 DEF UserCancelled, Lost
  <1>16. CASE Sleeps
    BY <1>16 DEF Sleeps, KeepLoop
  <1>17. CASE Renewed
    BY <1>17 DEF Renewed, KeepLoop
  <1>18. CASE NotRenewed
    BY <1>18 DEF NotRenewed, RenewBanned, RenewExpired, RenewRetries, RenewFails, StopsUserStream, KeepLoop
  <1>19. CASE RestartReads
    BY <1>19 DEF RestartReads, Reconcile, StopsUserStream
  <1>20. CASE Restarts
    BY <1>20 DEF Restarts, KeepLoop, NewAttempt
  <1>21. CASE StreamStopped
    BY <1>21 DEF StreamStopped
  <1>22. CASE KeepFarewell
    BY <1>22 DEF KeepFarewell, Reconcile
  <1>23. CASE KeepCancelled
    BY <1>23 DEF KeepCancelled
  <1>24. CASE StopBegins
    BY <1>24 DEF StopBegins
  <1>25. CASE StopCancels
    BY <1>25 DEF StopCancels
  <1>26. CASE StopEnds
    BY <1>26 DEF StopEnds
  <1>27. CASE UNCHANGED vars
    BY <1>27 DEF vars
  <1>. QED
    BY <1>1, <1>2, <1>3, <1>4, <1>5, <1>6, <1>7, <1>8, <1>9, <1>10, <1>11, <1>12, <1>13, <1>14,
       <1>15, <1>16, <1>17, <1>18, <1>19, <1>20, <1>21, <1>22, <1>23, <1>24, <1>25, <1>26, <1>27
    DEF Next, VenueStep, UserStep, KeepStep, StopStep

\* Whoever leaves a stream clears its health flag, or abandons a generator.
LEMMA HealthKept == IInv /\ [Next]_vars => HealthyIsUp'
  <1> SUFFICES ASSUME IInv, [Next]_vars PROVE HealthyIsUp'
    OBVIOUS
  <1> USE DEF IInv, TypeOK, FlagTypes, DataTypes, HealthyIsUp, Connected
  <1>1. CASE AccountChanges
    BY <1>1 DEF AccountChanges
  <1>2. CASE KeyExpires
    BY <1>2 DEF KeyExpires
  <1>3. CASE AbandonedCloses
    BY <1>3 DEF AbandonedCloses
  <1>4. CASE Connects
    BY <1>4 DEF Connects, NewKey
  <1>5. CASE KeyRefused
    BY <1>5 DEF KeyRefused, UserGivesUp, AfterFailure
  <1>6. CASE ConnectFails
    BY <1>6 DEF ConnectFails, NewKey, AfterFailure, keyVars
  <1>7. CASE Disconnects
    BY <1>7 DEF Disconnects, AfterFailure, Lost
  <1>8. CASE TakesEvent
    BY <1>8 DEF TakesEvent, Lost
  <1>9. CASE EventHandled
    BY <1>9 DEF EventHandled
  <1>10. CASE ExpiryHandled
    BY <1>10 DEF ExpiryHandled, Reconcile
  <1>11. CASE GapReconciled
    BY <1>11 DEF GapReconciled, Reconcile
  <1>12. CASE RestartDelayOver
    BY <1>12 DEF RestartDelayOver, NewAttempt
  <1>13. CASE KeepStopped
    BY <1>13 DEF KeepStopped
  <1>14. CASE UserFarewell
    BY <1>14 DEF UserFarewell, Reconcile
  <1>15. CASE UserCancelled
    <2>1. closing' = IF user \in {"handle", "expired"} THEN closing + 1 ELSE closing
      BY <1>15 DEF UserCancelled
    <2>2. healthy' => healthy /\ user \notin {"connect", "stream"}
      BY <1>15 DEF UserCancelled
    <2>3. CASE user \in {"handle", "expired"}
      BY <2>1, <2>3
    <2>4. CASE user \notin {"handle", "expired"}
      BY <2>1, <2>2, <2>4
    <2>. QED
      BY <2>3, <2>4
  <1>16. CASE Sleeps
    BY <1>16 DEF Sleeps, KeepLoop
  <1>17. CASE Renewed
    BY <1>17 DEF Renewed, KeepLoop
  <1>18. CASE NotRenewed
    BY <1>18 DEF NotRenewed, RenewBanned, RenewExpired, RenewRetries, RenewFails, StopsUserStream, KeepLoop
  <1>19. CASE RestartReads
    BY <1>19 DEF RestartReads, Reconcile, StopsUserStream
  <1>20. CASE Restarts
    BY <1>20 DEF Restarts, KeepLoop, NewAttempt
  <1>21. CASE StreamStopped
    BY <1>21 DEF StreamStopped
  <1>22. CASE KeepFarewell
    BY <1>22 DEF KeepFarewell, Reconcile
  <1>23. CASE KeepCancelled
    BY <1>23 DEF KeepCancelled
  <1>24. CASE StopBegins
    BY <1>24 DEF StopBegins
  <1>25. CASE StopCancels
    BY <1>25 DEF StopCancels
  <1>26. CASE StopEnds
    BY <1>26 DEF StopEnds
  <1>27. CASE UNCHANGED vars
    BY <1>27 DEF vars
  <1>. QED
    BY <1>1, <1>2, <1>3, <1>4, <1>5, <1>6, <1>7, <1>8, <1>9, <1>10, <1>11, <1>12, <1>13, <1>14,
       <1>15, <1>16, <1>17, <1>18, <1>19, <1>20, <1>21, <1>22, <1>23, <1>24, <1>25, <1>26, <1>27
    DEF Next, VenueStep, UserStep, KeepStep, StopStep

\* A task is cancelled only while it is alive.
LEMMA ControlKept == IInv /\ [Next]_vars => ControlTypes'
  <1> SUFFICES ASSUME IInv, [Next]_vars PROVE ControlTypes'
    OBVIOUS
  <1> USE DEF IInv, TypeOK, ControlTypes, Alive, UserLabel, KeepLabel, Runs
  <1>1. CASE AccountChanges
    BY <1>1 DEF AccountChanges
  <1>2. CASE KeyExpires
    BY <1>2 DEF KeyExpires
  <1>3. CASE AbandonedCloses
    BY <1>3 DEF AbandonedCloses
  <1>4. CASE Connects
    BY <1>4 DEF Connects, NewKey
  <1>5. CASE KeyRefused
    <2>1. CASE UserGivesUp
      BY <1>5, <2>1 DEF KeyRefused, UserGivesUp
    <2>2. CASE user' = AfterFailure /\ UNCHANGED <<taskVars, unavailable>>
      BY <1>5, <2>2 DEF KeyRefused, AfterFailure
    <2>. QED
      BY <1>5, <2>1, <2>2 DEF KeyRefused
  <1>6. CASE ConnectFails
    BY <1>6 DEF ConnectFails, NewKey, AfterFailure, keyVars
  <1>7. CASE Disconnects
    BY <1>7 DEF Disconnects, AfterFailure, Lost
  <1>8. CASE TakesEvent
    BY <1>8 DEF TakesEvent, Lost
  <1>9. CASE EventHandled
    BY <1>9 DEF EventHandled
  <1>10. CASE ExpiryHandled
    BY <1>10 DEF ExpiryHandled, Reconcile
  <1>11. CASE GapReconciled
    BY <1>11 DEF GapReconciled, Reconcile
  <1>12. CASE RestartDelayOver
    BY <1>12 DEF RestartDelayOver, NewAttempt
  <1>13. CASE KeepStopped
    BY <1>13 DEF KeepStopped
  <1>14. CASE UserFarewell
    BY <1>14 DEF UserFarewell, Reconcile
  <1>15. CASE UserCancelled
    BY <1>15 DEF UserCancelled, Lost
  <1>16. CASE Sleeps
    BY <1>16 DEF Sleeps, KeepLoop
  <1>17. CASE Renewed
    BY <1>17 DEF Renewed, KeepLoop
  <1>18. CASE NotRenewed
    BY <1>18 DEF NotRenewed, RenewBanned, RenewExpired, RenewRetries, RenewFails, StopsUserStream, KeepLoop
  <1>19. CASE RestartReads
    BY <1>19 DEF RestartReads, Reconcile, StopsUserStream
  <1>20. CASE Restarts
    BY <1>20 DEF Restarts, KeepLoop, NewAttempt
  <1>21. CASE StreamStopped
    BY <1>21 DEF StreamStopped
  <1>22. CASE KeepFarewell
    BY <1>22 DEF KeepFarewell, Reconcile
  <1>23. CASE KeepCancelled
    BY <1>23 DEF KeepCancelled
  <1>24. CASE StopBegins
    BY <1>24 DEF StopBegins
  <1>25. CASE StopCancels
    BY <1>25 DEF StopCancels
  <1>26. CASE StopEnds
    BY <1>26 DEF StopEnds
  <1>27. CASE UNCHANGED vars
    BY <1>27 DEF vars
  <1>. QED
    BY <1>1, <1>2, <1>3, <1>4, <1>5, <1>6, <1>7, <1>8, <1>9, <1>10, <1>11, <1>12, <1>13, <1>14,
       <1>15, <1>16, <1>17, <1>18, <1>19, <1>20, <1>21, <1>22, <1>23, <1>24, <1>25, <1>26, <1>27
    DEF Next, VenueStep, UserStep, KeepStep, StopStep

\* A failure is counted only by a task that has failures left.
LEMMA DataKept == IInv /\ [Next]_vars => (DataTypes /\ FailuresLeft)'
  <1> SUFFICES ASSUME IInv, [Next]_vars PROVE (DataTypes /\ FailuresLeft)'
    OBVIOUS
  <1> USE UserStreamAssumption
      DEF IInv, TypeOK, DataTypes, FailuresLeft
  <1>1. CASE AccountChanges
    BY <1>1 DEF AccountChanges
  <1>2. CASE KeyExpires
    BY <1>2 DEF KeyExpires
  <1>3. CASE AbandonedCloses
    BY <1>3 DEF AbandonedCloses
  <1>4. CASE Connects
    BY <1>4 DEF Connects, NewKey
  <1>5. CASE KeyRefused
    BY <1>5 DEF KeyRefused, UserGivesUp, AfterFailure
  <1>6. CASE ConnectFails
    BY <1>6 DEF ConnectFails, NewKey, AfterFailure, keyVars
  <1>7. CASE Disconnects
    BY <1>7 DEF Disconnects, AfterFailure
  <1>8. CASE TakesEvent
    BY <1>8 DEF TakesEvent
  <1>9. CASE EventHandled
    BY <1>9 DEF EventHandled
  <1>10. CASE ExpiryHandled
    BY <1>10 DEF ExpiryHandled
  <1>11. CASE GapReconciled
    BY <1>11 DEF GapReconciled
  <1>12. CASE RestartDelayOver
    BY <1>12 DEF RestartDelayOver
  <1>13. CASE KeepStopped
    BY <1>13 DEF KeepStopped
  <1>14. CASE UserFarewell
    BY <1>14 DEF UserFarewell
  <1>15. CASE UserCancelled
    BY <1>15 DEF UserCancelled
  <1>16. CASE Sleeps
    BY <1>16 DEF Sleeps, KeepLoop
  <1>17. CASE Renewed
    BY <1>17 DEF Renewed, KeepLoop
  <1>18. CASE NotRenewed
    BY <1>18 DEF NotRenewed, RenewBanned, RenewExpired, RenewRetries, RenewFails, StopsUserStream, KeepLoop
  <1>19. CASE RestartReads
    BY <1>19 DEF RestartReads
  <1>20. CASE Restarts
    BY <1>20 DEF Restarts
  <1>21. CASE StreamStopped
    BY <1>21 DEF StreamStopped
  <1>22. CASE KeepFarewell
    BY <1>22 DEF KeepFarewell
  <1>23. CASE KeepCancelled
    BY <1>23 DEF KeepCancelled
  <1>24. CASE StopBegins
    BY <1>24 DEF StopBegins
  <1>25. CASE StopCancels
    BY <1>25 DEF StopCancels
  <1>26. CASE StopEnds
    BY <1>26 DEF StopEnds
  <1>27. CASE UNCHANGED vars
    BY <1>27 DEF vars
  <1>. QED
    BY <1>1, <1>2, <1>3, <1>4, <1>5, <1>6, <1>7, <1>8, <1>9, <1>10, <1>11, <1>12, <1>13, <1>14,
       <1>15, <1>16, <1>17, <1>18, <1>19, <1>20, <1>21, <1>22, <1>23, <1>24, <1>25, <1>26, <1>27
    DEF Next, VenueStep, UserStep, KeepStep, StopStep

\* What is unseen is a set of changes, and creates are refused for a reason.
LEMMA AccountKept == IInv /\ [Next]_vars => AccountTypes'
  <1> SUFFICES ASSUME IInv, [Next]_vars PROVE AccountTypes'
    OBVIOUS
  <1> USE DEF IInv, TypeOK, AccountTypes, Change
  <1>1. CASE AccountChanges
    BY <1>1 DEF AccountChanges
  <1>2. CASE KeyExpires
    BY <1>2 DEF KeyExpires
  <1>3. CASE AbandonedCloses
    BY <1>3 DEF AbandonedCloses
  <1>4. CASE Connects
    BY <1>4 DEF Connects
  <1>5. CASE KeyRefused
    BY <1>5 DEF KeyRefused, UserGivesUp
  <1>6. CASE ConnectFails
    BY <1>6 DEF ConnectFails, keyVars
  <1>7. CASE Disconnects
    BY <1>7 DEF Disconnects, Lost
  <1>8. CASE TakesEvent
    BY <1>8 DEF TakesEvent, Lost
  <1>9. CASE EventHandled
    BY <1>9 DEF EventHandled
  <1>10. CASE ExpiryHandled
    BY <1>10 DEF ExpiryHandled, Reconcile
  <1>11. CASE GapReconciled
    BY <1>11 DEF GapReconciled, Reconcile
  <1>12. CASE RestartDelayOver
    BY <1>12 DEF RestartDelayOver, NewAttempt
  <1>13. CASE KeepStopped
    BY <1>13 DEF KeepStopped
  <1>14. CASE UserFarewell
    BY <1>14 DEF UserFarewell, Reconcile
  <1>15. CASE UserCancelled
    BY <1>15 DEF UserCancelled, Lost
  <1>16. CASE Sleeps
    BY <1>16 DEF Sleeps
  <1>17. CASE Renewed
    BY <1>17 DEF Renewed
  <1>18. CASE NotRenewed
    BY <1>18 DEF NotRenewed, RenewBanned, RenewExpired, RenewRetries, RenewFails
  <1>19. CASE RestartReads
    BY <1>19 DEF RestartReads, Reconcile
  <1>20. CASE Restarts
    BY <1>20 DEF Restarts, NewAttempt
  <1>21. CASE StreamStopped
    BY <1>21 DEF StreamStopped
  <1>22. CASE KeepFarewell
    BY <1>22 DEF KeepFarewell, Reconcile
  <1>23. CASE KeepCancelled
    BY <1>23 DEF KeepCancelled
  <1>24. CASE StopBegins
    BY <1>24 DEF StopBegins
  <1>25. CASE StopCancels
    BY <1>25 DEF StopCancels
  <1>26. CASE StopEnds
    BY <1>26 DEF StopEnds
  <1>27. CASE UNCHANGED vars
    BY <1>27 DEF vars
  <1>. QED
    BY <1>1, <1>2, <1>3, <1>4, <1>5, <1>6, <1>7, <1>8, <1>9, <1>10, <1>11, <1>12, <1>13, <1>14,
       <1>15, <1>16, <1>17, <1>18, <1>19, <1>20, <1>21, <1>22, <1>23, <1>24, <1>25, <1>26, <1>27
    DEF Next, VenueStep, UserStep, KeepStep, StopStep

\* The two tasks, the registers and stop() stay in step.
LEMMA TasksKept == IInv /\ [Next]_vars => (GivesUpTogether /\ NeverSilent /\ KeptTrackOf /\ Reasons)'
  <1> SUFFICES ASSUME IInv, [Next]_vars PROVE (GivesUpTogether /\ NeverSilent /\ KeptTrackOf /\ Reasons)'
    OBVIOUS
  <1> USE DEF IInv, TypeOK, ControlTypes, AccountTypes, GivesUpTogether, NeverSilent, KeptTrackOf, Reasons,
          Alive, Ending, Runs
  <1>1. CASE AccountChanges
    BY <1>1 DEF AccountChanges
  <1>2. CASE KeyExpires
    BY <1>2 DEF KeyExpires
  <1>3. CASE AbandonedCloses
    BY <1>3 DEF AbandonedCloses
  <1>4. CASE Connects
    BY <1>4 DEF Connects, NewKey
  <1>5. CASE KeyRefused
    BY <1>5 DEF KeyRefused, UserGivesUp, AfterFailure
  <1>6. CASE ConnectFails
    BY <1>6 DEF ConnectFails, NewKey, AfterFailure, keyVars
  <1>7. CASE Disconnects
    BY <1>7 DEF Disconnects, AfterFailure, Lost
  <1>8. CASE TakesEvent
    BY <1>8 DEF TakesEvent, Lost
  <1>9. CASE EventHandled
    BY <1>9 DEF EventHandled
  <1>10. CASE ExpiryHandled
    BY <1>10 DEF ExpiryHandled, Reconcile
  <1>11. CASE GapReconciled
    BY <1>11 DEF GapReconciled, Reconcile
  <1>12. CASE RestartDelayOver
    BY <1>12 DEF RestartDelayOver, NewAttempt
  <1>13. CASE KeepStopped
    BY <1>13 DEF KeepStopped
  <1>14. CASE UserFarewell
    BY <1>14 DEF UserFarewell, Reconcile
  <1>15. CASE UserCancelled
    BY <1>15 DEF UserCancelled, Lost
  <1>16. CASE Sleeps
    BY <1>16 DEF Sleeps, KeepLoop
  <1>17. CASE Renewed
    BY <1>17 DEF Renewed, KeepLoop
  <1>18. CASE NotRenewed
    BY <1>18 DEF NotRenewed, RenewBanned, RenewExpired, RenewRetries, RenewFails, StopsUserStream, KeepLoop
  <1>19. CASE RestartReads
    BY <1>19 DEF RestartReads, Reconcile, StopsUserStream
  <1>20. CASE Restarts
    BY <1>20 DEF Restarts, KeepLoop, NewAttempt
  <1>21. CASE StreamStopped
    BY <1>21 DEF StreamStopped
  <1>22. CASE KeepFarewell
    BY <1>22 DEF KeepFarewell, Reconcile
  <1>23. CASE KeepCancelled
    BY <1>23 DEF KeepCancelled
  <1>24. CASE StopBegins
    BY <1>24 DEF StopBegins
  <1>25. CASE StopCancels
    BY <1>25 DEF StopCancels
  <1>26. CASE StopEnds
    BY <1>26 DEF StopEnds
  <1>27. CASE UNCHANGED vars
    BY <1>27 DEF vars
  <1>. QED
    BY <1>1, <1>2, <1>3, <1>4, <1>5, <1>6, <1>7, <1>8, <1>9, <1>10, <1>11, <1>12, <1>13, <1>14,
       <1>15, <1>16, <1>17, <1>18, <1>19, <1>20, <1>21, <1>22, <1>23, <1>24, <1>25, <1>26, <1>27
    DEF Next, VenueStep, UserStep, KeepStep, StopStep

\* The invariant holds throughout: the two tasks, the tables stop() reads, the
\* failure counters and the health flag stay in step.
THEOREM StaysSound == Spec => []IInv
  <1>1. IInv /\ [Next]_vars => IInv'
    BY FlagsKept, HealthKept, ControlKept, DataKept, AccountKept, TasksKept DEF IInv, TypeOK
  <1>. QED
    BY InitEstablishes, <1>1, PTL DEF Spec

\* Every variable keeps its type: the two failure counters never pass
\* LISTEN_KEY_RETRYABLE_FAILURE_MAX_ATTEMPTS, and no finished task is ever
\* counted as cancelled.
THEOREM TypeCorrect == Spec => []TypeOK
  BY StaysSound, PTL DEF IInv

\* No listen-key request follows a ban or a last tolerated failure: the task
\* that gave up has ended the other, or has cancelled it.
THEOREM GivingUpIsFinal == Spec => []GivesUpTogether
  BY StaysSound, PTL DEF IInv

\* A running runtime without its user stream, or without its keepalive, is
\* restarting it or refuses new executions.
THEOREM NeverSilentlyDown == Spec => []NeverSilent
  BY StaysSound, PTL DEF IInv

\* A lost stream counts as healthy only while an abandoned one is closing.
THEOREM HealthIsEarned == Spec => []HealthyIsUp
  BY StaysSound, PTL DEF IInv

=============================================================================

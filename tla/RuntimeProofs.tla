----------------------------- MODULE RuntimeProofs -----------------------------
(***************************************************************************)
(* The supervisor for every set of executions, symbols and calls: the      *)
(* conjuncts of IInv one after the other, under each action.               *)
(***************************************************************************)
EXTENDS Runtime, TLAPS

USE RuntimeAssumption
USE DEF vars, lifeVars, taskVars, scanVars, Idle, Requested, Active, Exists, Records, Alive,
        LockFree, OpsOf, Callers, Operations

LEMMA InitSound == Init => IInv
<1> SUFFICES ASSUME Init PROVE IInv
  OBVIOUS
<1>1. TypeOK
  BY DEF Init, TypeOK
<1>2. \A e \in Executions : status[e] = "none" /\ loop[e] = "absent" /\ op[e] = <<"none", "none">>
  BY DEF Init
<1>3. OneActive /\ CreateKnows
  BY <1>2 DEF OneActive, CreateKnows
<1>4. Driven /\ StopHolds /\ StopKnows
  BY <1>2 DEF Init, Driven, StopHolds, StopKnows
<1>5. Tasks
  BY <1>2 DEF Init, Tasks
<1> QED  BY <1>1, <1>3, <1>4, <1>5 DEF Init, IInv

LEMMA ReadSound ==
  ASSUME IInv, NEW e \in Executions, Read(e) PROVE IInv'
<1>1. TypeOK'
  BY DEF IInv, TypeOK, Read
<1>2. OneActive'
  BY DEF IInv, TypeOK, OneActive, Read
<1>3. Driven'
  BY DEF IInv, TypeOK, Driven, Runs, Tasks, Read
<1>4. StopHolds'
  BY DEF IInv, TypeOK, StopHolds, Tasks, Read
<1>5. Tasks'
  BY DEF IInv, TypeOK, Tasks, Read
<1>6. CreateKnows'
  BY DEF IInv, TypeOK, CreateKnows, Read
<1>7. StopKnows'
  BY DEF IInv, TypeOK, StopKnows, Read
<1>8. stop' # "no" => LockFree' /\ ~started'
  BY DEF IInv, TypeOK, Read
<1> QED  BY <1>1, <1>2, <1>3, <1>4, <1>5, <1>6, <1>7, <1>8 DEF IInv

LEMMA CreateCallSound ==
  ASSUME IInv, NEW e \in Executions, CreateCall(e) PROVE IInv'
<1>1. TypeOK'
  BY DEF IInv, TypeOK, CreateCall, Turns, Scan
<1>2. OneActive'
  BY DEF IInv, TypeOK, OneActive, CreateCall, Turns, Scan
<1>3. Driven'
  BY DEF IInv, TypeOK, Driven, Runs, Tasks, CreateCall, Turns, Scan
<1>4. StopHolds'
  BY DEF IInv, TypeOK, StopHolds, Tasks, CreateCall, Turns, Scan
<1>5. Tasks'
  BY DEF IInv, TypeOK, Tasks, CreateCall, Turns, Scan
<1>6. CreateKnows'
  BY DEF IInv, TypeOK, CreateKnows, CreateCall, Turns, Scan
<1>7. StopKnows'
  BY DEF IInv, TypeOK, StopKnows, CreateCall, Turns, Scan
<1>8. stop' # "no" => LockFree' /\ ~started'
  BY DEF IInv, TypeOK, CreateCall, Turns, Scan
<1> QED  BY <1>1, <1>2, <1>3, <1>4, <1>5, <1>6, <1>7, <1>8 DEF IInv

LEMMA BuildSound ==
  ASSUME IInv, NEW e \in Executions, Build(e) PROVE IInv'
<1>1. TypeOK'
  BY DEF IInv, TypeOK, Build, Turns
<1>2. OneActive'
  BY DEF IInv, TypeOK, OneActive, Build, Turns
<1>3. Driven'
  BY ZenonT(60) DEF IInv, TypeOK, Driven, Runs, Tasks, Build, Turns
<1>4. StopHolds'
  BY DEF IInv, TypeOK, StopHolds, Tasks, Build, Turns
<1>5. Tasks'
  BY DEF IInv, TypeOK, Tasks, Build, Turns
<1>6. CreateKnows'
  BY DEF IInv, TypeOK, CreateKnows, Build, Turns
<1>7. StopKnows'
  BY DEF IInv, TypeOK, StopKnows, Build, Turns
<1>8. stop' # "no" => LockFree' /\ ~started'
  BY DEF IInv, TypeOK, Build, Turns
<1> QED  BY <1>1, <1>2, <1>3, <1>4, <1>5, <1>6, <1>7, <1>8 DEF IInv

LEMMA CreateCheckedSound ==
  ASSUME IInv, NEW e \in Executions, CreateChecked(e) PROVE IInv'
<1>1. TypeOK'
  BY DEF IInv, TypeOK, CreateChecked, Turns, Conflict
<1>2. OneActive'
  BY DEF IInv, TypeOK, OneActive, CreateChecked, Turns, Conflict
<1>3. Driven'
  BY DEF IInv, TypeOK, Driven, Runs, Tasks, CreateChecked, Turns, Conflict
<1>4. StopHolds'
  BY DEF IInv, TypeOK, StopHolds, Tasks, CreateChecked, Turns, Conflict
<1>5. Tasks'
  BY DEF IInv, TypeOK, Tasks, CreateChecked, Turns, Conflict
<1>6. CreateKnows'
  BY DEF IInv, TypeOK, CreateKnows, CreateChecked, Turns, Conflict
<1>7. StopKnows'
  BY DEF IInv, TypeOK, StopKnows, CreateChecked, Turns, Conflict
<1>8. stop' # "no" => LockFree' /\ ~started'
  BY DEF IInv, TypeOK, CreateChecked, Turns, Conflict
<1> QED  BY <1>1, <1>2, <1>3, <1>4, <1>5, <1>6, <1>7, <1>8 DEF IInv

\* A request is the only one under way, and what it adds is alone with its symbol.
LEMMA CreateReturnsSound ==
  ASSUME IInv, NEW e \in Executions, CreateReturns(e) PROVE IInv'
<1>1. /\ status[e] = "placing" /\ loop[e] = "absent" /\ op[e] = <<"none", "none">> /\ e \notin killed
      /\ ~starting /\ stop = "no" /\ \A c \in Executions \ {e} : status[c] \notin Requested
  BY DEF IInv, TypeOK, Tasks, CreateReturns
<1>2. PICK s \in {"RUNNING", "ENDED", "none"} :
        /\ status' = [status EXCEPT ![e] = s] /\ unavailable' \in {unavailable, TRUE}
        /\ IF s = "RUNNING" THEN Scheduled({e}) ELSE loop' = loop
  BY DEF CreateReturns, Turns
<1>3. /\ status'[e] = s /\ \A c \in Executions \ {e} : status'[c] = status[c]
      /\ loop' \in [Executions -> {"absent"} \cup Alive]
      /\ \A c \in Executions \ {e} : loop'[c] = loop[c]
      /\ loop'[e] = IF started /\ s = "RUNNING" THEN "run" ELSE "absent"
  BY <1>1, <1>2 DEF IInv, TypeOK, Scheduled
<1>4. UNCHANGED <<started, starting, stop, built, streaming, reason, op, killed, gaveUp,
                  unread, found, todo>>
  BY DEF CreateReturns
<1>5. \A c \in Executions : status'[c] \notin Requested
  BY <1>1, <1>2, <1>3
<1>6. TypeOK'
  BY <1>2, <1>3, <1>4, <1>5 DEF IInv, TypeOK
<1>7. OneActive'
  BY <1>1, <1>2, <1>3 DEF IInv, OneActive, CreateKnows
<1>8. Driven'
  BY <1>1, <1>2, <1>3, <1>4 DEF IInv, Driven, Runs
<1>9. StopHolds'
  BY <1>1, <1>2, <1>3, <1>4 DEF IInv, StopHolds
<1>10. Tasks'
  BY <1>1, <1>2, <1>3, <1>4 DEF IInv, Tasks
<1>11. CreateKnows' /\ StopKnows'
  BY <1>1, <1>4, <1>5 DEF CreateKnows, StopKnows
<1> QED  BY <1>1, <1>4, <1>6, <1>7, <1>8, <1>9, <1>10, <1>11 DEF IInv

LEMMA LoopWakesSound ==
  ASSUME IInv, NEW e \in Executions, LoopWakes(e) PROVE IInv'
<1>1. TypeOK'
  BY DEF IInv, TypeOK, LoopWakes, Sets
<1>2. OneActive'
  BY DEF IInv, TypeOK, OneActive, LoopWakes, Sets
<1>3. Driven'
  BY DEF IInv, TypeOK, Driven, Runs, Tasks, LoopWakes, Sets
<1>4. StopHolds'
  BY DEF IInv, TypeOK, StopHolds, Tasks, LoopWakes, Sets
<1>5. Tasks'
  BY DEF IInv, TypeOK, Tasks, LoopWakes, Sets
<1>6. CreateKnows'
  BY DEF IInv, TypeOK, CreateKnows, LoopWakes, Sets
<1>7. StopKnows'
  BY DEF IInv, TypeOK, StopKnows, LoopWakes, Sets
<1>8. stop' # "no" => LockFree' /\ ~started'
  BY DEF IInv, TypeOK, LoopWakes, Sets
<1> QED  BY <1>1, <1>2, <1>3, <1>4, <1>5, <1>6, <1>7, <1>8 DEF IInv

LEMMA LoopKilledSound ==
  ASSUME IInv, NEW e \in Executions, LoopKilled(e) PROVE IInv'
<1>1. TypeOK'
  BY DEF IInv, TypeOK, LoopKilled, Sets
<1>2. OneActive'
  BY DEF IInv, TypeOK, OneActive, LoopKilled, Sets
<1>3. Driven'
  BY DEF IInv, TypeOK, Driven, Runs, Tasks, LoopKilled, Sets
<1>4. StopHolds'
  BY DEF IInv, TypeOK, StopHolds, Tasks, LoopKilled, Sets
<1>5. Tasks'
  BY DEF IInv, TypeOK, Tasks, LoopKilled, Sets
<1>6. CreateKnows'
  BY DEF IInv, TypeOK, CreateKnows, LoopKilled, Sets
<1>7. StopKnows'
  BY DEF IInv, TypeOK, StopKnows, LoopKilled, Sets
<1>8. stop' # "no" => LockFree' /\ ~started'
  BY DEF IInv, TypeOK, LoopKilled, Sets
<1> QED  BY <1>1, <1>2, <1>3, <1>4, <1>5, <1>6, <1>7, <1>8 DEF IInv

\* What an operation does when it takes the actor lock, for each caller.
LEMMA BeginSound ==
  ASSUME IInv, NEW e \in Executions, NEW who \in Callers, NEW what \in Operations,
         Begin(e, who, what),
         who = "loop" => /\ <<loop[e], what>> \in {<<"run", "run">>, <<"repair", "reconcile">>}
                         /\ e \notin killed
  PROVE  IInv'
<1>1. /\ Exists(e) /\ op[e] = Idle /\ op' = [op EXCEPT ![e] = <<who, what>>]
      /\ UNCHANGED <<lifeVars, unavailable, taskVars, scanVars>>
  BY DEF Begin
<1>2. PICK s \in {status[e], "CANCELLING"} :
        /\ status' = [status EXCEPT ![e] = s] /\ (s # status[e] => status[e] = "RUNNING")
        /\ what = "cancel" => s # "RUNNING"
        /\ reason' \in [Executions -> {"fine", "rate", "ban"}]
  BY DEF Begin, Turns, IInv, TypeOK
<1>3. /\ status'[e] = s /\ \A c \in Executions \ {e} : status'[c] = status[c] /\ op'[c] = op[c]
      /\ op'[e] = <<who, what>> /\ op'[e][1] = who /\ op'[e][2] = what
  BY <1>1, <1>2 DEF IInv, TypeOK
<1>4. \A c \in Executions : /\ status'[c] \in Active <=> status[c] \in Active
                            /\ status'[c] = "RUNNING" => status[c] = "RUNNING"
                            /\ status'[c] \in Requested <=> status[c] \in Requested
                            /\ status'[c] = "checking" <=> status[c] = "checking"
                            /\ status'[c] = "placing" <=> status[c] = "placing"
                            /\ status'[c] = "ENDED" <=> status[c] = "ENDED"
  BY <1>1, <1>2, <1>3
<1>5. TypeOK'
  <2>1. status' \in [Executions -> {"none", "ENDED"} \cup Requested \cup Active]
    BY <1>1, <1>2 DEF IInv, TypeOK
  <2>2. op' \in [Executions -> {Idle} \cup (Callers \X Operations)]
    BY <1>1 DEF IInv, TypeOK
  <2> QED  BY <1>1, <1>2, <1>4, <2>1, <2>2 DEF IInv, TypeOK
<1>6. OneActive' /\ CreateKnows' /\ StopKnows'
  BY <1>1, <1>4 DEF IInv, OneActive, CreateKnows, StopKnows
<1>7. Driven'
  BY <1>1, <1>4 DEF IInv, Driven, Runs
<1>8. StopHolds'
  <2>1. stop = "clear" => \A c \in Executions : status'[c] # "RUNNING"
    BY <1>1, <1>4 DEF IInv, StopHolds
  <2>2. ~started /\ stop # "loops" => who # "loop"
    BY DEF IInv, StopHolds
  <2> QED  BY <1>1, <1>3, <2>1, <2>2 DEF IInv, StopHolds
<1>9. Tasks'
  BY <1>1, <1>2, <1>3, <1>4 DEF IInv, Tasks
<1>10. (stop # "no" => LockFree /\ ~started)'
  BY <1>1, <1>4 DEF IInv
<1> QED  BY <1>5, <1>6, <1>7, <1>8, <1>9, <1>10 DEF IInv

LEMMA LoopBeginsSound ==
  ASSUME IInv, NEW e \in Executions, LoopBegins(e) PROVE IInv'
BY BeginSound DEF LoopBegins

LEMMA ApiBeginsSound ==
  ASSUME IInv, NEW e \in Executions, ApiBegins(e) PROVE IInv'
BY BeginSound, RuntimeAssumption DEF ApiBegins

LEMMA StreamBeginsSound ==
  ASSUME IInv, NEW e \in Executions, StreamBegins(e) PROVE IInv'
BY BeginSound, RuntimeAssumption DEF StreamBegins, EventApplied, EnvironmentReconciled

LEMMA StopBeginsSound ==
  ASSUME IInv, NEW e \in Executions, StopBegins(e) PROVE IInv'
BY BeginSound, RuntimeAssumption DEF StopBegins

\* What the engine returns: an ended execution stays ended.
LEMMA ResultsBound ==
  ASSUME IInv, NEW e \in Executions, NEW what \in Operations, Exists(e),
         NEW r \in Results(e, what)
  PROVE  r[1] \in {status[e], "ENDED"} /\ r[2] \in {"fine", "rate", "ban"}
<1>1. reason[e] \in {"fine", "rate", "ban"}
  BY DEF IInv, TypeOK
<1>2. CASE status[e] = "ENDED"
  BY <1>1, <1>2 DEF Results, Noted
<1>3. CASE status[e] # "ENDED" /\ what = "apply"
  BY <1>1, <1>3 DEF Results
<1>4. CASE status[e] # "ENDED" /\ what # "apply"
  BY <1>1, <1>4 DEF Results
<1> QED  BY <1>2, <1>3, <1>4

\* What a caller makes of a result.
LEMMA ReturnsSound ==
  ASSUME IInv, NEW e \in Executions, Returns(e) PROVE IInv'
<1>1. PICK who \in Callers, what \in Operations : op[e] = <<who, what>>
  BY DEF Returns, IInv, TypeOK
<1>2. /\ op[e][1] = who /\ op[e][2] = what /\ Exists(e)
      /\ who = "loop" => e \notin killed /\
           <<loop[e], what>> \in {<<"run", "run">>, <<"repair", "reconcile">>}
  BY <1>1 DEF Returns, IInv, Tasks
<1>3. PICK r \in Results(e, what) :
        Turns(e, r[1]) /\ reason' = [reason EXCEPT ![e] = r[2]] /\ Handled(e, who, what, r[1], r[2])
  BY <1>2 DEF Returns
<1> DEFINE s == r[1]
<1>4. s \in {status[e], "ENDED"} /\ r[2] \in {"fine", "rate", "ban"}
  BY <1>2, ResultsBound
<1>5. /\ status'[e] = s /\ op'[e] = Idle /\ status' \in [Executions -> {"none", "ENDED"} \cup Requested \cup Active]
      /\ op' \in [Executions -> {Idle} \cup (Callers \X Operations)]
      /\ reason' \in [Executions -> {"fine", "rate", "ban"}]
      /\ \A c \in Executions \ {e} : status'[c] = status[c] /\ op'[c] = op[c]
      /\ UNCHANGED <<lifeVars, gaveUp, unread, found>>
  BY <1>2, <1>3, <1>4 DEF Returns, Turns, IInv, TypeOK
<1>6. /\ \A c \in Executions : /\ status'[c] \in Active => status[c] = status'[c]
                               /\ status'[c] \in Requested <=> status[c] \in Requested
                               /\ status'[c] \in {"checking", "placing"} => status'[c] = status[c]
                               /\ Exists(c) <=> Exists(c)'
                               /\ status[c] = "ENDED" => status'[c] = "ENDED"
  BY <1>2, <1>4, <1>5
<1>7. \/ who = "loop" /\ loop' = [loop EXCEPT ![e] = LoopAfter(what, s, r[2])] /\ killed' = killed
      \/ /\ who # "loop" /\ loop' = loop
         /\ \/ killed' = killed
            \/ killed' = killed \cup {e} /\ s = "ENDED" /\ loop[e] \in Alive
  BY <1>3 DEF Handled, KillLoop, Sets, Callers
<1>8. /\ todo' \subseteq Executions \X Operations /\ unavailable' \in BOOLEAN
      /\ \A c \in Executions : <<c, "cancel">> \in todo =>
           <<c, "cancel">> \in todo' \/ (c = e /\ what = "cancel")
  <2>1. unavailable' \in BOOLEAN
    BY <1>3 DEF Handled, Marks, IInv, TypeOK, Callers
  <2>2. todo' = todo \/ todo' = (todo \ {<<e, what>>}) \cup
                                (IF what = "cancel" THEN {<<e, "reconcile">>} ELSE {})
    BY <1>3 DEF Handled, Callers
  <2>3. todo \subseteq Executions \X Operations
    BY DEF IInv, TypeOK
  <2> QED  BY <2>1, <2>2, <2>3
<1>9. who = "loop" => /\ LoopAfter(what, s, r[2]) \in {"absent", "sleep"}
                      /\ LoopAfter(what, s, r[2]) = "absent" => s = "ENDED"
  <2>1. what = "run" /\ r[2] = "ban" /\ who = "loop" => s = "ENDED"
    BY <1>1, <1>2, <1>3 DEF Results
  <2> QED  BY <1>2, <1>4, <2>1 DEF LoopAfter
<1>10. /\ loop' \in [Executions -> {"absent"} \cup Alive] /\ killed' \subseteq Executions
       /\ \A c \in Executions \ {e} : loop'[c] = loop[c]
       /\ \A c \in Executions : loop'[c] \in Alive => loop[c] \in Alive
       /\ loop[e] \in Alive => loop'[e] \in Alive \/ s = "ENDED"
  BY <1>2, <1>7, <1>9 DEF IInv, TypeOK
<1>11. TypeOK'
  BY <1>5, <1>6, <1>8, <1>10 DEF IInv, TypeOK
<1>12. OneActive' /\ CreateKnows'
  BY <1>5, <1>6 DEF IInv, OneActive, CreateKnows
<1>13. StopKnows'
  BY <1>2, <1>5, <1>6, <1>8, <1>10, ZenonT(60) DEF IInv, StopKnows, Tasks
<1>14. Driven'
  BY <1>5, <1>6, <1>7, <1>10 DEF IInv, Driven, Runs
<1>15. StopHolds'
  BY <1>5, <1>6, <1>10 DEF IInv, StopHolds
<1>16. Tasks'
  <2>1. \A c \in Executions \ {e} : op'[c] = op[c] /\ loop'[c] = loop[c] /\ (c \in killed' <=> c \in killed)
    BY <1>5, <1>7, <1>10
  <2>2. e \in killed' => loop'[e] \in Alive /\ (status'[e] = "ENDED" \/ ~started)
    BY <1>2, <1>5, <1>6, <1>7 DEF IInv, Tasks
  <2> QED  BY <1>2, <1>5, <1>6, <2>1, <2>2 DEF IInv, Tasks
<1>17. (stop # "no" => LockFree /\ ~started)'
  BY <1>5, <1>6 DEF IInv
<1> QED  BY <1>11, <1>12, <1>13, <1>14, <1>15, <1>16, <1>17 DEF IInv

\* An error changes no status; it ends a task only when it is a ban.
LEMMA RaisesSound ==
  ASSUME IInv, NEW e \in Executions, Raises(e) PROVE IInv'
<1>1. PICK who \in Callers, what \in Operations : op[e] = <<who, what>>
  BY DEF Raises, IInv, TypeOK
<1>2. /\ op[e][1] = who /\ op[e][2] = what /\ Exists(e)
      /\ who = "loop" => e \notin killed /\
           <<loop[e], what>> \in {<<"run", "run">>, <<"repair", "reconcile">>}
      /\ what = "cancel" => status[e] # "RUNNING"
  BY <1>1 DEF Raises, IInv, Tasks
<1>3. PICK x \in Errors(e, what) :
        IF who = "loop"
        THEN /\ loop' = [loop EXCEPT ![e] = LoopAfter(what, status[e], x)]
             /\ gaveUp' = IF x = "ban" THEN gaveUp \cup {e} ELSE gaveUp
        ELSE UNCHANGED <<loop, gaveUp>>
  BY <1>2 DEF Raises, Sets
<1>4. /\ op' = [op EXCEPT ![e] = Idle]
      /\ UNCHANGED <<lifeVars, unavailable, status, reason, killed, unread, found>>
      /\ todo' \in {todo, todo \ {<<e, what>>}}
  BY <1>2 DEF Raises
<1>5. x \in {"rate", "ban", "error"}
  BY DEF Errors
<1>6. who = "loop" => /\ LoopAfter(what, status[e], x) \in {"absent", "sleep", "repair"}
                      /\ LoopAfter(what, status[e], x) = "absent" => x = "ban"
  BY <1>2, <1>5 DEF LoopAfter
<1>7. /\ loop' \in [Executions -> {"absent"} \cup Alive]
      /\ \A c \in Executions \ {e} : loop'[c] = loop[c] /\ op'[c] = op[c]
      /\ op'[e] = Idle /\ op' \in [Executions -> {Idle} \cup (Callers \X Operations)]
      /\ \A c \in Executions : loop'[c] \in Alive => loop[c] \in Alive
      /\ loop[e] \in Alive => loop'[e] \in Alive \/ e \in gaveUp'
      /\ gaveUp \subseteq gaveUp' /\ gaveUp' \subseteq Executions
  BY <1>2, <1>3, <1>4, <1>6 DEF IInv, TypeOK
<1>8. TypeOK'
  BY <1>4, <1>7 DEF IInv, TypeOK
<1>9. OneActive' /\ CreateKnows'
  BY <1>4 DEF IInv, OneActive, CreateKnows
<1>10. StopKnows'
  BY <1>2, <1>4, <1>7 DEF IInv, StopKnows
<1>11. Driven'
  BY <1>4, <1>7 DEF IInv, Driven, Runs
<1>12. StopHolds'
  BY <1>4, <1>7 DEF IInv, StopHolds
<1>13. Tasks'
  BY <1>2, <1>3, <1>4, <1>7 DEF IInv, Tasks
<1>14. (stop # "no" => LockFree /\ ~started)'
  BY <1>4 DEF IInv
<1> QED  BY <1>8, <1>9, <1>10, <1>11, <1>12, <1>13, <1>14 DEF IInv

LEMMA StartCallSound ==
  ASSUME IInv, StartCall PROVE IInv'
<1>1. TypeOK'
  BY DEF IInv, TypeOK, StartCall, Scan
<1>2. OneActive'
  BY DEF IInv, TypeOK, OneActive, StartCall, Scan
<1>3. Driven'
  BY DEF IInv, TypeOK, Driven, Runs, Tasks, StartCall, Scan
<1>4. StopHolds'
  BY DEF IInv, TypeOK, StopHolds, Tasks, StartCall, Scan
<1>5. Tasks'
  BY DEF IInv, TypeOK, StopHolds, Tasks, StartCall, Scan
<1>6. CreateKnows'
  BY DEF IInv, TypeOK, CreateKnows, StartCall, Scan
<1>7. StopKnows'
  BY DEF IInv, TypeOK, StopKnows, StartCall, Scan
<1>8. stop' # "no" => LockFree' /\ ~started'
  BY DEF IInv, TypeOK, StartCall, Scan
<1> QED  BY <1>1, <1>2, <1>3, <1>4, <1>5, <1>6, <1>7, <1>8 DEF IInv

LEMMA StartReturnsSound ==
  ASSUME IInv, StartReturns PROVE IInv'
<1>1. TypeOK'
  BY DEF IInv, TypeOK, StartReturns, Scheduled
<1>2. OneActive'
  BY DEF IInv, TypeOK, OneActive, StartReturns, Scheduled
<1>3. Driven'
  BY DEF IInv, TypeOK, CreateKnows, Driven, Runs, Tasks, StartReturns, Scheduled
<1>4. StopHolds'
  BY DEF IInv, TypeOK, StopHolds, Tasks, StartReturns, Scheduled
<1>5. Tasks'
  BY DEF IInv, TypeOK, CreateKnows, Tasks, StartReturns, Scheduled
<1>6. CreateKnows'
  BY DEF IInv, TypeOK, CreateKnows, StartReturns, Scheduled
<1>7. StopKnows'
  BY DEF IInv, TypeOK, StopKnows, StartReturns, Scheduled
<1>8. stop' # "no" => LockFree' /\ ~started'
  BY DEF IInv, TypeOK, StartReturns, Scheduled
<1> QED  BY <1>1, <1>2, <1>3, <1>4, <1>5, <1>6, <1>7, <1>8 DEF IInv

LEMMA StopCallSound ==
  ASSUME IInv, StopCall PROVE IInv'
<1>1. TypeOK'
  BY DEF IInv, TypeOK, StopCall
<1>2. OneActive'
  BY DEF IInv, TypeOK, OneActive, StopCall
<1>3. Driven'
  BY DEF IInv, TypeOK, Driven, Runs, Tasks, StopCall
<1>4. StopHolds'
  BY DEF IInv, TypeOK, StopHolds, Tasks, StopCall
<1>5. Tasks'
  BY DEF IInv, TypeOK, Tasks, StopCall
<1>6. CreateKnows'
  BY DEF IInv, TypeOK, CreateKnows, StopCall
<1>7. StopKnows'
  BY DEF IInv, TypeOK, StopKnows, StopCall
<1>8. stop' # "no" => LockFree' /\ ~started'
  BY DEF IInv, TypeOK, StopCall
<1> QED  BY <1>1, <1>2, <1>3, <1>4, <1>5, <1>6, <1>7, <1>8 DEF IInv

LEMMA StopJoinedSound ==
  ASSUME IInv, StopJoined PROVE IInv'
<1>1. TypeOK'
  BY DEF IInv, TypeOK, StopJoined, Scan
<1>2. OneActive'
  BY DEF IInv, TypeOK, OneActive, StopJoined, Scan
<1>3. Driven'
  BY DEF IInv, TypeOK, Driven, Runs, Tasks, StopJoined, Scan
<1>4. StopHolds'
  BY DEF IInv, TypeOK, StopKnows, StopHolds, Tasks, StopJoined, Scan
<1>5. Tasks'
  BY DEF IInv, TypeOK, Tasks, StopJoined, Scan
<1>6. CreateKnows'
  BY DEF IInv, TypeOK, CreateKnows, StopJoined, Scan
<1>7. StopKnows'
  BY DEF IInv, TypeOK, StopKnows, StopJoined, Scan
<1>8. stop' # "no" => LockFree' /\ ~started'
  BY DEF IInv, TypeOK, StopJoined, Scan
<1> QED  BY <1>1, <1>2, <1>3, <1>4, <1>5, <1>6, <1>7, <1>8 DEF IInv

LEMMA StopListedSound ==
  ASSUME IInv, StopListed PROVE IInv'
<1>1. TypeOK'
  BY DEF IInv, TypeOK, StopListed
<1>2. OneActive'
  BY DEF IInv, TypeOK, OneActive, StopListed
<1>3. Driven'
  BY DEF IInv, TypeOK, Driven, Runs, Tasks, StopListed
<1>4. StopHolds'
  BY DEF IInv, TypeOK, StopHolds, Tasks, StopListed
<1>5. Tasks'
  BY DEF IInv, TypeOK, Tasks, StopListed
<1>6. CreateKnows'
  BY DEF IInv, TypeOK, CreateKnows, StopListed
<1>7. StopKnows'
  BY DEF IInv, TypeOK, StopKnows, StopListed
<1>8. stop' # "no" => LockFree' /\ ~started'
  BY DEF IInv, TypeOK, StopListed
<1> QED  BY <1>1, <1>2, <1>3, <1>4, <1>5, <1>6, <1>7, <1>8 DEF IInv

LEMMA StopStreamsSound ==
  ASSUME IInv, StopStreams PROVE IInv'
<1>1. TypeOK'
  BY DEF IInv, TypeOK, StopStreams
<1>2. OneActive'
  BY DEF IInv, TypeOK, OneActive, StopStreams
<1>3. Driven'
  BY DEF IInv, TypeOK, Driven, Runs, Tasks, StopStreams
<1>4. StopHolds'
  BY DEF IInv, TypeOK, StopKnows, StopHolds, Tasks, StopStreams
<1>5. Tasks'
  BY DEF IInv, TypeOK, Tasks, StopStreams
<1>6. CreateKnows'
  BY DEF IInv, TypeOK, CreateKnows, StopStreams
<1>7. StopKnows'
  BY DEF IInv, TypeOK, StopKnows, StopStreams
<1>8. stop' # "no" => LockFree' /\ ~started'
  BY DEF IInv, TypeOK, StopStreams
<1> QED  BY <1>1, <1>2, <1>3, <1>4, <1>5, <1>6, <1>7, <1>8 DEF IInv

LEMMA StopReturnsSound ==
  ASSUME IInv, StopReturns PROVE IInv'
<1>1. TypeOK'
  BY DEF IInv, TypeOK, StopReturns
<1>2. OneActive'
  BY DEF IInv, TypeOK, OneActive, StopReturns
<1>3. Driven'
  BY DEF IInv, TypeOK, Driven, Runs, Tasks, StopReturns
<1>4. StopHolds'
  BY DEF IInv, TypeOK, StopHolds, Tasks, StopReturns
<1>5. Tasks'
  BY DEF IInv, TypeOK, StopHolds, Tasks, StopReturns
<1>6. CreateKnows'
  BY DEF IInv, TypeOK, CreateKnows, StopReturns
<1>7. StopKnows'
  BY DEF IInv, TypeOK, StopKnows, StopReturns
<1>8. stop' # "no" => LockFree' /\ ~started'
  BY DEF IInv, TypeOK, StopReturns
<1> QED  BY <1>1, <1>2, <1>3, <1>4, <1>5, <1>6, <1>7, <1>8 DEF IInv


LEMMA Inductive == ASSUME IInv, [Next]_vars PROVE IInv'
<1>1. CASE UNCHANGED vars
  BY <1>1 DEF IInv, TypeOK, OneActive, Driven, Runs, StopHolds, Tasks, CreateKnows, StopKnows
<1>2. CASE Next
  <2>1. CASE Creates
    BY <2>1, BuildSound, CreateCheckedSound, CreateReturnsSound DEF Creates
  <2>2. CASE Stops
    BY <2>2, StopJoinedSound, StopListedSound, StopStreamsSound, StopReturnsSound DEF Stops
  <2>3. CASE StartCall \/ StartReturns \/ StopCall
    BY <2>3, StartCallSound, StartReturnsSound, StopCallSound
  <2>4. ASSUME NEW e \in Executions,
               \/ Read(e) \/ CreateCall(e) \/ LoopWakes(e) \/ LoopKilled(e)
               \/ LoopBegins(e) \/ ApiBegins(e) \/ StreamBegins(e) \/ StopBegins(e)
               \/ Returns(e) \/ Raises(e)
        PROVE  IInv'
    BY <2>4, ReadSound, CreateCallSound, LoopWakesSound, LoopKilledSound, LoopBeginsSound,
       ApiBeginsSound, StreamBeginsSound, StopBeginsSound, ReturnsSound, RaisesSound
  <2> QED  BY <1>2, <2>1, <2>2, <2>3, <2>4 DEF Next
<1> QED  BY <1>1, <1>2

\* The supervisor's bookkeeping is right in every state.
THEOREM SupervisorSound == Spec => []IInv
BY InitSound, Inductive, PTL DEF Spec

\* One active execution for a symbol (create_execution under the runtime lock).
THEOREM NeverTwoActive == Spec => []OneActive
<1>1. IInv => OneActive
  BY DEF IInv
<1> QED  BY <1>1, SupervisorSound, PTL

\* Active executions are driven unless a ban has ended their task.
THEOREM AlwaysDrivenOrBanned == Spec => []Driven
<1>1. IInv => Driven
  BY DEF IInv
<1> QED  BY <1>1, SupervisorSound, PTL

\* After stop() nothing trades on, and no background task is left.
THEOREM StopLeavesNothing == Spec => []StopHolds
<1>1. IInv => StopHolds
  BY DEF IInv
<1> QED  BY <1>1, SupervisorSound, PTL

\* The types, and the exclusion of those who hold the runtime lock.
THEOREM SupervisorTypes == Spec => []TypeOK
<1>1. IInv => TypeOK
  BY DEF IInv
<1> QED  BY <1>1, SupervisorSound, PTL
=============================================================================

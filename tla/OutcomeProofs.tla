----------------------------- MODULE OutcomeProofs -----------------------------
(***************************************************************************)
(* The outcomes of requests for every set of replies and refusals in which *)
(* the venue refuses what the adapter takes for a refusal, and for any     *)
(* number of attempts.                                                     *)
(***************************************************************************)
EXTENDS BinanceOutcome, TLAPS

USE OutcomeAssumption DEF vars, Forgotten, TerminalChild, ChildOrderStatus, Attempts

\* What SetChildStatus does to the statuses that meet an order of the book.
LEMMA StatusMoves ==
  /\ \A s \in {"OPEN", "FILLED", "CANCELLED"} :
       /\ SetChildStatus("PENDING_SUBMIT", s) = s
       /\ SetChildStatus("PENDING_CANCEL", s) = s
       /\ SetChildStatus("UNKNOWN", s) = s
       /\ SetChildStatus("OPEN", s) = s
  /\ \A b \in {"alive", "filled", "cancelled"} : Seen[b] \in {"OPEN", "FILLED", "CANCELLED"}
  /\ Seen["alive"] = "OPEN" /\ Seen["filled"] = "FILLED" /\ Seen["cancelled"] = "CANCELLED"
<1>1. /\ ChildTransitions["PENDING_SUBMIT"] = {"OPEN", "REJECTED", "UNKNOWN"}
      /\ ChildTransitions["PENDING_CANCEL"] =
           {"OPEN", "PARTIALLY_FILLED", "CANCELLED", "FILLED"}
      /\ ChildTransitions["UNKNOWN"] =
           {"OPEN", "PARTIALLY_FILLED", "FILLED", "CANCELLED", "REJECTED"}
      /\ ChildTransitions["OPEN"] = {"PARTIALLY_FILLED", "FILLED", "PENDING_CANCEL"}
  BY DEF ChildTransitions
<1>2. \A c, s : (s \in ChildTransitions[c] \/ <<c, s>> \in ChildShortcuts)
                  => SetChildStatus(c, s) = s
  BY DEF SetChildStatus
<1>3. \A c : SetChildStatus(c, c) = c
  BY DEF SetChildStatus
<1>4. /\ <<"PENDING_SUBMIT", "FILLED">> \in ChildShortcuts
      /\ <<"PENDING_SUBMIT", "CANCELLED">> \in ChildShortcuts
      /\ <<"OPEN", "CANCELLED">> \in ChildShortcuts
  BY DEF ChildShortcuts
<1>5. /\ Seen["alive"] = "OPEN" /\ Seen["filled"] = "FILLED" /\ Seen["cancelled"] = "CANCELLED"
  BY DEF Seen
<1>6. \A s \in {"OPEN", "FILLED", "CANCELLED"} : SetChildStatus("PENDING_SUBMIT", s) = s
  BY <1>1, <1>2, <1>4
<1>7. \A s \in {"OPEN", "FILLED", "CANCELLED"} : SetChildStatus("PENDING_CANCEL", s) = s
  BY <1>1, <1>2
<1>8. \A s \in {"OPEN", "FILLED", "CANCELLED"} : SetChildStatus("UNKNOWN", s) = s
  BY <1>1, <1>2
<1>9. \A s \in {"OPEN", "FILLED", "CANCELLED"} : SetChildStatus("OPEN", s) = s
  BY <1>1, <1>2, <1>3, <1>4
<1> QED  BY <1>5, <1>6, <1>7, <1>8, <1>9

LEMMA InitSound == Init => IInv
BY DEF Init, IInv, TypeOK, ForgottenIsGone, ClosedIsClosed

LEMMA SubmitSound == IInv /\ Submit => IInv'
<1> SUFFICES ASSUME IInv, Submit PROVE IInv'
  OBVIOUS
<1>1. n \in 0 .. MaxAttempts /\ n < MaxAttempts /\ n + 1 \in Attempts /\ n' = n + 1
  BY DEF IInv, TypeOK, Submit
<1>2. /\ child' = [child EXCEPT ![n + 1] = "PENDING_SUBMIT"] /\ pc = "idle" /\ pc' = "rules"
      /\ UNCHANGED <<status, book>>
      /\ \A a \in 1 .. n : child[a] \in {"FORGOTTEN", "REJECTED", "CANCELLED"}
  BY DEF Submit
<1>3. /\ child'[n + 1] = "PENDING_SUBMIT" /\ book[n + 1] = "none"
      /\ \A a \in Attempts : a # n + 1 => child'[a] = child[a]
  BY <1>1, <1>2 DEF IInv, TypeOK, ForgottenIsGone
<1>4. TypeOK'
  BY <1>1, <1>2, <1>3 DEF IInv, TypeOK
<1>5. ForgottenIsGone' /\ ClosedIsClosed'
  BY <1>1, <1>2, <1>3 DEF IInv, ForgottenIsGone, ClosedIsClosed
<1> QED  BY <1>1, <1>2, <1>3, <1>4, <1>5 DEF IInv

\* The last child changes, and nothing else does: the three cases of what it may
\* become when no request is under way.
LEMMA LastChild ==
  ASSUME IInv, NEW s, NEW b, n \in Attempts, n' = n, pc' = "idle",
         status' \in {"RUNNING", "FAILED"},
         child' = [child EXCEPT ![n] = s], book' = [book EXCEPT ![n] = b],
         \/ s \in {"FORGOTTEN", "REJECTED"} /\ b = "none"
         \/ s = "UNKNOWN" /\ b \in {"none", "alive", "filled", "cancelled"}
         \/ s \in {"OPEN", "PENDING_CANCEL"} /\ b \in {"alive", "filled", "cancelled"}
         \/ s = "FILLED" /\ b = "filled"
         \/ s = "CANCELLED" /\ b = "cancelled"
  PROVE  IInv'
<1>1. /\ child'[n] = s /\ book'[n] = b
      /\ \A a \in Attempts \ {n} : child'[a] = child[a] /\ book'[a] = book[a]
  BY DEF IInv, TypeOK
<1>2. TypeOK'
  BY <1>1 DEF IInv, TypeOK
<1>3. ForgottenIsGone' /\ ClosedIsClosed'
  BY <1>1 DEF IInv, ForgottenIsGone, ClosedIsClosed
<1>4. n \in Int /\ \A a \in Attempts : a \in Int
  BY DEF IInv, TypeOK
<1> QED  BY <1>1, <1>2, <1>3, <1>4 DEF IInv

\* An error of a create is harmless when the order was not placed or is in doubt.
LEMMA CreateFailsSound ==
  ASSUME IInv, NEW outcome, CreateFails(outcome), n \in Attempts, n' = n, pc' = "idle",
         NEW b \in {"none", "alive", "filled", "cancelled"},
         book' = [book EXCEPT ![n] = b], outcome # "Unknown" => b = "none"
  PROVE  IInv'
<1>1. PICK s \in {"FORGOTTEN", "REJECTED", "UNKNOWN"} :
        /\ child' = [child EXCEPT ![n] = s] /\ status' \in {status, "FAILED"}
        /\ s = "UNKNOWN" \/ b = "none"
  BY DEF CreateFails, Becomes, Ends
<1>2. status' \in {"RUNNING", "FAILED"}
  BY <1>1 DEF IInv, TypeOK
<1> QED  BY <1>1, <1>2, LastChild

\* Answers to the rules: the create goes out, or the child ends without an order.
LEMMA RulesAnswerSound == IInv /\ RulesAnswer => IInv'
<1> SUFFICES ASSUME IInv, RulesAnswer PROVE IInv'
  OBVIOUS
<1>1. n' = n /\ book' = book /\ pc = "rules" /\ n \in Attempts /\ n \in 0 .. MaxAttempts
      /\ child[n] = "PENDING_SUBMIT" /\ book[n] = "none" /\ book' = [book EXCEPT ![n] = "none"]
  BY DEF RulesAnswer, IInv, TypeOK
<1>2. CASE pc' = "create" /\ UNCHANGED <<status, child>>
  <2>1. TypeOK'
    BY <1>1, <1>2 DEF IInv, TypeOK
  <2> QED  BY <1>1, <1>2, <2>1 DEF IInv, ForgottenIsGone, ClosedIsClosed
<1>3. CASE \E o : CreateFails(o) /\ o # "Unknown" /\ pc' = "idle"
  BY <1>1, <1>3, CreateFailsSound
<1>4. \A r \in Replies : RulesOutcome(r) # "Unknown"
  BY DEF RulesOutcome
<1> QED  BY <1>2, <1>3, <1>4 DEF RulesAnswer

\* The answer to a create: a refusal leaves no order, by the trust in the venue.
LEMMA CreateAnswerSound == Trusted /\ IInv /\ CreateAnswer => IInv'
<1> SUFFICES ASSUME Trusted, IInv, CreateAnswer PROVE IInv'
  OBVIOUS
<1>1. n' = n /\ pc' = "idle" /\ pc = "create" /\ n \in Attempts /\ child[n] = "PENDING_SUBMIT"
  BY DEF CreateAnswer, IInv, TypeOK
<1>2. PICK r \in Replies : \E b \in {"none", "alive", "filled", "cancelled"} :
        /\ r.status = "200" => b # "none"
        /\ r \in Refusals => b = "none"
        /\ book' = [book EXCEPT ![n] = b]
        /\ \/ /\ Outcome(r, "CREATE") = "Answered" /\ UNCHANGED status
              /\ Becomes(SetChildStatus("PENDING_SUBMIT", Seen[b]))
           \/ Outcome(r, "CREATE") # "Answered" /\ CreateFails(Outcome(r, "CREATE"))
  BY DEF CreateAnswer
<1>3. PICK b \in {"none", "alive", "filled", "cancelled"} :
        /\ r.status = "200" => b # "none"
        /\ r \in Refusals => b = "none"
        /\ book' = [book EXCEPT ![n] = b]
        /\ \/ /\ Outcome(r, "CREATE") = "Answered" /\ UNCHANGED status
              /\ Becomes(SetChildStatus("PENDING_SUBMIT", Seen[b]))
           \/ Outcome(r, "CREATE") # "Answered" /\ CreateFails(Outcome(r, "CREATE"))
  BY <1>2
<1>4. CASE /\ Outcome(r, "CREATE") = "Answered" /\ UNCHANGED status
           /\ Becomes(SetChildStatus("PENDING_SUBMIT", Seen[b]))
  <2>1. r.status = "200"
    <3>1. r \in AllReplies
      OBVIOUS
    <3>2. r.status \in Statuses
      BY <3>1 DEF AllReplies
    <3>3. Doubt("CREATE") = "Unknown"
      BY DEF Doubt
    <3> QED  BY <1>4, <3>2, <3>3 DEF Outcome, Statuses
  <2>2. b \in {"alive", "filled", "cancelled"}
    BY <1>3, <2>1
  <2>3. child' = [child EXCEPT ![n] = Seen[b]] /\ status' \in {"RUNNING", "FAILED"}
    BY <1>4, <2>2, StatusMoves DEF Becomes, IInv, TypeOK
  <2> QED  BY <1>1, <1>3, <2>2, <2>3, StatusMoves, LastChild
<1>5. CASE Outcome(r, "CREATE") # "Answered" /\ CreateFails(Outcome(r, "CREATE"))
  <2>1. Outcome(r, "CREATE") # "Unknown" => b = "none"
    BY <1>3, <1>5 DEF Trusted
  <2> QED  BY <1>1, <1>3, <1>5, <2>1, CreateFailsSound
<1> QED  BY <1>3, <1>4, <1>5

LEMMA CancelSound == IInv /\ Cancel => IInv'
<1> SUFFICES ASSUME IInv, Cancel PROVE IInv'
  OBVIOUS
<1>1. /\ n \in Attempts /\ child' = [child EXCEPT ![n] = "PENDING_CANCEL"] /\ child[n] = "OPEN"
      /\ book' = book /\ n' = n /\ status' = status /\ pc = "idle" /\ pc' = "cancel"
  BY DEF Cancel, Becomes, IInv, TypeOK
<1>2. child'[n] = "PENDING_CANCEL" /\ \A a \in Attempts : a # n => child'[a] = child[a]
  BY <1>1 DEF IInv, TypeOK
<1>3. TypeOK'
  BY <1>1, <1>2 DEF IInv, TypeOK
<1>4. ForgottenIsGone' /\ ClosedIsClosed'
  BY <1>1, <1>2 DEF IInv, ForgottenIsGone, ClosedIsClosed
<1>5. n \in Int /\ \A a \in Attempts : a \in Int
  BY DEF IInv, TypeOK
<1> QED  BY <1>1, <1>2, <1>3, <1>4, <1>5 DEF IInv

\* The answer to a cancel is about an order that is on the book.
LEMMA CancelAnswerSound == IInv /\ CancelAnswer => IInv'
<1> SUFFICES ASSUME IInv, CancelAnswer PROVE IInv'
  OBVIOUS
<1>1. /\ n' = n /\ pc' = "idle" /\ pc = "cancel" /\ n \in Attempts
      /\ child[n] = "PENDING_CANCEL" /\ book[n] \in {"alive", "filled", "cancelled"}
  BY DEF CancelAnswer, IInv, TypeOK
<1>2. PICK r \in Replies : \E done \in BOOLEAN :
        /\ done => book[n] = "alive"
        /\ r.status = "200" => done
        /\ book' = IF done THEN [book EXCEPT ![n] = "cancelled"] ELSE book
        /\ \/ /\ Outcome(r, "CANCEL") = "Answered" /\ UNCHANGED status
              /\ Becomes(SetChildStatus("PENDING_CANCEL", "CANCELLED"))
           \/ Outcome(r, "CANCEL") # "Answered" /\ CancelFails(Outcome(r, "CANCEL"))
  BY <1>1 DEF CancelAnswer
<1>3. PICK b \in {"alive", "filled", "cancelled"} :
        /\ book' = [book EXCEPT ![n] = b] /\ (r.status = "200" => b = "cancelled")
  BY <1>1, <1>2 DEF IInv, TypeOK
<1>4. CASE /\ Outcome(r, "CANCEL") = "Answered" /\ UNCHANGED status
           /\ Becomes(SetChildStatus("PENDING_CANCEL", "CANCELLED"))
  <2>1. r.status = "200"
    <3>1. r \in AllReplies
      OBVIOUS
    <3>2. r.status \in Statuses
      BY <3>1 DEF AllReplies
    <3>3. Doubt("CANCEL") = "Pending"
      BY DEF Doubt
    <3> QED  BY <1>4, <3>2, <3>3 DEF Outcome, Statuses
  <2>2. child' = [child EXCEPT ![n] = "CANCELLED"] /\ status' \in {"RUNNING", "FAILED"}
    BY <1>4, StatusMoves DEF Becomes, IInv, TypeOK
  <2> QED  BY <1>1, <1>3, <2>1, <2>2, LastChild
<1>5. CASE Outcome(r, "CANCEL") # "Answered" /\ CancelFails(Outcome(r, "CANCEL"))
  <2>1. PICK s \in {"PENDING_CANCEL", "OPEN"} :
          child' = [child EXCEPT ![n] = s] /\ status' \in {status, "FAILED"}
    BY <1>1, <1>5 DEF CancelFails, Becomes, Ends, IInv, TypeOK
  <2>2. status' \in {"RUNNING", "FAILED"}
    BY <2>1 DEF IInv, TypeOK
  <2> QED  BY <1>1, <1>3, <2>1, <2>2, LastChild
<1> QED  BY <1>2, <1>4, <1>5

\* Lookups: the last child takes the status of its order, or is told there is none.
LEMMA LookupSound ==
  ASSUME IInv, Lookup \/ LookupFound \/ LookupMissing \/ LookupFails
  PROVE  IInv'
<1>1. n \in Attempts /\ n' = n /\ book' = book
  BY DEF Lookup, LookupFound, LookupMissing, LookupFails, IInv, TypeOK
<1>2. CASE child' = child /\ status' \in {"RUNNING", "FAILED"} /\ pc' = "idle" /\ pc = "lookup"
  <2>1. TypeOK'
    BY <1>1, <1>2 DEF IInv, TypeOK
  <2> QED  BY <1>1, <1>2, <2>1 DEF IInv, ForgottenIsGone, ClosedIsClosed
<1>3. CASE Lookup
  <2>1. /\ pc = "idle" /\ pc' = "lookup" /\ UNCHANGED <<status, n, child, book>>
        /\ child[n] \notin {"CANCELLED", "FILLED", "REJECTED", "NONE", "FORGOTTEN"}
    BY <1>3 DEF Lookup
  <2>2. child[n] \in {"OPEN", "PENDING_CANCEL", "UNKNOWN"}
    BY <1>1, <2>1 DEF IInv, TypeOK
  <2>3. TypeOK'
    BY <1>1, <2>1, <2>2 DEF IInv, TypeOK
  <2> QED  BY <1>1, <2>1, <2>3 DEF IInv, ForgottenIsGone, ClosedIsClosed
<1>4. CASE LookupFound
  <2>1. /\ child[n] \in {"OPEN", "PENDING_CANCEL", "UNKNOWN"}
        /\ book[n] \in {"alive", "filled", "cancelled"}
        /\ child' = [child EXCEPT ![n] = SetChildStatus(child[n], Seen[book[n]])]
        /\ pc' = "idle" /\ status' = status
    BY <1>1, <1>4 DEF LookupFound, Becomes, IInv, TypeOK
  <2>2. SetChildStatus(child[n], Seen[book[n]]) = Seen[book[n]]
    BY <2>1, StatusMoves
  <2>3. book' = [book EXCEPT ![n] = book[n]] /\ status' \in {"RUNNING", "FAILED"}
    BY <1>1, <2>1 DEF IInv, TypeOK
  <2> QED  BY <1>1, <2>1, <2>2, <2>3, StatusMoves, LastChild, ZenonT(60)
<1>5. CASE LookupMissing
  <2>1. pc = "lookup" /\ pc' = "idle" /\ book[n] = "none" /\ status' = status
    BY <1>5 DEF LookupMissing
  <2>2. CASE child' = child
    BY <1>2, <2>1, <2>2 DEF IInv, TypeOK
  <2>3. CASE child' = [child EXCEPT ![n] = "REJECTED"]
    <3>1. book' = [book EXCEPT ![n] = "none"] /\ status' \in {"RUNNING", "FAILED"}
      BY <1>1, <2>1 DEF IInv, TypeOK
    <3> QED  BY <1>1, <2>1, <2>3, <3>1, LastChild
  <2> QED  BY <1>5, <2>2, <2>3 DEF LookupMissing, Becomes
<1>6. CASE LookupFails
  BY <1>2, <1>6 DEF LookupFails, IInv, TypeOK
<1> QED  BY <1>3, <1>4, <1>5, <1>6

\* What the venue does on its own closes an order that the engine holds open.
LEMMA MovesSound == IInv /\ Moves => IInv'
<1> SUFFICES ASSUME IInv, Moves PROVE IInv'
  OBVIOUS
<1>1. PICK a \in Attempts, b \in {"filled", "cancelled"} :
        book[a] = "alive" /\ book' = [book EXCEPT ![a] = b]
  BY DEF Moves
<1>2. UNCHANGED <<status, n, child, pc>>
  BY DEF Moves
<1>3. book'[a] = b /\ \A o \in Attempts : o # a => book'[o] = book[o]
  BY <1>1 DEF IInv, TypeOK
<1>4. TypeOK'
  BY <1>1, <1>2 DEF IInv, TypeOK
<1>5. ForgottenIsGone' /\ ClosedIsClosed'
  BY <1>1, <1>2, <1>3 DEF IInv, ForgottenIsGone, ClosedIsClosed
<1> QED  BY <1>1, <1>2, <1>3, <1>4, <1>5 DEF IInv

LEMMA Inductive == ASSUME Trusted, IInv, [Next]_vars PROVE IInv'
<1>1. CASE UNCHANGED vars
  BY <1>1 DEF IInv, TypeOK, ForgottenIsGone, ClosedIsClosed
<1>2. CASE Next
  BY <1>2, SubmitSound, RulesAnswerSound, CreateAnswerSound, CancelSound, CancelAnswerSound,
     LookupSound, MovesSound DEF Next
<1> QED  BY <1>1, <1>2

\* Trust in the venue's refusals is enough for the engine's picture of its
\* attempts to be right in every state.
THEOREM PictureHolds == ASSUME Trusted PROVE Spec => []IInv
<1>1. Init => IInv
  BY InitSound
<1>2. IInv /\ [Next]_vars => IInv'
  BY Inductive
<1> QED  BY <1>1, <1>2, PTL DEF Spec

\* An order of which the engine keeps nothing is not on the book and has not
\* traded (_submit_child_locked drops the child).
THEOREM NothingForgotten == ASSUME Trusted PROVE Spec => []ForgottenIsGone
<1>1. IInv => ForgottenIsGone
  BY DEF IInv
<1> QED  BY <1>1, PictureHolds, PTL

\* Retries never put the demand on the book twice.
THEOREM NeverTwice == ASSUME Trusted PROVE Spec => []NoTwins
<1>1. IInv => NoTwins
  <2> SUFFICES ASSUME IInv, NEW a \in Attempts, NEW b \in Attempts, a < b,
                      {book[a], book[b]} \subseteq {"alive", "filled"}
               PROVE  FALSE
    <3>1. \A a, b \in Attempts : a \in Int /\ b \in Int
      OBVIOUS
    <3> QED  BY <3>1 DEF NoTwins
  <2>1. n \in Int /\ a \in Int /\ b \in Int
    BY DEF IInv, TypeOK
  <2>2. a < n
    BY <2>1 DEF IInv, ForgottenIsGone
  <2>3. child[a] \in {"FORGOTTEN", "REJECTED", "CANCELLED"}
    BY <2>2 DEF IInv
  <2> QED  BY <2>3 DEF IInv, ForgottenIsGone, ClosedIsClosed
<1> QED  BY <1>1, PictureHolds, PTL

\* The children that the engine calls filled or cancelled are.
THEOREM ClosedTruly == ASSUME Trusted PROVE Spec => []ClosedIsClosed
<1>1. IInv => ClosedIsClosed
  BY DEF IInv
<1> QED  BY <1>1, PictureHolds, PTL

\* The types hold, and children wait exactly while their requests are out.
THEOREM TypesHold == ASSUME Trusted PROVE Spec => []TypeOK
<1>1. IInv => TypeOK
  BY DEF IInv
<1> QED  BY <1>1, PictureHolds, PTL
=============================================================================

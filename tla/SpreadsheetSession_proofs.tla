----------------------- MODULE SpreadsheetSession_proofs -----------------------
(***************************************************************************)
(* Until a write is interrupted a session sends no command twice and its   *)
(* writes answer what the provider did and will do, for any threads, any   *)
(* number of edits and either kind of provider.                            *)
(*                                                                         *)
(* The invariant says which commands are untouched: unless the session is  *)
(* frozen, those of edits behind the frontier of the running write, or of  *)
(* the pending edits when no write runs.                                   *)
(*                                                                         *)
(* The second part is about the worksheet handles over such a session.     *)
(***************************************************************************)
EXTENDS SpreadsheetSession, WorkbookHandles, WellFoundedInduction, TLAPS

USE SessionAssumption

Writing(t) == pc[t] \in {"writing", "creating", "sent"}
Untouched(c) == executed[c] = 0 /\ outstanding[c] = 0
Frozen == unresolved # "none"

\* The last edit whose command may have been sent.
Frontier ==
  IF mutex = None THEN cleared ELSE IF pc[mutex] = "sent" THEN sent + 1 ELSE sent

LockInv ==
  /\ \A t \in Thread : Writing(t) <=> mutex = t
  /\ mutex # None =>
       /\ ~ Frozen
       /\ batch = Pending
       /\ cleared <= sent
       /\ ~ receipts => sent = cleared
       /\ Atomic => sent = cleared /\ pc[mutex] = "writing"
       /\ pc[mutex] = "sent" => sent < queued /\ ~ fresh
       /\ pc[mutex] = "creating" => fresh

UntouchedInv ==
  ~ Frozen /\ ~ interrupted =>
    /\ \A e \in Edit : e > Frontier => Untouched(e)
    /\ fresh /\ (mutex # None => pc[mutex] # "creating") => Untouched(0)

Inv == TypeOK /\ LockInv /\ UntouchedInv /\ AtMostOnce

-----------------------------------------------------------------------------
\* The lock is taken only by a thread, and a thread that writes holds it.
LEMMA Holder ==
  ASSUME Inv, NEW t \in Thread, Writing(t)
  PROVE  mutex = t /\ mutex # None /\ ~ Frozen /\ batch = Pending /\ cleared <= sent
  BY DEF Inv, LockInv

\* A write that ends releases the lock, whatever it answers.
LEMMA Ends ==
  ASSUME Inv, NEW t \in Thread, Writing(t), NEW state \in State,
         Returns(t, state) \/ Raises(t, state),
         fresh' \in BOOLEAN,
         outstanding' \in [Command -> Nat], executed' \in [Command -> Nat]
  PROVE  TypeOK' /\ LockInv' /\ mutex' = None /\ queued' = queued /\ interrupted' = interrupted
  <1> USE DEF Command, Edit, State
  <1>1. mutex = t /\ mutex # None
    BY Holder
  <1>2. mutex' = None /\ pc' = [pc EXCEPT ![t] = "idle"] /\ queued' = queued
    BY DEF Returns, Raises, Leave
  <1>3. cleared' = IF state = "committed" THEN queued ELSE cleared
    BY DEF Returns, Raises, Clears
  <1>4. unresolved' \in {unresolved, state}
    BY DEF Returns, Raises
  <1>5. told' \in [Edit -> State \cup {"planned"}]
    BY DEF Returns, Raises, Tell, Inv, TypeOK
  <1>6. sealed' \in BOOLEAN /\ last' \in State \cup {"none"}
    BY DEF Returns, Raises, Seals, Inv, TypeOK
  <1>7. UNCHANGED <<provider, closed, batch, sent, receipts, interrupted>>
    BY DEF Returns, Raises, writer
  <1>8. TypeOK'
    <2>1. pc' \in [Thread -> {"idle", "writing", "creating", "sent"}]
      BY <1>2 DEF Inv, TypeOK
    <2>2. cleared' \in 0 .. queued' /\ sent' \in 0 .. queued' /\ queued' \in Command
      BY <1>2, <1>3, <1>7 DEF Inv, TypeOK
    <2>3. unresolved' \in State \cup {"none"}
      BY <1>4 DEF Inv, TypeOK
    <2>4. mutex' \in Thread \cup {None}
      BY <1>2
    <2>5. /\ provider' \in {"maybe", "local", "literal"} /\ closed' \in BOOLEAN
          /\ batch' \subseteq Edit /\ receipts' \in BOOLEAN /\ interrupted' \in BOOLEAN
      BY <1>7 DEF Inv, TypeOK
    <2> QED BY <1>5, <1>6, <2>1, <2>2, <2>3, <2>4, <2>5 DEF TypeOK
  <1>9. LockInv'
    BY <1>1, <1>2 DEF Inv, LockInv, TypeOK, Writing
  <1> QED BY <1>2, <1>7, <1>8, <1>9

\* A write that ends without having sent anything more leaves the commands of
\* the edits that stay pending untouched, unless the session is frozen.
LEMMA EndsQuietly ==
  ASSUME Inv, NEW t \in Thread, Writing(t), NEW state \in State,
         Returns(t, state) \/ Raises(t, state),
         fresh' \in BOOLEAN, fresh' => fresh, UNCHANGED remote,
         state = "not_committed" => pc[t] = "writing" /\ ~ receipts,
         state = "committed" => pc[t] = "writing" /\ sent = queued
  PROVE  Inv'
  <1> USE DEF Command, Edit, State
  <1>1. mutex = t /\ mutex # None /\ ~ Frozen /\ batch = Pending /\ cleared <= sent
    BY Holder
  <1>2. TypeOK' /\ LockInv' /\ mutex' = None /\ queued' = queued /\ interrupted' = interrupted
    BY Ends DEF remote, Inv, TypeOK
  <1>3. AtMostOnce'
    BY <1>2 DEF Inv, AtMostOnce, remote
  <1>4. cleared' = IF state = "committed" THEN queued ELSE cleared
    BY DEF Returns, Raises, Clears
  <1>5. ASSUME ~ Frozen', ~ interrupted PROVE UntouchedInv'
    <2>1. state \in {"committed", "not_committed"}
      BY <1>5 DEF Returns, Raises, Frozen
    <2>2. pc[t] = "writing" /\ Frontier = sent
      BY <1>1, <2>1 DEF Frontier
    <2>3. Frontier' = sent
      <3>1. CASE state = "committed"
        BY <1>2, <1>4, <3>1 DEF Frontier
      <3>2. CASE state = "not_committed"
        <4>1. sent = cleared BY <1>1, <3>2 DEF Inv, LockInv
        <4> QED BY <1>2, <1>4, <3>2, <4>1 DEF Frontier
      <3> QED BY <2>1, <3>1, <3>2
    <2>4. \A e \in Edit : e > sent => Untouched(e)
      BY <1>1, <1>5, <2>2 DEF Inv, UntouchedInv
    <2>5. fresh => Untouched(0)
      BY <1>1, <1>5, <2>2 DEF Inv, UntouchedInv
    <2> QED BY <1>2, <2>3, <2>4, <2>5 DEF UntouchedInv, Untouched, remote
  <1> QED BY <1>2, <1>3, <1>5 DEF Inv, UntouchedInv

\* A local file takes only edits that no write has taken before.
LEMMA EndsPublished ==
  ASSUME Inv, NEW t \in Thread, Atomic, pc[t] = "writing", ExecuteBatch,
         Returns(t, "committed") \/ Raises(t, "committed"),
         fresh' = FALSE \/ Raises(t, "committed"), fresh' \in BOOLEAN,
         UNCHANGED outstanding
  PROVE  Inv'
  <1> USE DEF Command, Edit, State
  <1>1. /\ Writing(t) /\ mutex = t /\ mutex # None /\ ~ Frozen
        /\ batch = Pending /\ Frontier = cleared
    BY Holder DEF Writing, Inv, LockInv, Frontier
  <1>2. executed' \in [Command -> Nat]
    BY DEF ExecuteBatch, Inv, TypeOK
  <1>3. TypeOK' /\ LockInv' /\ mutex' = None /\ queued' = queued /\ interrupted' = interrupted
    BY <1>1, <1>2, Ends DEF Inv, TypeOK
  <1>4. \A e \in batch : e \in Edit /\ (interrupted \/ Untouched(e))
    BY <1>1 DEF Inv, UntouchedInv, Pending, TypeOK
  <1>5. fresh /\ ~ interrupted => Untouched(0)
    BY <1>1 DEF Inv, UntouchedInv
  <1>6. AtMostOnce'
    <2> SUFFICES ASSUME ~ interrupted, NEW c \in Command PROVE (executed[c] + outstanding[c] <= 1)'
      BY <1>3 DEF AtMostOnce
    <2>1. CASE c \in batch \/ (c = 0 /\ fresh)
      <3>1. Untouched(c) BY <1>4, <1>5, <2>1
      <3>2. executed'[c] = 1 /\ outstanding'[c] = 0
        BY <2>1, <3>1 DEF ExecuteBatch, Untouched
      <3> QED BY <3>2
    <2>2. CASE ~ (c \in batch \/ (c = 0 /\ fresh))
      <3>1. executed'[c] = executed[c] /\ outstanding'[c] = outstanding[c]
        BY <2>2 DEF ExecuteBatch
      <3> QED BY <3>1 DEF Inv, AtMostOnce
    <2> QED BY <2>1, <2>2
  <1>7. ASSUME ~ Frozen', ~ interrupted PROVE UntouchedInv'
    <2>1. fresh' = FALSE
      BY <1>7 DEF Raises, Frozen
    <2>2. cleared' = queued
      BY DEF Returns, Raises, Clears
    <2>3. Frontier' = queued
      BY <1>3, <2>2 DEF Frontier
    <2>4. \A e \in Edit : e > queued => e \notin batch /\ Untouched(e)
      BY <1>1, <1>7 DEF Inv, UntouchedInv, Pending, TypeOK
    <2>5. \A e \in Edit : e > queued => Untouched(e)'
      BY <2>4 DEF ExecuteBatch, Untouched
    <2> QED BY <1>3, <2>1, <2>3, <2>5 DEF UntouchedInv
  <1> QED BY <1>3, <1>6, <1>7 DEF Inv, UntouchedInv

-----------------------------------------------------------------------------
\* Calls that only open, fill or empty the queue reach no command.
LEMMA Enters ==
  ASSUME Inv, NEW t \in Thread, Queue(t) \/ BeginWrite(t) \/ Close(t)
  PROVE  Inv'
  <1> USE DEF Command, Edit, State, session, writer, remote, MayEnter, MayMutate
  <1>1. CASE Queue(t)
    <2>1. TypeOK' /\ LockInv' BY <1>1 DEF Queue, Inv, TypeOK, LockInv, Writing
    <2>2. AtMostOnce' BY <1>1 DEF Queue, Inv, AtMostOnce
    <2>3. Frontier' = Frontier /\ Frozen' = Frozen BY <1>1 DEF Queue, Frontier, Frozen
    <2>4. UntouchedInv'
      BY <1>1, <2>3 DEF Queue, Inv, UntouchedInv, Untouched
    <2> QED BY <2>1, <2>2, <2>4 DEF Inv
  <1>2. CASE BeginWrite(t)
    <2>1. Pending \subseteq Edit BY DEF Inv, TypeOK, Pending
    <2>2. /\ mutex' = t /\ pc' = [pc EXCEPT ![t] = "writing"] /\ batch' = Pending
          /\ sent' = cleared /\ receipts' = FALSE /\ Pending' = Pending
          /\ UNCHANGED <<session, remote, interrupted>>
      BY <1>2 DEF BeginWrite, Pending
    <2>3. told' \in [Edit -> State \cup {"planned"}]
      BY <1>2 DEF BeginWrite, Inv, TypeOK
    <2>4. TypeOK'
      BY <2>1, <2>2, <2>3 DEF Inv, TypeOK
    <2>5. ~ Frozen /\ mutex = None BY <1>2 DEF BeginWrite, Frozen
    <2>6. pc'[t] = "writing" /\ t # None BY <2>2 DEF Inv, TypeOK
    <2>7. \A u \in Thread : Writing(u)' <=> mutex' = u
      BY <2>2, <2>5 DEF Inv, TypeOK, LockInv, Writing
    <2>8. LockInv'
      BY <2>2, <2>5, <2>6, <2>7 DEF Inv, TypeOK, LockInv, Frozen
    <2>9. Frontier' = Frontier BY <2>2, <2>5, <2>6 DEF Frontier
    <2>10. UntouchedInv'
      BY <2>2, <2>5, <2>9 DEF Inv, UntouchedInv, Untouched, Frozen
    <2>11. AtMostOnce' BY <2>2 DEF Inv, AtMostOnce
    <2> QED BY <2>4, <2>8, <2>10, <2>11 DEF Inv
  <1>3. CASE Close(t)
    <2>1. TypeOK' BY <1>3 DEF Close, Inv, TypeOK
    <2>2. LockInv' BY <1>3 DEF Close, Inv, LockInv, Writing
    <2>3. AtMostOnce' BY <1>3 DEF Close, Inv, AtMostOnce
    <2>4. mutex = None /\ mutex' = None /\ cleared' = queued /\ Frozen' = Frozen
      BY <1>3 DEF Close, Frozen
    <2>5. Frontier = cleared /\ Frontier' = queued /\ cleared <= queued
      BY <2>4 DEF Frontier, Inv, TypeOK
    <2>6. UntouchedInv'
      BY <1>3, <2>4, <2>5 DEF Close, Inv, TypeOK, UntouchedInv, Untouched
    <2> QED BY <2>1, <2>2, <2>3, <2>6 DEF Inv
  <1> QED BY <1>1, <1>2, <1>3

\* A command is sent for the first time.
LEMMA Sends == ASSUME Inv, NEW t \in Thread, Send(t) PROVE Inv'
  <1> USE DEF Command, Edit, State, session, writer, remote
  <1>1. /\ Writing(t) /\ mutex = t /\ mutex # None /\ ~ Frozen /\ batch = Pending
        /\ cleared <= sent /\ pc[t] = "writing" /\ Frontier = sent
    BY Holder DEF Send, Writing, Frontier
  <1>2. DEFINE c == IF fresh THEN 0 ELSE sent + 1
  <1>3. c \in Command /\ (interrupted \/ Untouched(c)) /\ (~ fresh => sent < queued)
    <2>1. CASE fresh BY <1>1, <2>1 DEF Inv, UntouchedInv, SessionAssumption
    <2>2. CASE ~ fresh
      <3>1. PICK e \in batch : e > sent BY <2>2 DEF Send, Left
      <3>2. sent < queued BY <1>1, <3>1 DEF Pending, Inv, TypeOK
      <3> QED BY <1>1, <2>2, <3>2 DEF Inv, TypeOK, UntouchedInv
    <2> QED BY <2>1, <2>2
  <1> HIDE DEF c
  <1>4. outstanding' = [outstanding EXCEPT ![c] = @ + 1] /\ executed' = executed
    BY DEF Send, c, NextCommand
  <1>5. interrupted \/ (outstanding'[c] = 1 /\ executed'[c] = 0)
    BY <1>3, <1>4 DEF Untouched, Inv, TypeOK
  <1>6. \A d \in Command \ {c} : outstanding'[d] = outstanding[d]
    BY <1>4 DEF Inv, TypeOK
  <1>7. /\ pc' = [pc EXCEPT ![t] = IF fresh THEN "creating" ELSE "sent"]
        /\ UNCHANGED <<session, mutex, writer, interrupted>>
    BY DEF Send
  <1>8. TypeOK'
    <2>1. outstanding' \in [Command -> Nat] BY <1>3, <1>4 DEF Inv, TypeOK
    <2>2. pc' \in [Thread -> {"idle", "writing", "creating", "sent"}]
      BY <1>7 DEF Inv, TypeOK
    <2>3. told' = told BY DEF Send
    <2> QED BY <1>4, <1>7, <2>1, <2>2, <2>3 DEF Inv, TypeOK
  <1>9. AtMostOnce' BY <1>4, <1>5, <1>6, <1>7 DEF Inv, AtMostOnce
  <1>10. pc'[t] = IF fresh THEN "creating" ELSE "sent" BY <1>7 DEF Inv, TypeOK
  <1>11. LockInv'
    <2>1. ~ Atomic BY DEF Send
    <2>2. \A u \in Thread : Writing(u)' <=> mutex' = u
      BY <1>1, <1>7 DEF Inv, TypeOK, LockInv, Writing
    <2>3. batch' = Pending' /\ ~ Frozen' BY <1>1, <1>7 DEF Pending, Frozen
    <2> QED BY <1>1, <1>3, <1>7, <1>10, <2>1, <2>2, <2>3 DEF Inv, LockInv, Atomic
  <1>12. UntouchedInv'
    <2>1. CASE fresh
      <3>1. c = 0 /\ Frontier' = sent BY <1>1, <1>7, <1>10, <2>1 DEF c, Frontier
      <3>2. interrupted \/ \A e \in Edit : e > sent => Untouched(e)'
        BY <1>1, <1>4, <1>6, <3>1 DEF Inv, UntouchedInv, Untouched
      <3> QED BY <1>1, <1>7, <1>10, <2>1, <3>1, <3>2 DEF UntouchedInv
    <2>2. CASE ~ fresh
      <3>1. c = sent + 1 /\ Frontier' = sent + 1 BY <1>1, <1>7, <1>10, <2>2 DEF c, Frontier
      <3>2. interrupted \/ \A e \in Edit : e > sent + 1 => Untouched(e)'
        BY <1>1, <1>4, <1>6, <3>1 DEF Inv, TypeOK, UntouchedInv, Untouched
      <3> QED BY <1>7, <2>2, <3>1, <3>2 DEF UntouchedInv
    <2> QED BY <2>1, <2>2
  <1> QED BY <1>8, <1>9, <1>11, <1>12 DEF Inv

\* Only what was sent is executed.
LEMMA Executes == ASSUME Inv, NEW c \in Command, Execute(c) PROVE Inv'
  <1> USE DEF Command, Edit, State, session, writer
  <1>1. /\ outstanding[c] > 0
        /\ outstanding' = [outstanding EXCEPT ![c] = @ - 1]
        /\ executed' = [executed EXCEPT ![c] = @ + 1]
        /\ UNCHANGED <<session, mutex, pc, writer, told, interrupted>>
    BY DEF Execute
  <1>2. TypeOK'
    <2>1. outstanding[c] \in Nat /\ outstanding[c] - 1 \in Nat BY <1>1 DEF Inv, TypeOK
    <2>2. outstanding' \in [Command -> Nat] BY <1>1, <2>1 DEF Inv, TypeOK
    <2>3. executed' \in [Command -> Nat] BY <1>1 DEF Inv, TypeOK
    <2> QED BY <1>1, <2>2, <2>3 DEF Inv, TypeOK
  <1>3. AtMostOnce'
    <2> SUFFICES ASSUME ~ interrupted, NEW d \in Command
                 PROVE  (executed[d] + outstanding[d] <= 1)'
      BY <1>1 DEF AtMostOnce
    <2>1. executed'[d] + outstanding'[d] = executed[d] + outstanding[d]
      <3>1. executed[d] \in Nat /\ outstanding[d] \in Nat BY DEF Inv, TypeOK
      <3>2. CASE d = c
        <4>1. executed'[c] = executed[c] + 1 BY <1>1 DEF Inv, TypeOK
        <4>2. outstanding'[c] = outstanding[c] - 1 BY <1>1 DEF Inv, TypeOK
        <4>3. executed[c] + 1 + (outstanding[c] - 1) = executed[c] + outstanding[c]
          BY <3>1, <3>2
        <4> QED BY <3>2, <4>1, <4>2, <4>3
      <3>3. CASE d # c
        BY <1>1, <3>3 DEF Inv, TypeOK
      <3> QED BY <3>2, <3>3
    <2> QED BY <2>1 DEF Inv, AtMostOnce
  <1>4. LockInv' BY <1>1 DEF Inv, LockInv, Writing, Frozen, Pending, Atomic
  <1>5. ~ Untouched(c) BY <1>1 DEF Untouched
  <1>6. \A d \in Command : Untouched(d) => Untouched(d)'
    BY <1>1, <1>5 DEF Untouched, Inv, TypeOK
  <1>7. Frontier' = Frontier /\ Frozen' = Frozen BY <1>1 DEF Frontier, Frozen
  <1>8. UntouchedInv' BY <1>1, <1>6, <1>7 DEF Inv, UntouchedInv
  <1> QED BY <1>2, <1>3, <1>4, <1>8 DEF Inv

\* A command that was acknowledged moves the write on.
LEMMA Acknowledges == ASSUME Inv, NEW t \in Thread, Acknowledge(t) PROVE Inv'
  <1> USE DEF Command, Edit, State, remote
  <1>1. /\ Writing(t) /\ mutex = t /\ mutex # None /\ ~ Frozen /\ batch = Pending
        /\ cleared <= sent /\ pc[t] \in {"creating", "sent"}
    BY Holder DEF Acknowledge, Writing
  <1>2. /\ sent' = IF pc[t] = "sent" THEN sent + 1 ELSE sent
        /\ receipts' = TRUE /\ fresh' = (fresh /\ pc[t] = "sent")
        /\ pc' = [pc EXCEPT ![t] = "writing"]
        /\ UNCHANGED <<queued, cleared, closed, sealed, unresolved, last, mutex, batch, remote, told, interrupted, provider>>
    BY DEF Acknowledge
  <1>3. pc[t] = "sent" => sent < queued /\ ~ fresh BY <1>1 DEF Inv, LockInv
  <1>4. TypeOK' BY <1>2, <1>3 DEF Inv, TypeOK
  <1>5. pc'[t] = "writing" BY <1>2 DEF Inv, TypeOK
  <1>6. LockInv'
    <2>1. ~ Atomic BY <1>1 DEF Inv, LockInv
    <2>2. \A u \in Thread : Writing(u)' <=> mutex' = u
      BY <1>1, <1>2 DEF Inv, TypeOK, LockInv, Writing
    <2>3. batch' = Pending' /\ ~ Frozen' /\ cleared' <= sent'
      BY <1>1, <1>2 DEF Pending, Frozen, Inv, TypeOK
    <2> QED BY <1>1, <1>2, <1>5, <2>1, <2>2, <2>3 DEF LockInv, Atomic
  <1>7. AtMostOnce' BY <1>2 DEF Inv, AtMostOnce
  <1>8. Frontier' = Frontier BY <1>1, <1>2, <1>5 DEF Frontier
  <1>9. ~ fresh' BY <1>1, <1>2, <1>3
  <1>10. UntouchedInv' BY <1>1, <1>2, <1>8, <1>9 DEF Inv, UntouchedInv, Untouched
  <1> QED BY <1>4, <1>6, <1>7, <1>10 DEF Inv

\* A write that is interrupted gives the lock back; nothing more is claimed.
LEMMA Interrupts == ASSUME Inv, NEW t \in Thread, Interrupt(t) PROVE Inv'
  <1>1. /\ mutex' = None /\ pc' = [pc EXCEPT ![t] = "idle"] /\ interrupted' = TRUE
        /\ UNCHANGED <<session, writer, remote, told>>
    BY DEF Interrupt, Leave
  <1>2. mutex = t BY Holder DEF Interrupt, Writing
  <1>3. TypeOK' BY <1>1 DEF Inv, TypeOK, session, writer, remote, Command, Edit, State
  <1>4. LockInv' BY <1>1, <1>2 DEF Inv, TypeOK, LockInv, Writing
  <1> QED BY <1>1, <1>3, <1>4 DEF Inv, UntouchedInv, AtMostOnce

-----------------------------------------------------------------------------
\* Every step keeps the invariant.
LEMMA Step == ASSUME Inv, [Next]_vars PROVE Inv'
  <1> USE DEF State
  <1>1. ASSUME NEW t \in Thread, Refused(t) PROVE Inv'
    BY <1>1, EndsQuietly DEF Refused, Writing, Raises, Inv, TypeOK
  <1>2. ASSUME NEW t \in Thread, NoReply(t) PROVE Inv'
    <2>1. fresh \in BOOLEAN /\ fresh' \in {fresh, fresh /\ outstanding[0] # 0}
      BY <1>2 DEF NoReply, Inv, TypeOK
    <2>2. fresh' \in BOOLEAN /\ (fresh' => fresh)
      BY ONLY <2>1, Zenon
    <2>3. Writing(t) /\ Returns(t, "unknown") /\ UNCHANGED remote
      BY <1>2 DEF NoReply, Writing
    <2> QED BY <2>2, <2>3, EndsQuietly
  <1>3. ASSUME NEW t \in Thread, CompileFails(t) PROVE Inv'
    BY <1>3, EndsQuietly DEF CompileFails, Writing, Inv, TypeOK
  <1>4. ASSUME NEW t \in Thread, AllAcknowledged(t) PROVE Inv'
    <2>1. Writing(t) /\ batch = Pending /\ cleared <= sent
      BY <1>4, Holder DEF AllAcknowledged, Writing
    <2>2. sent = queued
      <3>1. queued > sent => queued \in Left
        BY <2>1 DEF Left, Pending, Inv, TypeOK, Command
      <3> QED BY <1>4, <3>1 DEF AllAcknowledged, Inv, TypeOK, Command
    <2> QED BY <1>4, <2>1, <2>2, EndsQuietly DEF AllAcknowledged, Inv, TypeOK
  <1>5. ASSUME NEW t \in Thread, Publish(t) PROVE Inv'
    BY <1>5, EndsPublished DEF Publish
  <1>6. ASSUME NEW t \in Thread, PublishUnclean(t) PROVE Inv'
    BY <1>6, EndsPublished DEF PublishUnclean, Raises, Inv, TypeOK
  <1>7. ASSUME NEW t \in Thread, Interrupt(t) PROVE Inv'
    BY <1>7, Interrupts
  <1>8. CASE UNCHANGED vars
    BY <1>8 DEF vars, session, writer, remote, Inv, TypeOK, LockInv, UntouchedInv,
                AtMostOnce, Writing, Frozen, Frontier, Untouched, Pending, Atomic
  <1> QED
    BY <1>1, <1>2, <1>3, <1>4, <1>5, <1>6, <1>7, <1>8, Enters, Sends, Executes, Acknowledges
    DEF Next, Advance

\* Initially nothing is queued, sent or owed.
LEMMA Start == Init => Inv
  <1> SUFFICES ASSUME Init PROVE Inv OBVIOUS
  <1> USE DEF Init, Command, Edit, State
  <1>1. TypeOK
    <2>1. queued \in Command /\ cleared \in 0 .. queued /\ sent \in 0 .. queued
      OBVIOUS
    <2>2. fresh \in BOOLEAN /\ closed \in BOOLEAN /\ sealed \in BOOLEAN /\ receipts \in BOOLEAN
      BY Zenon
    <2>3. unresolved \in State \cup {"none"} /\ last \in State \cup {"none"}
      OBVIOUS
    <2>4. pc \in [Thread -> {"idle", "writing", "creating", "sent"}]
      OBVIOUS
    <2>5. outstanding \in [Command -> Nat] /\ executed \in [Command -> Nat]
      OBVIOUS
    <2>6. told \in [Edit -> State \cup {"planned"}] /\ mutex \in Thread \cup {None} /\ batch \subseteq Edit
      OBVIOUS
    <2> QED BY <2>1, <2>2, <2>3, <2>4, <2>5, <2>6 DEF TypeOK
  <1>2. LockInv BY DEF LockInv, Writing
  <1>3. UntouchedInv BY DEF UntouchedInv, Untouched, Frozen, Frontier
  <1>4. AtMostOnce BY DEF AtMostOnce
  <1> QED BY <1>1, <1>2, <1>3, <1>4 DEF Inv

\* The state of a session and of its provider stays well typed.
THEOREM TypeCorrect == Spec => []TypeOK
  <1>1. Inv /\ [Next]_vars => Inv' BY Step
  <1>2. Inv => TypeOK BY DEF Inv
  <1> QED BY Start, <1>1, <1>2, PTL DEF Spec

\* However replies are lost and late commands still run, the provider executes
\* no command of a session twice until a write is interrupted.
THEOREM NothingSentTwice == Spec => []AtMostOnce
  <1>1. Inv /\ [Next]_vars => Inv' BY Step
  <1>2. Inv => AtMostOnce BY DEF Inv
  <1> QED BY Start, <1>1, <1>2, PTL DEF Spec
-----------------------------------------------------------------------------
(* What a write answers.                                                   *)

Answered(e) ==
  /\ told[e] = "committed" => executed[e] > 0
  /\ told[e] = "not_committed" => executed[e] = 0 /\ outstanding[e] = 0
  /\ told[e] = "partial" => outstanding[e] = 0

\* The edits of a running write were answered nothing yet; those acknowledged were
\* executed, and the one in transit was sent.
ToldInv ==
  ~ interrupted =>
    /\ \A e \in Edit : Answered(e)
    /\ mutex # None =>
         /\ \A e \in batch : told[e] = "planned"
         /\ \A e \in Edit : cleared < e /\ e <= sent => executed[e] > 0 /\ outstanding[e] = 0
         /\ pc[mutex] = "sent" => executed[sent + 1] + outstanding[sent + 1] > 0

\* A write that ends tells its edits the truth when no command of theirs is left
\* that could contradict it.
LEMMA EndsTold ==
  ASSUME Inv, ToldInv, NEW t \in Thread, Writing(t), NEW state \in State,
         Returns(t, state) \/ Raises(t, state),
         \A e \in Edit \ batch : executed'[e] = executed[e] /\ outstanding'[e] = outstanding[e],
         ~ interrupted => \A e \in batch :
           /\ state = "committed" => executed'[e] > 0
           /\ state = "not_committed" => executed'[e] = 0 /\ outstanding'[e] = 0
           /\ state = "partial" => outstanding'[e] = 0
  PROVE  ToldInv'
  <1>1. /\ mutex' = None /\ interrupted' = interrupted
        /\ told' = [e \in Edit |-> IF e \in batch THEN state ELSE told[e]]
    BY DEF Returns, Raises, Leave, Tell
  <1>2. SUFFICES ASSUME ~ interrupted, NEW e \in Edit PROVE Answered(e)'
    BY <1>1 DEF ToldInv
  <1>3. CASE e \in batch
    BY <1>1, <1>2, <1>3 DEF Answered, State
  <1>4. CASE e \notin batch
    BY <1>1, <1>2, <1>4 DEF Answered, ToldInv
  <1> QED BY <1>3, <1>4

\* While nothing more of a batch is in transit, what was acknowledged was executed
\* and the rest was not sent.
LEMMA BatchSettled ==
  ASSUME Inv, ToldInv, ~ interrupted, NEW t \in Thread, pc[t] = "writing", NEW e \in batch
  PROVE  /\ e \in Edit /\ cleared < e
         /\ e <= sent => executed[e] > 0 /\ outstanding[e] = 0
         /\ e > sent => Untouched(e)
         /\ ~ receipts => Untouched(e)
  <1>1. mutex = t /\ mutex # None /\ ~ Frozen /\ batch = Pending
    BY Holder DEF Writing
  <1>2. e \in Edit /\ cleared < e
    BY <1>1 DEF Pending, Inv, TypeOK, Command, Edit
  <1>3. e > sent => Untouched(e)
    BY <1>1, <1>2 DEF Inv, UntouchedInv, Frontier
  <1>4. ~ receipts => e > sent
    BY <1>1, <1>2 DEF Inv, LockInv
  <1> QED BY <1>1, <1>2, <1>3, <1>4 DEF ToldInv

\* Every step keeps what writes have answered true.
LEMMA ToldKept ==
  ASSUME Inv, ToldInv, [Next]_vars
  PROVE  ToldInv'
  <1> USE DEF State, remote, session, writer
  <1>1. ASSUME NEW t \in Thread, Queue(t) \/ Close(t) PROVE ToldInv'
    BY <1>1 DEF Queue, Close, MayEnter, ToldInv, Answered
  <1>2. ASSUME NEW t \in Thread, BeginWrite(t) PROVE ToldInv'
    <2>1. /\ mutex' = t /\ pc' = [pc EXCEPT ![t] = "writing"] /\ batch' = Pending
          /\ sent' = cleared /\ cleared' = cleared /\ UNCHANGED <<remote, interrupted>>
          /\ told' = [e \in Edit |-> IF e \in Pending THEN "planned" ELSE told[e]]
      BY <1>2 DEF BeginWrite
    <2>2. Pending \subseteq Edit /\ cleared \in Nat
      BY DEF Inv, TypeOK, Pending, Edit, Command
    <2>3. pc'[t] = "writing" BY <2>1 DEF Inv, TypeOK
    <2>4. \A e \in Edit : cleared < e /\ e <= cleared => FALSE
      BY <2>2 DEF Edit
    <2> QED BY <2>1, <2>2, <2>3, <2>4 DEF ToldInv, Answered
  <1>3. ASSUME NEW t \in Thread, Interrupt(t) PROVE ToldInv'
    BY <1>3 DEF Interrupt, ToldInv
  <1>4. ASSUME NEW t \in Thread, Refused(t) PROVE ToldInv'
    <2>1. ~ interrupted => \A e \in batch : Untouched(e)
      BY <1>4, BatchSettled DEF Refused
    <2> QED BY <1>4, <2>1, EndsTold DEF Refused, Writing, Untouched
  <1>5. ASSUME NEW t \in Thread, Send(t) PROVE ToldInv'
    <2> DEFINE c == NextCommand
    <2>1. /\ mutex = t /\ mutex # None /\ batch = Pending
      BY <1>5, Holder DEF Send, Writing
    <2>2. /\ outstanding' = [outstanding EXCEPT ![c] = @ + 1] /\ executed' = executed
          /\ pc' = [pc EXCEPT ![t] = IF fresh THEN "creating" ELSE "sent"]
          /\ UNCHANGED <<mutex, batch, sent, cleared, told, interrupted>>
      BY <1>5 DEF Send
    <2>3. c = 0 \/ (c = sent + 1 /\ ~ fresh /\ c \in batch)
      <3>1. CASE fresh BY <3>1 DEF NextCommand
      <3>2. CASE ~ fresh
        <4>1. PICK e \in batch : e > sent BY <1>5, <3>2 DEF Send, Left
        <4> QED BY <2>1, <3>2, <4>1 DEF NextCommand, Pending, Inv, LockInv, TypeOK, Command
      <3> QED BY <3>1, <3>2
    <2>4. c \in Command /\ batch \subseteq Edit
      BY <2>3 DEF Inv, TypeOK, Command, Edit, SessionAssumption
    <2> HIDE DEF c
    <2>5. /\ outstanding'[c] = outstanding[c] + 1 /\ outstanding[c] \in Nat /\ executed[c] \in Nat
          /\ \A d \in Command \ {c} : outstanding'[d] = outstanding[d]
      BY <2>2, <2>4 DEF Inv, TypeOK
    <2>6. Edit \subseteq Command /\ 0 \notin Edit BY DEF Edit, Command
    <2>7. SUFFICES ASSUME ~ interrupted PROVE ToldInv'
      BY <2>2 DEF ToldInv
    <2>8. \A e \in Edit : Answered(e)'
      BY <2>1, <2>2, <2>3, <2>5, <2>6, <2>7 DEF ToldInv, Answered
    <2>9. \A e \in Edit : cleared < e /\ e <= sent => executed'[e] > 0 /\ outstanding'[e] = 0
      <3>1. c = sent + 1 => \A e \in Edit : e <= sent => e # c
        BY DEF Edit, Inv, TypeOK, Command
      <3> QED BY <2>1, <2>2, <2>3, <2>5, <2>6, <2>7, <3>1 DEF ToldInv
    <2>10. pc'[t] = "sent" => c = sent + 1
      BY <2>2, <2>3, <2>6 DEF Inv, TypeOK, c, NextCommand
    <2> QED BY <2>1, <2>2, <2>5, <2>7, <2>8, <2>9, <2>10 DEF ToldInv
  <1>6. ASSUME NEW c \in Command, Execute(c) PROVE ToldInv'
    <2>1. /\ outstanding[c] > 0
          /\ outstanding' = [outstanding EXCEPT ![c] = @ - 1]
          /\ executed' = [executed EXCEPT ![c] = @ + 1]
          /\ UNCHANGED <<mutex, pc, batch, sent, cleared, told, interrupted>>
      BY <1>6 DEF Execute
    <2>2. \A d \in Command : /\ executed[d] \in Nat /\ outstanding[d] \in Nat
                             /\ executed'[d] \in Nat /\ executed'[d] >= executed[d]
                             /\ d # c => executed'[d] = executed[d] /\ outstanding'[d] = outstanding[d]
                             /\ d = c => executed'[d] > 0 /\ outstanding'[d] \in Nat
      BY <2>1 DEF Inv, TypeOK
    <2>3. Edit \subseteq Command BY DEF Edit, Command
    <2>4. SUFFICES ASSUME ~ interrupted PROVE ToldInv'
      BY <2>1 DEF ToldInv
    <2>5. \A e \in Edit : Answered(e)'
      BY <2>1, <2>2, <2>3, <2>4 DEF ToldInv, Answered
    <2>6. mutex # None => \A e \in Edit : cleared < e /\ e <= sent => executed'[e] > 0 /\ outstanding'[e] = 0
      BY <2>1, <2>2, <2>3, <2>4 DEF ToldInv
    <2>7. mutex # None /\ pc[mutex] = "sent" => executed'[sent + 1] + outstanding'[sent + 1] > 0
      <3>1. mutex # None /\ pc[mutex] = "sent" => sent + 1 \in Command
        BY DEF Inv, LockInv, TypeOK, Command
      <3> QED BY <2>2, <2>4, <3>1 DEF ToldInv
    <2> QED BY <2>1, <2>5, <2>6, <2>7 DEF ToldInv
  <1>7. ASSUME NEW t \in Thread, Acknowledge(t) PROVE ToldInv'
    <2>1. mutex = t /\ mutex # None
      BY <1>7, Holder DEF Acknowledge, Writing
    <2>2. /\ sent' = IF pc[t] = "sent" THEN sent + 1 ELSE sent
          /\ pc' = [pc EXCEPT ![t] = "writing"]
          /\ UNCHANGED <<mutex, batch, cleared, remote, told, interrupted>>
          /\ pc[t] = "sent" => outstanding[sent + 1] = 0
      BY <1>7 DEF Acknowledge, InTransit
    <2>3. pc'[t] = "writing" BY <2>2 DEF Inv, TypeOK
    <2>4. SUFFICES ASSUME ~ interrupted, NEW e \in Edit, cleared < e, e <= sent'
                   PROVE  executed[e] > 0 /\ outstanding[e] = 0
      BY <2>1, <2>2, <2>3 DEF ToldInv, Answered
    <2>5. CASE e <= sent BY <2>1, <2>4, <2>5 DEF ToldInv
    <2>6. CASE ~ (e <= sent)
      <3>1. pc[t] = "sent" /\ e = sent + 1
        BY <2>2, <2>4, <2>6 DEF Inv, TypeOK, Edit, Command
      <3>2. executed[e] \in Nat BY DEF Inv, TypeOK, Edit, Command
      <3> QED BY <2>1, <2>2, <2>4, <3>1, <3>2 DEF ToldInv
    <2> QED BY <2>5, <2>6
  <1>8. ASSUME NEW t \in Thread, NoReply(t) PROVE ToldInv'
    BY <1>8, EndsTold DEF NoReply, Writing
  <1>9. ASSUME NEW t \in Thread, CompileFails(t) PROVE ToldInv'
    <2>1. ~ interrupted => \A e \in batch : outstanding[e] = 0 /\ (~ receipts => Untouched(e))
      <3>1. sent \in Nat /\ \A e \in Edit : e <= sent \/ e > sent
        BY DEF Inv, TypeOK, Edit, Command
      <3> QED BY <1>9, <3>1, BatchSettled DEF CompileFails, Untouched
    <2> QED BY <1>9, <2>1, EndsTold DEF CompileFails, Writing, Untouched
  <1>10. ASSUME NEW t \in Thread, AllAcknowledged(t) PROVE ToldInv'
    <2>1. ~ interrupted => \A e \in batch : executed[e] > 0
      <3>1. \A e \in batch : e \in Edit /\ (e <= sent \/ e \in Left)
        BY DEF Inv, TypeOK, Edit, Command, Left
      <3> QED BY <1>10, <3>1, BatchSettled DEF AllAcknowledged
    <2> QED BY <1>10, <2>1, EndsTold DEF AllAcknowledged, Writing
  <1>11. ASSUME NEW t \in Thread, Publish(t) \/ PublishUnclean(t) PROVE ToldInv'
    <2>1. ExecuteBatch /\ outstanding' = outstanding /\ pc[t] = "writing"
      BY <1>11 DEF Publish, PublishUnclean
    <2>2. Edit \subseteq Command /\ batch \subseteq Edit /\ 0 \notin Edit
      BY DEF Inv, TypeOK, Edit, Command
    <2>3. \A e \in batch : executed'[e] > 0
      BY <2>1, <2>2 DEF ExecuteBatch, Inv, TypeOK
    <2>4. \A e \in Edit \ batch : executed'[e] = executed[e]
      BY <2>1, <2>2 DEF ExecuteBatch
    <2> QED BY <1>11, <2>1, <2>3, <2>4, EndsTold DEF Publish, PublishUnclean, Writing
  <1>12. CASE UNCHANGED vars
    BY <1>12 DEF vars, ToldInv, Answered
  <1> QED BY <1>1, <1>2, <1>3, <1>4, <1>5, <1>6, <1>7, <1>8, <1>9, <1>10, <1>11, <1>12
          DEF Next, Advance

\* What a write answers of its edits is what the provider did and will do with them,
\* however replies are lost and late commands still run, until one is interrupted.
THEOREM AnswersHold == Spec => []AnswersAreTrue
  <1>1. Init => ToldInv BY DEF Init, ToldInv, Answered
  <1>2. Inv /\ [Next]_vars => Inv' BY Step
  <1>3. Inv /\ ToldInv /\ [Next]_vars => ToldInv' BY ToldKept
  <1>4. ToldInv => AnswersAreTrue BY DEF ToldInv, Answered, AnswersAreTrue
  <1> QED BY Start, <1>1, <1>2, <1>3, <1>4, PTL DEF Spec

\* An edit leaves the queue by a write that says it committed it or by close(), and
\* by nothing else.
THEOREM NothingDropped == Spec => NothingIsDropped
  <1> DEFINE Leaves == \A e \in Pending \ Pending' : told'[e] = "committed" \/ closed'
  <1>1. Inv /\ [Next]_vars => [Leaves]_vars
    <2>1. SUFFICES ASSUME Inv, Next, NEW e \in Pending, e \notin Pending'
                   PROVE  told'[e] = "committed" \/ closed'
      OBVIOUS
    <2>2. e \in Edit /\ queued \in Nat /\ cleared \in Nat
      BY <2>1 DEF Inv, TypeOK, Pending, Edit, Command
    <2>3. ~ (queued' = queued + 1 /\ cleared' = cleared) /\ ~ (queued' = queued /\ cleared' = cleared)
      BY <2>1, <2>2 DEF Pending
    <2>4. ASSUME NEW t \in Thread, NEW state, Writing(t), Returns(t, state) \/ Raises(t, state)
          PROVE  told'[e] = "committed"
      <3>1. state = "committed" /\ told' = [d \in Edit |-> IF d \in batch THEN state ELSE told[d]]
        BY <2>3, <2>4 DEF Returns, Raises, Clears, Tell
      <3>2. e \in batch BY <2>1, <2>4, Holder
      <3> QED BY <2>2, <3>1, <3>2
    <2>5. ASSUME NEW t \in Thread, Refused(t) PROVE told'[e] = "committed"
      BY <2>4, <2>5 DEF Refused, Writing
    <2>6. ASSUME NEW t \in Thread, NoReply(t) \/ CompileFails(t) \/ AllAcknowledged(t)
          PROVE  told'[e] = "committed"
      BY <2>4, <2>6 DEF NoReply, CompileFails, AllAcknowledged, Writing
    <2>7. ASSUME NEW t \in Thread, Publish(t) \/ PublishUnclean(t) PROVE told'[e] = "committed"
      BY <2>4, <2>7 DEF Publish, PublishUnclean, Writing
    <2>8. ASSUME NEW t \in Thread, Close(t) PROVE closed'
      BY <2>8 DEF Close
    <2> QED
      BY <2>1, <2>3, <2>5, <2>6, <2>7, <2>8 DEF Next, Advance, Queue, BeginWrite, Interrupt, Send,
         Acknowledge, Execute, session
  <1> QED BY Start, <1>1, Step, PTL DEF Spec, NothingIsDropped

-----------------------------------------------------------------------------
USE HandlesAssumption

(***************************************************************************)
(* Worksheet handles.  The stages of the queued changes have distinct names, *)
(* and every queued change applies to the stage before it.                   *)
(***************************************************************************)
StageAt(k) == Stages(worksheets, pending)[k]

DistinctNames(sheets) ==
    \A i, j \in DOMAIN sheets : i # j => sheets[i].name # sheets[j].name

Applicable(sheets, change) ==
    /\ Valid(sheets, change)
    /\ change.op = "rename" => change.new \in SheetNames

StagesApply ==
    /\ \A k \in 0..Len(pending) : StageAt(k) \in Sheets /\ DistinctNames(StageAt(k))
    /\ \A i \in DOMAIN pending : Applicable(StageAt(i - 1), pending[i])

(* The changes are numbered as they were queued, across commits.             *)
ChangesInOrder ==
    /\ Len(pending) <= numbered
    /\ \A i \in DOMAIN pending : pending[i].n = numbered - Len(pending) + i

(* Sheets with their gids: no two have one, and those that the session       *)
(* created are of its changes up to a number.                                *)
GidsKnown(sheets, upto) ==
    /\ \A i \in DOMAIN sheets :
          sheets[i].gid = sheets[i].of /\ sheets[i].gid # NoGid /\ sheets[i].gid >= -upto
    /\ \A i, j \in DOMAIN sheets : i # j => sheets[i].gid # sheets[j].gid

GidsAreTrue ==
    /\ GidsKnown(worksheets, numbered - Len(pending))
    /\ \A i \in DOMAIN document : document[i].gid = document[i].of

(* The sheets that a batch tracks are those of the stage it reached, and     *)
(* those of the document unless another user edits it.                       *)
Alike(sheets, stage) ==
    /\ Len(sheets) = Len(stage)
    /\ \A i \in DOMAIN stage : sheets[i].name = stage[i].name /\ sheets[i].of = stage[i].of

BatchTracks ==
    committing # Absent =>
        /\ committing.k <= Len(pending) + 1
        /\ GidsKnown(committing.sheets, numbered - Len(pending) + committing.k - 1)
        /\ Alike(committing.sheets, StageAt(committing.k - 1))
        /\ committing.others <= others
        /\ committing.others = others => document = committing.sheets

(* A handle, or a change about to be queued, whose name was not edited since *)
(* means the sheet that has the name now.                                    *)
MeansIts(versions, now, name, handle) ==
    /\ handle.generation <= versions[name]
    /\ ~handle.raced /\ handle.generation = versions[name] => handle.of = Meant(now, name)

HandlesFollow ==
    \A t \in Threads :
        handles[t] # Absent => MeansIts(generations, Draft, handles[t].name, handles[t])

CallFollows(versions, now, call, handle) ==
    LET change == call.change
    IN  /\ call.step = "range" => handle # Absent
        /\ call.step = "queue" /\ change.op # "create" =>
               /\ MeansIts(versions, now, change.name, change)
               /\ handle # Absent /\ handle.of = change.of
        /\ call.step # "range" /\ change.op = "rename" => change.new \in SheetNames
        /\ call.step = "renamed" =>
               /\ change.op = "rename"
               /\ MeansIts(versions, now, change.new, change)
               /\ handle # Absent /\ handle.of = change.of

CallsFollow ==
    \A t \in Threads :
        calls[t] # Absent => CallFollows(generations, Draft, calls[t], handles[t])

HandlesInv ==
    /\ HandlesTypeOK
    /\ StagesApply /\ ChangesInOrder /\ GidsAreTrue /\ BatchTracks
    /\ HandlesFollow /\ CallsFollow
    /\ SheetsAreTheOnesMeant

-----------------------------------------------------------------------------
(* Sequences and recursion.                                                  *)

(* A set of numbers has a least element.                                     *)
LEMMA LeastNumber ==
    ASSUME NEW S \in SUBSET Nat, S # {}
    PROVE  \E n \in S : \A m \in S : n <= m
<1>1. PICK R : R = {ss \in Nat \X Nat : ss[1] < ss[2]}
  OBVIOUS
<1>2. IsWellFoundedOn(R, Nat)
  <2>1. IsWellFoundedOn({ss \in Nat \X Nat : ss[1] < ss[2]}, Nat)
    BY ONLY NatLessThanWellFounded DEF OpToRel
  <2> QED BY ONLY <1>1, <2>1
<1>3. PICK n \in S : \A m \in S : ~(<<m, n>> \in R)
  BY <1>2, WFMin
<1>4. ASSUME NEW m \in S PROVE n <= m
  <2>1. n \in Nat /\ m \in Nat
    OBVIOUS
  <2>2. <<m, n>> \in R <=> m < n
    BY <1>1, <2>1
  <2>3. ~(m < n)
    BY <1>3, <2>2
  <2> QED BY <2>1, <2>3
<1> QED BY <1>4

(* Induction over a set: it is the numbers when it has 0 and every successor. *)
LEMMA InductiveSet ==
    ASSUME NEW S, 0 \in S, \A n \in Nat : n \in S => n + 1 \in S
    PROVE  Nat \subseteq S
<1>1. SUFFICES ASSUME Nat \ S # {} PROVE FALSE
  OBVIOUS
<1>2. PICK n \in Nat \ S : \A m \in Nat \ S : n <= m
  BY <1>1, LeastNumber
<1>3. n # 0 /\ n - 1 \in Nat /\ ~(n <= n - 1) /\ (n - 1) + 1 = n
  OBVIOUS
<1>4. n - 1 \in S
  BY <1>2, <1>3
<1> QED BY <1>3, <1>4

(* The equation of Stages, for the stages up to one of them.                 *)
IsStages(stage, sheets, changes, upto) ==
    stage = [k \in 0..upto |-> IF k = 0 THEN sheets ELSE Edited(stage[k - 1], changes[k])]

(* The stages are what their recursive definition says.                      *)
LEMMA StagesAre ==
    ASSUME NEW sheets, NEW changes, Len(changes) \in Nat
    PROVE  IsStages(Stages(sheets, changes), sheets, changes, Len(changes))
<1>1. PICK S : S = {n \in Nat : \E f : IsStages(f, sheets, changes, n)}
  OBVIOUS
<1>2. 0 \in S
  <2>1. IsStages([k \in 0..0 |-> sheets], sheets, changes, 0)
    BY DEF IsStages
  <2> QED BY <1>1, <2>1
<1>3. ASSUME NEW n \in Nat, n \in S PROVE n + 1 \in S
  <2>1. PICK f : IsStages(f, sheets, changes, n)
    BY <1>1, <1>3
  <2>2. PICK g : g = [k \in 0..(n + 1) |->
                         IF k = n + 1 THEN Edited(f[n], changes[n + 1]) ELSE f[k]]
    OBVIOUS
  <2>3. \A k \in 0..n : f[k] = IF k = 0 THEN sheets ELSE Edited(f[k - 1], changes[k])
    BY <2>1 DEF IsStages
  <2>4. ASSUME NEW k \in 0..(n + 1)
        PROVE  g[k] = IF k = 0 THEN sheets ELSE Edited(g[k - 1], changes[k])
    <3>1. CASE k = n + 1
      <4>1. g[k] = Edited(f[n], changes[n + 1])
        BY <2>2, <3>1
      <4>2. k # 0 /\ k - 1 = n /\ n \in 0..(n + 1) /\ n # n + 1
        BY <3>1
      <4>3. g[k - 1] = f[n]
        BY <2>2, <4>2
      <4> QED BY <3>1, <4>1, <4>2, <4>3
    <3>2. CASE k # n + 1
      <4>1. k \in 0..n
        BY <3>2
      <4>2. g[k] = f[k]
        BY <2>2, <3>2
      <4>3. CASE k = 0
        BY <4>2, <4>3, <2>3, <4>1
      <4>4. CASE k # 0
        <5>1. k - 1 \in 0..(n + 1) /\ k - 1 # n + 1
          BY <4>1, <4>4
        <5>2. g[k - 1] = f[k - 1]
          BY <2>2, <5>1
        <5> QED BY <4>2, <4>4, <5>2, <2>3, <4>1
      <4> QED BY <4>3, <4>4
    <3> QED BY <3>1, <3>2
  <2>5. g = [k \in 0..(n + 1) |-> IF k = 0 THEN sheets ELSE Edited(g[k - 1], changes[k])]
    BY <2>2, <2>4
  <2>6. IsStages(g, sheets, changes, n + 1)
    BY <2>5 DEF IsStages
  <2> QED BY <1>1, <2>6
<1>4. Len(changes) \in S
  BY <1>2, <1>3, InductiveSet
<1>5. \E f : IsStages(f, sheets, changes, Len(changes))
  BY <1>1, <1>4
<1>6. Stages(sheets, changes) = CHOOSE f : IsStages(f, sheets, changes, Len(changes))
  BY DEF Stages, IsStages
<1> QED BY <1>5, <1>6

(* One more change adds a stage and leaves the others.                       *)
LEMMA StagesOfAppend ==
    ASSUME NEW sheets, NEW C, NEW changes \in Seq(C), NEW change \in C
    PROVE  /\ \A k \in 0..Len(changes) :
                 Stages(sheets, Append(changes, change))[k] = Stages(sheets, changes)[k]
           /\ Stages(sheets, Append(changes, change))[Len(changes) + 1]
                 = Edited(Stages(sheets, changes)[Len(changes)], change)
<1>1. PICK more : more = Append(changes, change)
  OBVIOUS
<1>2. /\ Len(changes) \in Nat
      /\ Len(more) = Len(changes) + 1
      /\ more[Len(changes) + 1] = change
      /\ \A k \in 1..Len(changes) : more[k] = changes[k]
  BY <1>1
<1>3. PICK f : f = Stages(sheets, changes)
  OBVIOUS
<1>4. PICK g : g = Stages(sheets, more)
  OBVIOUS
<1>5. \A k \in 0..Len(changes) : f[k] = IF k = 0 THEN sheets ELSE Edited(f[k - 1], changes[k])
  BY <1>2, <1>3, StagesAre DEF IsStages
<1>6. \A k \in 0..(Len(changes) + 1) :
          g[k] = IF k = 0 THEN sheets ELSE Edited(g[k - 1], more[k])
  <2>1. IsStages(g, sheets, more, Len(more))
    BY <1>2, <1>4, StagesAre
  <2> QED BY <2>1, <1>2 DEF IsStages
<1>7. PICK S : S = {n \in Nat : n <= Len(changes) => g[n] = f[n]}
  OBVIOUS
<1>8. 0 \in S
  BY <1>2, <1>5, <1>6, <1>7
<1>9. ASSUME NEW n \in Nat, n \in S PROVE n + 1 \in S
  <2>1. SUFFICES ASSUME n + 1 <= Len(changes) PROVE g[n + 1] = f[n + 1]
    BY <1>7
  <2>2. /\ n + 1 \in 0..Len(changes) /\ n + 1 \in 1..Len(changes) /\ n + 1 # 0
        /\ (n + 1) - 1 = n /\ n <= Len(changes) /\ n + 1 \in 0..(Len(changes) + 1)
    BY <2>1, <1>2
  <2>3. g[n] = f[n]
    BY <1>7, <1>9, <2>2
  <2>4. more[n + 1] = changes[n + 1]
    BY <1>2, <2>2
  <2>5. g[n + 1] = Edited(g[n], more[n + 1])
    BY <1>6, <2>2
  <2>6. f[n + 1] = Edited(f[n], changes[n + 1])
    BY <1>5, <2>2
  <2> QED BY <2>3, <2>4, <2>5, <2>6
<1>10. Nat \subseteq S
  BY <1>8, <1>9, InductiveSet
<1>11. \A k \in 0..Len(changes) : g[k] = f[k]
  BY <1>7, <1>10, <1>2
<1>12. g[Len(changes) + 1] = Edited(f[Len(changes)], change)
  <2>1. /\ Len(changes) + 1 \in 0..(Len(changes) + 1) /\ Len(changes) + 1 # 0
        /\ (Len(changes) + 1) - 1 = Len(changes) /\ Len(changes) \in 0..Len(changes)
    BY <1>2
  <2>2. g[Len(changes) + 1] = Edited(g[Len(changes)], more[Len(changes) + 1])
    <3>1. PICK n : n = Len(changes) + 1
      OBVIOUS
    <3>2. g[n] = Edited(g[n - 1], more[n])
      BY <3>1, <2>1, <1>6
    <3> QED BY ONLY <3>1, <3>2, <2>1
  <2> QED BY ONLY <2>1, <2>2, <1>2, <1>11
<1> QED BY <1>1, <1>3, <1>4, <1>11, <1>12


-----------------------------------------------------------------------------
(* Lists of worksheets.                                                      *)
(* A change that can be applied, as far as the list of worksheets is         *)
(* concerned.                                                                *)
Applies(sheets, change) ==
    /\ change.op \in {"create", "rename", "delete", "write", "style"}
    /\ change.name \in SheetNames /\ change.n \in Nat
    /\ Applicable(sheets, change)

(* With distinct names a name has one place.                                 *)
LEMMA PlaceOfName ==
    ASSUME NEW sheets \in Sheets, DistinctNames(sheets), NEW i \in DOMAIN sheets
    PROVE  /\ Named(sheets, sheets[i].name) = {i}
           /\ Position(sheets, sheets[i].name) = i
           /\ Meant(sheets, sheets[i].name) = sheets[i].of
<1>1. \A j \in DOMAIN sheets : sheets[j].name = sheets[i].name => j = i
  BY DEF DistinctNames
<1>2. Named(sheets, sheets[i].name) = {i}
  BY <1>1 DEF Named
<1>3. Position(sheets, sheets[i].name) = i
  BY <1>1 DEF Position
<1> QED BY <1>2, <1>3 DEF Meant

(* A name that some sheet has is at its position.                            *)
LEMMA NameHasPlace ==
    ASSUME NEW sheets \in Sheets, NEW name, Named(sheets, name) # {}
    PROVE  /\ Position(sheets, name) \in DOMAIN sheets
           /\ sheets[Position(sheets, name)].name = name
           /\ Meant(sheets, name) = sheets[Position(sheets, name)].of
BY DEF Named, Position, Meant

(* What is left when one element of a sequence is removed.                   *)
LEMMA AllButOne ==
    ASSUME NEW S, NEW s \in Seq(S), NEW i \in 1..Len(s)
    PROVE  /\ RemoveAt(s, i) \in Seq(S)
           /\ Len(RemoveAt(s, i)) = Len(s) - 1
           /\ \A j \in 1..(Len(s) - 1) :
                 RemoveAt(s, i)[j] = IF j < i THEN s[j] ELSE s[j + 1]
<1>1. PICK a : a = SubSeq(s, 1, i - 1)
  OBVIOUS
<1>2. PICK b : b = SubSeq(s, i + 1, Len(s))
  OBVIOUS
<1>3. /\ a \in Seq(S) /\ Len(a) = i - 1
      /\ \A j \in 1..(i - 1) : a[j] = s[j]
  BY <1>1
<1>4. /\ b \in Seq(S) /\ Len(b) = Len(s) - i
      /\ \A j \in 1..(Len(s) - i) : b[j] = s[i + j]
  BY <1>2
<1>5. RemoveAt(s, i) = a \o b
  BY <1>1, <1>2 DEF RemoveAt
<1>6. /\ a \o b \in Seq(S) /\ Len(a \o b) = Len(s) - 1
      /\ \A j \in 1..(Len(s) - 1) : (a \o b)[j] = IF j <= i - 1 THEN a[j] ELSE b[j - (i - 1)]
  BY <1>3, <1>4
<1>7. ASSUME NEW j \in 1..(Len(s) - 1)
      PROVE  (a \o b)[j] = IF j < i THEN s[j] ELSE s[j + 1]
  <2>1. CASE j < i
    BY <2>1, <1>6, <1>3
  <2>2. CASE ~(j < i)
    <3>1. PICK m : m = j - (i - 1)
      OBVIOUS
    <3>2. m \in 1..(Len(s) - i) /\ i + m = j + 1 /\ ~(j <= i - 1)
      BY <3>1, <2>2
    <3> QED BY <3>1, <3>2, <2>2, <1>6, <1>4
  <2> QED BY <2>1, <2>2
<1> QED BY <1>5, <1>6, <1>7

(* A created sheet is the last one.                                          *)
LEMMA AfterCreate ==
    ASSUME NEW sheets \in Sheets, NEW change, Applies(sheets, change), change.op = "create"
    PROVE  /\ Edited(sheets, change)
                 = Append(sheets, [name |-> change.name, gid |-> NoGid, of |-> -change.n])
           /\ \A j \in DOMAIN sheets : sheets[j].name # change.name
BY DEF Applies, Applicable, Valid, Named, Edited

(* A list with the name of one sheet replaced.                               *)
WithName(sheets, i, name) == [sheets EXCEPT ![i] = [sheets[i] EXCEPT !.name = name]]

\* A list of sheets with one name replaced differs in that name only.
LEMMA WithNameIs ==
    ASSUME NEW sheets \in Sheets, NEW i \in DOMAIN sheets, NEW name \in SheetNames
    PROVE  /\ WithName(sheets, i, name) \in Sheets
           /\ DOMAIN WithName(sheets, i, name) = DOMAIN sheets
           /\ Len(WithName(sheets, i, name)) = Len(sheets)
           /\ \A j \in DOMAIN sheets :
                 /\ WithName(sheets, i, name)[j].gid = sheets[j].gid
                 /\ WithName(sheets, i, name)[j].of = sheets[j].of
                 /\ WithName(sheets, i, name)[j].name = IF j = i THEN name ELSE sheets[j].name
<1>1. sheets \in Seq(SheetRows) /\ sheets[i] \in SheetRows
  BY DEF Sheets
<1>2. PICK row : row = [sheets[i] EXCEPT !.name = name]
  OBVIOUS
<1>3. row \in SheetRows /\ row.name = name /\ row.gid = sheets[i].gid /\ row.of = sheets[i].of
  BY ONLY <1>1, <1>2, name \in SheetNames DEF SheetRows
<1>4. PICK after : after = [sheets EXCEPT ![i] = row]
  OBVIOUS
<1>5. after \in Seq(SheetRows)
  BY ONLY <1>1, <1>3, <1>4, i \in DOMAIN sheets
<1>6. DOMAIN after = DOMAIN sheets /\ Len(after) = Len(sheets)
  BY ONLY <1>1, <1>4, <1>5
<1>7. \A j \in DOMAIN sheets : after[j] = IF j = i THEN row ELSE sheets[j]
  BY ONLY <1>1, <1>4
<1>8. after = WithName(sheets, i, name)
  BY ONLY <1>2, <1>4 DEF WithName
<1> QED BY <1>3, <1>5, <1>6, <1>7, <1>8 DEF Sheets

(* A renamed sheet keeps its place and all but its name.                     *)
LEMMA AfterRename ==
    ASSUME NEW sheets \in Sheets, DistinctNames(sheets), NEW change, Applies(sheets, change),
           change.op = "rename"
    PROVE  \E i \in DOMAIN sheets :
             /\ i = Position(sheets, change.name) /\ sheets[i].name = change.name
             /\ Meant(sheets, change.name) = sheets[i].of
             /\ Edited(sheets, change) = WithName(sheets, i, change.new)
             /\ \A j \in DOMAIN sheets \ {i} :
                   sheets[j].name # change.new /\ sheets[j].name # change.name
             /\ change.new \in SheetNames
<1>1. Named(sheets, change.name) # {} /\ change.new \in SheetNames
      /\ Named(sheets, change.new) \subseteq Named(sheets, change.name)
  BY DEF Applies, Applicable, Valid
<1>2. PICK i : i = Position(sheets, change.name)
  OBVIOUS
<1>3. i \in DOMAIN sheets /\ sheets[i].name = change.name
      /\ Meant(sheets, change.name) = sheets[i].of
  BY <1>1, <1>2, NameHasPlace
<1>4. Named(sheets, change.name) = {i}
  BY <1>3, PlaceOfName
<1>5. \A j \in DOMAIN sheets \ {i} :
         sheets[j].name # change.new /\ sheets[j].name # change.name
  BY <1>1, <1>4 DEF Named
<1>6. Edited(sheets, change) = WithName(sheets, i, change.new)
  BY <1>2 DEF Edited, Renamed, WithName
<1> QED BY <1>1, <1>2, <1>3, <1>5, <1>6

(* A deleted sheet is taken out of the list.                                 *)
LEMMA AfterDelete ==
    ASSUME NEW sheets \in Sheets, DistinctNames(sheets), NEW change, Applies(sheets, change),
           change.op = "delete"
    PROVE  \E i \in DOMAIN sheets :
             /\ i = Position(sheets, change.name) /\ sheets[i].name = change.name
             /\ Edited(sheets, change) = RemoveAt(sheets, i)
<1>1. Named(sheets, change.name) # {}
  BY DEF Applies, Applicable, Valid
<1> QED BY <1>1, NameHasPlace DEF Edited

(* Other changes leave the list.                                             *)
LEMMA AfterWrite ==
    ASSUME NEW sheets, NEW change, Applies(sheets, change),
           change.op \notin {"create", "rename", "delete"}
    PROVE  Edited(sheets, change) = sheets /\ Named(sheets, change.name) # {}
BY DEF Applies, Applicable, Valid, Edited

\* The rows of a list of sheets, by position.
LEMMA RowsOfSheets ==
    ASSUME NEW sheets \in Sheets
    PROVE  /\ Len(sheets) \in Nat /\ DOMAIN sheets = 1..Len(sheets)
           /\ sheets \in Seq(SheetRows)
           /\ \A i \in DOMAIN sheets : sheets[i] \in SheetRows /\ sheets[i].name \in SheetNames
<1>1. sheets \in Seq(SheetRows)
  BY DEF Sheets
<1>2. Len(sheets) \in Nat /\ DOMAIN sheets = 1..Len(sheets)
  BY ONLY <1>1
<1>3. \A i \in DOMAIN sheets : sheets[i] \in SheetRows
  BY ONLY <1>1
<1>4. \A row \in SheetRows : row.name \in SheetNames
  BY DEF SheetRows
<1> QED BY ONLY <1>1, <1>2, <1>3, <1>4

(* A change keeps a list of worksheets with distinct names one.              *)
LEMMA EditKeepsNames ==
    ASSUME NEW sheets \in Sheets, DistinctNames(sheets), NEW change, Applies(sheets, change)
    PROVE  Edited(sheets, change) \in Sheets /\ DistinctNames(Edited(sheets, change))
<1>0. /\ Len(sheets) \in Nat /\ DOMAIN sheets = 1..Len(sheets) /\ sheets \in Seq(SheetRows)
      /\ \A i \in DOMAIN sheets : sheets[i] \in SheetRows
  BY RowsOfSheets
<1>1. CASE change.op = "create"
  <2>1. PICK row : row = [name |-> change.name, gid |-> NoGid, of |-> -change.n]
    OBVIOUS
  <2>2. row \in SheetRows /\ row.name = change.name
    BY <2>1 DEF Applies, NoGid, SheetRows
  <2>3. /\ Edited(sheets, change) = Append(sheets, row)
        /\ \A j \in DOMAIN sheets : sheets[j].name # change.name
    BY <1>1, <2>1, AfterCreate
  <2>4. Append(sheets, row) \in Seq(SheetRows)
    BY <1>0, <2>2
  <2>5. DistinctNames(Append(sheets, row))
    BY <1>0, <2>2, <2>3 DEF DistinctNames
  <2> QED BY <2>3, <2>4, <2>5 DEF Sheets
<1>2. CASE change.op = "rename"
  <2>1. PICK i \in DOMAIN sheets :
             /\ Edited(sheets, change) = WithName(sheets, i, change.new)
             /\ \A j \in DOMAIN sheets \ {i} :
                   sheets[j].name # change.new /\ sheets[j].name # change.name
             /\ change.new \in SheetNames
    BY <1>2, AfterRename
  <2>2. PICK after : after = WithName(sheets, i, change.new)
    OBVIOUS
  <2>3. /\ after \in Sheets /\ DOMAIN after = DOMAIN sheets
        /\ \A j \in DOMAIN sheets : after[j].name = IF j = i THEN change.new ELSE sheets[j].name
    BY <2>1, <2>2, WithNameIs
  <2>4. DistinctNames(after)
    BY <2>1, <2>3 DEF DistinctNames
  <2> QED BY <2>1, <2>2, <2>3, <2>4
<1>3. CASE change.op = "delete"
  <2>1. PICK i \in DOMAIN sheets : Edited(sheets, change) = RemoveAt(sheets, i)
    BY <1>3, AfterDelete
  <2>2. PICK after : after = RemoveAt(sheets, i)
    OBVIOUS
  <2>3. /\ after \in Seq(SheetRows)
        /\ Len(after) = Len(sheets) - 1
        /\ \A j \in 1..(Len(sheets) - 1) : after[j] = IF j < i THEN sheets[j] ELSE sheets[j + 1]
    <3>1. i \in 1..Len(sheets)
      BY <1>0
    <3> QED BY ONLY <3>1, <2>2, <1>0, AllButOne
  <2>4. ASSUME NEW j \in DOMAIN after, NEW m \in DOMAIN after, j # m
        PROVE  after[j].name # after[m].name
    <3>1. j \in 1..(Len(sheets) - 1) /\ m \in 1..(Len(sheets) - 1)
      BY <2>3
    <3>2. PICK p : p = IF j < i THEN j ELSE j + 1
      OBVIOUS
    <3>3. PICK q : q = IF m < i THEN m ELSE m + 1
      OBVIOUS
    <3>4. p \in DOMAIN sheets /\ q \in DOMAIN sheets /\ p # q
      BY ONLY <3>1, <3>2, <3>3, <2>4, <1>0, i \in DOMAIN sheets
    <3>5. after[j] = sheets[p] /\ after[m] = sheets[q]
      BY ONLY <3>1, <3>2, <3>3, <2>3
    <3> QED BY <3>4, <3>5 DEF DistinctNames
  <2> QED BY <2>1, <2>2, <2>3, <2>4 DEF Sheets, DistinctNames
<1>4. CASE change.op \notin {"create", "rename", "delete"}
  BY <1>4, AfterWrite
<1> QED BY <1>1, <1>2, <1>3, <1>4

(* A change leaves the meaning of the names it does not use.                 *)
LEMMA EditKeepsMeaning ==
    ASSUME NEW sheets \in Sheets, DistinctNames(sheets), NEW change, Applies(sheets, change),
           NEW name,
           \/ ~Structural(change)
           \/ name # change.name /\ (change.op = "rename" => name # change.new)
    PROVE  Meant(Edited(sheets, change), name) = Meant(sheets, name)
<1>0. /\ Len(sheets) \in Nat /\ DOMAIN sheets = 1..Len(sheets) /\ sheets \in Seq(SheetRows)
      /\ \A i \in DOMAIN sheets : sheets[i] \in SheetRows
  BY RowsOfSheets
<1>1. PICK after : after = Edited(sheets, change)
  OBVIOUS
<1>2. after \in Sheets /\ DistinctNames(after)
  BY <1>1, EditKeepsNames
<1>3. SUFFICES ASSUME name # change.name, change.op = "rename" => name # change.new, Structural(change)
               PROVE  Meant(after, name) = Meant(sheets, name)
  <2>1. CASE ~Structural(change)
    BY <2>1, AfterWrite DEF Structural
  <2> QED BY <2>1, <1>1
<1>4. SUFFICES /\ \A j \in DOMAIN sheets : sheets[j].name = name =>
                     \E m \in DOMAIN after : after[m].name = name /\ after[m].of = sheets[j].of
               /\ \A m \in DOMAIN after : after[m].name = name =>
                     \E j \in DOMAIN sheets : sheets[j].name = name
  <2>1. CASE Named(sheets, name) = {}
    BY <2>1, <1>4 DEF Named, Meant
  <2>2. CASE Named(sheets, name) # {}
    <3>1. PICK j \in DOMAIN sheets : sheets[j].name = name
      BY <2>2 DEF Named
    <3>2. PICK m \in DOMAIN after : after[m].name = name /\ after[m].of = sheets[j].of
      BY <1>4, <3>1
    <3>3. Meant(sheets, name) = sheets[j].of
      BY <3>1, PlaceOfName
    <3>4. Meant(after, name) = after[m].of
      BY <3>2, <1>2, PlaceOfName
    <3> QED BY <3>2, <3>3, <3>4
  <2> QED BY <2>1, <2>2
<1>5. CASE change.op = "create"
  <2>1. PICK row : row = [name |-> change.name, gid |-> NoGid, of |-> -change.n]
    OBVIOUS
  <2>2. after = Append(sheets, row) /\ row.name = change.name
    BY <1>1, <1>5, <2>1, AfterCreate
  <2>3. /\ DOMAIN after = 1..(Len(sheets) + 1)
        /\ \A j \in 1..Len(sheets) : after[j] = sheets[j]
        /\ after[Len(sheets) + 1] = row
    BY ONLY <2>2, <1>0
  <2>4. ASSUME NEW j \in DOMAIN sheets PROVE j \in DOMAIN after /\ after[j] = sheets[j]
    BY ONLY <2>3, <2>4, <1>0
  <2>5. ASSUME NEW m \in DOMAIN after, after[m].name = name
        PROVE  m \in DOMAIN sheets /\ sheets[m].name = name
    <3>1. m # Len(sheets) + 1
      BY <2>5, <2>3, <2>2, <1>3
    <3>2. m \in 1..Len(sheets)
      BY ONLY <3>1, <2>3, <1>0, m \in DOMAIN after
    <3> QED BY <3>2, <2>3, <2>5, <1>0
  <2> QED BY <2>4, <2>5
<1>6. CASE change.op = "rename"
  <2>1. PICK i \in DOMAIN sheets :
             /\ sheets[i].name = change.name
             /\ Edited(sheets, change) = WithName(sheets, i, change.new)
             /\ change.new \in SheetNames
    BY <1>6, AfterRename
  <2>2. /\ DOMAIN after = DOMAIN sheets
        /\ \A j \in DOMAIN sheets :
              /\ after[j].of = sheets[j].of
              /\ after[j].name = IF j = i THEN change.new ELSE sheets[j].name
    BY <1>1, <2>1, WithNameIs
  <2> QED BY <2>1, <2>2, <1>3, <1>6
<1>7. CASE change.op = "delete"
  <2>1. PICK i \in DOMAIN sheets : after = RemoveAt(sheets, i) /\ sheets[i].name = change.name
    BY <1>1, <1>7, AfterDelete
  <2>2. /\ DOMAIN after = 1..(Len(sheets) - 1)
        /\ \A j \in 1..(Len(sheets) - 1) : after[j] = IF j < i THEN sheets[j] ELSE sheets[j + 1]
    <3>1. i \in 1..Len(sheets)
      BY <1>0
    <3>2. /\ after \in Seq(SheetRows) /\ Len(after) = Len(sheets) - 1
          /\ \A j \in 1..(Len(sheets) - 1) : after[j] = IF j < i THEN sheets[j] ELSE sheets[j + 1]
      BY ONLY <3>1, <2>1, <1>0, AllButOne
    <3> QED BY ONLY <3>2
  <2>3. ASSUME NEW j \in DOMAIN sheets, sheets[j].name = name
        PROVE  \E m \in DOMAIN after : after[m] = sheets[j]
    <3>1. j # i /\ j \in 1..Len(sheets) /\ i \in 1..Len(sheets)
      BY <2>1, <2>3, <1>0, <1>3
    <3>2. PICK m : m = IF j < i THEN j ELSE j - 1
      OBVIOUS
    <3>3. m \in 1..(Len(sheets) - 1) /\ (IF m < i THEN m ELSE m + 1) = j
      BY ONLY <3>1, <3>2, <1>0
    <3>4. after[m] = sheets[j]
      BY ONLY <3>3, <2>2
    <3> QED BY <3>3, <3>4, <2>2
  <2>4. ASSUME NEW m \in DOMAIN after
        PROVE  \E j \in DOMAIN sheets : after[m] = sheets[j]
    <3>1. PICK j : j = IF m < i THEN m ELSE m + 1
      OBVIOUS
    <3>2. j \in DOMAIN sheets
      BY ONLY <3>1, <2>2, <1>0, m \in DOMAIN after, i \in DOMAIN sheets
    <3>3. after[m] = sheets[j]
      BY ONLY <3>1, <2>2, m \in DOMAIN after
    <3> QED BY <3>2, <3>3
  <2> QED BY <2>3, <2>4
<1> QED BY <1>3, <1>5, <1>6, <1>7 DEF Structural

(* What a name meant before a rename, the new name means after it.           *)
LEMMA RenameMeansTheSame ==
    ASSUME NEW sheets \in Sheets, DistinctNames(sheets), NEW change, Applies(sheets, change),
           change.op = "rename"
    PROVE  Meant(Edited(sheets, change), change.new) = Meant(sheets, change.name)
<1>0. /\ Len(sheets) \in Nat /\ DOMAIN sheets = 1..Len(sheets) /\ sheets \in Seq(SheetRows)
      /\ \A i \in DOMAIN sheets : sheets[i] \in SheetRows
  BY RowsOfSheets
<1>1. PICK after : after = Edited(sheets, change)
  OBVIOUS
<1>2. after \in Sheets /\ DistinctNames(after)
  BY <1>1, EditKeepsNames
<1>3. PICK i \in DOMAIN sheets :
           /\ Meant(sheets, change.name) = sheets[i].of
           /\ Edited(sheets, change) = WithName(sheets, i, change.new)
           /\ change.new \in SheetNames
  BY AfterRename
<1>4. /\ i \in DOMAIN after
      /\ after[i].of = sheets[i].of
      /\ after[i].name = change.new
  BY <1>1, <1>3, WithNameIs
<1>5. Meant(after, after[i].name) = after[i].of
  BY <1>2, <1>4, PlaceOfName
<1> QED BY <1>1, <1>3, <1>4, <1>5

-----------------------------------------------------------------------------
(* Two lists that differ in the gids only.                                   *)
LEMMA AlikeMeanTheSame ==
    ASSUME NEW sheets \in Sheets, NEW stage \in Sheets, Alike(sheets, stage), DistinctNames(stage)
    PROVE  /\ DistinctNames(sheets)
           /\ \A name : /\ Named(sheets, name) = Named(stage, name)
                        /\ Meant(sheets, name) = Meant(stage, name)
           /\ \A change : Applies(stage, change) =>
                 /\ Applies(sheets, change)
                 /\ change.op # "create" =>
                        Position(sheets, change.name) = Position(stage, change.name)
<1>1. /\ DOMAIN sheets = DOMAIN stage
      /\ \A i \in DOMAIN stage : sheets[i].name = stage[i].name /\ sheets[i].of = stage[i].of
  BY RowsOfSheets DEF Alike
<1>2. DistinctNames(sheets)
  BY <1>1 DEF DistinctNames
<1>3. ASSUME NEW name PROVE Named(sheets, name) = Named(stage, name)
  BY <1>1 DEF Named
<1>4. ASSUME NEW name, Named(stage, name) # {}
      PROVE  Position(sheets, name) = Position(stage, name)
  <2>1. PICK i \in DOMAIN stage : stage[i].name = name
    BY <1>4 DEF Named
  <2>2. Position(stage, name) = i
    BY <2>1, PlaceOfName
  <2>3. Position(sheets, name) = i
    BY <2>1, <1>1, <1>2, PlaceOfName
  <2> QED BY <2>2, <2>3
<1>5. ASSUME NEW name PROVE Meant(sheets, name) = Meant(stage, name)
  <2>1. CASE Named(stage, name) = {}
    BY <2>1, <1>3 DEF Meant
  <2>2. CASE Named(stage, name) # {}
    <3>1. Position(stage, name) \in DOMAIN stage
      BY <2>2, NameHasPlace
    <3> QED BY <3>1, <2>2, <1>1, <1>3, <1>4 DEF Meant
  <2> QED BY <2>1, <2>2
<1>6. ASSUME NEW change, Applies(stage, change)
      PROVE  /\ Applies(sheets, change)
             /\ change.op # "create" =>
                    Position(sheets, change.name) = Position(stage, change.name)
  <2>1. Applies(sheets, change)
    BY <1>3, <1>6 DEF Applies, Applicable, Valid
  <2>2. change.op # "create" => Named(stage, change.name) # {}
    BY <1>6 DEF Applies, Applicable, Valid
  <2> QED BY <2>1, <2>2, <1>4
<1> QED BY <1>2, <1>3, <1>5, <1>6

(* The sheets a batch tracks after the answer to a command.                  *)
Tracked(sheets, change) ==
    IF change.op = "create"
    THEN Pinned(Edited(sheets, change), change.name, NewGid(change))
    ELSE Edited(sheets, change)

NewRow(change) == [name |-> change.name, gid |-> NewGid(change), of |-> -change.n]

(* A created sheet is entered with its gid.                                  *)
LEMMA TrackedCreate ==
    ASSUME NEW sheets \in Sheets, NEW change, Applies(sheets, change),
           change.op = "create"
    PROVE  /\ Tracked(sheets, change) = Append(sheets, NewRow(change))
           /\ NewRow(change) \in SheetRows /\ NewRow(change).name = change.name
           /\ NewRow(change).of = -change.n /\ NewRow(change).gid = -change.n
<1>0. /\ Len(sheets) \in Nat /\ DOMAIN sheets = 1..Len(sheets) /\ sheets \in Seq(SheetRows)
  BY RowsOfSheets
<1>1. PICK row : row = [name |-> change.name, gid |-> NoGid, of |-> -change.n]
  OBVIOUS
<1>2. PICK after : after = Append(sheets, row)
  OBVIOUS
<1>3. Edited(sheets, change) = after
  BY <1>1, <1>2, AfterCreate
<1>4. row \in SheetRows /\ row.name = change.name
  BY <1>1 DEF Applies, SheetRows, NoGid
<1>5. after \in Sheets
  BY <1>0, <1>2, <1>4 DEF Sheets
<1>6. /\ Len(after) = Len(sheets) + 1 /\ DOMAIN after = 1..(Len(sheets) + 1)
      /\ after[Len(sheets) + 1] = row
      /\ \A j \in 1..Len(sheets) : after[j] = sheets[j]
  BY ONLY <1>2, <1>0, <1>4
<1>7. Position(after, change.name) = Len(sheets) + 1
  <2>1. PICK n : n = Len(sheets) + 1
    OBVIOUS
  <2>2. n \in DOMAIN after /\ after[n].name = change.name
    BY <2>1, <1>6, <1>4, <1>0
  <2>3. ASSUME NEW j \in DOMAIN after, after[j].name = change.name PROVE j = n
    <3>1. \A i \in DOMAIN sheets : sheets[i].name # change.name
      BY AfterCreate
    <3>2. j # n => j \in DOMAIN sheets /\ after[j] = sheets[j]
      BY ONLY <2>1, <1>6, <1>0, j \in DOMAIN after
    <3> QED BY <3>1, <3>2, <2>3
  <2> QED BY <2>1, <2>2, <2>3 DEF Position
<1>8. PICK new : new = NewRow(change)
  OBVIOUS
<1>9. /\ new \in SheetRows /\ new.name = change.name /\ new.of = -change.n /\ new.gid = -change.n
      /\ new = [row EXCEPT !.gid = NewGid(change)]
  BY <1>1, <1>8 DEF Applies, SheetRows, NewRow, NewGid
<1>10. Pinned(after, change.name, NewGid(change)) = [after EXCEPT ![Len(sheets) + 1] = new]
  BY <1>6, <1>7, <1>9 DEF Pinned
<1>11. [after EXCEPT ![Len(sheets) + 1] = new] = Append(sheets, new)
  <2>1. PICK l : l = [after EXCEPT ![Len(sheets) + 1] = new]
    OBVIOUS
  <2>2. PICK r : r = Append(sheets, new)
    OBVIOUS
  <2>3. after \in Seq(SheetRows)
    BY <1>5 DEF Sheets
  <2>4. /\ l \in Seq(SheetRows) /\ Len(l) = Len(sheets) + 1
        /\ \A j \in 1..(Len(sheets) + 1) : l[j] = IF j = Len(sheets) + 1 THEN new ELSE sheets[j]
    BY ONLY <2>1, <2>3, <1>0, <1>6, <1>9
  <2>5. /\ r \in Seq(SheetRows) /\ Len(r) = Len(sheets) + 1
        /\ \A j \in 1..(Len(sheets) + 1) : r[j] = IF j = Len(sheets) + 1 THEN new ELSE sheets[j]
    BY ONLY <2>2, <1>0, <1>9
  <2>6. l = r
    BY ONLY <2>4, <2>5, <1>0
  <2> QED BY <2>1, <2>2, <2>6
<1> QED BY <1>3, <1>8, <1>9, <1>10, <1>11 DEF Tracked

(* A batch tracks the next stage.                                            *)
LEMMA TrackedIsAlike ==
    ASSUME NEW sheets \in Sheets, NEW stage \in Sheets, Alike(sheets, stage), DistinctNames(stage),
           NEW change, Applies(stage, change)
    PROVE  /\ Tracked(sheets, change) \in Sheets
           /\ Alike(Tracked(sheets, change), Edited(stage, change))
<1>0. /\ Len(sheets) \in Nat /\ DOMAIN sheets = 1..Len(sheets) /\ sheets \in Seq(SheetRows)
      /\ DOMAIN stage = 1..Len(sheets) /\ stage \in Seq(SheetRows) /\ Len(stage) = Len(sheets)
  BY RowsOfSheets DEF Alike
<1>1. /\ DistinctNames(sheets) /\ Applies(sheets, change)
      /\ change.op # "create" =>
             Position(sheets, change.name) = Position(stage, change.name)
  BY AlikeMeanTheSame
<1>2. \A i \in DOMAIN stage : sheets[i].name = stage[i].name /\ sheets[i].of = stage[i].of
  BY DEF Alike
<1>3. CASE change.op = "create"
  <2>1. PICK new : new = NewRow(change)
    OBVIOUS
  <2>2. /\ Tracked(sheets, change) = Append(sheets, new) /\ new \in SheetRows
        /\ new.name = change.name /\ new.of = -change.n
    BY <2>1, <1>1, <1>3, TrackedCreate
  <2>3. PICK row : row = [name |-> change.name, gid |-> NoGid, of |-> -change.n]
    OBVIOUS
  <2>4. Edited(stage, change) = Append(stage, row)
    BY <2>3, <1>3, AfterCreate
  <2>5. row.name = change.name /\ row.of = -change.n
    BY <2>3
  <2>6. /\ Append(sheets, new) \in Seq(SheetRows) /\ Len(Append(sheets, new)) = Len(sheets) + 1
        /\ \A j \in 1..(Len(sheets) + 1) :
              Append(sheets, new)[j] = IF j = Len(sheets) + 1 THEN new ELSE sheets[j]
    BY ONLY <2>2, <1>0
  <2>7. /\ Len(Append(stage, row)) = Len(sheets) + 1
        /\ DOMAIN Append(stage, row) = 1..(Len(sheets) + 1)
        /\ \A j \in 1..(Len(sheets) + 1) :
              Append(stage, row)[j] = IF j = Len(sheets) + 1 THEN row ELSE stage[j]
    BY ONLY <1>0
  <2>8. ASSUME NEW j \in 1..(Len(sheets) + 1)
        PROVE  /\ Append(sheets, new)[j].name = Append(stage, row)[j].name
               /\ Append(sheets, new)[j].of = Append(stage, row)[j].of
    <3>1. CASE j = Len(sheets) + 1
      BY <3>1, <2>2, <2>5, <2>6, <2>7
    <3>2. CASE j # Len(sheets) + 1
      <4>1. j \in DOMAIN stage
        BY ONLY <3>2, <1>0, j \in 1..(Len(sheets) + 1)
      <4>2. Append(sheets, new)[j] = sheets[j] /\ Append(stage, row)[j] = stage[j]
        BY <3>2, <2>6, <2>7
      <4> QED BY <4>1, <4>2, <1>2
    <3> QED BY <3>1, <3>2
  <2> QED BY <2>2, <2>4, <2>6, <2>7, <2>8 DEF Alike, Sheets
<1>4. CASE change.op = "rename"
  <2>1. PICK i \in DOMAIN sheets :
             /\ i = Position(sheets, change.name)
             /\ Edited(sheets, change) = WithName(sheets, i, change.new)
             /\ change.new \in SheetNames
    BY <1>1, <1>4, AfterRename
  <2>2. PICK m \in DOMAIN stage :
             /\ m = Position(stage, change.name)
             /\ Edited(stage, change) = WithName(stage, m, change.new)
    BY <1>4, AfterRename
  <2>3. i = m
    BY <2>1, <2>2, <1>1, <1>4
  <2>4. WithName(sheets, i, change.new) \in Sheets
        /\ Alike(WithName(sheets, i, change.new), WithName(stage, i, change.new))
    <3>1. PICK s : s = WithName(sheets, i, change.new)
      OBVIOUS
    <3>2. PICK u : u = WithName(stage, i, change.new)
      OBVIOUS
    <3>3. /\ s \in Sheets /\ Len(s) = Len(sheets)
          /\ \A j \in DOMAIN sheets :
                /\ s[j].of = sheets[j].of
                /\ s[j].name = IF j = i THEN change.new ELSE sheets[j].name
      BY <2>1, <3>1, WithNameIs
    <3>4. /\ Len(u) = Len(stage) /\ DOMAIN u = DOMAIN stage
          /\ \A j \in DOMAIN stage :
                /\ u[j].of = stage[j].of
                /\ u[j].name = IF j = i THEN change.new ELSE stage[j].name
      BY <2>1, <2>2, <2>3, <3>2, WithNameIs
    <3>5. Alike(s, u)
      BY <3>3, <3>4, <1>0, <1>2 DEF Alike
    <3> QED BY <3>1, <3>2, <3>3, <3>5
  <2> QED BY <2>1, <2>2, <2>3, <2>4, <1>4 DEF Tracked
<1>5. CASE change.op = "delete"
  <2>1. PICK i \in DOMAIN sheets :
             /\ i = Position(sheets, change.name) /\ Edited(sheets, change) = RemoveAt(sheets, i)
    BY <1>1, <1>5, AfterDelete
  <2>2. PICK m \in DOMAIN stage :
             /\ m = Position(stage, change.name) /\ Edited(stage, change) = RemoveAt(stage, m)
    BY <1>5, AfterDelete
  <2>3. i = m
    BY <2>1, <2>2, <1>1, <1>5
  <2>4. i \in 1..Len(sheets) /\ i \in 1..Len(stage)
    BY <1>0
  <2>5. /\ RemoveAt(sheets, i) \in Seq(SheetRows) /\ Len(RemoveAt(sheets, i)) = Len(sheets) - 1
        /\ \A j \in 1..(Len(sheets) - 1) :
              RemoveAt(sheets, i)[j] = IF j < i THEN sheets[j] ELSE sheets[j + 1]
    BY ONLY <2>4, <1>0, AllButOne
  <2>6. /\ RemoveAt(stage, i) \in Seq(SheetRows) /\ Len(RemoveAt(stage, i)) = Len(sheets) - 1
        /\ \A j \in 1..(Len(sheets) - 1) :
              RemoveAt(stage, i)[j] = IF j < i THEN stage[j] ELSE stage[j + 1]
    BY ONLY <2>4, <1>0, AllButOne
  <2>7. DOMAIN RemoveAt(stage, i) = 1..(Len(sheets) - 1)
    BY ONLY <2>6
  <2>8. ASSUME NEW j \in 1..(Len(sheets) - 1)
        PROVE  /\ RemoveAt(sheets, i)[j].name = RemoveAt(stage, i)[j].name
               /\ RemoveAt(sheets, i)[j].of = RemoveAt(stage, i)[j].of
    <3>1. j \in DOMAIN stage /\ j + 1 \in DOMAIN stage
      BY ONLY <1>0, j \in 1..(Len(sheets) - 1)
    <3> QED BY <3>1, <2>5, <2>6, <1>2
  <2>9. Alike(RemoveAt(sheets, i), RemoveAt(stage, i))
    BY <2>5, <2>6, <2>7, <2>8 DEF Alike
  <2> QED BY <2>1, <2>2, <2>3, <2>5, <2>9, <1>5 DEF Tracked, Sheets
<1>6. CASE change.op \notin {"create", "rename", "delete"}
  BY <1>1, <1>6, AfterWrite DEF Tracked
<1> QED BY <1>3, <1>4, <1>5, <1>6

(* The gids of the sheets a batch tracks stay distinct.                      *)
LEMMA TrackedGids ==
    ASSUME NEW sheets \in Sheets, DistinctNames(sheets), NEW change, Applies(sheets, change),
           NEW m \in Nat, GidsKnown(sheets, m), change.n = m + 1
    PROVE  GidsKnown(Tracked(sheets, change), m + 1)
<1>0. /\ Len(sheets) \in Nat /\ DOMAIN sheets = 1..Len(sheets) /\ sheets \in Seq(SheetRows)
      /\ \A j \in DOMAIN sheets : sheets[j].gid \in Int
  BY RowsOfSheets DEF SheetRows
<1>1. /\ \A j \in DOMAIN sheets :
            /\ sheets[j].gid = sheets[j].of /\ sheets[j].gid # NoGid
            /\ sheets[j].gid >= -m /\ sheets[j].gid >= -(m + 1)
      /\ \A j, k \in DOMAIN sheets : j # k => sheets[j].gid # sheets[k].gid
  BY <1>0 DEF GidsKnown
<1>2. CASE change.op = "create"
  <2>1. PICK new : new = NewRow(change)
    OBVIOUS
  <2>2. /\ Tracked(sheets, change) = Append(sheets, new) /\ new \in SheetRows
        /\ new.of = -(m + 1) /\ new.gid = -(m + 1)
    BY <2>1, <1>2, TrackedCreate
  <2>3. PICK after : after = Append(sheets, new)
    OBVIOUS
  <2>4. /\ after \in Seq(SheetRows) /\ Len(after) = Len(sheets) + 1
        /\ DOMAIN after = 1..(Len(sheets) + 1)
        /\ \A j \in 1..(Len(sheets) + 1) :
              after[j] = IF j = Len(sheets) + 1 THEN new ELSE sheets[j]
    BY ONLY <2>2, <2>3, <1>0
  <2>5. \A j \in DOMAIN after :
            j = Len(sheets) + 1 \/ (j \in DOMAIN sheets /\ j # Len(sheets) + 1)
    BY ONLY <2>4, <1>0
  <2>6. \A j \in DOMAIN after :
            after[j].gid = after[j].of /\ after[j].gid # NoGid /\ after[j].gid >= -(m + 1)
    <3>1. TAKE j \in DOMAIN after
    <3>2. CASE j = Len(sheets) + 1
      <4>1. after[j] = new
        BY <3>2, <2>4
      <4>2. -(m + 1) # 0 /\ -(m + 1) >= -(m + 1)
        OBVIOUS
      <4> QED BY <4>1, <4>2, <2>2 DEF NoGid
    <3>3. CASE j \in DOMAIN sheets /\ j # Len(sheets) + 1
      BY <3>3, <2>4, <1>1
    <3> QED BY <3>2, <3>3, <2>5
  <2>7. ASSUME NEW j \in DOMAIN after, NEW k \in DOMAIN after, j # k
        PROVE  after[j].gid # after[k].gid
    <3>1. \A i \in DOMAIN sheets : sheets[i].gid # -(m + 1)
      BY <1>0, <1>1
    <3>2. CASE j = Len(sheets) + 1
      BY <3>1, <3>2, <2>2, <2>4, <2>5, <2>7
    <3>3. CASE k = Len(sheets) + 1
      BY <3>1, <3>3, <2>2, <2>4, <2>5, <2>7
    <3>4. CASE j # Len(sheets) + 1 /\ k # Len(sheets) + 1
      BY <3>4, <2>4, <2>5, <2>7, <1>1
    <3> QED BY <3>2, <3>3, <3>4
  <2> QED BY <2>2, <2>3, <2>6, <2>7 DEF GidsKnown
<1>3. CASE change.op = "rename"
  <2>1. PICK i \in DOMAIN sheets :
             /\ Edited(sheets, change) = WithName(sheets, i, change.new)
             /\ change.new \in SheetNames
    BY <1>3, AfterRename
  <2>2. PICK after : after = WithName(sheets, i, change.new)
    OBVIOUS
  <2>3. /\ DOMAIN after = DOMAIN sheets
        /\ \A j \in DOMAIN sheets : after[j].gid = sheets[j].gid /\ after[j].of = sheets[j].of
    BY <2>1, <2>2, WithNameIs
  <2>4. GidsKnown(after, m + 1)
    BY <2>3, <1>1 DEF GidsKnown
  <2> QED BY <2>1, <2>2, <2>4, <1>3 DEF Tracked
<1>4. CASE change.op = "delete"
  <2>1. PICK i \in DOMAIN sheets : Edited(sheets, change) = RemoveAt(sheets, i)
    BY <1>4, AfterDelete
  <2>2. PICK after : after = RemoveAt(sheets, i)
    OBVIOUS
  <2>3. i \in 1..Len(sheets)
    BY <1>0
  <2>4. /\ after \in Seq(SheetRows) /\ Len(after) = Len(sheets) - 1
        /\ \A j \in 1..(Len(sheets) - 1) : after[j] = IF j < i THEN sheets[j] ELSE sheets[j + 1]
    BY ONLY <2>2, <2>3, <1>0, AllButOne
  <2>5. DOMAIN after = 1..(Len(sheets) - 1)
    BY ONLY <2>4
  <2>6. PICK from : from = [j \in DOMAIN after |-> IF j < i THEN j ELSE j + 1]
    OBVIOUS
  <2>7. \A j \in DOMAIN after : from[j] \in DOMAIN sheets /\ after[j] = sheets[from[j]]
    BY ONLY <2>3, <2>4, <2>5, <2>6, <1>0
  <2>8. ASSUME NEW j \in DOMAIN after, NEW k \in DOMAIN after, j # k PROVE from[j] # from[k]
    <3>1. from[j] = (IF j < i THEN j ELSE j + 1) /\ from[k] = (IF k < i THEN k ELSE k + 1)
      BY ONLY <2>6, j \in DOMAIN after, k \in DOMAIN after
    <3>2. j \in Int /\ k \in Int /\ i \in Int
      BY ONLY <2>3, <2>5, <1>0, j \in DOMAIN after, k \in DOMAIN after
    <3> QED BY ONLY <3>1, <3>2, <2>8
  <2>9. GidsKnown(after, m + 1)
    BY <2>7, <2>8, <1>1 DEF GidsKnown
  <2> QED BY <2>1, <2>2, <2>9, <1>4 DEF Tracked
<1>5. CASE change.op \notin {"create", "rename", "delete"}
  BY <1>1, <1>5, AfterWrite DEF Tracked, GidsKnown
<1> QED BY <1>2, <1>3, <1>4, <1>5

(* What the server does with a command.                                      *)
Executed(before, after, change, hit) ==
    IF change.op = "create"
    THEN after = Append(before, NewRow(change))
    ELSE LET i == CHOOSE j \in hit : TRUE
         IN  after = CASE change.op = "rename" -> [before EXCEPT ![i].name = change.new]
                       [] change.op = "delete" -> RemoveAt(before, i)
                       [] OTHER -> before

(* When the document is what the batch tracks, a command that finds its sheet *)
(* leaves it what the batch tracks next.                                     *)
LEMMA ExecutedIsTracked ==
    ASSUME NEW sheets \in Sheets, DistinctNames(sheets), NEW change, Applies(sheets, change),
           NEW hit, change.op # "create" => hit = {Position(sheets, change.name)},
           NEW after, Executed(sheets, after, change, hit)
    PROVE  after = Tracked(sheets, change)
<1>1. CASE change.op = "create"
  BY <1>1, TrackedCreate DEF Executed
<1>2. CASE change.op = "rename"
  <2>1. PICK i \in DOMAIN sheets :
             /\ i = Position(sheets, change.name)
             /\ Edited(sheets, change) = WithName(sheets, i, change.new)
    BY <1>2, AfterRename
  <2>2. (CHOOSE j \in hit : TRUE) = i
    BY <2>1, <1>2
  <2>3. after = [sheets EXCEPT ![i].name = change.new]
    BY <1>2, <2>2 DEF Executed
  <2> QED BY <1>2, <2>1, <2>3 DEF Tracked, WithName
<1>3. CASE change.op = "delete"
  <2>1. PICK i \in DOMAIN sheets :
             i = Position(sheets, change.name) /\ Edited(sheets, change) = RemoveAt(sheets, i)
    BY <1>3, AfterDelete
  <2>2. (CHOOSE j \in hit : TRUE) = i
    BY <2>1, <1>3
  <2> QED BY <1>3, <2>1, <2>2 DEF Executed, Tracked
<1>4. CASE change.op \notin {"create", "rename", "delete"}
  BY <1>4, AfterWrite DEF Executed, Tracked
<1> QED BY <1>1, <1>2, <1>3, <1>4

(* A command keeps every sheet's gid.                                        *)
GidsFit(sheets) == \A i \in DOMAIN sheets : sheets[i].gid = sheets[i].of

\* A command leaves every sheet of the document the gid it is meant by.
LEMMA ExecutedKeepsGids ==
    ASSUME NEW before \in Sheets, GidsFit(before), NEW change, NEW hit,
           change.op = "create" => change.name \in SheetNames /\ change.n \in Nat,
           change.op = "rename" => change.new \in SheetNames,
           change.op # "create" => hit # {} /\ hit \subseteq DOMAIN before,
           NEW after, Executed(before, after, change, hit)
    PROVE  after \in Sheets /\ GidsFit(after)
<1>0. /\ Len(before) \in Nat /\ DOMAIN before = 1..Len(before) /\ before \in Seq(SheetRows)
  BY RowsOfSheets
<1>1. CASE change.op = "create"
  <2>1. PICK new : new = NewRow(change)
    OBVIOUS
  <2>2. new \in SheetRows /\ new.gid = new.of
    BY <2>1, <1>1 DEF NewRow, NewGid, SheetRows
  <2>3. after = Append(before, new)
    BY <1>1, <2>1 DEF Executed
  <2>4. /\ after \in Seq(SheetRows) /\ DOMAIN after = 1..(Len(before) + 1)
        /\ \A j \in 1..(Len(before) + 1) :
              after[j] = IF j = Len(before) + 1 THEN new ELSE before[j]
    BY ONLY <2>2, <2>3, <1>0
  <2>5. ASSUME NEW j \in DOMAIN after PROVE after[j].gid = after[j].of
    <3>1. CASE j = Len(before) + 1
      BY <3>1, <2>2, <2>4
    <3>2. CASE j # Len(before) + 1
      <4>1. j \in DOMAIN before
        BY ONLY <3>2, <2>4, <1>0, j \in DOMAIN after
      <4> QED BY <4>1, <3>2, <2>4 DEF GidsFit
    <3> QED BY <3>1, <3>2
  <2> QED BY <2>4, <2>5 DEF GidsFit, Sheets
<1>2. CASE change.op = "rename"
  <2>1. PICK i : i = CHOOSE j \in hit : TRUE
    OBVIOUS
  <2>2. i \in DOMAIN before
    BY <2>1, <1>2
  <2>3. after = WithName(before, i, change.new)
    BY <1>2, <2>1 DEF Executed, WithName
  <2> QED BY <2>2, <2>3, <1>2, WithNameIs DEF GidsFit
<1>3. CASE change.op = "delete"
  <2>1. PICK i : i = CHOOSE j \in hit : TRUE
    OBVIOUS
  <2>2. i \in DOMAIN before /\ i \in 1..Len(before)
    BY <2>1, <1>3, <1>0
  <2>3. after = RemoveAt(before, i)
    BY <1>3, <2>1 DEF Executed
  <2>4. /\ after \in Seq(SheetRows) /\ Len(after) = Len(before) - 1
        /\ \A j \in 1..(Len(before) - 1) : after[j] = IF j < i THEN before[j] ELSE before[j + 1]
    BY ONLY <2>2, <2>3, <1>0, AllButOne
  <2>5. DOMAIN after = 1..(Len(before) - 1)
    BY ONLY <2>4
  <2>6. ASSUME NEW j \in DOMAIN after PROVE after[j].gid = after[j].of
    <3>1. PICK k : k = IF j < i THEN j ELSE j + 1
      OBVIOUS
    <3>2. k \in DOMAIN before /\ after[j] = before[k]
      BY ONLY <3>1, <2>2, <2>4, <2>5, <1>0, j \in DOMAIN after
    <3> QED BY <3>2 DEF GidsFit
  <2> QED BY <2>4, <2>6 DEF GidsFit, Sheets
<1>4. CASE change.op \notin {"create", "rename", "delete"}
  BY <1>4 DEF Executed
<1> QED BY <1>1, <1>2, <1>3, <1>4

-----------------------------------------------------------------------------
(* Handles and calls follow the sheets: one thread's are replaced.           *)
WithEntry(f, t, value) == [f EXCEPT ![t] = value]

(* Nothing happens to the meaning of a name without a new generation.        *)
MeaningKept ==
    \A name \in SheetNames : \A r \in HandleRecords \cup Changes :
        MeansIts(generations, Draft, name, r) => MeansIts(generations', Draft', name, r)

\* What a call in progress consists of.
LEMMA CallParts ==
    ASSUME NEW call \in CallRecords
    PROVE  /\ call.step \in {"range", "queue", "renamed"}
           /\ call.step # "range" => call.change \in Changes
BY DEF CallRecords

\* What a change consists of.
LEMMA ChangeParts ==
    ASSUME NEW change \in Changes
    PROVE  /\ change.op \in {"create", "rename", "delete", "write", "style"}
           /\ change.name \in SheetNames /\ change.n \in Nat
           /\ change.new \in SheetNames \cup {Absent} /\ change.of \in Int \cup {Absent}
           /\ change.raced \in BOOLEAN /\ change.generation \in Nat
BY DEF Changes, Ops

\* What a handle consists of.
LEMMA HandleParts ==
    ASSUME NEW h \in HandleRecords
    PROVE  /\ h.kind \in {"sheet", "range"} /\ h.name \in SheetNames /\ h.generation \in Nat
           /\ h.of \in Int \cup {Absent} /\ h.raced \in BOOLEAN
BY DEF HandleRecords

\* A step that keeps what names mean disturbs the handle and the call of its own
\* thread only.
LEMMA FollowsAfter ==
    ASSUME HandlesTypeOK, HandlesFollow, CallsFollow, MeaningKept, NEW t \in Threads,
           NEW h \in {Absent} \cup HandleRecords, NEW c \in {Absent} \cup CallRecords,
           handles' = WithEntry(handles, t, h), calls' = WithEntry(calls, t, c),
           h # Absent => MeansIts(generations', Draft', h.name, h),
           c # Absent => CallFollows(generations', Draft', c, h)
    PROVE  /\ HandlesFollow' /\ CallsFollow'
           /\ handles' \in [Threads -> {Absent} \cup HandleRecords]
           /\ calls' \in [Threads -> {Absent} \cup CallRecords]
<1>1. /\ handles \in [Threads -> {Absent} \cup HandleRecords]
      /\ calls \in [Threads -> {Absent} \cup CallRecords]
  BY DEF HandlesTypeOK
<1>2. /\ handles' \in [Threads -> {Absent} \cup HandleRecords]
      /\ \A s \in Threads : handles'[s] = IF s = t THEN h ELSE handles[s]
  BY ONLY <1>1, handles' = WithEntry(handles, t, h), h \in {Absent} \cup HandleRecords,
          t \in Threads DEF WithEntry
<1>3. /\ calls' \in [Threads -> {Absent} \cup CallRecords]
      /\ \A s \in Threads : calls'[s] = IF s = t THEN c ELSE calls[s]
  BY ONLY <1>1, calls' = WithEntry(calls, t, c), c \in {Absent} \cup CallRecords,
          t \in Threads DEF WithEntry
<1>4. ASSUME NEW s \in Threads, handles'[s] # Absent
      PROVE  MeansIts(generations', Draft', handles'[s].name, handles'[s])
  <2>1. CASE s = t
    BY <2>1, <1>2, <1>4
  <2>2. CASE s # t
    <3>1. handles'[s] = handles[s]
      BY <2>2, <1>2
    <3>2. handles[s] \in HandleRecords /\ handles[s].name \in SheetNames
      BY <1>1, <1>4, <3>1, HandleParts
    <3>3. MeansIts(generations, Draft, handles[s].name, handles[s])
      BY <3>1, <1>4 DEF HandlesFollow
    <3>4. PICK r \in HandleRecords \cup Changes : r = handles[s]
      BY <3>2
    <3>5. r.name \in SheetNames /\ MeansIts(generations, Draft, r.name, r)
      BY <3>2, <3>3, <3>4
    <3>6. MeansIts(generations', Draft', r.name, r)
      BY <3>5 DEF MeaningKept
    <3>7. handles'[s] = r
      BY <3>1, <3>4
    <3> QED BY <3>6, <3>7
  <2> QED BY <2>1, <2>2
<1>5. ASSUME NEW s \in Threads, calls'[s] # Absent
      PROVE  CallFollows(generations', Draft', calls'[s], handles'[s])
  <2>1. CASE s = t
    <3>1. calls'[s] = c /\ handles'[s] = h
      BY <2>1, <1>2, <1>3
    <3>2. CallFollows(generations', Draft', c, h)
      BY <3>1, <1>5
    <3> QED BY <3>1, <3>2
  <2>2. CASE s # t
    <3>1. calls'[s] = calls[s] /\ handles'[s] = handles[s]
      BY <2>2, <1>2, <1>3
    <3>2. calls[s] \in CallRecords
      BY <1>1, <1>5, <3>1
    <3>3. PICK call \in CallRecords : call = calls[s]
      BY <3>2
    <3>4. PICK handle : handle = handles[s]
      OBVIOUS
    <3>5. CallFollows(generations, Draft, call, handle)
      BY <1>5, <3>1, <3>3, <3>4 DEF CallsFollow
    <3>6. CallFollows(generations', Draft', call, handle)
      <4>1. PICK change : change = call.change
        OBVIOUS
      <4>2. /\ call.step \in {"range", "queue", "renamed"}
            /\ call.step # "range" => change \in Changes
        BY <4>1, CallParts
      <4>3. call.step # "range" => change.name \in SheetNames
        BY <4>2, ChangeParts
      <4>4. call.step # "range" =>
                \A name \in SheetNames : MeansIts(generations, Draft, name, change)
                    => MeansIts(generations', Draft', name, change)
        BY <4>2 DEF MeaningKept
      <4> QED BY <3>5, <4>1, <4>2, <4>3, <4>4 DEF CallFollows
    <3> QED BY <3>1, <3>3, <3>4, <3>6
  <2> QED BY <2>1, <2>2
<1> QED BY <1>2, <1>3, <1>4, <1>5 DEF HandlesFollow, CallsFollow

(* What concerns the sheets only.                                            *)
SheetsPart ==
    /\ StagesApply /\ ChangesInOrder /\ GidsAreTrue /\ BatchTracks
    /\ SheetsAreTheOnesMeant

SheetsTyped ==
    /\ document \in Sheets /\ worksheets \in Sheets
    /\ pending \in Seq(Changes)
    /\ generations \in [SheetNames -> Nat]
    /\ numbered \in 0..MaxChanges /\ others \in 0..MaxOthers
    /\ committing \in {Absent} \cup BatchRecords
    /\ uncertain \in BOOLEAN
    /\ stray \subseteq 1..MaxChanges

\* Steps that leave the document, the session and the batch keep what is said of them.
LEMMA SheetsUnchanged ==
    ASSUME HandlesInv, UNCHANGED <<document, sessionVars, stray, others>>
    PROVE  SheetsPart' /\ SheetsTyped' /\ MeaningKept
<1>1. /\ document' = document /\ worksheets' = worksheets /\ pending' = pending
      /\ generations' = generations /\ numbered' = numbered /\ committing' = committing
      /\ uncertain' = uncertain /\ stray' = stray /\ others' = others
  BY DEF sessionVars
<1>2. StagesApply'
  BY <1>1 DEF HandlesInv, StagesApply, StageAt
<1>3. ChangesInOrder' /\ GidsAreTrue'
  BY <1>1 DEF HandlesInv, ChangesInOrder, GidsAreTrue
<1>4. BatchTracks'
  BY <1>1 DEF HandlesInv, BatchTracks, StageAt
<1>5. SheetsAreTheOnesMeant'
  BY <1>1 DEF HandlesInv, SheetsAreTheOnesMeant, HandlesMeanTheirSheet, CommandsReachTheirSheet
<1>6. SheetsTyped'
  BY <1>1 DEF HandlesInv, HandlesTypeOK, SheetsTyped
<1>7. MeaningKept
  BY <1>1 DEF MeaningKept, MeansIts, Draft
<1> QED BY <1>2, <1>3, <1>4, <1>5, <1>6, <1>7 DEF SheetsPart

\* The invariant is what is said of the sheets and of every thread.
LEMMA HandlesInvParts ==
    ASSUME SheetsPart, SheetsTyped, HandlesFollow, CallsFollow,
           handles \in [Threads -> {Absent} \cup HandleRecords],
           calls \in [Threads -> {Absent} \cup CallRecords]
    PROVE  HandlesInv
BY DEF SheetsPart, SheetsTyped, HandlesInv, HandlesTypeOK

-----------------------------------------------------------------------------
(* The steps of a thread that leave the sheets.                              *)
LEMMA ThreadStep ==
    ASSUME HandlesInv, UNCHANGED <<document, sessionVars, stray, others>>, NEW t \in Threads,
           NEW h \in {Absent} \cup HandleRecords, NEW c \in {Absent} \cup CallRecords,
           handles' = WithEntry(handles, t, h), calls' = WithEntry(calls, t, c),
           h # Absent => MeansIts(generations', Draft', h.name, h),
           c # Absent => CallFollows(generations', Draft', c, h)
    PROVE  HandlesInv'
<1>1. SheetsPart' /\ SheetsTyped' /\ MeaningKept
  BY SheetsUnchanged
<1>2. HandlesTypeOK /\ HandlesFollow /\ CallsFollow
  BY DEF HandlesInv
<1>3. /\ HandlesFollow' /\ CallsFollow'
      /\ handles' \in [Threads -> {Absent} \cup HandleRecords]
      /\ calls' \in [Threads -> {Absent} \cup CallRecords]
  BY <1>1, <1>2, FollowsAfter
<1> QED BY <1>1, <1>3, HandlesInvParts DEF SheetsPart, SheetsTyped, HandlesInv, HandlesTypeOK

(* The generation of a handle's name is the one that a new handle records.   *)
LEMMA SameSession ==
    ASSUME HandlesInv, UNCHANGED <<document, sessionVars, stray, others>>
    PROVE  /\ generations' = generations /\ Draft' = Draft
           /\ generations \in [SheetNames -> Nat]
           /\ handles \in [Threads -> {Absent} \cup HandleRecords]
           /\ calls \in [Threads -> {Absent} \cup CallRecords]
BY DEF HandlesInv, HandlesTypeOK, sessionVars, Draft

(* An entry that stays.                                                      *)
LEMMA SameEntry ==
    ASSUME NEW S, NEW f \in [Threads -> S], NEW t \in Threads
    PROVE  f = WithEntry(f, t, f[t])
BY DEF WithEntry

\* A handle made now has the current generation, and means what its name means.
LEMMA NewHandle ==
    ASSUME generations \in [SheetNames -> Nat], NEW kind \in {"sheet", "range"},
           NEW name \in SheetNames, NEW of \in Int \cup {Absent}, NEW raced \in BOOLEAN,
           ~raced => of = Meant(Draft, name)
    PROVE  /\ Handle(kind, name, of, raced) \in HandleRecords
           /\ Handle(kind, name, of, raced).name = name
           /\ Handle(kind, name, of, raced).of = of
           /\ MeansIts(generations, Draft, name, Handle(kind, name, of, raced))
<1>1. PICK h : h = Handle(kind, name, of, raced)
  OBVIOUS
<1>2. generations[name] \in Nat
  OBVIOUS
<1>3. /\ h.kind = kind /\ h.name = name /\ h.generation = generations[name]
      /\ h.of = of /\ h.raced = raced
  BY <1>1 DEF Handle
<1>4. h \in HandleRecords
  BY <1>1, <1>2 DEF Handle, HandleRecords
<1>5. MeansIts(generations, Draft, name, h)
  BY <1>2, <1>3 DEF MeansIts
<1> QED BY <1>1, <1>3, <1>4, <1>5

(* What a name means is a sheet's number, or Absent.                         *)
LEMMA MeaningIsTyped ==
    ASSUME NEW sheets \in Sheets, NEW name
    PROVE  Meant(sheets, name) \in Int \cup {Absent}
<1>1. CASE Named(sheets, name) = {}
  BY <1>1 DEF Meant
<1>2. CASE Named(sheets, name) # {}
  <2>1. Position(sheets, name) \in DOMAIN sheets
    BY <1>2, NameHasPlace
  <2>2. sheets[Position(sheets, name)] \in SheetRows
    BY <2>1, RowsOfSheets
  <2> QED BY <1>2, <2>2 DEF Meant, SheetRows
<1> QED BY <1>1, <1>2

\* The worksheets after all queued changes are the last stage.
LEMMA DraftIsTyped ==
    ASSUME HandlesInv
    PROVE  Draft \in Sheets /\ DistinctNames(Draft) /\ Draft = StageAt(Len(pending))
<1>1. Len(pending) \in 0..Len(pending)
  BY DEF HandlesInv, HandlesTypeOK
<1> QED BY <1>1 DEF HandlesInv, StagesApply, Draft, StageAt

\* WorksheetCollection.get
LEMMA GetKeeps ==
    ASSUME HandlesInv, NEW t \in Threads, NEW name \in SheetNames, Get(t, name)
    PROVE  HandlesInv'
<1>1. UNCHANGED <<document, sessionVars, stray, others>> /\ calls' = calls /\ calls[t] = Absent
  BY DEF Get, Idling
<1>2. PICK h : h = Handle("sheet", name, Meant(Draft, name), FALSE)
  OBVIOUS
<1>3. handles' = WithEntry(handles, t, h)
  BY <1>2 DEF Get, WithEntry
<1>4. /\ generations' = generations /\ Draft' = Draft
      /\ generations \in [SheetNames -> Nat]
      /\ calls \in [Threads -> {Absent} \cup CallRecords]
  BY <1>1, SameSession
<1>5. Meant(Draft, name) \in Int \cup {Absent}
  BY DraftIsTyped, MeaningIsTyped
<1>6. h \in HandleRecords /\ h.name = name /\ MeansIts(generations, Draft, name, h)
  BY <1>2, <1>4, <1>5, NewHandle
<1>7. calls' = WithEntry(calls, t, Absent)
  BY <1>1, <1>4, SameEntry
<1> QED BY <1>1, <1>3, <1>4, <1>6, <1>7, ThreadStep

\* Worksheet._queue and Range._queue, up to the comparison of the generation
LEMMA AskKeeps ==
    ASSUME HandlesInv, NEW t \in Threads, NEW op \in Ops, NEW new \in SheetNames \cup {Absent},
           Ask(t, op, new), op # "create"
    PROVE  HandlesInv'
<1>1. /\ UNCHANGED <<document, sessionVars, stray, others>> /\ handles' = handles
      /\ handles[t] # Absent /\ UpToDate(handles[t]) /\ (op = "rename") = (new # Absent)
  BY DEF Ask
<1>2. /\ generations' = generations /\ Draft' = Draft
      /\ handles \in [Threads -> {Absent} \cup HandleRecords]
  BY <1>1, SameSession
<1>3. PICK h \in HandleRecords : h = handles[t]
  BY <1>1, <1>2
<1>4. MeansIts(generations, Draft, h.name, h)
  BY <1>1, <1>3 DEF HandlesInv, HandlesFollow
<1>5. PICK change : change = Change(op, h, new)
  OBVIOUS
<1>6. /\ change.op = op /\ change.name = h.name /\ change.new = new /\ change.of = h.of
      /\ change.raced = h.raced /\ change.generation = h.generation
  BY <1>5 DEF Change
<1>7. change \in Changes
  BY <1>5, HandleParts DEF Change, Changes
<1>8. PICK c : c = [step |-> "queue", change |-> change]
  OBVIOUS
<1>9. c \in CallRecords /\ c.step = "queue" /\ c.change = change
  BY <1>7, <1>8 DEF CallRecords
<1>10. calls' = WithEntry(calls, t, c)
  BY <1>3, <1>5, <1>8 DEF Ask, WithEntry
<1>11. MeansIts(generations, Draft, change.name, change)
  BY <1>4, <1>6 DEF MeansIts
<1>12. CallFollows(generations, Draft, c, h)
  BY <1>1, <1>3, <1>6, <1>9, <1>11 DEF CallFollows
<1>13. handles' = WithEntry(handles, t, h)
  BY <1>1, <1>2, <1>3, SameEntry
<1> QED BY <1>1, <1>2, <1>4, <1>9, <1>10, <1>12, <1>13, ThreadStep

\* WorksheetCollection.create, up to the session's lock
LEMMA CreateKeeps ==
    ASSUME HandlesInv, NEW t \in Threads, NEW name \in SheetNames, AskCreate(t, name)
    PROVE  HandlesInv'
<1>1. UNCHANGED <<document, sessionVars, stray, others>> /\ handles' = handles
  BY DEF AskCreate
<1>2. /\ generations' = generations /\ Draft' = Draft
      /\ handles \in [Threads -> {Absent} \cup HandleRecords]
  BY <1>1, SameSession
<1>3. PICK h \in {Absent} \cup HandleRecords : h = handles[t]
  BY <1>2
<1>4. h # Absent => MeansIts(generations, Draft, h.name, h)
  BY <1>3 DEF HandlesInv, HandlesFollow
<1>5. PICK change : change = [op |-> "create", name |-> name, new |-> Absent, n |-> 0,
                              of |-> Absent, raced |-> FALSE, generation |-> 0]
  OBVIOUS
<1>6. change \in Changes /\ change.op = "create"
  BY <1>5 DEF Changes, Ops
<1>7. PICK c : c = [step |-> "queue", change |-> change]
  OBVIOUS
<1>8. c \in CallRecords /\ c.step = "queue" /\ c.change = change
  BY <1>6, <1>7 DEF CallRecords
<1>9. calls' = WithEntry(calls, t, c)
  BY <1>5, <1>7 DEF AskCreate, WithEntry
<1>10. CallFollows(generations, Draft, c, h)
  BY <1>6, <1>8 DEF CallFollows
<1>11. handles' = WithEntry(handles, t, h)
  BY <1>1, <1>2, <1>3, SameEntry
<1> QED BY <1>1, <1>2, <1>4, <1>8, <1>9, <1>10, <1>11, ThreadStep

\* Worksheet.range, up to the comparison of the generation
LEMMA StartRangeKeeps ==
    ASSUME HandlesInv, NEW t \in Threads, StartRange(t)
    PROVE  HandlesInv'
<1>1. /\ UNCHANGED <<document, sessionVars, stray, others>> /\ handles' = handles
      /\ handles[t] # Absent
  BY DEF StartRange
<1>2. /\ generations' = generations /\ Draft' = Draft
      /\ handles \in [Threads -> {Absent} \cup HandleRecords]
  BY <1>1, SameSession
<1>3. PICK h \in HandleRecords : h = handles[t]
  BY <1>1, <1>2
<1>4. MeansIts(generations, Draft, h.name, h)
  BY <1>1, <1>3 DEF HandlesInv, HandlesFollow
<1>5. PICK c : c = [step |-> "range", change |-> Absent]
  OBVIOUS
<1>6. c \in CallRecords /\ c.step = "range"
  BY <1>5 DEF CallRecords
<1>7. calls' = WithEntry(calls, t, c)
  BY <1>5 DEF StartRange, WithEntry
<1>8. h # Absent
  BY <1>1, <1>3
<1>9. CallFollows(generations, Draft, c, h)
  BY <1>6, <1>8 DEF CallFollows
<1>10. handles' = WithEntry(handles, t, h)
  BY <1>1, <1>2, <1>3, SameEntry
<1> QED BY <1>1, <1>2, <1>4, <1>6, <1>7, <1>9, <1>10, ThreadStep

\* Worksheet.range, the new handle: a generation that changed in between is a race
LEMMA FinishRangeKeeps ==
    ASSUME HandlesInv, NEW t \in Threads, FinishRange(t)
    PROVE  HandlesInv'
<1>1. /\ UNCHANGED <<document, sessionVars, stray, others>>
      /\ calls[t] # Absent /\ calls[t].step = "range"
  BY DEF FinishRange
<1>2. /\ generations' = generations /\ Draft' = Draft
      /\ generations \in [SheetNames -> Nat]
      /\ handles \in [Threads -> {Absent} \cup HandleRecords]
  BY <1>1, SameSession
<1>3. handles[t] # Absent
  BY <1>1 DEF HandlesInv, CallsFollow, CallFollows
<1>4. PICK old \in HandleRecords : old = handles[t]
  BY <1>2, <1>3
<1>5. MeansIts(generations, Draft, old.name, old)
  BY <1>3, <1>4 DEF HandlesInv, HandlesFollow
<1>6. PICK raced \in BOOLEAN : raced = (old.raced \/ ~UpToDate(old))
  OBVIOUS
<1>7. ~raced => old.of = Meant(Draft, old.name)
  BY <1>5, <1>6 DEF MeansIts, UpToDate
<1>8. PICK h : h = Handle("range", old.name, old.of, raced)
  OBVIOUS
<1>9. old.name \in SheetNames /\ old.of \in Int \cup {Absent}
  BY HandleParts
<1>10. h \in HandleRecords /\ h.name = old.name /\ MeansIts(generations, Draft, old.name, h)
  <2>1. PICK name \in SheetNames : name = old.name
    BY <1>9
  <2>2. h = Handle("range", name, old.of, raced) /\ (~raced => old.of = Meant(Draft, name))
    BY <1>7, <1>8, <2>1
  <2>3. h \in HandleRecords /\ h.name = name /\ MeansIts(generations, Draft, name, h)
    BY ONLY <1>2, <1>9, <2>2, NewHandle, name \in SheetNames, raced \in BOOLEAN
  <2> QED BY <2>1, <2>3
<1>11. handles' = WithEntry(handles, t, h)
  BY <1>4, <1>6, <1>8 DEF FinishRange, WithEntry
<1>12. calls' = WithEntry(calls, t, Absent)
  BY DEF FinishRange, WithEntry
<1> QED BY <1>1, <1>2, <1>10, <1>11, <1>12, ThreadStep

\* A refused change leaves no trace.
LEMMA QueueRefusedKeeps ==
    ASSUME HandlesInv, NEW t \in Threads, QueueRefused(t)
    PROVE  HandlesInv'
<1>1. UNCHANGED <<document, sessionVars, stray, others>> /\ handles' = handles
  BY DEF QueueRefused
<1>2. /\ generations' = generations /\ Draft' = Draft
      /\ handles \in [Threads -> {Absent} \cup HandleRecords]
  BY <1>1, SameSession
<1>3. PICK h \in {Absent} \cup HandleRecords : h = handles[t]
  BY <1>2
<1>4. h # Absent => MeansIts(generations, Draft, h.name, h)
  BY <1>3 DEF HandlesInv, HandlesFollow
<1>5. calls' = WithEntry(calls, t, Absent)
  BY DEF QueueRefused, WithEntry
<1>6. handles' = WithEntry(handles, t, h)
  BY <1>1, <1>2, <1>3, SameEntry
<1> QED BY <1>1, <1>2, <1>4, <1>5, <1>6, ThreadStep

\* Worksheet.rename, the handle's new name: what was queued in between is a race
LEMMA AdoptNameKeeps ==
    ASSUME HandlesInv, NEW t \in Threads, AdoptName(t)
    PROVE  HandlesInv'
<1>1. /\ UNCHANGED <<document, sessionVars, stray, others>>
      /\ calls[t] # Absent /\ calls[t].step = "renamed"
  BY DEF AdoptName
<1>2. /\ generations' = generations /\ Draft' = Draft
      /\ generations \in [SheetNames -> Nat]
      /\ handles \in [Threads -> {Absent} \cup HandleRecords]
      /\ calls \in [Threads -> {Absent} \cup CallRecords]
  BY <1>1, SameSession
<1>3. PICK call \in CallRecords : call = calls[t]
  BY <1>1, <1>2
<1>4. PICK change : change = call.change
  OBVIOUS
<1>5. change \in Changes /\ change.raced \in BOOLEAN
  BY <1>1, <1>3, <1>4, CallParts, ChangeParts
<1>6. /\ change.new \in SheetNames
      /\ MeansIts(generations, Draft, change.new, change)
      /\ handles[t] # Absent /\ handles[t].of = change.of
  <2>1. CallFollows(generations, Draft, call, handles[t])
    BY <1>1, <1>3 DEF HandlesInv, CallsFollow
  <2> QED BY <2>1, <1>1, <1>3, <1>4 DEF CallFollows
<1>7. PICK old \in HandleRecords : old = handles[t]
  BY <1>2, <1>6
<1>8. PICK raced \in BOOLEAN :
          raced = (old.raced \/ change.raced \/ generations[change.new] # change.generation)
  OBVIOUS
<1>9. ~raced => old.of = Meant(Draft, change.new)
  BY <1>6, <1>7, <1>8 DEF MeansIts
<1>10. PICK h : h = Handle("sheet", change.new, old.of, raced)
  OBVIOUS
<1>11. old.of \in Int \cup {Absent}
  BY HandleParts
<1>12. h \in HandleRecords /\ h.name = change.new /\ MeansIts(generations, Draft, change.new, h)
  <2>1. PICK new \in SheetNames : new = change.new
    BY <1>6
  <2>2. h = Handle("sheet", new, old.of, raced) /\ (~raced => old.of = Meant(Draft, new))
    BY <1>9, <1>10, <2>1
  <2>3. h \in HandleRecords /\ h.name = new /\ MeansIts(generations, Draft, new, h)
    BY ONLY <1>2, <1>11, <2>2, NewHandle, new \in SheetNames, raced \in BOOLEAN
  <2> QED BY <2>1, <2>3
<1>13. handles' = WithEntry(handles, t, h)
  BY <1>3, <1>4, <1>7, <1>8, <1>10 DEF AdoptName, WithEntry
<1>14. calls' = WithEntry(calls, t, Absent)
  BY DEF AdoptName, WithEntry
<1> QED BY <1>1, <1>2, <1>12, <1>13, <1>14, ThreadStep

-----------------------------------------------------------------------------
(* Queueing a change.                                                        *)
LEMMA PendingParts ==
    ASSUME HandlesInv
    PROVE  /\ Len(pending) \in Nat /\ DOMAIN pending = 1..Len(pending)
           /\ numbered \in Nat /\ Len(pending) <= numbered /\ MaxChanges \in Nat
           /\ StageAt(0) = worksheets
           /\ \A i \in DOMAIN pending :
                 /\ pending[i] \in Changes
                 /\ StageAt(i - 1) \in Sheets /\ DistinctNames(StageAt(i - 1))
                 /\ Applies(StageAt(i - 1), pending[i])
                 /\ StageAt(i) = Edited(StageAt(i - 1), pending[i])
                 /\ pending[i].n = numbered - Len(pending) + i
<1>1. /\ pending \in Seq(Changes) /\ numbered \in Nat /\ Len(pending) <= numbered
      /\ MaxChanges \in Nat
  BY DEF HandlesInv, HandlesTypeOK, ChangesInOrder
<1>2. Len(pending) \in Nat /\ DOMAIN pending = 1..Len(pending)
  BY <1>1
<1>3. \A k \in 0..Len(pending) : StageAt(k) =
          IF k = 0 THEN worksheets ELSE Edited(StageAt(k - 1), pending[k])
  BY <1>2, StagesAre DEF IsStages, StageAt
<1>4. ASSUME NEW i \in DOMAIN pending
      PROVE  /\ pending[i] \in Changes
             /\ StageAt(i - 1) \in Sheets /\ DistinctNames(StageAt(i - 1))
             /\ Applies(StageAt(i - 1), pending[i])
             /\ StageAt(i) = Edited(StageAt(i - 1), pending[i])
             /\ pending[i].n = numbered - Len(pending) + i
  <2>1. pending[i] \in Changes
    BY <1>1
  <2>2. i \in 0..Len(pending) /\ i # 0 /\ i - 1 \in 0..Len(pending)
    BY <1>2
  <2>3. StageAt(i - 1) \in Sheets /\ DistinctNames(StageAt(i - 1))
    BY <2>2 DEF HandlesInv, StagesApply
  <2>4. Applicable(StageAt(i - 1), pending[i])
    BY DEF HandlesInv, StagesApply
  <2>5. Applies(StageAt(i - 1), pending[i])
    BY <2>1, <2>4, ChangeParts DEF Applies
  <2>6. StageAt(i) = Edited(StageAt(i - 1), pending[i])
    BY <2>2, <1>3
  <2>7. pending[i].n = numbered - Len(pending) + i
    BY DEF HandlesInv, ChangesInOrder
  <2> QED BY <2>1, <2>3, <2>5, <2>6, <2>7
<1> QED BY <1>1, <1>2, <1>3, <1>4

(* What the sheets become when a change that applies to the draft is queued. *)
Queued(change) ==
    /\ committing = Absent
    /\ numbered < MaxChanges
    /\ pending' = Append(pending, change)
    /\ generations' = Bumped(change)
    /\ numbered' = numbered + 1
    /\ UNCHANGED <<document, worksheets, committing, uncertain, stray, others>>

\* A change that is queued adds one stage, the draft with the change applied.
LEMMA QueuedStages ==
    ASSUME HandlesInv, NEW change \in Changes, Applies(Draft, change), Queued(change)
    PROVE  /\ pending' \in Seq(Changes) /\ Len(pending') = Len(pending) + 1
           /\ pending'[Len(pending) + 1] = change
           /\ \A i \in DOMAIN pending : pending'[i] = pending[i]
           /\ \A k \in 0..Len(pending) : Stages(worksheets', pending')[k] = StageAt(k)
           /\ Draft' = Edited(Draft, change)
           /\ Stages(worksheets', pending')[Len(pending) + 1] = Draft'
<1>1. pending \in Seq(Changes) /\ Len(pending) \in Nat /\ DOMAIN pending = 1..Len(pending)
  BY PendingParts DEF HandlesInv, HandlesTypeOK
<1>2. pending' = Append(pending, change) /\ worksheets' = worksheets
  BY DEF Queued
<1>3. /\ pending' \in Seq(Changes) /\ Len(pending') = Len(pending) + 1
      /\ pending'[Len(pending) + 1] = change
      /\ \A i \in DOMAIN pending : pending'[i] = pending[i]
  BY ONLY <1>1, <1>2, change \in Changes
<1>4. \A k \in 0..Len(pending) : Stages(worksheets', pending')[k] = StageAt(k)
  BY <1>1, <1>2, StagesOfAppend DEF StageAt
<1>5. Stages(worksheets', pending')[Len(pending) + 1] = Edited(Draft, change)
  BY <1>1, <1>2, StagesOfAppend DEF Draft
<1>6. Draft' = Edited(Draft, change)
  BY <1>3, <1>5 DEF Draft
<1> QED BY <1>3, <1>4, <1>5, <1>6

\* The queue with a change that applies to the draft is a queue of changes that apply.
LEMMA QueuedSheets ==
    ASSUME HandlesInv, NEW change \in Changes, Applies(Draft, change), Queued(change),
           change.n = numbered + 1,
           change.op # "create" /\ ~change.raced => Meant(Draft, change.name) = change.of
    PROVE  SheetsPart' /\ SheetsTyped'
<1>1. /\ Len(pending) \in Nat /\ DOMAIN pending = 1..Len(pending)
      /\ numbered \in Nat /\ Len(pending) <= numbered
      /\ \A i \in DOMAIN pending : pending[i].n = numbered - Len(pending) + i
  BY PendingParts
<1>2. /\ pending' \in Seq(Changes) /\ Len(pending') = Len(pending) + 1
      /\ pending'[Len(pending) + 1] = change
      /\ \A i \in DOMAIN pending : pending'[i] = pending[i]
      /\ \A k \in 0..Len(pending) : Stages(worksheets', pending')[k] = StageAt(k)
      /\ Draft' = Edited(Draft, change)
      /\ Stages(worksheets', pending')[Len(pending) + 1] = Draft'
  BY QueuedStages
<1>3. Draft \in Sheets /\ DistinctNames(Draft) /\ Draft = StageAt(Len(pending))
  BY DraftIsTyped
<1>4. Draft' \in Sheets /\ DistinctNames(Draft')
  BY <1>2, <1>3, EditKeepsNames
<1>5. /\ DOMAIN pending' = 1..(Len(pending) + 1)
      /\ \A i \in DOMAIN pending' : i = Len(pending) + 1 \/ i \in DOMAIN pending
      /\ \A k \in 0..Len(pending') : k = Len(pending) + 1 \/ k \in 0..Len(pending)
  BY ONLY <1>1, <1>2
<1>6. StagesApply'
  <2>1. ASSUME NEW k \in 0..Len(pending') 
        PROVE  /\ Stages(worksheets', pending')[k] \in Sheets
               /\ DistinctNames(Stages(worksheets', pending')[k])
    <3>1. CASE k = Len(pending) + 1
      BY <3>1, <1>2, <1>4
    <3>2. CASE k \in 0..Len(pending)
      <4>1. StageAt(k) \in Sheets /\ DistinctNames(StageAt(k))
        BY <3>2 DEF HandlesInv, StagesApply
      <4> QED BY <3>2, <4>1, <1>2
    <3> QED BY <3>1, <3>2, <1>5
  <2>2. ASSUME NEW i \in DOMAIN pending' 
        PROVE  Applicable(Stages(worksheets', pending')[i - 1], pending'[i])
    <3>1. CASE i = Len(pending) + 1
      <4>1. i - 1 = Len(pending) /\ Len(pending) \in 0..Len(pending)
        BY <3>1, <1>1
      <4>2. Stages(worksheets', pending')[i - 1] = Draft
        BY <4>1, <1>2, <1>3
      <4> QED BY <3>1, <4>2, <1>2 DEF Applies
    <3>2. CASE i \in DOMAIN pending
      <4>1. i - 1 \in 0..Len(pending)
        BY <3>2, <1>1
      <4>2. Applicable(StageAt(i - 1), pending[i])
        BY <3>2 DEF HandlesInv, StagesApply
      <4> QED BY <3>2, <4>1, <4>2, <1>2
    <3> QED BY <3>1, <3>2, <1>5
  <2> QED BY <2>1, <2>2 DEF StagesApply, StageAt
<1>7. numbered' = numbered + 1 /\ worksheets' = worksheets /\ document' = document
      /\ committing' = Absent /\ uncertain' = uncertain /\ stray' = stray /\ others' = others
      /\ generations' = Bumped(change) /\ numbered < MaxChanges
  BY DEF Queued
<1>8. ChangesInOrder'
  <2>1. Len(pending') <= numbered'
    BY <1>1, <1>2, <1>7
  <2>2. ASSUME NEW i \in DOMAIN pending' PROVE pending'[i].n = numbered' - Len(pending') + i
    <3>1. CASE i = Len(pending) + 1
      BY <3>1, <1>1, <1>2, <1>7
    <3>2. CASE i \in DOMAIN pending
      <4>1. pending[i].n = numbered - Len(pending) + i /\ pending'[i] = pending[i] /\ i \in Nat
        BY <3>2, <1>1, <1>2
      <4> QED BY <4>1, <1>1, <1>2, <1>7
    <3> QED BY <3>1, <3>2, <1>5
  <2> QED BY <2>1, <2>2 DEF ChangesInOrder
<1>9. GidsAreTrue'
  <2>1. numbered' - Len(pending') = numbered - Len(pending)
    BY <1>1, <1>2, <1>7
  <2> QED BY <2>1, <1>7 DEF HandlesInv, GidsAreTrue
<1>10. BatchTracks'
  BY <1>7 DEF BatchTracks
<1>11. SheetsAreTheOnesMeant'
  <2>1. ASSUME NEW i \in DOMAIN pending', pending'[i].op # "create", ~pending'[i].raced
        PROVE  Meant(Stages(worksheets', pending')[i - 1], pending'[i].name) = pending'[i].of
    <3>1. CASE i = Len(pending) + 1
      <4>1. i - 1 = Len(pending) /\ Len(pending) \in 0..Len(pending)
        BY <3>1, <1>1
      <4>2. Stages(worksheets', pending')[i - 1] = Draft
        BY <4>1, <1>2, <1>3
      <4> QED BY <3>1, <4>2, <1>2, <2>1
    <3>2. CASE i \in DOMAIN pending
      <4>1. i - 1 \in 0..Len(pending)
        BY <3>2, <1>1
      <4>2. Stages(worksheets', pending')[i - 1] = Stages(worksheets, pending)[i - 1]
        BY <4>1, <1>2 DEF StageAt
      <4>3. pending'[i] = pending[i]
        BY <3>2, <1>2
      <4> QED BY <3>2, <4>2, <4>3, <2>1
              DEF HandlesInv, SheetsAreTheOnesMeant, HandlesMeanTheirSheet
    <3> QED BY <3>1, <3>2, <1>5
  <2>2. HandlesMeanTheirSheet'
    BY <2>1 DEF HandlesMeanTheirSheet
  <2>3. CommandsReachTheirSheet'
    BY <1>7 DEF HandlesInv, SheetsAreTheOnesMeant, CommandsReachTheirSheet
  <2> QED BY <2>2, <2>3 DEF SheetsAreTheOnesMeant
<1>12. SheetsTyped'
  <2>1. /\ document \in Sheets /\ worksheets \in Sheets /\ others \in 0..MaxOthers
        /\ uncertain \in BOOLEAN /\ stray \subseteq 1..MaxChanges
        /\ generations \in [SheetNames -> Nat] /\ MaxChanges \in Nat
    BY DEF HandlesInv, HandlesTypeOK
  <2>2. generations' \in [SheetNames -> Nat]
    BY <2>1, <1>7 DEF Bumped
  <2>3. numbered' \in 0..MaxChanges
    BY <2>1, <1>1, <1>7
  <2> QED BY <2>1, <2>2, <2>3, <1>2, <1>7 DEF SheetsTyped
<1> QED BY <1>6, <1>8, <1>9, <1>10, <1>11, <1>12 DEF SheetsPart

(* What a name means changes only with its generation.                       *)
LEMMA QueuedMeaning ==
    ASSUME HandlesInv, NEW change \in Changes, Applies(Draft, change), Queued(change)
    PROVE  MeaningKept
<1>1. Draft' = Edited(Draft, change)
  BY QueuedStages
<1>2. Draft \in Sheets /\ DistinctNames(Draft)
  BY DraftIsTyped
<1>3. generations \in [SheetNames -> Nat] /\ generations' = Bumped(change)
  BY DEF HandlesInv, HandlesTypeOK, Queued
<1>4. SUFFICES ASSUME NEW name \in SheetNames, NEW r \in HandleRecords \cup Changes,
                      MeansIts(generations, Draft, name, r)
               PROVE  MeansIts(generations', Draft', name, r)
  BY DEF MeaningKept
<1>5. r.generation \in Nat
  BY HandleParts, ChangeParts
<1>6. generations[name] \in Nat
  BY <1>3
<1>7. CASE Structural(change) /\ (name = change.name \/ (change.op = "rename" /\ name = change.new))
  <2>1. generations'[name] = generations[name] + 1
    BY <1>3, <1>7 DEF Bumped
  <2> QED BY <2>1, <1>4, <1>5, <1>6 DEF MeansIts
<1>8. CASE ~(Structural(change)
             /\ (name = change.name \/ (change.op = "rename" /\ name = change.new)))
  <2>1. generations'[name] = generations[name]
    BY <1>3, <1>6, <1>8 DEF Bumped
  <2>2. Meant(Draft', name) = Meant(Draft, name)
    BY <1>1, <1>2, <1>8, EditKeepsMeaning
  <2> QED BY <2>1, <2>2, <1>4 DEF MeansIts
<1> QED BY <1>7, <1>8

\* SpreadsheetSession.queue
LEMMA QueueKeeps ==
    ASSUME HandlesInv, NEW t \in Threads, QueueChange(t)
    PROVE  HandlesInv'
<1>1. /\ calls[t] # Absent /\ calls[t].step = "queue"
      /\ committing = Absent /\ numbered < MaxChanges /\ numbered' = numbered + 1
      /\ UNCHANGED <<document, worksheets, committing, uncertain, stray, others>>
  BY DEF QueueChange
<1>2. /\ generations \in [SheetNames -> Nat] /\ numbered \in Nat
      /\ handles \in [Threads -> {Absent} \cup HandleRecords]
      /\ calls \in [Threads -> {Absent} \cup CallRecords]
      /\ HandlesTypeOK /\ HandlesFollow /\ CallsFollow
  BY DEF HandlesInv, HandlesTypeOK
<1>3. PICK call \in CallRecords : call = calls[t]
  BY <1>1, <1>2
<1>4. PICK asked \in Changes : asked = call.change
  BY <1>1, <1>3, CallParts
<1>5. /\ asked.op \in Ops /\ asked.name \in SheetNames /\ asked.new \in SheetNames \cup {Absent}
      /\ asked.of \in Int \cup {Absent} /\ asked.raced \in BOOLEAN /\ asked.generation \in Nat
  BY ChangeParts DEF Ops
<1>6. PICK raced \in BOOLEAN :
          raced = (asked.raced \/ (asked.op # "create" /\ generations[asked.name] # asked.generation))
  OBVIOUS
<1>7. PICK change : change = [asked EXCEPT !.n = numbered + 1, !.generation = 0, !.raced = raced]
  OBVIOUS
<1>8. /\ change.op = asked.op /\ change.name = asked.name /\ change.new = asked.new
      /\ change.of = asked.of /\ change.n = numbered + 1 /\ change.raced = raced
  BY <1>7 DEF Changes
<1>9. change \in Changes
  <2>1. numbered + 1 \in Nat /\ 0 \in Nat
    BY <1>2
  <2> QED BY ONLY <2>1, <1>7, asked \in Changes, raced \in BOOLEAN DEF Changes
<1>10. change = [asked EXCEPT !.n = numbered + 1, !.generation = 0,
                    !.raced = @ \/ (asked.op # "create" /\
                                    generations[asked.name] # asked.generation)]
  BY <1>6, <1>7
<1>11. PICK more : more = [change EXCEPT !.generation = Bumped(change)[change.new]]
  OBVIOUS
<1>12. PICK c : c = IF change.op = "rename" THEN [step |-> "renamed", change |-> more] ELSE Absent
  OBVIOUS
<1>13. PICK h : h = IF change.op = "create" THEN Absent ELSE handles[t]
  OBVIOUS
<1>14. /\ Valid(Draft, change)
       /\ pending' = Append(pending, change)
       /\ generations' = Bumped(change)
       /\ calls' = WithEntry(calls, t, c)
       /\ handles' = WithEntry(handles, t, h)
  BY <1>3, <1>4, <1>10, <1>11, <1>12, <1>13 DEF QueueChange, WithEntry
<1>15. CallFollows(generations, Draft, call, handles[t])
  BY <1>1, <1>2, <1>3 DEF CallsFollow
<1>16. /\ change.op = "rename" => change.new \in SheetNames
       /\ change.op # "create" =>
              /\ MeansIts(generations, Draft, asked.name, asked)
              /\ handles[t] # Absent /\ handles[t].of = change.of
  BY <1>1, <1>3, <1>4, <1>8, <1>15 DEF CallFollows
<1>17. Applies(Draft, change)
  BY <1>9, <1>14, <1>16, ChangeParts DEF Applies, Applicable
<1>18. Queued(change)
  BY <1>1, <1>14 DEF Queued
<1>19. change.op # "create" /\ ~change.raced => Meant(Draft, change.name) = change.of
  BY <1>6, <1>8, <1>16 DEF MeansIts
<1>20. SheetsPart' /\ SheetsTyped'
  BY <1>8, <1>9, <1>17, <1>18, <1>19, QueuedSheets
<1>21. MeaningKept
  BY <1>9, <1>17, <1>18, QueuedMeaning
<1>22. h \in {Absent} \cup HandleRecords
  BY <1>2, <1>13
<1>23. ASSUME h # Absent PROVE MeansIts(generations', Draft', h.name, h)
  <2>1. h = handles[t] /\ h \in HandleRecords
    BY <1>13, <1>22, <1>23
  <2>2. MeansIts(generations, Draft, h.name, h)
    BY <2>1, <1>2, <1>23 DEF HandlesFollow
  <2>3. h.name \in SheetNames
    BY <2>1, HandleParts
  <2> QED BY <2>1, <2>2, <2>3, <1>21 DEF MeaningKept
<1>24. ASSUME change.op = "rename"
       PROVE  /\ c \in CallRecords
              /\ CallFollows(generations', Draft', c, h)
  <2>1. PICK generation : generation = Bumped(change)[change.new]
    OBVIOUS
  <2>2. change.new \in SheetNames /\ generation = generations'[change.new]
    BY <2>1, <1>14, <1>16, <1>24
  <2>3. generation \in Nat
    BY <2>2, <1>20 DEF SheetsTyped
  <2>4. more = [change EXCEPT !.generation = generation]
    BY <2>1, <1>11
  <2>5. /\ more \in Changes /\ more.op = "rename" /\ more.new = change.new /\ more.of = change.of
        /\ more.raced = change.raced /\ more.generation = generation
    BY ONLY <2>3, <2>4, <1>9, <1>24 DEF Changes
  <2>6. c = [step |-> "renamed", change |-> more]
    BY <1>12, <1>24
  <2>7. c \in CallRecords /\ c.step = "renamed" /\ c.change = more
    BY <2>5, <2>6 DEF CallRecords
  <2>8. Draft' = Edited(Draft, change)
    BY <1>9, <1>17, <1>18, QueuedStages
  <2>9. Meant(Draft', change.new) = Meant(Draft, change.name)
    BY <2>8, <1>17, <1>24, DraftIsTyped, RenameMeansTheSame
  <2>10. MeansIts(generations', Draft', more.new, more)
    BY <2>2, <2>3, <2>5, <2>9, <1>19, <1>24 DEF MeansIts
  <2>11. h # Absent /\ h.of = more.of
    BY <2>5, <1>13, <1>16, <1>24
  <2> QED BY <2>2, <2>5, <2>7, <2>10, <2>11 DEF CallFollows
<1>25. c \in {Absent} \cup CallRecords /\ (c # Absent => CallFollows(generations', Draft', c, h))
  BY <1>12, <1>24
<1>26. /\ HandlesFollow' /\ CallsFollow'
       /\ handles' \in [Threads -> {Absent} \cup HandleRecords]
       /\ calls' \in [Threads -> {Absent} \cup CallRecords]
  BY <1>2, <1>14, <1>21, <1>22, <1>23, <1>25, FollowsAfter
<1> QED BY <1>20, <1>26 DEF SheetsPart, SheetsTyped, HandlesInv, HandlesTypeOK

-----------------------------------------------------------------------------
(* A commit, and the other users.                                            *)

(* Handles and calls stay, and so does what the names mean.                  *)
LEMMA SessionStep ==
    ASSUME HandlesInv, SheetsPart', SheetsTyped', handles' = handles, calls' = calls,
           generations' = generations, \A name : Meant(Draft', name) = Meant(Draft, name)
    PROVE  HandlesInv'
<1>1. HandlesFollow'
  BY DEF HandlesInv, HandlesFollow, MeansIts
<1>2. CallsFollow'
  BY DEF HandlesInv, CallsFollow, CallFollows, MeansIts
<1> QED BY <1>1, <1>2 DEF SheetsPart, SheetsTyped, HandlesInv, HandlesTypeOK

(* The stages stay while the session's sheets and its queue do.              *)
LEMMA StagesStay ==
    ASSUME HandlesInv, UNCHANGED <<worksheets, pending, generations, numbered>>
    PROVE  /\ StagesApply' /\ ChangesInOrder' /\ HandlesMeanTheirSheet'
           /\ GidsKnown(worksheets', numbered' - Len(pending'))
           /\ \A k : Stages(worksheets', pending')[k] = StageAt(k)
           /\ \A name : Meant(Draft', name) = Meant(Draft, name)
           /\ worksheets' \in Sheets /\ pending' \in Seq(Changes)
           /\ generations' \in [SheetNames -> Nat] /\ numbered' \in 0..MaxChanges
<1>1. StagesApply' /\ \A k : Stages(worksheets', pending')[k] = StageAt(k)
  BY DEF HandlesInv, StagesApply, StageAt
<1>2. ChangesInOrder' /\ GidsKnown(worksheets', numbered' - Len(pending'))
  BY DEF HandlesInv, ChangesInOrder, GidsAreTrue
<1>3. HandlesMeanTheirSheet'
  BY DEF HandlesInv, SheetsAreTheOnesMeant, HandlesMeanTheirSheet
<1>4. \A name : Meant(Draft', name) = Meant(Draft, name)
  BY DEF Draft
<1> QED BY <1>1, <1>2, <1>3, <1>4 DEF HandlesInv, HandlesTypeOK

\* A batch starts from the worksheets that the document has.
LEMMA CommitStartKeeps ==
    ASSUME HandlesInv, CommitStart
    PROVE  HandlesInv'
<1>1. /\ document = worksheets /\ uncertain' = uncertain
      /\ committing' = [k |-> 1, sheets |-> worksheets, created |-> {}, others |-> others]
      /\ UNCHANGED <<document, worksheets, pending, generations, numbered, handles, calls,
                     stray, others>>
  BY DEF CommitStart, Unchanged
<1>2. /\ StagesApply' /\ ChangesInOrder' /\ HandlesMeanTheirSheet'
      /\ GidsKnown(worksheets', numbered' - Len(pending'))
      /\ \A k : Stages(worksheets', pending')[k] = StageAt(k)
      /\ \A name : Meant(Draft', name) = Meant(Draft, name)
      /\ worksheets' \in Sheets /\ pending' \in Seq(Changes)
      /\ generations' \in [SheetNames -> Nat] /\ numbered' \in 0..MaxChanges
  BY <1>1, StagesStay
<1>3. /\ Len(pending) \in Nat /\ numbered \in Nat /\ StageAt(0) = worksheets
      /\ document \in Sheets /\ others \in 0..MaxOthers /\ MaxOthers \in Nat
      /\ uncertain \in BOOLEAN /\ stray \subseteq 1..MaxChanges /\ stray = {}
      /\ GidsAreTrue
  BY PendingParts DEF HandlesInv, HandlesTypeOK, SheetsAreTheOnesMeant, CommandsReachTheirSheet
<1>4. committing'.k = 1 /\ committing'.sheets = worksheets /\ committing'.others = others
  BY <1>1
<1>5. committing' \in BatchRecords
  BY <1>1, <1>2, <1>3 DEF BatchRecords
<1>6. GidsAreTrue'
  BY <1>1, <1>2, <1>3 DEF GidsAreTrue
<1>7. BatchTracks'
  <2>1. committing'.k <= Len(pending') + 1 /\ committing'.others <= others'
    BY <1>1, <1>3, <1>4
  <2>2. committing'.k - 1 = 0 /\ numbered' - Len(pending') + committing'.k - 1 = numbered' - Len(pending')
    BY <1>1, <1>3, <1>4
  <2>3. GidsKnown(committing'.sheets, numbered' - Len(pending') + committing'.k - 1)
    BY <2>2, <1>1, <1>2, <1>4
  <2>4. Stages(worksheets', pending')[committing'.k - 1] = worksheets
    BY <2>2, <1>2, <1>3
  <2>5. Alike(committing'.sheets, Stages(worksheets', pending')[committing'.k - 1])
    BY <2>4, <1>4 DEF Alike
  <2>6. document' = committing'.sheets
    BY <1>1, <1>4
  <2> QED BY <2>1, <2>3, <2>5, <2>6 DEF BatchTracks, StageAt
<1>8. SheetsPart' /\ SheetsTyped'
  BY <1>1, <1>2, <1>3, <1>5, <1>6, <1>7
     DEF SheetsPart, SheetsTyped, SheetsAreTheOnesMeant, CommandsReachTheirSheet
<1> QED BY <1>1, <1>2, <1>8, SessionStep

\* A batch that is given up before its command leaves the sheets as they are.
LEMMA EvidenceFailsKeeps ==
    ASSUME HandlesInv, EvidenceFails
    PROVE  HandlesInv'
<1>1. /\ committing' = Absent /\ uncertain' \in BOOLEAN
      /\ UNCHANGED <<document, worksheets, pending, generations, numbered, handles, calls,
                     stray, others>>
  BY DEF EvidenceFails, GiveUp
<1>2. /\ StagesApply' /\ ChangesInOrder' /\ HandlesMeanTheirSheet'
      /\ GidsKnown(worksheets', numbered' - Len(pending'))
      /\ \A name : Meant(Draft', name) = Meant(Draft, name)
      /\ worksheets' \in Sheets /\ pending' \in Seq(Changes)
      /\ generations' \in [SheetNames -> Nat] /\ numbered' \in 0..MaxChanges
  BY <1>1, StagesStay
<1>3. /\ document \in Sheets /\ others \in 0..MaxOthers
      /\ stray \subseteq 1..MaxChanges /\ stray = {} /\ GidsAreTrue
  BY DEF HandlesInv, HandlesTypeOK, SheetsAreTheOnesMeant, CommandsReachTheirSheet
<1>4. GidsAreTrue' /\ BatchTracks'
  BY <1>1, <1>2, <1>3 DEF GidsAreTrue, BatchTracks
<1>5. SheetsPart' /\ SheetsTyped'
  BY <1>1, <1>2, <1>3, <1>4
     DEF SheetsPart, SheetsTyped, SheetsAreTheOnesMeant, CommandsReachTheirSheet
<1> QED BY <1>1, <1>2, <1>5, SessionStep

(* What the running batch knows of the change its next command makes.        *)
LEMMA CurrentParts ==
    ASSUME HandlesInv, committing # Absent, committing.k <= Len(pending)
    PROVE  /\ committing \in BatchRecords /\ committing.k \in DOMAIN pending
           /\ committing.k - 1 \in Nat /\ committing.sheets \in Sheets /\ DistinctNames(committing.sheets)
           /\ Current \in Changes
           /\ StageAt(committing.k - 1) \in Sheets /\ DistinctNames(StageAt(committing.k - 1))
           /\ Alike(committing.sheets, StageAt(committing.k - 1))
           /\ Applies(StageAt(committing.k - 1), Current) /\ Applies(committing.sheets, Current)
           /\ StageAt(committing.k) = Edited(StageAt(committing.k - 1), Current)
           /\ numbered - Len(pending) + committing.k - 1 \in Nat
           /\ Current.n = (numbered - Len(pending) + committing.k - 1) + 1
           /\ GidsKnown(committing.sheets, numbered - Len(pending) + committing.k - 1)
           /\ Current.op # "create" /\ ~Current.raced =>
                  Meant(committing.sheets, Current.name) = Current.of
           /\ Current.op # "create" => Named(committing.sheets, Current.name) # {}
<1>1. committing \in BatchRecords
  BY DEF HandlesInv, HandlesTypeOK
<1>2. committing.k \in Nat \ {0} /\ committing.sheets \in Sheets
  BY <1>1 DEF BatchRecords
<1>3. /\ Len(pending) \in Nat /\ DOMAIN pending = 1..Len(pending)
      /\ numbered \in Nat /\ Len(pending) <= numbered
  BY PendingParts
<1>4. committing.k \in DOMAIN pending /\ committing.k - 1 \in Nat
  BY <1>2, <1>3
<1>5. PICK k \in DOMAIN pending : k = committing.k
  BY <1>4
<1>6. Current = pending[k]
  BY <1>5 DEF Current
<1>7. /\ pending[k] \in Changes
      /\ StageAt(k - 1) \in Sheets /\ DistinctNames(StageAt(k - 1))
      /\ Applies(StageAt(k - 1), pending[k])
      /\ StageAt(k) = Edited(StageAt(k - 1), pending[k])
      /\ pending[k].n = numbered - Len(pending) + k
  BY PendingParts
<1>8. /\ Alike(committing.sheets, StageAt(k - 1))
      /\ GidsKnown(committing.sheets, numbered - Len(pending) + k - 1)
  BY <1>5 DEF HandlesInv, BatchTracks
<1>9. /\ DistinctNames(committing.sheets) /\ Applies(committing.sheets, pending[k])
      /\ Meant(committing.sheets, pending[k].name) = Meant(StageAt(k - 1), pending[k].name)
  BY <1>2, <1>7, <1>8, AlikeMeanTheSame
<1>10. pending[k].op # "create" /\ ~pending[k].raced =>
           Meant(StageAt(k - 1), pending[k].name) = pending[k].of
  BY DEF HandlesInv, SheetsAreTheOnesMeant, HandlesMeanTheirSheet, StageAt
<1>11. /\ numbered - Len(pending) + k - 1 \in Nat
       /\ numbered - Len(pending) + k = (numbered - Len(pending) + k - 1) + 1
  <2>1. k \in Nat \ {0}
    BY ONLY <1>3, k \in DOMAIN pending
  <2>2. PICK len \in Nat : len = Len(pending)
    BY <1>3
  <2>3. numbered \in Nat /\ len <= numbered
    BY <1>3, <2>2
  <2>4. /\ numbered - len + k - 1 \in Nat
        /\ numbered - len + k = (numbered - len + k - 1) + 1
    BY ONLY <2>1, <2>3, len \in Nat
  <2> QED BY ONLY <2>2, <2>4
<1>12. pending[k].op # "create" => Named(committing.sheets, pending[k].name) # {}
  BY <1>9 DEF Applies, Applicable, Valid
<1> QED BY <1>1, <1>2, <1>4, <1>5, <1>6, <1>7, <1>8, <1>9, <1>10, <1>11, <1>12

(* A command that is executed reaches the sheet that was meant, and leaves   *)
(* the document as the batch will track it.                                  *)
LEMMA CommandReaches ==
    ASSUME HandlesInv, committing # Absent, committing.k <= Len(pending), MayRun(Current), Run(Current)
    PROVE  /\ document' \in Sheets /\ GidsFit(document') /\ stray' = {}
           /\ committing.others = others => document' = Tracked(committing.sheets, Current)
<1>1. PICK change \in Changes : change = Current
  BY CurrentParts
<1>2. PICK sheets \in Sheets : sheets = committing.sheets
  BY CurrentParts
<1>3. PICK m \in Nat : m = numbered - Len(pending) + committing.k - 1
  BY CurrentParts
<1>4. /\ DistinctNames(sheets) /\ Applies(sheets, change) /\ GidsKnown(sheets, m)
      /\ change.op # "create" /\ ~change.raced => Meant(sheets, change.name) = change.of
      /\ change.op # "create" => Named(sheets, change.name) # {}
  BY <1>1, <1>2, <1>3, CurrentParts
<1>5. document \in Sheets /\ GidsFit(document) /\ stray = {}
      /\ (committing.others = others => document = sheets)
  BY <1>2 DEF HandlesInv, HandlesTypeOK, GidsAreTrue, GidsFit, BatchTracks,
              SheetsAreTheOnesMeant, CommandsReachTheirSheet
<1>6. MayRun(change) /\ Run(change)
  BY <1>1
<1>7. PICK p : p = Position(sheets, change.name)
  OBVIOUS
<1>8. change.op # "create" =>
          /\ p \in DOMAIN sheets /\ sheets[p].name = change.name
          /\ Meant(sheets, change.name) = sheets[p].of
          /\ sheets[p].gid = sheets[p].of /\ sheets[p].gid # NoGid
  BY <1>4, <1>7, NameHasPlace DEF GidsKnown
<1>9. PICK hit : hit = Hit(change)
  OBVIOUS
<1>10. Pin(change) = IF change.op \in {"style", "create"} THEN NoGid ELSE sheets[p].gid
  BY <1>2, <1>7 DEF Pin
<1>11. change.op # "create" => hit # {} /\ hit \subseteq DOMAIN document
  BY <1>6, <1>9 DEF MayRun, Hit, Named
<1>12. Executed(document, document', change, hit)
  BY <1>6, <1>9 DEF Run, Executed, NewRow
<1>13. document' \in Sheets /\ GidsFit(document')
  <2>1. change.op = "rename" => change.new \in SheetNames
    BY <1>4 DEF Applies, Applicable
  <2>2. change.name \in SheetNames /\ change.n \in Nat
    BY ChangeParts
  <2> QED BY <1>5, <1>11, <1>12, <2>1, <2>2, ExecutedKeepsGids
<1>14. ASSUME change.op # "create", change.op # "style"
       PROVE  \A i \in hit : document[i].of = sheets[p].of
  <2>1. hit = {i \in DOMAIN document : document[i].gid = sheets[p].gid}
    BY <1>8, <1>9, <1>10, <1>14 DEF Hit
  <2> QED BY <2>1, <1>5, <1>8, <1>14 DEF GidsFit
<1>15. ASSUME change.op # "create", document = sheets
       PROVE  hit = {p}
  <2>1. CASE change.op = "style"
    <3>1. hit = Named(sheets, change.name)
      BY <2>1, <1>9, <1>10, <1>15 DEF Hit
    <3> QED BY <3>1, <1>4, <1>8, <1>15, PlaceOfName
  <2>2. CASE change.op # "style"
    <3>1. hit = {i \in DOMAIN sheets : sheets[i].gid = sheets[p].gid}
      BY <2>2, <1>8, <1>9, <1>10, <1>15 DEF Hit
    <3>2. \A i \in DOMAIN sheets : sheets[i].gid = sheets[p].gid => i = p
      BY <1>4, <1>8, <1>15 DEF GidsKnown
    <3> QED BY <3>1, <3>2, <1>8, <1>15
  <2> QED BY <2>1, <2>2
<1>16. committing.others = others => document' = Tracked(sheets, change)
  <2>1. SUFFICES ASSUME committing.others = others PROVE document' = Tracked(sheets, change)
    OBVIOUS
  <2>2. document = sheets
    BY <1>5, <2>1
  <2>3. change.op # "create" => hit = {Position(sheets, change.name)}
    BY <2>2, <1>7, <1>15
  <2>4. Executed(sheets, document', change, hit)
    BY <1>12, <2>2
  <2>5. PICK after : after = document'
    OBVIOUS
  <2>6. after = Tracked(sheets, change)
    BY <2>3, <2>4, <2>5, <1>4, ExecutedIsTracked
  <2> QED BY <2>5, <2>6
<1>17. stray' = {}
  <2>1. CASE change.op = "create"
    BY <2>1, <1>5, <1>6 DEF Run
  <2>2. CASE change.op # "create"
    <3>1. PICK i : i = CHOOSE j \in hit : TRUE
      OBVIOUS
    <3>2. i \in hit
      BY <3>1, <1>11, <2>2
    <3>3. \/ document[i].of = change.of \/ change.raced
          \/ (change.op = "style" /\ others # committing.others)
      <4>1. SUFFICES ASSUME ~change.raced, ~(change.op = "style" /\ others # committing.others)
                     PROVE  document[i].of = change.of
        OBVIOUS
      <4>2. sheets[p].of = change.of
        BY <4>1, <2>2, <1>4, <1>8
      <4>3. CASE change.op = "style"
        <5>1. document = sheets
          BY <4>1, <4>3, <1>5
        <5>2. i = p
          BY <5>1, <3>2, <2>2, <1>15
        <5> QED BY <5>1, <5>2, <4>2
      <4>4. CASE change.op # "style"
        BY <4>2, <4>4, <3>2, <2>2, <1>14
      <4> QED BY <4>3, <4>4
    <3>4. stray' = stray
      BY <3>1, <3>3, <2>2, <1>6, <1>9 DEF Run
    <3> QED BY <3>4, <1>5
  <2> QED BY <2>1, <2>2
<1> QED BY <1>1, <1>2, <1>13, <1>16, <1>17

\* A command, and its answer: the batch goes on to the next stage.
LEMMA CommandKeeps ==
    ASSUME HandlesInv, RunCommand
    PROVE  HandlesInv'
<1>1. /\ committing # Absent /\ committing.k <= Len(pending)
      /\ MayRun(Current) /\ Run(Current) /\ Acknowledged
      /\ UNCHANGED <<worksheets, pending, generations, numbered, handles, calls,
                     uncertain, others>>
  BY DEF RunCommand
<1>2. /\ document' \in Sheets /\ GidsFit(document') /\ stray' = {}
      /\ committing.others = others => document' = Tracked(committing.sheets, Current)
  BY <1>1, CommandReaches
<1>3. /\ StagesApply' /\ ChangesInOrder' /\ HandlesMeanTheirSheet'
      /\ GidsKnown(worksheets', numbered' - Len(pending'))
      /\ \A k : Stages(worksheets', pending')[k] = StageAt(k)
      /\ \A name : Meant(Draft', name) = Meant(Draft, name)
      /\ worksheets' \in Sheets /\ pending' \in Seq(Changes)
      /\ generations' \in [SheetNames -> Nat] /\ numbered' \in 0..MaxChanges
  BY <1>1, StagesStay
<1>4. PICK change \in Changes : change = Current
  BY <1>1, CurrentParts
<1>5. PICK sheets \in Sheets : sheets = committing.sheets
  BY <1>1, CurrentParts
<1>6. PICK k \in DOMAIN pending : k = committing.k
  BY <1>1, CurrentParts
<1>7. PICK m \in Nat : m = numbered - Len(pending) + committing.k - 1
  BY <1>1, CurrentParts
<1>8. /\ committing \in BatchRecords /\ DistinctNames(sheets) /\ Applies(sheets, change)
      /\ StageAt(k - 1) \in Sheets /\ DistinctNames(StageAt(k - 1))
      /\ Alike(sheets, StageAt(k - 1)) /\ Applies(StageAt(k - 1), change)
      /\ StageAt(k) = Edited(StageAt(k - 1), change)
      /\ change.n = m + 1 /\ GidsKnown(sheets, m)
  BY <1>1, <1>4, <1>5, <1>6, <1>7, CurrentParts
<1>9. PICK next : next = Tracked(sheets, change)
  OBVIOUS
<1>10. next \in Sheets /\ Alike(next, StageAt(k)) /\ GidsKnown(next, m + 1)
  BY <1>8, <1>9, TrackedIsAlike, TrackedGids
<1>11. PICK created : created = IF change.op = "create" THEN committing.created \cup {change.name}
                                ELSE committing.created
  OBVIOUS
<1>12. /\ committing.created \in SUBSET SheetNames /\ committing.others \in Nat /\ k \in Nat \ {0}
       /\ change.name \in SheetNames
  BY <1>6, <1>8, ChangeParts DEF BatchRecords
<1>13. committing' = [committing EXCEPT !.k = k + 1, !.sheets = next, !.created = created]
  BY <1>1, <1>4, <1>5, <1>6, <1>9, <1>11 DEF Acknowledged, Tracked
<1>14. created \in SUBSET SheetNames /\ k + 1 \in Nat \ {0}
  BY <1>11, <1>12
<1>15. /\ committing' \in BatchRecords
       /\ committing'.k = k + 1 /\ committing'.sheets = next /\ committing'.others = committing.others
  BY ONLY <1>8, <1>10, <1>13, <1>14 DEF BatchRecords
<1>16. /\ Len(pending) \in Nat /\ DOMAIN pending = 1..Len(pending) /\ numbered \in Nat
  BY PendingParts
<1>17. BatchTracks'
  <2>1. committing'.k <= Len(pending') + 1
    BY <1>1, <1>6, <1>12, <1>15, <1>16
  <2>2. /\ numbered' - Len(pending') + committing'.k - 1 = m + 1
        /\ committing'.k - 1 = k
    BY <1>1, <1>6, <1>7, <1>12, <1>15, <1>16
  <2>3. GidsKnown(committing'.sheets, numbered' - Len(pending') + committing'.k - 1)
    BY <2>2, <1>10, <1>15
  <2>4. Alike(committing'.sheets, Stages(worksheets', pending')[committing'.k - 1])
    BY <2>2, <1>3, <1>10, <1>15
  <2>5. committing'.others <= others'
    BY <1>1, <1>15 DEF HandlesInv, BatchTracks
  <2>6. committing'.others = others' => document' = committing'.sheets
    BY <1>1, <1>2, <1>4, <1>5, <1>9, <1>15
  <2> QED BY <2>1, <2>3, <2>4, <2>5, <2>6 DEF BatchTracks, StageAt
<1>18. GidsAreTrue'
  BY <1>2, <1>3 DEF GidsAreTrue, GidsFit
<1>19. /\ others' \in 0..MaxOthers /\ uncertain' \in BOOLEAN
  BY <1>1 DEF HandlesInv, HandlesTypeOK
<1>20. SheetsPart' /\ SheetsTyped'
  BY <1>2, <1>3, <1>15, <1>17, <1>18, <1>19
     DEF SheetsPart, SheetsTyped, SheetsAreTheOnesMeant, CommandsReachTheirSheet
<1> QED BY <1>1, <1>3, <1>20, SessionStep

\* A command whose answer is lost: the document may have changed, and the sheet meant
\* is the one that was changed.
LEMMA CommandLostKeeps ==
    ASSUME HandlesInv, CommandLost
    PROVE  HandlesInv'
<1>1. /\ committing # Absent /\ committing.k <= Len(pending)
      /\ (MayRun(Current) /\ Run(Current)) \/ UNCHANGED <<document, stray>>
      /\ committing' = Absent /\ uncertain' \in BOOLEAN
      /\ UNCHANGED <<worksheets, pending, generations, numbered, handles, calls, others>>
  BY DEF CommandLost, GiveUp
<1>2. document' \in Sheets /\ GidsFit(document') /\ stray' = {}
  <2>1. CASE MayRun(Current) /\ Run(Current)
    BY <1>1, <2>1, CommandReaches
  <2>2. CASE UNCHANGED <<document, stray>>
    BY <2>2 DEF HandlesInv, HandlesTypeOK, GidsAreTrue, GidsFit, SheetsAreTheOnesMeant,
                CommandsReachTheirSheet
  <2> QED BY <1>1, <2>1, <2>2
<1>3. /\ StagesApply' /\ ChangesInOrder' /\ HandlesMeanTheirSheet'
      /\ GidsKnown(worksheets', numbered' - Len(pending'))
      /\ \A name : Meant(Draft', name) = Meant(Draft, name)
      /\ worksheets' \in Sheets /\ pending' \in Seq(Changes)
      /\ generations' \in [SheetNames -> Nat] /\ numbered' \in 0..MaxChanges
  BY <1>1, StagesStay
<1>4. GidsAreTrue' /\ BatchTracks'
  BY <1>1, <1>2, <1>3 DEF GidsAreTrue, GidsFit, BatchTracks
<1>5. /\ others' \in 0..MaxOthers /\ stray' \subseteq 1..MaxChanges
  BY <1>1, <1>2 DEF HandlesInv, HandlesTypeOK
<1>6. SheetsPart' /\ SheetsTyped'
  BY <1>1, <1>2, <1>3, <1>4, <1>5
     DEF SheetsPart, SheetsTyped, SheetsAreTheOnesMeant, CommandsReachTheirSheet
<1> QED BY <1>1, <1>3, <1>6, SessionStep

(* What was committed becomes what the session knows.                        *)
LEMMA CommittedKeeps ==
    ASSUME HandlesInv, Committed
    PROVE  HandlesInv'
<1>1. /\ worksheets' = committing.sheets /\ pending' = <<>> /\ committing' = Absent
      /\ UNCHANGED <<document, generations, numbered, handles, calls, uncertain, stray, others>>
  BY DEF Committed
<1>2. committing # Absent /\ committing.k > Len(pending)
  BY DEF Committed
<1>3. /\ committing \in BatchRecords /\ committing.k \in Nat /\ committing.sheets \in Sheets
      /\ document \in Sheets /\ generations \in [SheetNames -> Nat]
      /\ numbered \in 0..MaxChanges /\ numbered \in Nat /\ others \in 0..MaxOthers
      /\ uncertain \in BOOLEAN /\ stray = {} /\ stray \subseteq 1..MaxChanges
      /\ \A i \in DOMAIN document : document[i].gid = document[i].of
  BY <1>2, PendingParts DEF HandlesInv, HandlesTypeOK, BatchRecords, GidsAreTrue,
                            SheetsAreTheOnesMeant, CommandsReachTheirSheet
<1>4. /\ committing.k <= Len(pending) + 1
      /\ GidsKnown(committing.sheets, numbered - Len(pending) + committing.k - 1)
      /\ Alike(committing.sheets, StageAt(committing.k - 1))
  BY <1>2 DEF HandlesInv, BatchTracks
<1>5. Len(pending) \in Nat
  BY PendingParts
<1>6. committing.k - 1 = Len(pending) /\ numbered - Len(pending) + committing.k - 1 = numbered
  <2>1. PICK k \in Nat : k = committing.k
    BY <1>3
  <2>2. PICK len \in Nat : len = Len(pending)
    BY <1>5
  <2>3. k > len /\ k <= len + 1 /\ numbered \in Nat
    BY <2>1, <2>2, <1>2, <1>3, <1>4
  <2>4. k - 1 = len /\ numbered - len + k - 1 = numbered
    BY ONLY <2>3, k \in Nat, len \in Nat
  <2> QED BY ONLY <2>1, <2>2, <2>4
<1>7. GidsKnown(committing.sheets, numbered) /\ Alike(committing.sheets, Draft)
  BY <1>4, <1>6, DraftIsTyped
<1>8. DistinctNames(committing.sheets) /\ \A name : Meant(committing.sheets, name) = Meant(Draft, name)
  BY <1>3, <1>7, DraftIsTyped, AlikeMeanTheSame
<1>9. Len(pending') = 0 /\ pending' \in Seq(Changes) /\ DOMAIN pending' = {}
  BY <1>1
<1>10. Stages(worksheets', pending')[0] = worksheets'
  <2>1. PICK none : none = pending'
    OBVIOUS
  <2>2. PICK sheets : sheets = worksheets'
    OBVIOUS
  <2>3. IsStages(Stages(sheets, none), sheets, none, Len(none)) /\ Len(none) = 0
    BY <2>1, <1>9, StagesAre
  <2>4. Stages(sheets, none)[0] = sheets
    BY <2>3 DEF IsStages
  <2> QED BY <2>1, <2>2, <2>4
<1>11. Draft' = worksheets'
  BY <1>9, <1>10 DEF Draft
<1>12. StagesApply'
  BY <1>1, <1>3, <1>8, <1>9, <1>10 DEF StagesApply, StageAt
<1>13. ChangesInOrder'
  BY <1>1, <1>3, <1>9 DEF ChangesInOrder
<1>14. GidsAreTrue'
  <2>1. numbered' - Len(pending') = numbered
    BY <1>1, <1>3, <1>9
  <2> QED BY <2>1, <1>1, <1>3, <1>7 DEF GidsAreTrue
<1>15. BatchTracks'
  BY <1>1 DEF BatchTracks
<1>16. SheetsAreTheOnesMeant'
  BY <1>1, <1>3, <1>9 DEF SheetsAreTheOnesMeant, HandlesMeanTheirSheet, CommandsReachTheirSheet
<1>17. SheetsPart' /\ SheetsTyped'
  BY <1>1, <1>3, <1>9, <1>12, <1>13, <1>14, <1>15, <1>16 DEF SheetsPart, SheetsTyped
<1>18. \A name : Meant(Draft', name) = Meant(Draft, name)
  BY <1>1, <1>8, <1>11
<1> QED BY <1>1, <1>17, <1>18, SessionStep

(* Another user's edit is one that the batch does not track.                 *)
LEMMA OtherKeeps ==
    ASSUME HandlesInv, Other
    PROVE  HandlesInv'
<1>1. /\ others < MaxOthers /\ committing # Absent /\ others' = others + 1
      /\ UNCHANGED <<sessionVars, handles, calls, stray>>
  BY DEF Other
<1>2. PICK name \in SheetNames, new \in SheetNames, op \in {"create", "rename", "delete"} :
          LET change == [op |-> op, name |-> name, new |-> new, n |-> MaxChanges + 1 + others]
          IN  /\ Valid(document, change)
              /\ document' = IF op = "create"
                             THEN Pinned(Edited(document, change), name, NewGid(change))
                             ELSE Edited(document, change)
  BY DEF Other
<1>3. PICK change : change = [op |-> op, name |-> name, new |-> new,
                              n |-> MaxChanges + 1 + others]
  OBVIOUS
<1>4. change.op = op /\ change.name = name /\ change.new = new
      /\ change.n = MaxChanges + 1 + others
  BY <1>3
<1>5. /\ document \in Sheets /\ GidsFit(document) /\ others \in Nat /\ MaxChanges \in Nat
      /\ MaxOthers \in Nat /\ others \in 0..MaxOthers /\ stray = {}
      /\ stray \subseteq 1..MaxChanges /\ committing \in BatchRecords /\ uncertain \in BOOLEAN
  BY <1>1 DEF HandlesInv, HandlesTypeOK, GidsAreTrue, GidsFit, SheetsAreTheOnesMeant,
              CommandsReachTheirSheet
<1>6. Valid(document, change) /\ document' = Tracked(document, change)
  BY <1>2, <1>3, <1>4 DEF Tracked
<1>7. MaxChanges + 1 + others \in Nat
  BY <1>5
<1>8. Applies(document, change)
  BY <1>4, <1>6, <1>7 DEF Applies, Applicable
<1>9. PICK hit : hit = {Position(document, change.name)}
  OBVIOUS
<1>10. change.op # "create" => hit # {} /\ hit \subseteq DOMAIN document
  BY <1>6, <1>9, NameHasPlace, <1>4, <1>5 DEF Valid
<1>11. Executed(document, document', change, hit)
  <2>1. CASE change.op = "create"
    BY <2>1, <1>5, <1>6, <1>8, TrackedCreate DEF Executed
  <2>2. CASE change.op # "create"
    <3>1. (CHOOSE j \in hit : TRUE) = Position(document, change.name)
      BY <1>9
    <3> QED BY <2>2, <3>1, <1>6 DEF Executed, Tracked, Edited, Renamed
  <2> QED BY <2>1, <2>2
<1>12. document' \in Sheets /\ GidsFit(document')
  BY <1>4, <1>5, <1>7, <1>10, <1>11, ExecutedKeepsGids
<1>13. /\ StagesApply' /\ ChangesInOrder' /\ HandlesMeanTheirSheet'
       /\ GidsKnown(worksheets', numbered' - Len(pending'))
       /\ \A k : Stages(worksheets', pending')[k] = StageAt(k)
       /\ \A x : Meant(Draft', x) = Meant(Draft, x)
       /\ worksheets' \in Sheets /\ pending' \in Seq(Changes)
       /\ generations' \in [SheetNames -> Nat] /\ numbered' \in 0..MaxChanges
  BY <1>1, StagesStay DEF sessionVars
<1>14. GidsAreTrue'
  BY <1>12, <1>13 DEF GidsAreTrue, GidsFit
<1>15. BatchTracks'
  <2>1. committing' = committing /\ pending' = pending /\ numbered' = numbered
    BY <1>1 DEF sessionVars
  <2>2. /\ committing.k <= Len(pending) + 1
        /\ GidsKnown(committing.sheets, numbered - Len(pending) + committing.k - 1)
        /\ Alike(committing.sheets, StageAt(committing.k - 1))
        /\ committing.others <= others
    BY <1>1 DEF HandlesInv, BatchTracks
  <2>3. committing.others \in Nat
    BY <1>5 DEF BatchRecords
  <2>4. committing.others <= others' /\ committing.others # others'
    BY <2>2, <2>3, <1>1, <1>5
  <2> QED BY <2>1, <2>2, <2>4, <1>13 DEF BatchTracks, StageAt
<1>16. /\ others' \in 0..MaxOthers /\ committing' \in BatchRecords /\ uncertain' \in BOOLEAN
       /\ stray' = {} /\ stray' \subseteq 1..MaxChanges
  BY <1>1, <1>5 DEF sessionVars
<1>17. SheetsPart' /\ SheetsTyped'
  BY <1>12, <1>13, <1>14, <1>15, <1>16
     DEF SheetsPart, SheetsTyped, SheetsAreTheOnesMeant, CommandsReachTheirSheet
<1>18. generations' = generations /\ handles' = handles /\ calls' = calls
  BY <1>1 DEF sessionVars
<1> QED BY <1>13, <1>17, <1>18, SessionStep

-----------------------------------------------------------------------------
\* The document, the session and the binding start with the same worksheets.
LEMMA HandlesInvInit == HandlesInit => HandlesInv
<1>1. SUFFICES ASSUME HandlesInit PROVE HandlesInv
  OBVIOUS
<1>2. /\ document = Bound /\ worksheets = Bound /\ pending = <<>>
      /\ generations = [name \in SheetNames |-> 0] /\ numbered = 0
      /\ handles = [t \in Threads |-> Absent] /\ calls = [t \in Threads |-> Absent]
      /\ committing = Absent /\ uncertain = FALSE /\ stray = {} /\ others = 0
  BY <1>1 DEF HandlesInit
<1>3. /\ MaxChanges \in Nat /\ MaxOthers \in Nat
      /\ Bound \in Sheets
      /\ \A i, j \in DOMAIN Bound :
            /\ Bound[i].gid = Bound[i].of /\ Bound[i].gid > 0
            /\ i # j => Bound[i].name # Bound[j].name /\ Bound[i].gid # Bound[j].gid
  BY HandlesAssumption
<1>4. \A i \in DOMAIN Bound : Bound[i] \in SheetRows /\ Bound[i].gid \in Int
  BY <1>3, RowsOfSheets DEF SheetRows
<1>5. DistinctNames(Bound)
  BY <1>3 DEF DistinctNames
<1>6. Len(pending) = 0 /\ pending \in Seq(Changes) /\ DOMAIN pending = {}
  BY <1>2
<1>7. HandlesTypeOK
  <2>1. generations \in [SheetNames -> Nat]
    BY <1>2
  <2>2. /\ handles \in [Threads -> {Absent} \cup HandleRecords]
        /\ calls \in [Threads -> {Absent} \cup CallRecords]
    BY <1>2
  <2>3. numbered \in 0..MaxChanges /\ others \in 0..MaxOthers
    BY <1>2, <1>3
  <2> QED BY <2>1, <2>2, <2>3, <1>2, <1>3, <1>6 DEF HandlesTypeOK
<1>8. StageAt(0) = Bound
  BY <1>2, <1>6, StagesAre DEF IsStages, StageAt
<1>9. StagesApply /\ ChangesInOrder
  <2>1. \A k \in 0..Len(pending) : k = 0
    BY <1>6
  <2>2. StagesApply
    BY <2>1, <1>2, <1>3, <1>5, <1>6, <1>8 DEF StagesApply
  <2>3. Len(pending) <= numbered
    BY <1>2, <1>6
  <2>4. ChangesInOrder
    BY <2>3, <1>6 DEF ChangesInOrder
  <2> QED BY <2>2, <2>4
<1>10. GidsAreTrue
  <2>1. numbered - Len(pending) = 0
    <3>1. numbered = 0 /\ Len(pending) = 0
      BY <1>2, <1>6
    <3> QED BY ONLY <3>1
  <2>2. GidsKnown(Bound, 0)
    BY <1>3, <1>4 DEF GidsKnown, NoGid
  <2> QED BY <2>1, <2>2, <1>2, <1>3 DEF GidsAreTrue
<1>11. BatchTracks /\ HandlesFollow /\ CallsFollow
  BY <1>2 DEF BatchTracks, HandlesFollow, CallsFollow
<1>12. SheetsAreTheOnesMeant
  BY <1>2, <1>6 DEF SheetsAreTheOnesMeant, HandlesMeanTheirSheet, CommandsReachTheirSheet
<1> QED BY <1>7, <1>9, <1>10, <1>11, <1>12 DEF HandlesInv

\* Every step keeps the invariant.
LEMMA HandlesInvStep == HandlesInv /\ [HandlesNext]_handlesVars => HandlesInv'
<1>1. ASSUME HandlesInv, NEW t \in Threads,
             \/ \E name \in SheetNames : Get(t, name) \/ AskCreate(t, name) \/ Ask(t, "rename", name)
             \/ \E op \in {"write", "style", "delete"} : Ask(t, op, Absent)
             \/ StartRange(t) \/ FinishRange(t)
             \/ QueueChange(t) \/ QueueRefused(t) \/ AdoptName(t)
      PROVE  HandlesInv'
  <2>1. CASE \E name \in SheetNames : Get(t, name)
    BY <2>1, <1>1, GetKeeps
  <2>2. CASE \E name \in SheetNames : AskCreate(t, name)
    BY <2>2, <1>1, CreateKeeps
  <2>3. CASE \E name \in SheetNames : Ask(t, "rename", name)
    <3>1. PICK name \in SheetNames : Ask(t, "rename", name)
      BY <2>3
    <3>2. "rename" \in Ops /\ "rename" # "create" /\ name \in SheetNames \cup {Absent}
      BY DEF Ops
    <3> QED BY <3>1, <3>2, <1>1, AskKeeps
  <2>4. CASE \E op \in {"write", "style", "delete"} : Ask(t, op, Absent)
    <3>1. PICK op \in {"write", "style", "delete"} : Ask(t, op, Absent)
      BY <2>4
    <3>2. op \in Ops /\ op # "create" /\ Absent \in SheetNames \cup {Absent}
      BY DEF Ops
    <3> QED BY <3>1, <3>2, <1>1, AskKeeps
  <2>5. CASE StartRange(t)
    BY <2>5, <1>1, StartRangeKeeps
  <2>6. CASE FinishRange(t)
    BY <2>6, <1>1, FinishRangeKeeps
  <2>7. CASE QueueChange(t)
    BY <2>7, <1>1, QueueKeeps
  <2>8. CASE QueueRefused(t)
    BY <2>8, <1>1, QueueRefusedKeeps
  <2>9. CASE AdoptName(t)
    BY <2>9, <1>1, AdoptNameKeeps
  <2> QED BY <1>1, <2>1, <2>2, <2>3, <2>4, <2>5, <2>6, <2>7, <2>8, <2>9
<1>2. ASSUME HandlesInv, UNCHANGED handlesVars PROVE HandlesInv'
  <2>1. UNCHANGED <<document, sessionVars, stray, others>> /\ handles' = handles /\ calls' = calls
    BY <1>2 DEF handlesVars, sessionVars
  <2>2. SheetsPart' /\ SheetsTyped'
    BY <1>2, <2>1, SheetsUnchanged
  <2>3. generations' = generations /\ Draft' = Draft
    BY <1>2, <2>1, SameSession
  <2> QED BY <1>2, <2>1, <2>2, <2>3, SessionStep
<1> QED BY <1>1, <1>2, CommitStartKeeps, CommandKeeps, CommandLostKeeps, EvidenceFailsKeeps,
           CommittedKeeps, OtherKeeps DEF HandlesNext

(* Worksheet handles and changes are of the kinds the calls expect, and the  *)
(* generations count up from 0 (WorksheetCollection, SpreadsheetSession).    *)
THEOREM HandlesTyped == HandlesSpec => []HandlesTypeOK
<1>1. HandlesInv => HandlesTypeOK
  BY DEF HandlesInv
<1> QED BY <1>1, HandlesInvInit, HandlesInvStep, PTL DEF HandlesSpec

(* For any number of threads, names, changes and edits of other users: a     *)
(* change that was accepted through a handle names the sheet that the handle *)
(* was made for, and the command of it changes that sheet, whatever was      *)
(* renamed, deleted or created before.                                       *)
THEOREM SheetsMeant == HandlesSpec => []SheetsAreTheOnesMeant
<1>1. HandlesInv => SheetsAreTheOnesMeant
  BY DEF HandlesInv
<1> QED BY <1>1, HandlesInvInit, HandlesInvStep, PTL DEF HandlesSpec
===============================================================================
